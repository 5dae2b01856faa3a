----------------------------- MODULE GroupsProofs -----------------------------
(***************************************************************************)
(* Theorems about Groups, for any users, friendships, requests and limit:   *)
(* types, a group with one owner within its limit, attachments that agree   *)
(* with D1 or are still to be refreshed, and calls that only members are    *)
(* in.                                                                      *)
(***************************************************************************)
EXTENDS Groups, FiniteSetTheorems, TLAPS

(* Whoever creates a group has looked at fewer friends than the limit.      *)
Asked ==
  \A r \in Requests : Is(r, "create") =>
    requests[r].by \notin requests[r].listed /\ Cardinality(requests[r].listed) < Limit

(* A call is of a room the attachment lists, or was carried by a resumption. *)
CallCached == \A u \in inCall : Connected(u) => u \in cached \cup carried

GroupsInv == TypeOK /\ Asked /\ GroupWhole /\ CapabilitiesFollow /\ CallCached

(* The class of r's request, and what a request x will do for u.            *)
Refreshes(x) == x # None /\ x.kind \in {"list", "refresh"}
Covers(x, u) ==
  /\ x # None
  /\ \/ x.kind = "list" /\ (u \in x.todo \/ Active(u))
     \/ x.kind = "refresh" /\ u \in x.todo /\ (x.loading = u => (x.member <=> Active(u)))

Admitted(x) ==
  x # None /\ x.kind = "create" => x.by \notin x.listed /\ Cardinality(x.listed) < Limit

-----------------------------------------------------------------------------
(* Requests. *)

LEMMA TaskFields ==
  ASSUME NEW x \in Task \cup Notice,
         \/ x.kind = "create" \/ x.kind = "add" \/ x.kind = "remove"
         \/ x.kind = "transfer" \/ x.kind = "delete"
  PROVE  x.by \in Users /\ x.who \in Users /\ x.listed \subseteq Users
BY DEF Task, Notice

LEMMA NoticeFields ==
  ASSUME NEW x \in Task \cup Notice, x.kind = "list" \/ x.kind = "refresh"
  PROVE  x \in Notice /\ x.todo \subseteq Users /\ x.loading \in Users \cup {None}
BY DEF Task, Notice

LEMMA MadeTask ==
  ASSUME NEW kind \in {"create", "add", "remove", "transfer", "delete"}, NEW by \in Users,
         NEW who \in Users, NEW checked \in BOOLEAN, NEW listed \in SUBSET Users
  PROVE  LET x == [kind |-> kind, by |-> by, who |-> who, checked |-> checked, listed |-> listed]
         IN  x \in Task /\ x # None /\ x.kind = kind /\ x.by = by /\ x.listed = listed
<1>1. [kind |-> kind, by |-> by, who |-> who, checked |-> checked, listed |-> listed] \in Task
  BY DEF Task
<1> QED BY <1>1, NoneIsNone

LEMMA MadeNotice ==
  ASSUME NEW kind \in {"list", "refresh"}, NEW users \in SUBSET Users
  PROVE  LET x == Notify(kind, users)
         IN  x \in Notice /\ x # None /\ x.kind = kind /\ x.todo = users /\ x.loading = None
<1>1. PICK m \in BOOLEAN : m = FALSE
  OBVIOUS
<1>2. [kind |-> kind, todo |-> users, loading |-> None, member |-> m] \in Notice
  BY DEF Notice
<1>3. Notify(kind, users) = [kind |-> kind, todo |-> users, loading |-> None, member |-> m]
  BY <1>1 DEF Notify
<1> QED BY <1>2, <1>3, NoneIsNone

LEMMA Requested ==
  ASSUME TypeOK, NEW r \in Requests
  PROVE  requests[r] # None <=> requests[r] \in Task \cup Notice
BY NoneIsNone DEF TypeOK

LEMMA Thens ==
  ASSUME TypeOK, NEW r \in Requests, NEW x \in Task \cup Notice \cup {None}, Then(r, x)
  PROVE  /\ requests' \in [Requests -> Task \cup Notice \cup {None}]
         /\ \A q \in Requests : requests'[q] = IF q = r THEN x ELSE requests[q]
BY DEF TypeOK, Then

LEMMA WillRefreshIs ==
  ASSUME NEW r \in Requests, NEW u \in Users
  PROVE  WillRefresh(r, u) <=> Covers(requests[r], u)
BY DEF WillRefresh, Covers, Is

LEMMA ThenCovers ==
  ASSUME TypeOK, NEW r \in Requests, NEW x \in Task \cup Notice \cup {None}, Then(r, x),
         NEW u \in Users
  PROVE  /\ Covers(x, u)' => WillRefresh(r, u)'
         /\ (Active(u)' <=> Active(u)) =>
              \A q \in Requests : q # r /\ WillRefresh(q, u) => WillRefresh(q, u)'
BY Thens DEF WillRefresh, Covers, Is

(* What Notify covers. *)
LEMMA NotifyCovers ==
  ASSUME NEW users \in SUBSET Users, NEW u \in Users
  PROVE  /\ u \in users \/ Active(u) => Covers(Notify("list", users), u)
         /\ u \in users => Covers(Notify("refresh", users), u)
         /\ u \in users \/ Active(u)' => Covers(Notify("list", users), u)'
         /\ u \in users => Covers(Notify("refresh", users), u)'
<1>1. PICK x, y : x = Notify("list", users) /\ y = Notify("refresh", users)
  OBVIOUS
<1>2. x # None /\ x.kind = "list" /\ x.todo = users
  BY <1>1, MadeNotice
<1>3. y # None /\ y.kind = "refresh" /\ y.todo = users /\ y.loading = None
  BY <1>1, MadeNotice
<1>4. u # None
  BY NoneIsNone
<1> QED BY <1>1, <1>2, <1>3, <1>4 DEF Covers

LEMMA NotRefreshing ==
  ASSUME NEW r \in Requests, ~Refreshes(requests[r])
  PROVE  \A u \in Users : ~WillRefresh(r, u)
BY DEF WillRefresh, Refreshes, Is

-----------------------------------------------------------------------------
(* The steps. *)

Befriends(r) ==
  \E u, v \in Users : RequestFriend(r, u, v) \/ AcceptFriend(r, u, v) \/ RemoveFriend(r, u, v)

(* Requests that begin, check, list and load: D1 keeps the group's rows.    *)
Asks(r) ==
  \/ Befriends(r)
  \/ \E u \in Users, others \in SUBSET Users : u \notin others /\ BeginCreate(r, u, others)
  \/ \E u \in Users : RenameGroup(r, u) \/ Load(r, u)
  \/ \E u, v \in Users, kind \in {"add", "remove", "transfer", "delete"} : BeginTask(r, kind, u, v)
  \/ Check(r) \/ List(r)

(* Requests that write the group. *)
Writes(r) ==
  \/ CreateGroup(r) \/ AddGroupMember(r) \/ RemoveGroupMember(r) \/ TransferGroup(r)
  \/ DeleteGroup(r) \/ \E u \in Users : LeaveGroup(r, u)

(* Connections. *)
Moves(u) ==
  Upgrade(u) \/ Accept(u) \/ Suspend(u) \/ Disconnect(u) \/ JoinCall(u) \/ LeaveCall(u)

(* The alarm. *)
Alarms == AlarmWrites \/ AlarmLeaves \/ \E u \in Users : AlarmReads(u)

LEMMA Steps ==
  ASSUME [Next]_vars
  PROVE  \/ \E r \in Requests : Asks(r) \/ Writes(r) \/ Refused(r) \/ Apply(r)
         \/ \E u \in Users : Moves(u)
         \/ Alarms
         \/ UNCHANGED vars
<1>1. ASSUME NEW r \in Requests, Serves(r)
      PROVE  Asks(r) \/ Writes(r) \/ Refused(r) \/ Apply(r)
  <2>1. ASSUME NEW u \in Users, NEW others \in SUBSET (Users \ {u}), BeginCreate(r, u, others)
        PROVE  Asks(r)
    <3>1. others \in SUBSET Users /\ u \notin others
      OBVIOUS
    <3> QED BY <2>1, <3>1 DEF Asks
  <2>2. CASE \E u \in Users : \E others \in SUBSET (Users \ {u}) : BeginCreate(r, u, others)
    BY <2>1, <2>2
  <2>3. CASE ~\E u \in Users : \E others \in SUBSET (Users \ {u}) : BeginCreate(r, u, others)
    BY <1>1, <2>3 DEF Serves, Asks, Writes, Befriends
  <2> QED BY <2>2, <2>3
<1>2. CASE Next
  BY <1>1, <1>2 DEF Next, Moves, Alarms
<1> QED BY <1>2

-----------------------------------------------------------------------------
(* What the requests that write nothing of the group do. *)
Asking(r, x) ==
  /\ Then(r, x) /\ Admitted(x)
  /\ \A u \in Users : WillRefresh(r, u) => Covers(x, u)
  /\ friends' \in [Pairs -> Users \cup {"none", "accepted"}]
  /\ UNCHANGED <<group, owner, rows, live, copy, raced, missed, carried>>

LEMMA AsksDoes ==
  ASSUME TypeOK, NEW r \in Requests, Asks(r)
  PROVE  \E x \in Task \cup Notice : Asking(r, x)
<1>0. friends \in [Pairs -> Users \cup {"none", "accepted"}]
  BY DEF TypeOK
(* A request that begins. *)
<1>1. ASSUME requests[r] = None, NEW x \in Task \cup Notice, Then(r, x), Admitted(x),
             friends' \in [Pairs -> Users \cup {"none", "accepted"}],
             UNCHANGED <<group, owner, rows, live, copy, raced, missed, carried>>
      PROVE  Asking(r, x)
  <2>1. \A u \in Users : ~WillRefresh(r, u)
    BY <1>1, NotRefreshing DEF Refreshes
  <2> QED BY <1>1, <2>1 DEF Asking
(* A refresh it owes. *)
<1>2. ASSUME NEW kind \in {"list", "refresh"}, NEW users \in SUBSET Users
      PROVE  /\ Notify(kind, users) \in Task \cup Notice
             /\ Admitted(Notify(kind, users))
  <2>1. PICK x : x = Notify(kind, users)
    OBVIOUS
  <2>2. x \in Notice /\ x.kind = kind
    BY <2>1, MadeNotice
  <2>3. x.kind # "create"
    BY <2>2
  <2> QED BY <2>1, <2>2, <2>3 DEF Admitted
<1>3. CASE Befriends(r)
  <2>1. PICK u \in Users, v \in Users : RequestFriend(r, u, v) \/ AcceptFriend(r, u, v)
                                        \/ RemoveFriend(r, u, v)
    BY <1>3 DEF Befriends
  <2>2. /\ requests[r] = None /\ Then(r, Notify("refresh", {u, v}))
        /\ UNCHANGED <<group, owner, rows, live, copy, raced, missed, carried>>
    BY <2>1 DEF RequestFriend, AcceptFriend, RemoveFriend, Befriend
  <2>3. friends' \in [Pairs -> Users \cup {"none", "accepted"}]
    BY <1>0, <2>1 DEF RequestFriend, AcceptFriend, RemoveFriend, Befriend
  <2>4. PICK x : x = Notify("refresh", {u, v})
    OBVIOUS
  <2>5. x \in Task \cup Notice /\ Admitted(x)
    BY <1>2, <2>4
  <2>6. Then(r, x)
    BY <2>2, <2>4
  <2> QED BY <1>1, <2>2, <2>3, <2>5, <2>6
<1>4. ASSUME NEW u \in Users, NEW others \in SUBSET Users, u \notin others,
             BeginCreate(r, u, others)
      PROVE  \E x \in Task \cup Notice : Asking(r, x)
  <2>1. PICK t \in BOOLEAN : t = TRUE
    OBVIOUS
  <2>2. PICK x : x = [kind |-> "create", by |-> u, who |-> u, checked |-> t, listed |-> others]
    OBVIOUS
  <2>3. x \in Task /\ x.by = u /\ x.listed = others
    BY <2>2, MadeTask
  <2>4. Cardinality(others) < Limit
    BY <1>4 DEF BeginCreate
  <2>5. Admitted(x)
    BY <1>4, <2>3, <2>4 DEF Admitted
  <2>6. /\ requests[r] = None /\ Then(r, x) /\ friends' = friends
        /\ UNCHANGED <<group, owner, rows, live, copy, raced, missed, carried>>
    BY <1>4, <2>1, <2>2 DEF BeginCreate, d1
  <2> QED BY <1>0, <1>1, <2>3, <2>5, <2>6
<1>5. ASSUME NEW u \in Users, RenameGroup(r, u)
      PROVE  \E x \in Task \cup Notice : Asking(r, x)
  <2>1. PICK x : x = Notify("list", {})
    OBVIOUS
  <2>2. x \in Task \cup Notice /\ Admitted(x)
    BY <1>2, <2>1
  <2>3. /\ requests[r] = None /\ Then(r, x) /\ friends' = friends
        /\ UNCHANGED <<group, owner, rows, live, copy, raced, missed, carried>>
    BY <1>5, <2>1 DEF RenameGroup, d1
  <2> QED BY <1>0, <1>1, <2>2, <2>3
<1>6. ASSUME NEW u \in Users, NEW v \in Users,
             NEW kind \in {"add", "remove", "transfer", "delete"}, BeginTask(r, kind, u, v)
      PROVE  \E x \in Task \cup Notice : Asking(r, x)
  <2>1. PICK t \in BOOLEAN : t = (kind = "remove")
    OBVIOUS
  <2>2. PICK x : x = [kind |-> kind, by |-> u, who |-> v, checked |-> t, listed |-> {}]
    OBVIOUS
  <2>3. x \in Task /\ x.kind = kind
    BY <2>2, MadeTask
  <2>4. Admitted(x)
    BY <2>3 DEF Admitted
  <2>5. /\ requests[r] = None /\ Then(r, x) /\ friends' = friends
        /\ UNCHANGED <<group, owner, rows, live, copy, raced, missed, carried>>
    BY <1>6, <2>1, <2>2 DEF BeginTask, d1
  <2> QED BY <1>0, <1>1, <2>3, <2>4, <2>5
<1>7. CASE Check(r)
  <2>1. PICK q : q = requests[r]
    OBVIOUS
  <2>2. q \in Task \cup Notice /\ (q.kind = "add" \/ q.kind = "transfer" \/ q.kind = "delete")
    BY <1>7, <2>1, Requested DEF Check
  <2>3. q.by \in Users /\ q.who \in Users
    BY <2>2, TaskFields
  <2>4. PICK t \in BOOLEAN : t = TRUE
    OBVIOUS
  <2>5. PICK l \in SUBSET Users : l = IF q.kind = "delete" THEN Members ELSE {}
    BY DEF Members
  <2>6. PICK x : x = [kind |-> q.kind, by |-> q.by, who |-> q.who, checked |-> t, listed |-> l]
    OBVIOUS
  <2>7. x \in Task /\ x.kind = q.kind
    BY <2>2, <2>3, <2>6, MadeTask
  <2>8. Admitted(x) /\ \A u \in Users : ~WillRefresh(r, u)
    BY <2>1, <2>2, <2>7, NotRefreshing DEF Admitted, Refreshes
  <2>9. /\ Then(r, x) /\ friends' = friends
        /\ UNCHANGED <<group, owner, rows, live, copy, raced, missed, carried>>
    BY <1>7, <2>1, <2>4, <2>5, <2>6 DEF Check, d1
  <2> QED BY <1>0, <2>7, <2>8, <2>9 DEF Asking
<1>8. CASE List(r)
  <2>1. PICK q : q = requests[r]
    OBVIOUS
  <2>2. q \in Task \cup Notice /\ q.kind = "list"
    BY <1>8, <2>1, Requested DEF List, Is
  <2>3. PICK users \in SUBSET Users : users = q.todo \cup Members
    BY <2>2, NoticeFields DEF Members
  <2>4. PICK x : x = Notify("refresh", users)
    OBVIOUS
  <2>5. x \in Task \cup Notice /\ Admitted(x)
    BY <1>2, <2>4
  <2>6. \A u \in Users : WillRefresh(r, u) => Covers(x, u)
    BY <2>1, <2>2, <2>3, <2>4, NotifyCovers DEF WillRefresh, Is, Members
  <2>7. /\ Then(r, x) /\ friends' = friends
        /\ UNCHANGED <<group, owner, rows, live, copy, raced, missed, carried>>
    BY <1>8, <2>1, <2>3, <2>4 DEF List, d1
  <2> QED BY <1>0, <2>5, <2>6, <2>7 DEF Asking
<1>9. ASSUME NEW u \in Users, Load(r, u)
      PROVE  \E x \in Task \cup Notice : Asking(r, x)
  <2>1. PICK q : q = requests[r]
    OBVIOUS
  <2>2. q \in Task \cup Notice /\ q.kind = "refresh" /\ u \in q.todo
    BY <1>9, <2>1, Requested DEF Load, Is
  <2>3. PICK users \in SUBSET Users : users = q.todo
    BY <2>2, NoticeFields
  <2>11. Active(u) \in BOOLEAN
    BY DEF Active
  <2>4. PICK m \in BOOLEAN : m = Active(u)
    BY <2>11, Zenon
  <2>5. PICK x : x = [kind |-> "refresh", todo |-> users, loading |-> u, member |-> m]
    OBVIOUS
  <2>6. x \in Notice
    BY <2>5 DEF Notice
  <2>7. x.kind = "refresh" /\ x.todo = users /\ x.loading = u /\ x.member = m
    BY <2>5
  <2>8. Admitted(x)
    BY <2>7 DEF Admitted
  <2>9. \A w \in Users : WillRefresh(r, w) => Covers(x, w)
    BY <2>1, <2>2, <2>3, <2>4, <2>6, <2>7, NoneIsNone DEF WillRefresh, Is, Covers
  <2>10. /\ Then(r, x) /\ friends' = friends
         /\ UNCHANGED <<group, owner, rows, live, copy, raced, missed, carried>>
    BY <1>9, <2>1, <2>3, <2>4, <2>5 DEF Load, d1
  <2> QED BY <1>0, <2>6, <2>8, <2>9, <2>10 DEF Asking
<1> QED BY <1>3, <1>4, <1>5, <1>6, <1>7, <1>8, <1>9 DEF Asks

-----------------------------------------------------------------------------
(* What the requests that write the group do. *)
Writing(r, x) ==
  /\ Then(r, x) /\ ~Refreshes(requests[r]) /\ Refreshes(x)
  /\ rows' \in [Users -> {"none", "owner", "member", "removed"}]
  /\ group' \in {"none", "alive", "deleted"} /\ owner' \in Users \cup {None}
  /\ raced' \in BOOLEAN
  /\ UNCHANGED <<friends, live, copy, carried>>
  /\ \/ missed' = missed /\ \A u \in Users : (Active(u)' <=> Active(u)) \/ Covers(x, u)'
     \/ missed' = missed \cup Forgotten'

LEMMA Begun ==
  ASSUME TypeOK, NEW r \in Requests, requests[r] # None,
         \/ requests[r].kind = "create" \/ requests[r].kind = "add"
         \/ requests[r].kind = "remove" \/ requests[r].kind = "transfer"
         \/ requests[r].kind = "delete"
  PROVE  /\ requests[r].by \in Users /\ requests[r].who \in Users
         /\ requests[r].listed \subseteq Users
         /\ ~Refreshes(requests[r])
BY Requested, TaskFields DEF Refreshes

LEMMA Owes ==
  ASSUME NEW kind \in {"list", "refresh"}, NEW users \in SUBSET Users
  PROVE  Notify(kind, users) \in Task \cup Notice /\ Refreshes(Notify(kind, users))
BY MadeNotice DEF Refreshes

LEMMA ForgottenUsers ==
  /\ Forgotten \subseteq Users
  /\ Forgotten' \subseteq Users
BY DEF Forgotten

LEMMA WritesDoes ==
  ASSUME TypeOK, GroupWhole, NEW r \in Requests, Writes(r)
  PROVE  \E x \in Task \cup Notice : Writing(r, x)
<1>0. /\ rows \in [Users -> {"none", "owner", "member", "removed"}]
      /\ group \in {"none", "alive", "deleted"} /\ owner \in Users \cup {None}
      /\ raced \in BOOLEAN
  BY DEF TypeOK
<1>1. CASE CreateGroup(r)
  <2>1. PICK by, listed : by = requests[r].by /\ listed = requests[r].listed
    OBVIOUS
  <2>2. by \in Users /\ listed \subseteq Users /\ ~Refreshes(requests[r])
    BY <1>1, <2>1, Begun DEF CreateGroup, Is
  <2>3. PICK users \in SUBSET Users : users = listed \cup {by}
    BY <2>2
  <2>4. PICK x : x = Notify("refresh", users)
    OBVIOUS
  <2>5. /\ Then(r, x) /\ group = "none" /\ group' = "alive" /\ owner' = by
        /\ rows' = [v \in Users |-> IF v = by THEN "owner"
                                   ELSE IF v \in listed THEN "member" ELSE "none"]
        /\ UNCHANGED <<friends, live, copy, raced, missed, carried>>
    BY <1>1, <2>1, <2>3, <2>4 DEF CreateGroup
  <2>6. \A u \in Users : ~Active(u)
    BY <2>5 DEF GroupWhole, Members
  <2>7. \A u \in Users : u \notin users => ~Active(u)'
    BY <2>3, <2>5 DEF Active
  <2>8. \A u \in Users : (Active(u)' <=> Active(u)) \/ Covers(x, u)'
    BY <2>4, <2>6, <2>7, NotifyCovers
  <2>9. rows' \in [Users -> {"none", "owner", "member", "removed"}]
    BY <2>5
  <2> QED BY <1>0, <2>2, <2>4, <2>5, <2>8, <2>9, Owes DEF Writing
<1>2. ASSUME NEW u \in Users, LeaveGroup(r, u)
      PROVE  \E x \in Task \cup Notice : Writing(r, x)
  <2>1. PICK users \in SUBSET Users : users = {u}
    OBVIOUS
  <2>2. PICK x : x = Notify("list", users)
    OBVIOUS
  <2>3. /\ requests[r] = None /\ Then(r, x) /\ rows' = [rows EXCEPT ![u] = "removed"]
        /\ UNCHANGED <<friends, group, owner, live, copy, raced, missed, carried>>
    BY <1>2, <2>1, <2>2 DEF LeaveGroup
  <2>4. \A w \in Users : (Active(w)' <=> Active(w)) \/ Covers(x, w)'
    BY <1>0, <2>1, <2>2, <2>3, NotifyCovers DEF Active
  <2>5. rows' \in [Users -> {"none", "owner", "member", "removed"}] /\ ~Refreshes(requests[r])
    BY <1>0, <2>3 DEF Refreshes
  <2> QED BY <1>0, <2>2, <2>3, <2>4, <2>5, Owes DEF Writing
<1>3. CASE AddGroupMember(r)
  <2>1. PICK who : who = requests[r].who
    OBVIOUS
  <2>2. who \in Users /\ ~Refreshes(requests[r])
    BY <1>3, <2>1, Begun DEF AddGroupMember, Is
  <2>3. PICK users \in SUBSET Users : users = {}
    OBVIOUS
  <2>4. PICK x : x = Notify("list", users)
    OBVIOUS
  <2>5. /\ Then(r, x) /\ rows' = [rows EXCEPT ![who] = "member"]
        /\ raced' = (raced \/ rows[who] = "owner")
        /\ UNCHANGED <<friends, group, owner, live, copy, missed, carried>>
    BY <1>3, <2>1, <2>3, <2>4 DEF AddGroupMember
  <2>6. \A u \in Users : (Active(u)' <=> Active(u)) \/ Covers(x, u)'
    BY <1>0, <2>2, <2>4, <2>5, NotifyCovers DEF Active
  <2>7. rows' \in [Users -> {"none", "owner", "member", "removed"}] /\ raced' \in BOOLEAN
    BY <1>0, <2>2, <2>5
  <2> QED BY <1>0, <2>2, <2>4, <2>5, <2>6, <2>7, Owes DEF Writing
<1>4. CASE RemoveGroupMember(r)
  <2>1. PICK who : who = requests[r].who
    OBVIOUS
  <2>2. who \in Users /\ ~Refreshes(requests[r])
    BY <1>4, <2>1, Begun DEF RemoveGroupMember, Is
  <2>3. PICK users \in SUBSET Users : users = {who}
    BY <2>2
  <2>4. PICK x : x = Notify("list", users)
    OBVIOUS
  <2>5. /\ Then(r, x) /\ rows' = [rows EXCEPT ![who] = "removed"]
        /\ UNCHANGED <<friends, group, owner, live, copy, raced, missed, carried>>
    BY <1>4, <2>1, <2>3, <2>4 DEF RemoveGroupMember
  <2>6. \A u \in Users : (Active(u)' <=> Active(u)) \/ Covers(x, u)'
    BY <1>0, <2>2, <2>3, <2>4, <2>5, NotifyCovers DEF Active
  <2>7. rows' \in [Users -> {"none", "owner", "member", "removed"}]
    BY <1>0, <2>2, <2>5
  <2> QED BY <1>0, <2>2, <2>4, <2>5, <2>6, <2>7, Owes DEF Writing
<1>5. CASE TransferGroup(r)
  <2>1. PICK by, who : by = requests[r].by /\ who = requests[r].who
    OBVIOUS
  <2>2. who \in Users /\ ~Refreshes(requests[r])
    BY <1>5, <2>1, Begun DEF TransferGroup, Is
  <2>3. PICK users \in SUBSET Users : users = {}
    OBVIOUS
  <2>4. PICK x : x = Notify("list", users)
    OBVIOUS
  <2>5. /\ Then(r, x)
        /\ owner' = IF group = "alive" THEN who ELSE owner
        /\ rows' = [u \in Users |-> IF u \in {by, who} /\ Active(u)
                                    THEN IF u = who THEN "owner" ELSE "member" ELSE rows[u]]
        /\ raced' = (raced \/ (group = "alive" /\ (owner # by \/ ~Active(who))))
        /\ UNCHANGED <<friends, group, live, copy, missed, carried>>
    BY <1>5, <2>1, <2>3, <2>4 DEF TransferGroup
  <2>6. \A u \in Users : Active(u)' <=> Active(u)
    BY <2>5 DEF Active
  <2>7. rows' \in [Users -> {"none", "owner", "member", "removed"}] /\ raced' \in BOOLEAN
        /\ owner' \in Users \cup {None}
    BY <1>0, <2>2, <2>5
  <2> QED BY <1>0, <2>2, <2>4, <2>5, <2>6, <2>7, Owes DEF Writing
<1>6. CASE DeleteGroup(r)
  <2>1. PICK users : users = requests[r].listed
    OBVIOUS
  <2>2. users \in SUBSET Users /\ ~Refreshes(requests[r])
    BY <1>6, <2>1, Begun DEF DeleteGroup, Is
  <2>3. PICK x : x = Notify("refresh", users)
    OBVIOUS
  <2>4. /\ Then(r, x) /\ group' = "deleted" /\ owner' = None /\ rows' = [u \in Users |-> "none"]
        /\ UNCHANGED <<friends, live, copy, raced, carried>> /\ missed' = missed \cup Forgotten'
    BY <1>6, <2>1, <2>3 DEF DeleteGroup
  <2>5. rows' \in [Users -> {"none", "owner", "member", "removed"}]
    BY <2>4
  <2> QED BY <1>0, <2>2, <2>3, <2>4, <2>5, Owes DEF Writing
<1> QED BY <1>1, <1>2, <1>3, <1>4, <1>5, <1>6 DEF Writes

-----------------------------------------------------------------------------
(* What an end of a request does, and what the connections do. *)

LEMMA RefusedDoes ==
  ASSUME TypeOK, NEW r \in Requests, Refused(r)
  PROVE  Then(r, None) /\ UNCHANGED <<d1, live, copy, raced, carried>>
         /\ missed' = missed \cup Forgotten'
BY DEF Refused

(* Apply ends the load of u, and perhaps the refresh. *)
LEMMA ApplyDoes ==
  ASSUME TypeOK, NEW r \in Requests, Apply(r)
  PROVE  \E u \in Users, x \in Task \cup Notice \cup {None} :
           /\ Then(r, x) /\ Admitted(x)
           /\ UNCHANGED <<d1, place, fetched, copy, raced>>
           /\ cached' = cached \/ cached' = cached \cup {u}
                \/ (cached' = cached \ {u} /\ (Connected(u) => inCall' = inCall \ {u}))
           /\ ~Connected(u) => cached' = cached
           /\ inCall' \subseteq inCall /\ carried' = carried \cap inCall'
           /\ missed' = (missed \cup Forgotten') \ {w \in {u} : ~Outdated(w)'}
<1>1. PICK q, u : q = requests[r] /\ u = q.loading
  OBVIOUS
<1>2. q \in Task \cup Notice /\ q.kind = "refresh" /\ u # None
  BY <1>1, Requested DEF Apply, Is
<1>3. u \in Users /\ q.todo \subseteq Users
  BY <1>1, <1>2, NoticeFields
<1>4. PICK users \in SUBSET Users : users = q.todo \ {u}
  BY <1>3
<1>5. PICK y : y = Notify("refresh", users)
  OBVIOUS
<1>6. y \in Notice /\ y.kind = "refresh"
  BY <1>5, MadeNotice
<1>7. PICK x : x = IF q.todo = {u} THEN None ELSE y
  OBVIOUS
<1>8. x \in Task \cup Notice \cup {None} /\ Admitted(x)
  BY <1>6, <1>7 DEF Admitted
<1>9. /\ Then(r, x)
      /\ UNCHANGED <<d1, place, fetched, copy, raced>>
      /\ cached' = IF ~Connected(u) THEN cached
                   ELSE IF q.member THEN cached \cup {u} ELSE cached \ {u}
      /\ inCall' = IF Connected(u) /\ ~q.member THEN inCall \ {u} ELSE inCall
      /\ carried' = carried \cap inCall'
      /\ missed' = (missed \cup Forgotten') \ {w \in {u} : ~Outdated(w)'}
  BY <1>1, <1>4, <1>5, <1>7 DEF Apply
<1> QED BY <1>3, <1>8, <1>9

LEMMA CopyFields ==
  ASSUME NEW x \in Copy
  PROVE  x.user \in Users /\ x.cached \in BOOLEAN /\ x.inCall \in BOOLEAN
BY DEF Copy

LEMMA MovesDoes ==
  ASSUME TypeOK, NEW u \in Users, Moves(u)
  PROVE  /\ UNCHANGED <<d1, requests, raced>>
         /\ place' \in [Users -> {"offline", "loading", "online", "suspended"}]
         /\ cached' \subseteq Users /\ fetched' \subseteq {w \in Users : place'[w] = "loading"}
         /\ inCall' \subseteq Users /\ missed' \subseteq Users /\ carried' \subseteq inCall'
         /\ copy' \in Copy \cup {None} /\ (copy' # None => place'[copy'.user] = "online")
<1>1. UNCHANGED <<d1, requests, raced>>
  BY DEF Moves, Upgrade, Accept, Suspend, Disconnect, JoinCall, LeaveCall
<1>2. place' \in [Users -> {"offline", "loading", "online", "suspended"}]
  BY DEF TypeOK, Moves, Upgrade, Accept, Suspend, Disconnect, JoinCall, LeaveCall
<1>3. cached' \subseteq Users /\ inCall' \subseteq Users /\ carried' \subseteq inCall'
  BY DEF TypeOK, Moves, Upgrade, Accept, Suspend, Disconnect, JoinCall, LeaveCall
<1>4. missed' \subseteq Users
  BY ForgottenUsers DEF TypeOK, Moves, Upgrade, Accept, Suspend, Disconnect, JoinCall, LeaveCall
<1>5. fetched' \subseteq {w \in Users : place'[w] = "loading"}
  <2>1. fetched \subseteq {w \in Users : place[w] = "loading"}
    BY DEF TypeOK
  <2>2. place \in [Users -> {"offline", "loading", "online", "suspended"}]
    BY DEF TypeOK
  <2>3. CASE Upgrade(u)
    BY <2>1, <2>2, <2>3 DEF Upgrade
  <2>4. CASE Accept(u)
    BY <2>1, <2>2, <2>4 DEF Accept
  <2>5. CASE Suspend(u) \/ Disconnect(u)
    BY <2>1, <2>2, <2>5 DEF Suspend, Disconnect, Connected
  <2>6. CASE JoinCall(u) \/ LeaveCall(u)
    BY <2>1, <2>6 DEF JoinCall, LeaveCall
  <2> QED BY <2>3, <2>4, <2>5, <2>6 DEF Moves
<1>6. copy' \in Copy \cup {None} /\ (copy' # None => place'[copy'.user] = "online")
  <2>1. /\ copy \in Copy \cup {None} /\ (copy # None => place[copy.user] = "online")
        /\ place \in [Users -> {"offline", "loading", "online", "suspended"}]
    BY Zenon DEF TypeOK
  <2>2. CASE Suspend(u) \/ Disconnect(u)
    BY <2>1, <2>2, CopyFields DEF Suspend, Disconnect, Dropped
  <2>3. CASE Upgrade(u) \/ Accept(u) \/ JoinCall(u) \/ LeaveCall(u)
    BY <2>1, <2>3, CopyFields DEF Upgrade, Accept, JoinCall, LeaveCall
  <2> QED BY <2>2, <2>3 DEF Moves
<1> QED BY <1>1, <1>2, <1>3, <1>4, <1>5, <1>6

(* The alarm changes one attachment, and the call it has.                   *)
LEMMA AlarmsDo ==
  ASSUME TypeOK, Alarms
  PROVE  /\ UNCHANGED <<d1, requests, raced, place, fetched>>
         /\ copy' \in Copy \cup {None} /\ (copy' # None => place'[copy'.user] = "online")
         /\ \/ UNCHANGED <<cached, inCall, missed, carried>>
            \/ \E u \in Users, in \in BOOLEAN, call \in BOOLEAN :
                 /\ cached' = With(cached, u, in) /\ inCall' = With(inCall, u, call)
                 /\ carried' = With(carried, u, call /\ ~in)
                 /\ missed' = (missed \cup Forgotten') \ {w \in {u} : ~Outdated(w)'}
<1>1. CASE AlarmWrites
  <2>1. copy \in Copy
    BY <1>1, Zenon DEF AlarmWrites, TypeOK
  <2>2. copy.user \in Users /\ copy.cached \in BOOLEAN /\ copy.inCall \in BOOLEAN
    BY <2>1, CopyFields
  <2> QED BY <1>1, <2>2 DEF AlarmWrites, d1
<1>2. CASE AlarmLeaves
  BY <1>2 DEF AlarmLeaves, live, d1
<1>3. ASSUME NEW u \in Users, AlarmReads(u)
      PROVE  /\ UNCHANGED <<d1, requests, raced, live, missed, carried>>
             /\ copy' \in Copy /\ place'[copy'.user] = "online"
  <2>5. (u \in cached) \in BOOLEAN /\ (u \in inCall) \in BOOLEAN
    OBVIOUS
  <2>1. PICK in \in BOOLEAN : in = (u \in cached)
    BY <2>5, Zenon
  <2>2. PICK call \in BOOLEAN : call = (u \in inCall)
    BY <2>5, Zenon
  <2>3. copy' = [user |-> u, cached |-> in, inCall |-> call]
    BY <1>3, <2>1, <2>2 DEF AlarmReads
  <2>4. copy' \in Copy /\ copy'.user = u
    BY <2>3 DEF Copy
  <2> QED BY <1>3, <2>4 DEF AlarmReads, live
<1>4. CASE \E u \in Users : AlarmReads(u)
  BY <1>3, <1>4 DEF live
<1> QED BY <1>1, <1>2, <1>4 DEF Alarms

-----------------------------------------------------------------------------
(* Types, and Asked. *)

LEMMA ThenAsked ==
  ASSUME TypeOK, Asked, NEW r \in Requests, NEW x \in Task \cup Notice \cup {None}, Then(r, x),
         Admitted(x)
  PROVE  Asked'
BY Thens DEF Asked, Admitted, Is

LEMMA TypeStep ==
  ASSUME TypeOK, Asked, GroupWhole, [Next]_vars
  PROVE  TypeOK' /\ Asked'
<1>1. ASSUME NEW r \in Requests, Asks(r) PROVE TypeOK' /\ Asked'
  <2>1. PICK x \in Task \cup Notice : Asking(r, x)
    BY <1>1, AsksDoes
  <2>2. Asked'
    BY <2>1, ThenAsked DEF Asking
  <2>3. TypeOK'
    BY <2>1, Thens DEF TypeOK, Asking, live
  <2> QED BY <2>2, <2>3
<1>2. ASSUME NEW r \in Requests, Writes(r) PROVE TypeOK' /\ Asked'
  <2>1. PICK x \in Task \cup Notice : Writing(r, x)
    BY <1>2, WritesDoes
  <2>2. Admitted(x)
    BY <2>1 DEF Writing, Refreshes, Admitted
  <2>3. Asked'
    BY <2>1, <2>2, ThenAsked DEF Writing
  <2>4. missed' \subseteq Users
    BY <2>1, ForgottenUsers DEF TypeOK, Writing
  <2>5. requests' \in [Requests -> Task \cup Notice \cup {None}]
    BY <2>1, Thens DEF Writing
  <2>6. TypeOK'
    BY <2>1, <2>4, <2>5 DEF TypeOK, Writing, live
  <2> QED BY <2>3, <2>6
<1>3. ASSUME NEW r \in Requests, Refused(r) PROVE TypeOK' /\ Asked'
  <2>1. Then(r, None) /\ UNCHANGED <<d1, live, copy, raced, carried>> /\ missed' \subseteq Users
    BY <1>3, RefusedDoes, ForgottenUsers DEF TypeOK
  <2>2. Admitted(None)
    BY DEF Admitted
  <2>3. Asked'
    BY <2>1, <2>2, ThenAsked
  <2>4. TypeOK'
    BY <2>1, Thens DEF TypeOK, d1, live
  <2> QED BY <2>3, <2>4
<1>4. ASSUME NEW r \in Requests, Apply(r) PROVE TypeOK' /\ Asked'
  <2>1. PICK u \in Users, x \in Task \cup Notice \cup {None} :
           /\ Then(r, x) /\ Admitted(x)
           /\ UNCHANGED <<d1, place, fetched, copy, raced>>
           /\ cached' = cached \/ cached' = cached \cup {u} \/ cached' = cached \ {u}
           /\ inCall' \subseteq inCall /\ carried' = carried \cap inCall'
           /\ missed' = (missed \cup Forgotten') \ {w \in {u} : ~Outdated(w)'}
    BY <1>4, ApplyDoes
  <2>2. Asked'
    BY <2>1, ThenAsked
  <2>3. missed' \subseteq Users /\ cached' \subseteq Users
    BY <2>1, ForgottenUsers DEF TypeOK
  <2>4. TypeOK'
    BY <2>1, <2>3, Thens DEF TypeOK, d1
  <2> QED BY <2>2, <2>4
<1>5. ASSUME NEW u \in Users, Moves(u) PROVE TypeOK' /\ Asked'
  <2>1. TypeOK'
    BY <1>5, MovesDoes DEF TypeOK, d1
  <2>2. Asked'
    BY <1>5, MovesDoes DEF Asked, Is
  <2> QED BY <2>1, <2>2
<1>6. CASE UNCHANGED vars
  BY <1>6 DEF vars, d1, live, TypeOK, Asked, Is
<1>7. CASE Alarms
  <2>1. UNCHANGED <<d1, requests, raced, place, fetched>>
        /\ copy' \in Copy \cup {None} /\ (copy' # None => place'[copy'.user] = "online")
    BY <1>7, AlarmsDo
  <2>2. Asked'
    BY <2>1 DEF Asked, Is
  <2>3. cached' \subseteq Users /\ inCall' \subseteq Users /\ missed' \subseteq Users
        /\ carried' \subseteq inCall'
    BY <1>7, AlarmsDo, ForgottenUsers DEF TypeOK, With
  <2>4. TypeOK'
    BY <2>1, <2>3 DEF TypeOK, d1
  <2> QED BY <2>2, <2>4
<1> QED BY <1>1, <1>2, <1>3, <1>4, <1>5, <1>6, <1>7, Steps

-----------------------------------------------------------------------------
(* The group. *)

LEMMA MembersFinite ==
  /\ IsFiniteSet(Members) /\ Cardinality(Members) \in Nat
  /\ IsFiniteSet(Members') /\ Cardinality(Members') \in Nat
<1>1. Members \subseteq Users /\ Members' \subseteq Users
  BY DEF Members
<1> QED BY <1>1, Bounded, FS_Subset, FS_CardinalityType

(* A group that loses members, or keeps them, stays within its limit.       *)
LEMMA StaysWithin ==
  ASSUME GroupWhole, Members' \subseteq Members
  PROVE  Cardinality(Members') <= Limit /\ (Members = {} => Members' = {})
<1>1. Cardinality(Members') <= Cardinality(Members)
  BY MembersFinite, FS_Subset
<1> QED BY <1>1, MembersFinite, Bounded DEF GroupWhole

(* A group that gets one member more does if there was room for it.         *)
LEMMA OneMore ==
  ASSUME NEW S, IsFiniteSet(S), Cardinality(S) < Limit, NEW u, Members' \subseteq S \cup {u}
  PROVE  Cardinality(Members') <= Limit
<1>1. IsFiniteSet(S \cup {u})
      /\ Cardinality(S \cup {u}) = IF u \in S THEN Cardinality(S) ELSE Cardinality(S) + 1
  BY FS_AddElement
<1>2. Cardinality(Members') <= Cardinality(S \cup {u})
  BY <1>1, FS_Subset
<1>3. Cardinality(S) \in Nat
  BY FS_CardinalityType
<1> QED BY <1>1, <1>2, <1>3, MembersFinite, Bounded

LEMMA WholeKept ==
  ASSUME GroupWhole, UNCHANGED <<group, owner, rows, raced>>
  PROVE  GroupWhole'
BY DEF GroupWhole, Members, Active

(* A member that is not the owner goes. *)
LEMMA MemberGoes ==
  ASSUME TypeOK, GroupWhole, NEW u \in Users, rows[u] = "member",
         rows' = [rows EXCEPT ![u] = "removed"], UNCHANGED <<group, owner, raced>>
  PROVE  GroupWhole'
<1>1. \A w \in Users : rows'[w] = IF w = u THEN "removed" ELSE rows[w]
  BY DEF TypeOK
<1>2. Members' \subseteq Members
  BY <1>1 DEF Members, Active
<1>3. Cardinality(Members') <= Limit /\ (group' # "alive" => Members' = {})
  BY <1>2, StaysWithin DEF GroupWhole
<1>4. group' = "alive" /\ ~raced' => \A w \in Users : rows'[w] = "owner" <=> w = owner'
  BY <1>1 DEF GroupWhole
<1> QED BY <1>3, <1>4 DEF GroupWhole

LEMMA WholeStep ==
  ASSUME TypeOK, Asked, GroupWhole, [Next]_vars
  PROVE  GroupWhole'
<1>1. ASSUME NEW r \in Requests, Writes(r) PROVE GroupWhole'
  <2>1. CASE CreateGroup(r)
    <3>1. PICK by, listed : by = requests[r].by /\ listed = requests[r].listed
      OBVIOUS
    <3>2. by \in Users /\ listed \subseteq Users
      BY <2>1, <3>1, Begun DEF CreateGroup, Is
    <3>3. Cardinality(listed) < Limit
      BY <2>1, <3>1 DEF CreateGroup, Asked
    <3>4. /\ group' = "alive" /\ owner' = by
          /\ rows' = [v \in Users |-> IF v = by THEN "owner"
                                     ELSE IF v \in listed THEN "member" ELSE "none"]
      BY <2>1, <3>1 DEF CreateGroup
    <3>5. Members' \subseteq listed \cup {by}
      BY <3>4 DEF Members, Active
    <3>6. IsFiniteSet(listed)
      BY <3>2, Bounded, FS_Subset
    <3>7. Cardinality(Members') <= Limit
      BY <3>3, <3>5, <3>6, OneMore
    <3> QED BY <3>4, <3>7 DEF GroupWhole
  <2>2. ASSUME NEW u \in Users, LeaveGroup(r, u) PROVE GroupWhole'
    BY <2>2, MemberGoes DEF LeaveGroup
  <2>3. CASE AddGroupMember(r)
    <3>1. PICK who : who = requests[r].who
      OBVIOUS
    <3>2. who \in Users
      BY <2>3, <3>1, Begun DEF AddGroupMember, Is
    <3>3. /\ group = "alive" /\ Cardinality(Members) < Limit
          /\ rows' = [rows EXCEPT ![who] = "member"]
          /\ raced' = (raced \/ rows[who] = "owner")
          /\ UNCHANGED <<group, owner>>
      BY <2>3, <3>1 DEF AddGroupMember, Room
    <3>4. \A w \in Users : rows'[w] = IF w = who THEN "member" ELSE rows[w]
      BY <3>2, <3>3 DEF TypeOK
    <3>5. Members' \subseteq Members \cup {who}
      BY <3>4 DEF Members, Active
    <3>6. Cardinality(Members') <= Limit
      BY <3>3, <3>5, OneMore, MembersFinite
    <3>7. ASSUME ~raced'
          PROVE  \A w \in Users : rows'[w] = "owner" <=> w = owner'
      <4>1. ~raced /\ rows[who] # "owner"
        BY <3>3, <3>7
      <4>2. \A w \in Users : rows[w] = "owner" <=> w = owner
        BY <3>3, <4>1 DEF GroupWhole
      <4> QED BY <3>2, <3>3, <3>4, <4>1, <4>2
    <3> QED BY <3>3, <3>6, <3>7 DEF GroupWhole
  <2>4. CASE RemoveGroupMember(r)
    <3>1. PICK who : who = requests[r].who
      OBVIOUS
    <3>2. who \in Users
      BY <2>4, <3>1, Begun DEF RemoveGroupMember, Is
    <3>3. /\ rows[who] = "member" /\ rows' = [rows EXCEPT ![who] = "removed"]
          /\ UNCHANGED <<group, owner, raced>>
      BY <2>4, <3>1 DEF RemoveGroupMember
    <3> QED BY <3>2, <3>3, MemberGoes
  <2>5. CASE TransferGroup(r)
    <3>1. PICK by, who : by = requests[r].by /\ who = requests[r].who
      OBVIOUS
    <3>2. by \in Users /\ who \in Users
      BY <2>5, <3>1, Begun DEF TransferGroup, Is
    <3>3. /\ owner' = IF group = "alive" THEN who ELSE owner
          /\ rows' = [u \in Users |-> IF u \in {by, who} /\ Active(u)
                                      THEN IF u = who THEN "owner" ELSE "member" ELSE rows[u]]
          /\ raced' = (raced \/ (group = "alive" /\ (owner # by \/ ~Active(who))))
          /\ group' = group
      BY <2>5, <3>1 DEF TransferGroup
    <3>4. \A w \in Users : rows'[w] = IF (w = by \/ w = who) /\ Active(w)
                                      THEN IF w = who THEN "owner" ELSE "member" ELSE rows[w]
      BY <3>3
    <3>5. Members' \subseteq Members
      BY <3>4 DEF Members, Active
    <3>6. Cardinality(Members') <= Limit /\ (group' # "alive" => Members' = {})
      BY <3>3, <3>5, StaysWithin DEF GroupWhole
    <3>7. ASSUME group' = "alive", ~raced'
          PROVE  \A w \in Users : rows'[w] = "owner" <=> w = owner'
      <4>1. group = "alive" /\ ~raced /\ owner = by /\ Active(who) /\ owner' = who
        BY <3>3, <3>7
      <4>2. \A w \in Users : rows[w] = "owner" <=> w = by
        BY <4>1 DEF GroupWhole
      <4> QED BY <3>4, <4>1, <4>2 DEF Active
    <3> QED BY <3>6, <3>7 DEF GroupWhole
  <2>6. CASE DeleteGroup(r)
    <3>1. group' = "deleted" /\ rows' = [u \in Users |-> "none"]
      BY <2>6 DEF DeleteGroup
    <3>2. Members' = {}
      BY <3>1 DEF Members, Active
    <3>3. Cardinality(Members') <= Limit
      BY <3>2, FS_EmptySet, Bounded
    <3> QED BY <3>1, <3>2, <3>3 DEF GroupWhole
  <2> QED BY <1>1, <2>1, <2>2, <2>3, <2>4, <2>5, <2>6 DEF Writes
<1>2. ASSUME NEW r \in Requests, Asks(r) PROVE GroupWhole'
  <2>1. PICK x \in Task \cup Notice : Asking(r, x)
    BY <1>2, AsksDoes
  <2> QED BY <2>1, WholeKept DEF Asking
<1>3. ASSUME NEW r \in Requests, Refused(r) PROVE GroupWhole'
  BY <1>3, WholeKept DEF Refused, d1
<1>4. ASSUME NEW r \in Requests, Apply(r) PROVE GroupWhole'
  BY <1>4, WholeKept DEF Apply, d1
<1>5. ASSUME NEW u \in Users, Moves(u) PROVE GroupWhole'
  BY <1>5, MovesDoes, WholeKept DEF d1
<1>6. CASE UNCHANGED vars
  BY <1>6, WholeKept DEF vars, d1
<1>7. CASE Alarms
  BY <1>7, AlarmsDo, WholeKept DEF d1
<1> QED BY <1>1, <1>2, <1>3, <1>4, <1>5, <1>6, <1>7, Steps

-----------------------------------------------------------------------------
(* Attachments. *)

LEMMA FollowIs ==
  /\ CapabilitiesFollow => Forgotten \subseteq missed
  /\ Forgotten' \subseteq missed' => CapabilitiesFollow'
BY DEF CapabilitiesFollow, Forgotten

(* When what is outdated was before, and what will refresh it still will.   *)
LEMMA FollowKept ==
  ASSUME CapabilitiesFollow,
         \A u \in Users : Outdated(u)' => u \in missed' \/ (u \notin missed /\ Outdated(u)),
         \A u \in Users : (\E q \in Requests : WillRefresh(q, u)) =>
                            \E q \in Requests : WillRefresh(q, u)'
  PROVE  CapabilitiesFollow'
BY DEF CapabilitiesFollow

LEMMA SameRefresh ==
  ASSUME UNCHANGED <<rows, requests>>, NEW u \in Users, \E q \in Requests : WillRefresh(q, u)
  PROVE  \E q \in Requests : WillRefresh(q, u)'
BY DEF WillRefresh, Is, Active

LEMMA FollowStep ==
  ASSUME TypeOK, GroupWhole, CapabilitiesFollow, [Next]_vars
  PROVE  CapabilitiesFollow'
<1>1. ASSUME NEW r \in Requests, Asks(r) PROVE CapabilitiesFollow'
  <2>1. PICK x \in Task \cup Notice : Asking(r, x)
    BY <1>1, AsksDoes
  <2>2. /\ Then(r, x) /\ UNCHANGED <<rows, place, cached, missed>>
        /\ \A u \in Users : WillRefresh(r, u) => Covers(x, u)
    BY <2>1 DEF Asking, live
  <2>3. \A u \in Users : (Outdated(u)' <=> Outdated(u)) /\ (Active(u)' <=> Active(u))
    BY <2>2 DEF Outdated, Connected, Active
  <2>4. ASSUME NEW u \in Users, NEW q \in Requests, WillRefresh(q, u)
        PROVE  \E p \in Requests : WillRefresh(p, u)'
    <3>1. CASE q = r
      <4>1. Covers(x, u)
        BY <2>2, <2>4, <3>1
      <4>2. Covers(x, u)'
        BY <2>3, <4>1 DEF Covers
      <4> QED BY <2>2, <4>2, ThenCovers
    <3>2. CASE q # r
      BY <2>2, <2>3, <2>4, <3>2, ThenCovers
    <3> QED BY <3>1, <3>2
  <2> QED BY <2>2, <2>3, <2>4, FollowKept
<1>2. ASSUME NEW r \in Requests, Writes(r) PROVE CapabilitiesFollow'
  <2>1. PICK x \in Task \cup Notice : Writing(r, x)
    BY <1>2, WritesDoes
  <2>2. CASE missed' = missed \cup Forgotten'
    BY <2>2, FollowIs
  <2>3. CASE missed' = missed /\ \A u \in Users : (Active(u)' <=> Active(u)) \/ Covers(x, u)'
    <3>1. /\ Then(r, x) /\ UNCHANGED <<place, cached>>
          /\ \A u \in Users : ~WillRefresh(r, u)
      BY <2>1, NotRefreshing DEF Writing, live
    <3>2. ASSUME NEW u \in Users \ missed', Outdated(u)'
          PROVE  \E p \in Requests : WillRefresh(p, u)'
      <4>1. CASE Covers(x, u)'
        BY <3>1, <4>1, ThenCovers
      <4>2. CASE Active(u)' <=> Active(u)
        <5>1. Outdated(u) /\ u \notin missed
          BY <2>3, <3>1, <3>2, <4>2 DEF Outdated, Connected
        <5>2. PICK q \in Requests : WillRefresh(q, u)
          BY <5>1 DEF CapabilitiesFollow
        <5>3. q # r
          BY <3>1, <5>2
        <5> QED BY <3>1, <4>2, <5>2, <5>3, ThenCovers
      <4> QED BY <2>3, <4>1, <4>2
    <3> QED BY <3>2 DEF CapabilitiesFollow
  <2> QED BY <2>1, <2>2, <2>3 DEF Writing
<1>3. ASSUME NEW r \in Requests, Refused(r) PROVE CapabilitiesFollow'
  BY <1>3, FollowIs DEF Refused
<1>4. ASSUME NEW u, missed' = (missed \cup Forgotten') \ {w \in {u} : ~Outdated(w)'}
      PROVE  CapabilitiesFollow'
  <2>1. Forgotten' \subseteq missed'
    BY <1>4 DEF Forgotten
  <2> QED BY <2>1, FollowIs
<1>5. ASSUME NEW r \in Requests, Apply(r) PROVE CapabilitiesFollow'
  <2>1. PICK u : u = requests[r].loading
    OBVIOUS
  <2>2. missed' = (missed \cup Forgotten') \ {w \in {u} : ~Outdated(w)'}
    BY <1>5, <2>1 DEF Apply
  <2> QED BY <1>4, <2>2
<1>6. ASSUME NEW u \in Users, Moves(u) PROVE CapabilitiesFollow'
  <2>1. UNCHANGED <<rows, requests>>
    BY <1>6, MovesDoes DEF d1
  <2>2. \A w \in Users : Active(w)' <=> Active(w)
    BY <2>1 DEF Active
  <2>3. ASSUME \A w \in Users : Outdated(w)' => w \in missed' \/ (w \notin missed /\ Outdated(w))
        PROVE  CapabilitiesFollow'
    BY <2>1, <2>3, SameRefresh, FollowKept
  <2>4. CASE Accept(u)
    BY <1>4, <2>4 DEF Accept
  <2>5. CASE Upgrade(u)
    <3>1. /\ place' = [place EXCEPT ![u] = "loading"] /\ UNCHANGED <<cached, missed>>
      BY <2>5 DEF Upgrade
    <3>2. \A w \in Users : Outdated(w)' => Outdated(w)
      BY <2>2, <3>1 DEF Outdated, Connected, TypeOK
    <3> QED BY <2>3, <3>1, <3>2
  <2>6. CASE Suspend(u)
    <3>1. /\ place[u] = "online" /\ place' = [place EXCEPT ![u] = "suspended"]
          /\ UNCHANGED <<cached, missed>>
      BY <2>6 DEF Suspend
    <3>2. \A w \in Users : Outdated(w)' => Outdated(w)
      BY <2>2, <3>1 DEF Outdated, Connected, TypeOK
    <3> QED BY <2>3, <3>1, <3>2
  <2>7. CASE Disconnect(u)
    <3>1. /\ place' = [place EXCEPT ![u] = "offline"] /\ cached' = cached \ {u}
          /\ missed' = missed \ {u}
      BY <2>7 DEF Disconnect
    <3>2. \A w \in Users : Outdated(w)' => w # u /\ Outdated(w)
      BY <2>2, <3>1 DEF Outdated, Connected, TypeOK
    <3> QED BY <2>3, <3>1, <3>2
  <2>8. CASE JoinCall(u) \/ LeaveCall(u)
    <3>1. UNCHANGED <<place, cached, missed>>
      BY <2>8 DEF JoinCall, LeaveCall
    <3>2. \A w \in Users : Outdated(w)' => Outdated(w)
      BY <2>2, <3>1 DEF Outdated, Connected
    <3> QED BY <2>3, <3>1, <3>2
  <2> QED BY <1>6, <2>4, <2>5, <2>6, <2>7, <2>8 DEF Moves
<1>7. CASE UNCHANGED vars
  <2>1. UNCHANGED <<rows, requests, place, cached, missed>>
    BY <1>7 DEF vars, d1, live
  <2>2. \A w \in Users : Outdated(w)' => Outdated(w)
    BY <2>1 DEF Outdated, Connected, Active
  <2> QED BY <2>1, <2>2, SameRefresh, FollowKept
<1>8. CASE Alarms
  <2>1. CASE UNCHANGED <<cached, inCall, missed, carried>>
    <3>1. UNCHANGED <<rows, requests, place, cached, missed>>
      BY <1>8, <2>1, AlarmsDo DEF d1
    <3>2. \A w \in Users : Outdated(w)' => Outdated(w)
      BY <3>1 DEF Outdated, Connected, Active
    <3> QED BY <3>1, <3>2, SameRefresh, FollowKept
  <2> QED BY <1>4, <1>8, <2>1, AlarmsDo
<1> QED BY <1>1, <1>2, <1>3, <1>5, <1>6, <1>7, <1>8, Steps

-----------------------------------------------------------------------------
(* Calls. *)

LEMMA CachedKept ==
  ASSUME CallCached, UNCHANGED <<live, carried>>
  PROVE  CallCached'
BY DEF CallCached, live, Connected

LEMMA CachedStep ==
  ASSUME TypeOK, GroupWhole, CallCached, [Next]_vars
  PROVE  CallCached'
<1>1. ASSUME NEW r \in Requests, Asks(r) PROVE CallCached'
  BY <1>1, AsksDoes, CachedKept DEF Asking
<1>2. ASSUME NEW r \in Requests, Writes(r) PROVE CallCached'
  BY <1>2, WritesDoes, CachedKept DEF Writing
<1>3. ASSUME NEW r \in Requests, Refused(r) PROVE CallCached'
  BY <1>3, CachedKept DEF Refused
<1>4. ASSUME NEW r \in Requests, Apply(r) PROVE CallCached'
  <2>1. PICK u \in Users, x \in Task \cup Notice \cup {None} :
           /\ Then(r, x) /\ Admitted(x)
           /\ UNCHANGED <<d1, place, fetched, copy, raced>>
           /\ cached' = cached \/ cached' = cached \cup {u}
                \/ (cached' = cached \ {u} /\ (Connected(u) => inCall' = inCall \ {u}))
           /\ ~Connected(u) => cached' = cached
           /\ inCall' \subseteq inCall /\ carried' = carried \cap inCall'
           /\ missed' = (missed \cup Forgotten') \ {w \in {u} : ~Outdated(w)'}
    BY <1>4, ApplyDoes
  <2>2. \A w \in Users : Connected(w)' <=> Connected(w)
    BY <2>1 DEF Connected
  <2>3. ASSUME NEW w \in inCall', Connected(w)' PROVE w \in cached' \cup carried'
    <3>1. w \in inCall /\ w \in Users /\ Connected(w)
      BY <2>1, <2>2, <2>3 DEF TypeOK
    <3>2. w \in cached \cup carried
      BY <3>1 DEF CallCached
    <3>3. w \in carried => w \in carried'
      BY <2>1, <2>3
    <3>4. w \in cached => w \in cached'
      BY <2>1, <2>3, <3>1
    <3> QED BY <3>2, <3>3, <3>4
  <2> QED BY <2>3 DEF CallCached
<1>5. ASSUME NEW u \in Users, Moves(u) PROVE CallCached'
  <2>1. CASE Upgrade(u)
    BY <2>1 DEF Upgrade, CallCached, Connected, TypeOK
  <2>2. CASE Accept(u)
    BY <2>2 DEF Accept, CallCached, Connected, TypeOK
  <2>3. CASE Suspend(u)
    BY <2>3 DEF Suspend, CallCached, Connected, TypeOK
  <2>4. CASE Disconnect(u)
    BY <2>4 DEF Disconnect, CallCached, Connected, TypeOK
  <2>5. CASE JoinCall(u) \/ LeaveCall(u)
    BY <2>5 DEF JoinCall, LeaveCall, CallCached, Connected, TypeOK
  <2> QED BY <1>5, <2>1, <2>2, <2>3, <2>4, <2>5 DEF Moves
<1>6. CASE UNCHANGED vars
  BY <1>6, CachedKept DEF vars
<1>7. CASE Alarms
  BY <1>7, AlarmsDo DEF CallCached, Connected, With
<1> QED BY <1>1, <1>2, <1>3, <1>4, <1>5, <1>6, <1>7, Steps

-----------------------------------------------------------------------------
(* The invariant. *)

LEMMA InitInv == Init => GroupsInv
<1> SUFFICES ASSUME Init PROVE GroupsInv
  OBVIOUS
<1>1. Members = {} /\ \A u \in Users : ~Active(u)
  BY DEF Init, Members, Active
<1>2. GroupWhole
  BY <1>1, FS_EmptySet, Bounded DEF Init, GroupWhole
<1>3. Asked
  BY DEF Init, Asked, Is
<1>4. CapabilitiesFollow /\ CallCached
  BY DEF Init, CapabilitiesFollow, CallCached, Outdated, Connected
<1>5. /\ friends \in [Pairs -> Users \cup {"none", "accepted"}]
      /\ rows \in [Users -> {"none", "owner", "member", "removed"}]
      /\ requests \in [Requests -> Task \cup Notice \cup {None}]
      /\ place \in [Users -> {"offline", "loading", "online", "suspended"}]
  BY DEF Init
<1>6. TypeOK
  BY <1>5 DEF Init, TypeOK
<1> QED BY <1>2, <1>3, <1>4, <1>6 DEF GroupsInv

LEMMA StepInv == GroupsInv /\ [Next]_vars => GroupsInv'
BY TypeStep, WholeStep, FollowStep, CachedStep DEF GroupsInv

LEMMA Invariant == Spec => []GroupsInv
BY InitInv, StepInv, PTL DEF Spec

(* Friendships, the group, the requests and the attachments have their types *)
(* (social-service.ts, and the rooms that server-realtime.ts caches).       *)
THEOREM TypeCorrect == Spec => []TypeOK
BY Invariant, PTL DEF GroupsInv

(* A group never has more members than the limit, a deleted one has none, and *)
(* its owner is the one member with that role, whatever requests interleave; *)
(* unless a check did not hold any more at its write (createGroup,           *)
(* addGroupMember, removeGroupMember, transferGroup, leaveGroup, deleteGroup *)
(* of social-service.ts).                                                   *)
THEOREM GroupStaysWhole == Spec => []GroupWhole
BY Invariant, PTL DEF GroupsInv

(* What an attachment says of a group agrees with D1, or a request will still *)
(* refresh it, except for those a failed or overtaken refresh or the alarm has *)
(* missed (refreshSocialState, alarm and the upgrade in server-realtime.ts). *)
THEOREM CapabilitiesAlwaysFollow == Spec => []CapabilitiesFollow
BY Invariant, PTL DEF GroupsInv

(* Nobody stays in the call of a group after the membership ended, unless a   *)
(* refresh is still to come, was missed, or a resumption or the alarm carried *)
(* the call past it (refreshSocialState, joinCall and alarm in              *)
(* server-realtime.ts).                                                     *)
THEOREM CallsAlwaysFollow == Spec => []CallsFollow
<1>1. GroupsInv => CallsFollow
  BY DEF GroupsInv, TypeOK, CallCached, CapabilitiesFollow, CallsFollow, Outdated
<1> QED BY <1>1, Invariant, PTL
=============================================================================
