------------------------------- MODULE Groups -------------------------------
(***************************************************************************)
(* Friendships, a group and who may use it                                  *)
(* (src/worker/services/social-service.ts), and the copy of that in the     *)
(* attachments of ServerRealtime, which every change in D1 refreshes        *)
(* (src/worker/durable/server-realtime.ts).  A request checks in D1, writes *)
(* in a later statement, lists the members, and has each of them loaded and *)
(* applied; two requests interleave at each of these awaits.                *)
(***************************************************************************)
EXTENDS Naturals, FiniteSets

CONSTANTS Users,
          Pairs,           \* the sets of two users that may be friends
          Requests,        \* requests in flight, a finite pool
          Limit,           \* 20, the members of a group
          None

ASSUME PairsOfUsers == \A p \in Pairs : \E u, v \in Users : u # v /\ p = {u, v}
ASSUME Bounded == IsFiniteSet(Users) /\ Limit \in Nat

VARIABLES
  friends,      \* of a pair: "none", who asked, or "accepted"
  group,        \* "none", "alive" or "deleted"
  owner,        \* owner_user_id
  rows,         \* the role of each user in conversation_members
  requests,     \* what each request has read and has still to do
  place,        \* where the connection of each user is
  cached,       \* the users whose attachment says they are members
  fetched,      \* what the upgrade of a user has loaded
  inCall,       \* the users in the group's call
  copy,         \* the attachment the alarm read before it awaits D1
  raced,        \* history: a check did not hold any more at its write
  missed,       \* history: users whose attachment nobody will correct
  carried       \* history: users whose call was carried past a removal

d1 == <<friends, group, owner, rows>>
live == <<place, cached, fetched, inCall>>
vars == <<d1, live, copy, requests, raced, missed, carried>>

Active(u) == rows[u] \in {"owner", "member"}
Members == {u \in Users : Active(u)}
Friends(u, v) == {u, v} \in Pairs /\ friends[{u, v}] = "accepted"

(* Before the write: who asks, about whom, and what has been read. *)
Task == [kind : {"create", "add", "remove", "transfer", "delete"}, by : Users, who : Users,
         checked : BOOLEAN, listed : SUBSET Users]

(* After it: whom to refresh, and the user being loaded. *)
Notice == [kind : {"list", "refresh"}, todo : SUBSET Users,
           loading : Users \cup {None}, member : BOOLEAN]

(* What an attachment says of its user, as the alarm holds it. *)
Copy == [user : Users, cached : BOOLEAN, inCall : BOOLEAN]

ASSUME NoneIsNone == None \notin Task \cup Notice \cup Users \cup Copy

Is(r, kind) == requests[r] # None /\ requests[r].kind = kind
Notify(kind, users) == [kind |-> kind, todo |-> users, loading |-> None, member |-> FALSE]
Then(r, next) == requests' = [requests EXCEPT ![r] = next]

Init ==
  /\ friends = [p \in Pairs |-> "none"]
  /\ group = "none" /\ owner = None /\ rows = [u \in Users |-> "none"]
  /\ requests = [r \in Requests |-> None]
  /\ place = [u \in Users |-> "offline"]
  /\ cached = {} /\ fetched = {} /\ inCall = {} /\ copy = None
  /\ raced = FALSE /\ missed = {} /\ carried = {}

-----------------------------------------------------------------------------
(* Friendships: one statement, then the refresh of both. *)
Befriend(r, u, v, from, to) ==
  /\ requests[r] = None /\ {u, v} \in Pairs
  /\ friends[{u, v}] \in from
  /\ friends' = [friends EXCEPT ![{u, v}] = to]
  /\ Then(r, Notify("refresh", {u, v}))
  /\ UNCHANGED <<group, owner, rows, live, copy, raced, missed, carried>>

RequestFriend(r, u, v) == Befriend(r, u, v, {"none"}, u)
AcceptFriend(r, u, v) == Befriend(r, u, v, {v}, "accepted")
RemoveFriend(r, u, v) == Befriend(r, u, v, {u, v, "accepted"}, "none")

-----------------------------------------------------------------------------
(* The friends are read before the batch; they may have changed since, which *)
(* nothing looks at again.                                                  *)
BeginCreate(r, u, others) ==
  /\ requests[r] = None /\ group = "none"
  /\ \A v \in others : Friends(u, v)
  /\ Cardinality(others) < Limit
  /\ Then(r, [kind |-> "create", by |-> u, who |-> u, checked |-> TRUE, listed |-> others])
  /\ UNCHANGED <<d1, live, copy, raced, missed, carried>>

CreateGroup(r) ==
  LET q == requests[r]
  IN  /\ Is(r, "create") /\ group = "none"
      /\ group' = "alive" /\ owner' = q.by
      /\ rows' = [v \in Users |-> IF v = q.by THEN "owner"
                                 ELSE IF v \in q.listed THEN "member" ELSE "none"]
      /\ Then(r, Notify("refresh", q.listed \cup {q.by}))
      /\ UNCHANGED <<friends, live, copy, raced, missed, carried>>

(* The batch is conditional: a name, and the refresh of the members. *)
RenameGroup(r, u) ==
  /\ requests[r] = None /\ group = "alive" /\ owner = u
  /\ Then(r, Notify("list", {}))
  /\ UNCHANGED <<d1, live, copy, raced, missed, carried>>

LeaveGroupAnyRole(r, u) ==       \* Mutant: the owner leaves too.
  /\ requests[r] = None /\ Active(u)
  /\ rows' = [rows EXCEPT ![u] = "removed"]
  /\ Then(r, Notify("list", {u}))
  /\ UNCHANGED <<friends, group, owner, live, copy, raced, missed, carried>>

LeaveGroupQuietly(r, u) ==       \* Mutant: only the members that stay are refreshed.
  /\ requests[r] = None /\ rows[u] = "member"
  /\ rows' = [rows EXCEPT ![u] = "removed"]
  /\ Then(r, Notify("list", {}))
  /\ UNCHANGED <<friends, group, owner, live, copy, raced, missed, carried>>

LeaveGroup(r, u) ==
  /\ requests[r] = None /\ rows[u] = "member"
  /\ rows' = [rows EXCEPT ![u] = "removed"]
  /\ Then(r, Notify("list", {u}))
  /\ UNCHANGED <<friends, group, owner, live, copy, raced, missed, carried>>

-----------------------------------------------------------------------------
(* requireGroupOwner. *)
BeginTask(r, kind, u, v) ==
  /\ requests[r] = None /\ group = "alive" /\ owner = u
  /\ kind = "remove" => v # u
  /\ kind = "delete" => v = u
  /\ Then(r, [kind |-> kind, by |-> u, who |-> v, checked |-> kind = "remove", listed |-> {}])
  /\ UNCHANGED <<d1, live, copy, raced, missed, carried>>

(* acceptedFriendIds, the membership of the new owner, or groupMemberIds.   *)
Check(r) ==
  LET q == requests[r]
  IN  /\ q # None /\ q.kind \in {"add", "transfer", "delete"} /\ ~q.checked
      /\ q.kind = "add" => Friends(q.by, q.who)
      /\ q.kind = "transfer" => rows[q.who] = "member"
      /\ q.kind = "delete" => group = "alive"
      /\ Then(r, [kind |-> q.kind, by |-> q.by, who |-> q.who, checked |-> TRUE,
                  listed |-> IF q.kind = "delete" THEN Members ELSE {}])
      /\ UNCHANGED <<d1, live, copy, raced, missed, carried>>

Room == Cardinality(Members) < Limit

(* The upsert makes a member of whoever the row is of. *)
AddGroupMember(r) ==
  LET q == requests[r]
  IN  /\ Is(r, "add") /\ q.checked
      /\ group = "alive" /\ Room
      /\ rows' = [rows EXCEPT ![q.who] = "member"]
      /\ raced' = (raced \/ rows[q.who] = "owner")
      /\ Then(r, Notify("list", {}))
      /\ UNCHANGED <<friends, group, owner, live, copy, missed, carried>>

RemoveGroupMember(r) ==
  LET q == requests[r]
  IN  /\ Is(r, "remove") /\ rows[q.who] = "member"
      /\ rows' = [rows EXCEPT ![q.who] = "removed"]
      /\ Then(r, Notify("list", {q.who}))
      /\ UNCHANGED <<friends, group, owner, live, copy, raced, missed, carried>>

(* Neither the owner nor the membership is looked at again. *)
TransferGroup(r) ==
  LET q == requests[r]
      role(u) == IF u \in {q.by, q.who} /\ Active(u)
                 THEN IF u = q.who THEN "owner" ELSE "member" ELSE rows[u]
  IN  /\ Is(r, "transfer") /\ q.checked
      /\ owner' = IF group = "alive" THEN q.who ELSE owner
      /\ rows' = [u \in Users |-> role(u)]
      /\ raced' = (raced \/ (group = "alive" /\ (owner # q.by \/ ~Active(q.who))))
      /\ Then(r, Notify("list", {}))
      /\ UNCHANGED <<friends, group, live, copy, missed, carried>>

-----------------------------------------------------------------------------
Connected(u) == place[u] \in {"online", "suspended"}

(* A request will still load u, or has loaded what D1 says of u now.        *)
WillRefresh(r, u) ==
  \/ Is(r, "list") /\ (u \in requests[r].todo \/ Active(u))
  \/ Is(r, "refresh") /\ u \in requests[r].todo
       /\ (requests[r].loading = u => (requests[r].member <=> Active(u)))

Outdated(u) == Connected(u) /\ ~(u \in cached <=> Active(u))

(* Those whose attachment is outdated and will stay so.                     *)
Forgotten == {u \in Users : Outdated(u) /\ \A r \in Requests : ~WillRefresh(r, u)}

(* The room is referenced by the conversation: when the conversation is not *)
(* the owner's any more, the batch is refused as a whole.                   *)
DeleteGroup(r) ==
  LET q == requests[r]
  IN  /\ Is(r, "delete") /\ q.checked
      /\ group = "alive" /\ owner = q.by
      /\ group' = "deleted" /\ owner' = None
      /\ rows' = [u \in Users |-> "none"]
      /\ Then(r, Notify("refresh", q.listed))
      /\ UNCHANGED <<friends, live, copy, raced, carried>>
      /\ missed' = (missed \cup Forgotten')

(* A check or a statement that finds nothing, or D1 fails. *)
Refused(r) ==
  /\ requests[r] # None
  /\ Then(r, None)
  /\ UNCHANGED <<d1, live, copy, raced, carried>>
  /\ missed' = (missed \cup Forgotten')

-----------------------------------------------------------------------------
(* groupMemberIds, then refreshSocialState: one user after another.         *)
List(r) ==
  /\ Is(r, "list")
  /\ Then(r, Notify("refresh", requests[r].todo \cup Members))
  /\ UNCHANGED <<d1, live, copy, raced, missed, carried>>

Load(r, u) ==
  /\ Is(r, "refresh") /\ u \in requests[r].todo /\ requests[r].loading = None
  /\ Then(r, [kind |-> "refresh", todo |-> requests[r].todo, loading |-> u, member |-> Active(u)])
  /\ UNCHANGED <<d1, live, copy, raced, missed, carried>>

ApplyKeepingCall(r) ==        \* Mutant: the call goes on.
  LET q == requests[r]
      u == q.loading
  IN  /\ Is(r, "refresh") /\ u # None
      /\ Then(r, IF q.todo = {u} THEN None ELSE Notify("refresh", q.todo \ {u}))
      /\ cached' = IF ~Connected(u) THEN cached
                   ELSE IF q.member THEN cached \cup {u} ELSE cached \ {u}
      /\ UNCHANGED <<d1, place, fetched, copy, raced, inCall, carried>>
      /\ missed' = (missed \cup Forgotten') \ {w \in {u} : ~Outdated(w)'}

(* The open sockets of u and its suspended records; a call that u may not   *)
(* use any more is left.                                                    *)
Apply(r) ==
  LET q == requests[r]
      u == q.loading
  IN  /\ Is(r, "refresh") /\ u # None
      /\ Then(r, IF q.todo = {u} THEN None ELSE Notify("refresh", q.todo \ {u}))
      /\ cached' = IF ~Connected(u) THEN cached
                   ELSE IF q.member THEN cached \cup {u} ELSE cached \ {u}
      /\ inCall' = IF Connected(u) /\ ~q.member THEN inCall \ {u} ELSE inCall
      /\ carried' = carried \cap inCall'
      /\ UNCHANGED <<d1, place, fetched, copy, raced>>
      /\ missed' = (missed \cup Forgotten') \ {w \in {u} : ~Outdated(w)'}

-----------------------------------------------------------------------------
(* An upgrade takes the connection out of where it was and loads D1.        *)
Upgrade(u) ==
  /\ place[u] \in {"offline", "suspended"}
  /\ place' = [place EXCEPT ![u] = "loading"]
  /\ fetched' = IF Active(u) THEN fetched \cup {u} ELSE fetched \ {u}
  /\ UNCHANGED <<d1, cached, inCall, copy, requests, raced, missed, carried>>

AcceptKeeping(u) ==        \* Mutant: what was loaded is kept.
  /\ place[u] = "loading"
  /\ place' = [place EXCEPT ![u] = "online"]
  /\ cached' = IF u \in fetched THEN cached \cup {u} ELSE cached \ {u}
  /\ carried' = IF u \in inCall \ fetched THEN carried \cup {u} ELSE carried
  /\ UNCHANGED <<d1, inCall, copy, requests, raced, fetched>>
  /\ missed' = (missed \cup Forgotten') \ {w \in {u} : ~Outdated(w)'}

(* The room of a resumed call is not compared with the rooms just loaded.   *)
Accept(u) ==
  /\ place[u] = "loading"
  /\ place' = [place EXCEPT ![u] = "online"]
  /\ cached' = IF u \in fetched THEN cached \cup {u} ELSE cached \ {u}
  /\ fetched' = fetched \ {u}
  /\ carried' = IF u \in inCall \ fetched THEN carried \cup {u} ELSE carried
  /\ UNCHANGED <<d1, inCall, copy, requests, raced>>
  /\ missed' = (missed \cup Forgotten') \ {w \in {u} : ~Outdated(w)'}

JoinCall(u) ==
  /\ place[u] = "online" /\ u \in cached
  /\ inCall' = inCall \cup {u}
  /\ UNCHANGED <<d1, place, cached, fetched, copy, requests, raced, missed, carried>>

LeaveCall(u) ==
  /\ place[u] = "online" /\ u \in inCall
  /\ inCall' = inCall \ {u} /\ carried' = carried \ {u}
  /\ UNCHANGED <<d1, place, cached, fetched, copy, requests, raced, missed>>

(* What is written to a socket that is gone is lost. *)
Dropped(u) == IF copy # None /\ copy.user = u THEN None ELSE copy

Suspend(u) ==
  /\ place[u] = "online"
  /\ place' = [place EXCEPT ![u] = "suspended"]
  /\ copy' = Dropped(u)
  /\ UNCHANGED <<d1, cached, fetched, inCall, requests, raced, missed, carried>>

Disconnect(u) ==
  /\ Connected(u)
  /\ place' = [place EXCEPT ![u] = "offline"]
  /\ cached' = cached \ {u} /\ inCall' = inCall \ {u}
  /\ missed' = missed \ {u} /\ carried' = carried \ {u}
  /\ copy' = Dropped(u)
  /\ UNCHANGED <<d1, fetched, requests, raced>>

-----------------------------------------------------------------------------
(* alarm: the attachment of an open socket is read, D1 is asked for the     *)
(* session, and the attachment is written back as it was read: a refresh or *)
(* a call that began or ended meanwhile is undone.                          *)
AlarmReads(u) ==
  /\ copy = None /\ place[u] = "online"
  /\ copy' = [user |-> u, cached |-> u \in cached, inCall |-> u \in inCall]
  /\ UNCHANGED <<d1, live, requests, raced, missed, carried>>

With(users, u, is) == IF is THEN users \cup {u} ELSE users \ {u}

AlarmWrites ==
  LET u == copy.user
  IN  /\ copy # None
      /\ cached' = With(cached, u, copy.cached) /\ inCall' = With(inCall, u, copy.inCall)
      /\ carried' = With(carried, u, copy.inCall /\ ~copy.cached)
      /\ copy' = None
      /\ UNCHANGED <<d1, place, fetched, requests, raced>>
      /\ missed' = (missed \cup Forgotten') \ {w \in {u} : ~Outdated(w)'}

(* The session is over and the socket closed (Disconnect), or D1 fails.     *)
AlarmLeaves ==
  /\ copy # None
  /\ copy' = None
  /\ UNCHANGED <<d1, live, requests, raced, missed, carried>>

-----------------------------------------------------------------------------
Serves(r) ==
  \/ \E u, v \in Users :
       \/ RequestFriend(r, u, v) \/ AcceptFriend(r, u, v) \/ RemoveFriend(r, u, v)
       \/ \E kind \in {"add", "remove", "transfer", "delete"} : BeginTask(r, kind, u, v)
  \/ \E u \in Users : \/ \E others \in SUBSET (Users \ {u}) : BeginCreate(r, u, others)
                      \/ RenameGroup(r, u) \/ LeaveGroup(r, u) \/ Load(r, u)
  \/ CreateGroup(r) \/ Check(r) \/ AddGroupMember(r) \/ RemoveGroupMember(r) \/ TransferGroup(r)
  \/ DeleteGroup(r) \/ Refused(r) \/ List(r) \/ Apply(r)

Next ==
  \/ \E r \in Requests : Serves(r)
  \/ \E u \in Users : \/ Upgrade(u) \/ Accept(u) \/ Suspend(u) \/ Disconnect(u)
                      \/ JoinCall(u) \/ LeaveCall(u) \/ AlarmReads(u)
  \/ AlarmWrites \/ AlarmLeaves

Spec == Init /\ [][Next]_vars

-----------------------------------------------------------------------------
TypeOK ==
  /\ friends \in [Pairs -> Users \cup {"none", "accepted"}]
  /\ group \in {"none", "alive", "deleted"} /\ owner \in Users \cup {None}
  /\ rows \in [Users -> {"none", "owner", "member", "removed"}]
  /\ requests \in [Requests -> Task \cup Notice \cup {None}]
  /\ place \in [Users -> {"offline", "loading", "online", "suspended"}]
  /\ cached \subseteq Users /\ fetched \subseteq {u \in Users : place[u] = "loading"}
  /\ inCall \subseteq Users /\ missed \subseteq Users /\ carried \subseteq inCall
  /\ raced \in BOOLEAN
  /\ copy \in Copy \cup {None}
  /\ copy # None => place[copy.user] = "online"

(* A group that exists has its owner among its members, nobody else has the *)
(* role, and there are no more members than the limit; unless a transfer or *)
(* an addition was overtaken between its check and its write.               *)
GroupWhole ==
  /\ Cardinality(Members) <= Limit
  /\ group # "alive" => Members = {}
  /\ group = "alive" /\ ~raced => \A u \in Users : rows[u] = "owner" <=> u = owner

(* After every change each attachment agrees with D1 (docs/social-chat.md:  *)
(* recalculadas após toda mutação social), or a request is still to refresh *)
(* it; the exceptions are in missed: a request that failed, an answer of D1 *)
(* that was applied or accepted too late, a member added while a deletion   *)
(* had listed the members already, and a refresh that the alarm undid with  *)
(* the attachment it had read before.                                       *)
CapabilitiesFollow ==
  \A u \in Users \ missed : Outdated(u) => \E r \in Requests : WillRefresh(r, u)

(* Nobody stays in the call of a group they are not a member of, but for    *)
(* the same exceptions and a call that was resumed meanwhile, or written    *)
(* back by the alarm after that.                                            *)
CallsFollow ==
  \A u \in inCall \ (missed \cup carried) :
    Active(u) \/ ~Connected(u) \/ \E r \in Requests : WillRefresh(r, u)
=============================================================================
