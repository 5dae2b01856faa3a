--------------------------- MODULE AccountsProofs ---------------------------
(***************************************************************************)
(* Theorems about Accounts, for any users, sessions, invites, requests and  *)
(* codes: types, invites spent once, sessions that end with the password    *)
(* that opened them, codes that were shown, and sockets that are closed.    *)
(***************************************************************************)
EXTENDS Accounts, TLAPS

(* An account stays: whoever has a session, or a request past its first     *)
(* read, is registered.                                                     *)
Known ==
  /\ \A s \in Sessions : Opened(s) => Registered(sessions[s].user)
  /\ \A r \in Requests : requests[r] # None /\ requests[r].kind # "register"
                           => Registered(requests[r].user)

AccountsInv == TypeOK /\ Known /\ InviteSpends /\ OldPasswordEnds /\ CodesKnown /\ SocketsEnd

-----------------------------------------------------------------------------
(* What each kind of request carries. *)

LEMMA RegisterRequest ==
  ASSUME NEW q \in Request, q.kind = "register"
  PROVE  q.user \in Users /\ q.invite \in Invites /\ q.now \in 0 .. MaxTime
BY DEF Request

LEMMA LoginRequest ==
  ASSUME NEW q \in Request, q.kind = "login"
  PROVE  q.user \in Users /\ q.password \in Nat /\ q.current \in Sessions \cup {None}
BY DEF Request

LEMMA RecoverRequest ==
  ASSUME NEW q \in Request, q.kind = "recover"
  PROVE  q.user \in Users /\ q.code \in Codes \cup {None} /\ q.now \in 0 .. MaxTime
BY DEF Request

LEMMA RegenerateRequest ==
  ASSUME NEW q \in Request, q.kind = "regenerate"
  PROVE  q.user \in Users /\ q.password \in Nat /\ q.current \in Sessions
BY DEF Request

LEMMA Rows ==
  ASSUME TypeOK
  PROVE  /\ \A u \in Users : Registered(u) <=> accounts[u] \in Account
         /\ \A s \in Sessions : Opened(s) <=> sessions[s] \in Session
         /\ \A r \in Requests : requests[r] # None <=> requests[r] \in Request
BY NoneIsNone DEF TypeOK, Registered, Opened

-----------------------------------------------------------------------------
(* Sessions whose statuses change and nothing else; who was not live stays  *)
(* as it is.                                                                *)
Follow(rows) ==
  /\ rows \in [Sessions -> Session \cup {None}]
  /\ \A s \in Sessions :
       /\ rows[s] = None <=> sessions[s] = None
       /\ sessions[s] # None =>
            /\ rows[s].user = sessions[s].user /\ rows[s].password = sessions[s].password
            /\ rows[s].timely = sessions[s].timely
       /\ ~Live(s) => rows[s] = sessions[s]

LEMMA StatusChanges ==
  ASSUME NEW x \in Session, NEW status \in {"out", "rotated", "lapsed"}
  PROVE  LET y == [x EXCEPT !.status = status]
         IN  /\ y \in Session
             /\ y.user = x.user /\ y.password = x.password /\ y.timely = x.timely
             /\ y.status = status
BY DEF Session

LEMMA EndFollows ==
  ASSUME TypeOK, NEW x \in Sessions \cup {None}, NEW status \in {"out", "rotated", "lapsed"}
  PROVE  /\ Follow(End(sessions, x, status))
         /\ \A s \in Sessions : End(sessions, x, status)[s] =
              IF s = x /\ Live(s) THEN [sessions[s] EXCEPT !.status = status] ELSE sessions[s]
<1>1. \A s \in Sessions : End(sessions, x, status)[s] =
         IF s = x /\ Live(s) THEN [sessions[s] EXCEPT !.status = status] ELSE sessions[s]
  BY NoneIsNone DEF End, TypeOK, Live, Opened
<1>2. \A s \in Sessions : Live(s) => sessions[s] \in Session
  BY Rows DEF Live
<1>3. ASSUME NEW s \in Sessions, Live(s)
      PROVE  LET y == [sessions[s] EXCEPT !.status = status]
             IN  /\ y \in Session /\ y # None
                 /\ y.user = sessions[s].user /\ y.password = sessions[s].password
                 /\ y.timely = sessions[s].timely
  <2>1. sessions[s] \in Session
    BY <1>2, <1>3
  <2> QED BY <2>1, StatusChanges, NoneIsNone
<1>4. End(sessions, x, status) \in [Sessions -> Session \cup {None}]
  <2>1. CASE x # None /\ sessions[x] # None /\ sessions[x].status = "live"
    <3>1. x \in Sessions /\ Live(x)
      BY <2>1 DEF Live, Opened
    <3>2. [sessions[x] EXCEPT !.status = status] \in Session
      BY <3>1, <1>3
    <3>3. End(sessions, x, status) = [sessions EXCEPT ![x] = [sessions[x] EXCEPT !.status = status]]
      BY <2>1 DEF End
    <3> QED BY <3>1, <3>2, <3>3 DEF TypeOK
  <2>2. CASE ~(x # None /\ sessions[x] # None /\ sessions[x].status = "live")
    BY <2>2 DEF End, TypeOK
  <2> QED BY <2>1, <2>2
<1>5. \A s \in Sessions : Live(s) => sessions[s] # None
  BY DEF Live, Opened
<1> QED BY <1>1, <1>3, <1>4, <1>5 DEF Follow

LEMMA RevokedFollows ==
  ASSUME TypeOK, NEW u \in Users
  PROVE  /\ Follow(Revoked(u))
         /\ \A s \in Sessions : Revoked(u)[s] =
              IF Live(s) /\ sessions[s].user = u THEN [sessions[s] EXCEPT !.status = "out"]
              ELSE sessions[s]
<1>1. \A s \in Sessions : Revoked(u)[s] =
         IF Live(s) /\ sessions[s].user = u THEN [sessions[s] EXCEPT !.status = "out"]
         ELSE sessions[s]
  BY DEF Revoked
<1>2. \A s \in Sessions : Live(s) => sessions[s] \in Session
  BY Rows DEF Live
<1>3. \A s \in Sessions : Live(s) =>
         LET y == [sessions[s] EXCEPT !.status = "out"]
         IN  /\ y \in Session /\ y # None
             /\ y.user = sessions[s].user /\ y.password = sessions[s].password
             /\ y.timely = sessions[s].timely
  BY <1>2, StatusChanges, NoneIsNone
<1>4. \A s \in Sessions : Revoked(u)[s] \in Session \cup {None}
  BY <1>1, <1>3 DEF TypeOK
<1>5. Revoked(u) = [s \in Sessions |-> Revoked(u)[s]]
  BY DEF Revoked
<1>6. Revoked(u) \in [Sessions -> Session \cup {None}]
  BY <1>4, <1>5
<1>7. \A s \in Sessions : Live(s) => sessions[s] # None
  BY DEF Live, Opened
<1> QED BY <1>1, <1>3, <1>6, <1>7 DEF Follow

LEMMA FreshSession ==
  ASSUME TypeOK, NEW u \in Users, NEW password \in Nat
  PROVE  /\ Fresh(u, password) \in Session /\ Fresh(u, password) # None
         /\ Fresh(u, password).user = u /\ Fresh(u, password).password = password
         /\ Fresh(u, password).timely => password = accounts[u].password
         /\ Fresh(u, password).status = "live"
<1>1. PICK t \in BOOLEAN : t = (password = accounts[u].password)
  OBVIOUS
<1>2. Fresh(u, password) = [user |-> u, password |-> password, timely |-> t, status |-> "live"]
  BY <1>1 DEF Fresh
<1>3. [user |-> u, password |-> password, timely |-> t, status |-> "live"] \in Session
  BY DEF Session
<1>4. Fresh(u, password).timely = (password = accounts[u].password)
  BY DEF Fresh
<1>5. Fresh(u, password).timely => password = accounts[u].password
  BY <1>4
<1>6. /\ Fresh(u, password).user = u /\ Fresh(u, password).password = password
      /\ Fresh(u, password).status = "live"
  BY <1>2
<1>7. Fresh(u, password) \in Session /\ Fresh(u, password) # None
  BY <1>2, <1>3, NoneIsNone
<1> QED BY <1>5, <1>6, <1>7

LEMMA FreshCodesAre ==
  /\ FreshCodes \subseteq Codes
  /\ \A c \in FreshCodes : c.issue = issued + 1
BY DEF FreshCodes

-----------------------------------------------------------------------------
(* Types, and that accounts stay. *)

LEMMA EndsLeaves ==
  ASSUME TypeOK, NEW r \in Requests, Ends(r)
  PROVE  /\ requests' \in [Requests -> Request \cup {None}]
         /\ \A q \in Requests : requests'[q] # None => requests'[q] = requests[q]
BY DEF TypeOK, Ends

(* The accounts and the open sessions stay, what is new is registered. *)
LEMMA KnownKept ==
  ASSUME Known,
         \A u \in Users : Registered(u) => Registered(u)',
         \A s \in Sessions : Opened(s) => sessions[s].user \in Users,
         \A r \in Requests : requests[r] # None => requests[r].user \in Users,
         \A s \in Sessions : Opened(s)' =>
           (Opened(s) /\ sessions'[s].user = sessions[s].user) \/ Registered(sessions[s].user)',
         \A r \in Requests : requests'[r] # None =>
           \/ requests'[r] = requests[r]
           \/ requests'[r].kind # "register" => Registered(requests[r].user)'
  PROVE  Known'
BY DEF Known, Registered, Opened

LEMMA UsersOf ==
  ASSUME TypeOK
  PROVE  /\ \A s \in Sessions : Opened(s) => sessions[s].user \in Users
         /\ \A r \in Requests : requests[r] # None => requests[r].user \in Users
<1>1. \A x \in Session : x.user \in Users
  BY DEF Session
<1>2. \A x \in Request : x.user \in Users
  BY DEF Request
<1> QED BY <1>1, <1>2, Rows

LEMMA BeginStep ==
  ASSUME TypeOK, Known, NEW r \in Requests, NEW q \in Request, Begin(r, q),
         q.kind # "register" => Registered(q.user)
  PROVE  TypeOK' /\ Known'
<1>1. TypeOK'
  BY DEF TypeOK, Begin
<1>2. \A x \in Requests : requests'[x] = IF x = r THEN q ELSE requests[x]
  BY DEF TypeOK, Begin
<1>3. Known'
  BY <1>2 DEF Known, Begin, Registered, Opened
<1> QED BY <1>1, <1>3

LEMMA BeginsStep ==
  ASSUME TypeOK, Known, NEW r \in Requests
  PROVE  /\ \A u \in Users, i \in Invites : BeginRegister(r, u, i) => TypeOK' /\ Known'
         /\ \A u \in Users, s \in Sessions \cup {None} :
              BeginLogin(r, u, s) => TypeOK' /\ Known'
         /\ \A u \in Users, c \in Codes \cup {None} : BeginRecover(r, u, c) => TypeOK' /\ Known'
         /\ \A s \in Sessions : BeginRegenerate(r, s) => TypeOK' /\ Known'
<1>1. ASSUME NEW u \in Users, NEW i \in Invites, BeginRegister(r, u, i)
      PROVE  TypeOK' /\ Known'
  <2>1. PICK q : q = [kind |-> "register", user |-> u, invite |-> i, now |-> time]
    OBVIOUS
  <2>2. q \in Request /\ q.kind = "register"
    BY <2>1 DEF Request, TypeOK
  <2> QED BY <1>1, <2>1, <2>2, BeginStep DEF BeginRegister
<1>2. ASSUME NEW u \in Users, NEW s \in Sessions \cup {None}, BeginLogin(r, u, s)
      PROVE  TypeOK' /\ Known'
  <2>1. PICK q : q = [kind |-> "login", user |-> u, password |-> accounts[u].password,
                      current |-> s]
    OBVIOUS
  <2>2. accounts[u].password \in Nat
    BY <1>2, Rows DEF BeginLogin, Account
  <2>3. q \in Request /\ q.user = u
    BY <2>1, <2>2 DEF Request
  <2> QED BY <1>2, <2>1, <2>3, BeginStep DEF BeginLogin
<1>3. ASSUME NEW u \in Users, NEW c \in Codes \cup {None}, BeginRecover(r, u, c)
      PROVE  TypeOK' /\ Known'
  <2>1. PICK q : q = [kind |-> "recover", user |-> u, code |-> c, now |-> time]
    OBVIOUS
  <2>2. q \in Request /\ q.user = u
    BY <2>1 DEF Request, TypeOK
  <2> QED BY <1>3, <2>1, <2>2, BeginStep DEF BeginRecover
<1>4. ASSUME NEW s \in Sessions, BeginRegenerate(r, s)
      PROVE  TypeOK' /\ Known'
  <2>1. PICK q : q = [kind |-> "regenerate", user |-> sessions[s].user,
                      password |-> accounts[sessions[s].user].password, current |-> s]
    OBVIOUS
  <2>2. sessions[s].user \in Users /\ Registered(sessions[s].user)
    BY <1>4, UsersOf DEF BeginRegenerate, Known
  <2>3. accounts[sessions[s].user].password \in Nat
    BY <2>2, Rows DEF Account
  <2>4. q \in Request /\ q.user = sessions[s].user
    BY <2>1, <2>2, <2>3 DEF Request
  <2> QED BY <1>4, <2>1, <2>2, <2>4, BeginStep DEF BeginRegenerate
<1> QED BY <1>1, <1>2, <1>3, <1>4

LEMMA IssueStep ==
  ASSUME TypeOK, NEW shown \in BOOLEAN, Issue(shown)
  PROVE  issued' \in 0 .. MaxIssues /\ answered' \subseteq 1 .. issued'
BY Limits DEF TypeOK, Issue

LEMMA FollowKeeps ==
  ASSUME TypeOK, NEW rows, Follow(rows)
  PROVE  /\ \A s \in Sessions : Opened(s) => rows[s] # None /\ rows[s].user = sessions[s].user
         /\ \A s \in Sessions : rows[s] # None => Opened(s)
BY DEF Follow, Opened

-----------------------------------------------------------------------------
(* What the batches do to accounts and sessions. *)

LEMMA RegisterDoes ==
  ASSUME TypeOK, NEW r \in Requests, NEW s \in Sessions, Register(r, s)
  PROVE  LET q == requests[r] IN
         /\ q \in Request /\ q.user \in Users /\ q.invite \in Invites /\ q.now \in 0 .. MaxTime
         /\ ~Opened(s)
         /\ \/ /\ Redeemable(q.invite) /\ ~Registered(q.user)
               /\ invites' = [invites EXCEPT ![q.invite] = "used"]
               /\ accounts' = [accounts EXCEPT ![q.user] =
                    [password |-> 0, changedAt |-> q.now, codes |-> FreshCodes,
                     invite |-> q.invite]]
               /\ sessions' = [sessions EXCEPT ![s] =
                    [user |-> q.user, password |-> 0, timely |-> TRUE, status |-> "live"]]
               /\ Issue(TRUE)
            \/ /\ invites' = [invites EXCEPT ![q.invite] =
                                IF Redeemable(q.invite) THEN "revoked" ELSE @]
               /\ UNCHANGED <<accounts, sessions, issued, answered>>
<1>1. requests[r] \in Request /\ requests[r].kind = "register"
  BY Rows DEF Register, Is
<1>2. requests[r].user \in Users /\ requests[r].invite \in Invites /\ requests[r].now \in 0 .. MaxTime
  BY <1>1, RegisterRequest
<1> QED BY <1>1, <1>2 DEF Register

LEMMA LoginDoes ==
  ASSUME TypeOK, Known, NEW r \in Requests, NEW s \in Sessions, Login(r, s)
  PROVE  LET q == requests[r] IN
         /\ q \in Request /\ q.user \in Users /\ q.password \in Nat
         /\ q.current \in Sessions \cup {None}
         /\ Registered(q.user) /\ ~Opened(s)
         /\ sessions' = [End(sessions, q.current, "rotated") EXCEPT ![s] = Fresh(q.user, q.password)]
<1>1. requests[r] \in Request /\ requests[r].kind = "login"
  BY Rows DEF Login, Is
<1>2. requests[r] # None /\ requests[r].kind # "register"
  BY <1>1, NoneIsNone
<1> QED BY <1>1, <1>2, LoginRequest DEF Login, Known

LEMMA RecoverDoes ==
  ASSUME TypeOK, Known, NEW r \in Requests, Recover(r)
  PROVE  LET q == requests[r]
             valid == q.code # None /\ q.code \in accounts[q.user].codes
         IN
         /\ q \in Request /\ q.user \in Users /\ q.now \in 0 .. MaxTime
         /\ Registered(q.user) /\ accounts[q.user] \in Account
         /\ \/ /\ valid
               /\ accounts' = [accounts EXCEPT ![q.user] =
                    [password |-> accounts[q.user].password + 1, changedAt |-> q.now,
                     codes |-> FreshCodes, invite |-> accounts[q.user].invite]]
               /\ sessions' = Revoked(q.user)
               /\ Issue(TRUE) /\ events' = events \cup {q.user}
               /\ collided' = collided
            \/ /\ ~valid /\ collided' = TRUE
               /\ accounts' = [accounts EXCEPT ![q.user] =
                    [password |-> accounts[q.user].password,
                     changedAt |-> accounts[q.user].changedAt,
                     codes |-> FreshCodes, invite |-> accounts[q.user].invite]]
               /\ sessions' = Revoked(q.user)
               /\ Issue(FALSE) /\ events' = events
            \/ UNCHANGED <<accounts, sessions, issued, answered, events, collided>>
<1> DEFINE q == requests[r]
           old == accounts[q.user]
           valid == q.code # None /\ q.code \in old.codes
<1>1. q \in Request /\ q.kind = "recover"
  BY Rows DEF Recover, Is
<1>2. q # None /\ q.kind # "register"
  BY <1>1, NoneIsNone
<1>3. q.user \in Users /\ q.now \in 0 .. MaxTime /\ Registered(q.user)
  BY <1>1, <1>2, RecoverRequest DEF Known
<1>4. old \in Account
  BY <1>3, Rows
<1>5. accounts' = [accounts EXCEPT ![q.user] =
                     [password |-> IF valid THEN old.password + 1 ELSE old.password,
                      changedAt |-> IF valid THEN q.now ELSE old.changedAt,
                      codes |-> IF Marked(q, valid) THEN FreshCodes ELSE old.codes,
                      invite |-> old.invite]]
  BY DEF Recover
<1>6. old = [password |-> old.password, changedAt |-> old.changedAt, codes |-> old.codes,
             invite |-> old.invite]
  BY <1>4 DEF Account
<1>7. accounts = [accounts EXCEPT ![q.user] = old]
  BY <1>3 DEF TypeOK
<1>8. CASE valid
  <2>3. accounts' = [accounts EXCEPT ![q.user] =
                       [password |-> old.password + 1, changedAt |-> q.now,
                        codes |-> FreshCodes, invite |-> old.invite]]
    BY <1>5, <1>8 DEF Marked
  <2>4. /\ sessions' = Revoked(q.user) /\ events' = events \cup {q.user}
        /\ Issue(valid) /\ collided' = (collided \/ (Coincides(q) /\ ~valid))
    BY <1>8 DEF Recover, Marked
  <2>5. Issue(TRUE)
    BY <1>8, <2>4 DEF Issue
  <2>6. collided' = collided
    BY <1>8, <2>4 DEF TypeOK
  <2> QED BY <1>1, <1>3, <1>4, <1>8, <2>3, <2>4, <2>5, <2>6
<1>9. CASE ~valid /\ Coincides(q)
  <2>3. accounts' = [accounts EXCEPT ![q.user] =
                       [password |-> old.password, changedAt |-> old.changedAt,
                        codes |-> FreshCodes, invite |-> old.invite]]
    BY <1>5, <1>9 DEF Marked
  <2>4. /\ sessions' = Revoked(q.user) /\ events' = events
        /\ Issue(valid) /\ collided' = (collided \/ (Coincides(q) /\ ~valid))
    BY <1>9 DEF Recover, Marked
  <2>5. Issue(FALSE)
    BY <1>9, <2>4 DEF Issue
  <2>6. collided' = TRUE
    BY <1>9, <2>4 DEF TypeOK
  <2> QED BY <1>1, <1>3, <1>4, <1>9, <2>3, <2>4, <2>5, <2>6
<1>10. CASE ~valid /\ ~Coincides(q)
  <2>3. accounts' = accounts
    BY <1>5, <1>6, <1>7, <1>10 DEF Marked
  <2>4. /\ sessions' = sessions /\ events' = events /\ UNCHANGED <<issued, answered>>
        /\ collided' = (collided \/ (Coincides(q) /\ ~valid))
    BY <1>10 DEF Recover, Marked
  <2>5. collided' = collided
    BY <1>10, <2>4 DEF TypeOK
  <2> QED BY <1>1, <1>3, <1>4, <1>10, <2>3, <2>4, <2>5
<1> QED BY <1>8, <1>9, <1>10

LEMMA RegenerateDoes ==
  ASSUME TypeOK, Known, NEW r \in Requests, NEW s \in Sessions, Regenerate(r, s)
  PROVE  LET q == requests[r] IN
         /\ q \in Request /\ q.user \in Users /\ q.password \in Nat /\ q.current \in Sessions
         /\ Registered(q.user) /\ accounts[q.user] \in Account /\ ~Opened(s)
         /\ accounts' = [accounts EXCEPT ![q.user] =
              [password |-> accounts[q.user].password, changedAt |-> accounts[q.user].changedAt,
               codes |-> FreshCodes, invite |-> accounts[q.user].invite]]
         /\ sessions' = [End(sessions, q.current, "out") EXCEPT ![s] = Fresh(q.user, q.password)]
         /\ Issue(TRUE) /\ events' = events \cup {q.current}
<1> DEFINE q == requests[r]
           old == accounts[q.user]
<1>1. q \in Request /\ q.kind = "regenerate"
  BY Rows DEF Regenerate, Is
<1>2. q # None /\ q.kind # "register"
  BY <1>1, NoneIsNone
<1>3. q.user \in Users /\ q.password \in Nat /\ q.current \in Sessions /\ Registered(q.user)
  BY <1>1, <1>2, RegenerateRequest DEF Known
<1>4. old \in Account
  BY <1>3, Rows
<1>5. [old EXCEPT !.codes = FreshCodes] =
        [password |-> old.password, changedAt |-> old.changedAt, codes |-> FreshCodes,
         invite |-> old.invite]
  BY <1>4 DEF Account
<1>6. accounts' = [accounts EXCEPT ![q.user] = [old EXCEPT !.codes = FreshCodes]]
  BY DEF Regenerate
<1> QED BY <1>1, <1>3, <1>4, <1>5, <1>6 DEF Regenerate

-----------------------------------------------------------------------------
(* Types and Known, batch by batch. *)

LEMMA NewAccount ==
  ASSUME TypeOK, NEW u \in Users, NEW p \in Nat, NEW t \in 0 .. MaxTime, NEW i \in Invites,
         accounts' = [accounts EXCEPT ![u] =
                        [password |-> p, changedAt |-> t, codes |-> FreshCodes, invite |-> i]]
  PROVE  /\ accounts' \in [Users -> Account \cup {None}]
         /\ accounts'[u] # None
         /\ \A w \in Users : Registered(w) => Registered(w)'
<1>1. [password |-> p, changedAt |-> t, codes |-> FreshCodes, invite |-> i] \in Account
  BY FreshCodesAre DEF Account
<1> QED BY <1>1, NoneIsNone DEF TypeOK, Registered

LEMMA RegisterTyped ==
  ASSUME TypeOK, Known, NEW r \in Requests, NEW s \in Sessions, Register(r, s)
  PROVE  TypeOK' /\ Known'
<1> DEFINE q == requests[r]
           row == [user |-> q.user, password |-> 0, timely |-> TRUE, status |-> "live"]
<1>1. q.user \in Users /\ q.invite \in Invites /\ q.now \in 0 .. MaxTime
  BY RegisterDoes
<1>2. Ends(r) /\ UNCHANGED <<time, sockets, events, late, collided>>
  BY DEF Register
<1>3. invites' \in [Invites -> {"none", "available", "expired", "used", "revoked"}]
  BY <1>1, RegisterDoes DEF TypeOK
<1>4. CASE UNCHANGED <<accounts, sessions, issued, answered>>
  <2>1. TypeOK'
    BY <1>2, <1>3, <1>4, EndsLeaves DEF TypeOK
  <2>2. Known'
    BY <1>2, <1>4, EndsLeaves DEF Known, Registered, Opened
  <2> QED BY <2>1, <2>2
<1>5. CASE /\ accounts' = [accounts EXCEPT ![q.user] =
                [password |-> 0, changedAt |-> q.now, codes |-> FreshCodes, invite |-> q.invite]]
           /\ sessions' = [sessions EXCEPT ![s] = row]
           /\ Issue(TRUE)
  <2>1. row \in Session /\ row # None /\ row.user = q.user
    <3>1. PICK t \in BOOLEAN : t = TRUE
      OBVIOUS
    <3>2. row = [user |-> q.user, password |-> 0, timely |-> t, status |-> "live"]
      BY <3>1
    <3>3. [user |-> q.user, password |-> 0, timely |-> t, status |-> "live"] \in Session
      BY <1>1 DEF Session
    <3> QED BY <3>2, <3>3, NoneIsNone
  <2> HIDE DEF row
  <2>2. sessions' \in [Sessions -> Session \cup {None}]
    BY <1>5, <2>1 DEF TypeOK
  <2>3. /\ accounts' \in [Users -> Account \cup {None}]
        /\ accounts'[q.user] # None
        /\ \A w \in Users : Registered(w) => Registered(w)'
    <3>1. 0 \in Nat
      OBVIOUS
    <3> QED BY <1>1, <1>5, <3>1, NewAccount
  <2>4. TypeOK'
    BY <1>2, <1>3, <1>5, <2>2, <2>3, EndsLeaves, IssueStep DEF TypeOK
  <2>5. \A x \in Sessions : sessions'[x] = IF x = s THEN row ELSE sessions[x]
    BY <1>5 DEF TypeOK
  <2>6. \A x \in Sessions : Opened(x)' =>
           (Opened(x) /\ sessions'[x].user = sessions[x].user) \/ Registered(sessions[x].user)'
    BY <2>1, <2>3, <2>5 DEF Opened, Registered
  <2>7. Known'
    BY <1>2, <2>3, <2>6, EndsLeaves, UsersOf, KnownKept
  <2> QED BY <2>4, <2>7
<1> QED BY <1>4, <1>5, RegisterDoes

(* A session is opened beside the end of another. *)
LEMMA Opens ==
  ASSUME TypeOK, Known, NEW rows, Follow(rows), NEW s \in Sessions, NEW u \in Users,
         NEW p \in Nat, sessions' = [rows EXCEPT ![s] = Fresh(u, p)],
         \A w \in Users : Registered(w) => Registered(w)', Registered(u)
  PROVE  /\ sessions' \in [Sessions -> Session \cup {None}]
         /\ \A x \in Sessions : Opened(x)' =>
              (Opened(x) /\ sessions'[x].user = sessions[x].user) \/ Registered(sessions[x].user)'
<1>1. Fresh(u, p) \in Session /\ Fresh(u, p) # None /\ Fresh(u, p).user = u
  BY FreshSession
<1>2. rows \in [Sessions -> Session \cup {None}]
  BY DEF Follow
<1>3. \A x \in Sessions : sessions'[x] = IF x = s THEN Fresh(u, p) ELSE rows[x]
  BY <1>2
<1>4. sessions' \in [Sessions -> Session \cup {None}]
  BY <1>1, <1>2
<1>5. /\ \A x \in Sessions : Opened(x) => rows[x] # None /\ rows[x].user = sessions[x].user
      /\ \A x \in Sessions : rows[x] # None => Opened(x)
  BY FollowKeeps
<1>6. \A x \in Sessions : x # s /\ Opened(x)' =>
         Opened(x) /\ sessions'[x].user = sessions[x].user
  BY <1>3, <1>5 DEF Opened
<1>7. Registered(sessions[s].user)'
  BY <1>1, <1>3 DEF Registered
<1> QED BY <1>4, <1>6, <1>7

LEMMA LoginTyped ==
  ASSUME TypeOK, Known, NEW r \in Requests, NEW s \in Sessions, Login(r, s)
  PROVE  TypeOK' /\ Known'
<1> DEFINE q == requests[r]
           rows == End(sessions, q.current, "rotated")
<1>1. /\ q.user \in Users /\ q.password \in Nat /\ q.current \in Sessions \cup {None}
      /\ Registered(q.user)
      /\ sessions' = [rows EXCEPT ![s] = Fresh(q.user, q.password)]
  BY LoginDoes
<1>2. /\ Ends(r)
      /\ UNCHANGED <<time, invites, accounts, issued, answered, sockets, events, late, collided>>
  BY DEF Login
<1>3. Follow(rows)
  BY <1>1, EndFollows
<1> HIDE DEF rows
<1>4. \A w \in Users : Registered(w) => Registered(w)'
  BY <1>2 DEF Registered
<1>5. /\ sessions' \in [Sessions -> Session \cup {None}]
      /\ \A x \in Sessions : Opened(x)' =>
           (Opened(x) /\ sessions'[x].user = sessions[x].user) \/ Registered(sessions[x].user)'
  BY <1>1, <1>3, <1>4, Opens
<1>6. TypeOK'
  BY <1>2, <1>5, EndsLeaves DEF TypeOK
<1>7. Known'
  BY <1>2, <1>4, <1>5, EndsLeaves, UsersOf, KnownKept
<1> QED BY <1>6, <1>7

LEMMA RegenerateTyped ==
  ASSUME TypeOK, Known, NEW r \in Requests, NEW s \in Sessions, Regenerate(r, s)
  PROVE  TypeOK' /\ Known'
<1> DEFINE q == requests[r]
           rows == End(sessions, q.current, "out")
           old == accounts[q.user]
<1>1. /\ q.user \in Users /\ q.password \in Nat /\ q.current \in Sessions
      /\ Registered(q.user) /\ old \in Account
      /\ accounts' = [accounts EXCEPT ![q.user] =
           [password |-> old.password, changedAt |-> old.changedAt,
            codes |-> FreshCodes, invite |-> old.invite]]
      /\ sessions' = [rows EXCEPT ![s] = Fresh(q.user, q.password)]
      /\ Issue(TRUE) /\ events' = events \cup {q.current}
  BY RegenerateDoes
<1>2. Ends(r) /\ UNCHANGED <<time, invites, sockets, late, collided>>
  BY DEF Regenerate
<1>3. Follow(rows)
  BY <1>1, EndFollows
<1> HIDE DEF rows
<1>4. old.password \in Nat /\ old.changedAt \in 0 .. MaxTime /\ old.invite \in Invites
  BY <1>1 DEF Account
<1>5. /\ accounts' \in [Users -> Account \cup {None}]
      /\ \A w \in Users : Registered(w) => Registered(w)'
  BY <1>1, <1>4, NewAccount
<1>6. /\ sessions' \in [Sessions -> Session \cup {None}]
      /\ \A x \in Sessions : Opened(x)' =>
           (Opened(x) /\ sessions'[x].user = sessions[x].user) \/ Registered(sessions[x].user)'
  BY <1>1, <1>3, <1>5, Opens
<1>7. TypeOK'
  BY <1>1, <1>2, <1>5, <1>6, EndsLeaves, IssueStep DEF TypeOK
<1>8. Known'
  BY <1>2, <1>5, <1>6, EndsLeaves, UsersOf, KnownKept
<1> QED BY <1>7, <1>8

(* Only statuses change. *)
LEMMA FollowTyped ==
  ASSUME TypeOK, Known, Follow(sessions'),
         \A w \in Users : Registered(w) => Registered(w)',
         \A r \in Requests : requests'[r] # None => requests'[r] = requests[r]
  PROVE  Known'
<1>1. /\ \A x \in Sessions : Opened(x) => sessions'[x] # None /\ sessions'[x].user = sessions[x].user
      /\ \A x \in Sessions : sessions'[x] # None => Opened(x)
  BY FollowKeeps
<1> QED BY <1>1, UsersOf, KnownKept DEF Opened

LEMMA RecoverTyped ==
  ASSUME TypeOK, Known, NEW r \in Requests, Recover(r)
  PROVE  TypeOK' /\ Known'
<1> DEFINE q == requests[r]
           old == accounts[q.user]
<1>1. q.user \in Users /\ q.now \in 0 .. MaxTime /\ old \in Account
  BY RecoverDoes
<1>2. old.password \in Nat /\ old.changedAt \in 0 .. MaxTime /\ old.invite \in Invites
  BY <1>1 DEF Account
<1>3. Ends(r) /\ UNCHANGED <<time, invites, sockets, late>>
  BY DEF Recover
<1>4. CASE UNCHANGED <<accounts, sessions, issued, answered, events, collided>>
  <2>1. TypeOK'
    BY <1>3, <1>4, EndsLeaves DEF TypeOK
  <2>2. Known'
    BY <1>3, <1>4, EndsLeaves DEF Known, Registered, Opened
  <2> QED BY <2>1, <2>2
<1>5. ASSUME NEW p \in Nat, NEW t \in 0 .. MaxTime, NEW shown \in BOOLEAN,
             accounts' = [accounts EXCEPT ![q.user] =
               [password |-> p, changedAt |-> t, codes |-> FreshCodes, invite |-> old.invite]],
             sessions' = Revoked(q.user), Issue(shown),
             events' \subseteq Users \cup Sessions, collided' \in BOOLEAN
      PROVE  TypeOK' /\ Known'
  <2>1. Follow(sessions')
    BY <1>1, <1>5, RevokedFollows
  <2>2. /\ accounts' \in [Users -> Account \cup {None}]
        /\ \A w \in Users : Registered(w) => Registered(w)'
    BY <1>1, <1>2, <1>5, NewAccount
  <2>3. sessions' \in [Sessions -> Session \cup {None}]
    BY <2>1 DEF Follow
  <2>4. TypeOK'
    BY <1>3, <1>5, <2>2, <2>3, EndsLeaves, IssueStep DEF TypeOK
  <2>5. Known'
    BY <1>3, <2>1, <2>2, EndsLeaves, FollowTyped
  <2> QED BY <2>4, <2>5
<1>6. PICK p \in Nat : p = old.password + 1
  BY <1>2
<1>7. events \cup {q.user} \subseteq Users \cup Sessions /\ events \subseteq Users \cup Sessions
      /\ collided \in BOOLEAN
  BY <1>1 DEF TypeOK
<1>8. CASE /\ accounts' = [accounts EXCEPT ![q.user] =
                [password |-> old.password + 1, changedAt |-> q.now,
                 codes |-> FreshCodes, invite |-> old.invite]]
           /\ sessions' = Revoked(q.user)
           /\ Issue(TRUE) /\ events' = events \cup {q.user} /\ collided' = collided
  BY <1>1, <1>5, <1>6, <1>7, <1>8
<1>9. CASE /\ accounts' = [accounts EXCEPT ![q.user] =
                [password |-> old.password, changedAt |-> old.changedAt,
                 codes |-> FreshCodes, invite |-> old.invite]]
           /\ sessions' = Revoked(q.user)
           /\ Issue(FALSE) /\ events' = events /\ collided' = TRUE
  BY <1>2, <1>5, <1>7, <1>9
<1> QED BY <1>4, <1>8, <1>9, RecoverDoes

LEMMA LapseTyped ==
  ASSUME TypeOK, Known, NEW s \in Sessions
  PROVE  /\ Logout(s) => TypeOK' /\ Known' /\ Follow(sessions')
         /\ LogoutAll(s) => TypeOK' /\ Known' /\ Follow(sessions')
         /\ Lapse(s) => TypeOK' /\ Known' /\ Follow(sessions')
<1>1. ASSUME Follow(sessions'), UNCHANGED <<time, invites, accounts, requests, issued, answered,
                                           sockets, late, collided>>,
             events' \subseteq Users \cup Sessions
      PROVE  TypeOK' /\ Known' /\ Follow(sessions')
  <2>1. TypeOK'
    BY <1>1 DEF TypeOK, Follow
  <2>2. \A w \in Users : Registered(w) => Registered(w)'
    BY <1>1 DEF Registered
  <2>3. \A r \in Requests : requests'[r] # None => requests'[r] = requests[r]
    BY <1>1
  <2> QED BY <1>1, <2>1, <2>2, <2>3, FollowTyped
<1>2. events \subseteq Users \cup Sessions
  BY DEF TypeOK
<1>3. ASSUME Logout(s) PROVE TypeOK' /\ Known' /\ Follow(sessions')
  BY <1>1, <1>2, <1>3, EndFollows DEF Logout
<1>4. ASSUME LogoutAll(s) PROVE TypeOK' /\ Known' /\ Follow(sessions')
  <2>1. sessions[s].user \in Users
    BY <1>4, UsersOf DEF LogoutAll
  <2> QED BY <1>1, <1>2, <1>4, <2>1, RevokedFollows DEF LogoutAll
<1>5. ASSUME Lapse(s) PROVE TypeOK' /\ Known' /\ Follow(sessions')
  BY <1>1, <1>2, <1>5, EndFollows DEF Lapse
<1> QED BY <1>3, <1>4, <1>5

(* The steps that leave accounts, sessions and requests alone. *)
Aside ==
  \/ \E i \in Invites : CreateInvite(i) \/ RevokeInvite(i) \/ ExpireInvite(i)
  \/ \E s \in Sessions : Accept(s) \/ Revalidate(s)
  \/ \E e \in Users \cup Sessions : Deliver(e)
  \/ Tick
  \/ UNCHANGED vars

LEMMA AsideTyped ==
  ASSUME TypeOK, Known, Aside
  PROVE  TypeOK' /\ Known' /\ UNCHANGED <<accounts, sessions, requests, issued, answered, collided>>
<1>1. UNCHANGED <<accounts, sessions, requests, issued, answered, collided>>
  BY DEF Aside, CreateInvite, RevokeInvite, ExpireInvite, Accept, Revalidate, Deliver, Tick, vars
<1>2. Known'
  BY <1>1 DEF Known, Registered, Opened
<1>3. time' \in 0 .. MaxTime
  BY Limits DEF TypeOK, Aside, CreateInvite, RevokeInvite, ExpireInvite, Accept, Revalidate,
     Deliver, Tick, vars
<1>4. invites' \in [Invites -> {"none", "available", "expired", "used", "revoked"}]
  BY DEF TypeOK, Aside, CreateInvite, RevokeInvite, ExpireInvite, Accept, Revalidate, Deliver,
     Tick, vars
<1>5. sockets' \subseteq Sessions /\ late' \subseteq sockets' /\ events' \subseteq Users \cup Sessions
  BY DEF TypeOK, Aside, CreateInvite, RevokeInvite, ExpireInvite, Accept, Revalidate, Deliver,
     Tick, vars
<1>6. TypeOK'
  BY <1>1, <1>3, <1>4, <1>5 DEF TypeOK
<1> QED BY <1>1, <1>2, <1>6

(* The steps that change requests alone. *)
Reads(r) ==
  \/ \E u \in Users, i \in Invites : BeginRegister(r, u, i)
  \/ \E u \in Users, s \in Sessions \cup {None} : BeginLogin(r, u, s)
  \/ \E u \in Users, c \in Codes \cup {None} : BeginRecover(r, u, c)
  \/ \E s \in Sessions : BeginRegenerate(r, s)
  \/ Fails(r)

LEMMA ReadsTyped ==
  ASSUME TypeOK, Known, NEW r \in Requests, Reads(r)
  PROVE  /\ TypeOK' /\ Known'
         /\ UNCHANGED <<invites, accounts, sessions, issued, answered, sockets, events, late,
                        collided>>
<1>1. UNCHANGED <<time, invites, accounts, sessions, issued, answered, sockets, events, late,
                  collided>>
  BY DEF Reads, BeginRegister, BeginLogin, BeginRecover, BeginRegenerate, Begin, Fails
<1>2. CASE Fails(r)
  <2>1. Ends(r)
    BY <1>2 DEF Fails
  <2>2. TypeOK'
    BY <1>1, <2>1, EndsLeaves DEF TypeOK
  <2>3. Known'
    BY <1>1, <2>1, EndsLeaves DEF Known, Registered, Opened
  <2> QED BY <2>2, <2>3, <1>1
<1>3. CASE ~Fails(r)
  BY <1>1, <1>3, BeginsStep DEF Reads
<1> QED BY <1>2, <1>3

LEMMA Steps ==
  ASSUME [Next]_vars
  PROVE  \/ Aside
         \/ \E s \in Sessions : Logout(s) \/ LogoutAll(s) \/ Lapse(s)
         \/ \E r \in Requests : Reads(r) \/ Recover(r)
         \/ \E r \in Requests, s \in Sessions : Register(r, s) \/ Login(r, s) \/ Regenerate(r, s)
<1>1. CASE UNCHANGED vars
  BY <1>1 DEF Aside
<1>2. CASE Next
  <2>1. CASE \E r \in Requests : Serves(r)
    BY <2>1 DEF Serves, Reads
  <2>2. CASE ~\E r \in Requests : Serves(r)
    BY <1>2, <2>2 DEF Next, Aside
  <2> QED BY <2>1, <2>2
<1> QED BY <1>1, <1>2

LEMMA TypeStep ==
  ASSUME TypeOK, Known, [Next]_vars
  PROVE  TypeOK' /\ Known'
<1>1. CASE Aside
  BY <1>1, AsideTyped
<1>2. CASE \E s \in Sessions : Logout(s) \/ LogoutAll(s) \/ Lapse(s)
  BY <1>2, LapseTyped
<1>3. CASE \E r \in Requests : Reads(r) \/ Recover(r)
  BY <1>3, ReadsTyped, RecoverTyped
<1>4. CASE \E r \in Requests, s \in Sessions : Register(r, s) \/ Login(r, s) \/ Regenerate(r, s)
  BY <1>4, RegisterTyped, LoginTyped, RegenerateTyped
<1> QED BY <1>1, <1>2, <1>3, <1>4, Steps

-----------------------------------------------------------------------------
(* Invites. *)

LEMMA InviteStep ==
  ASSUME TypeOK, Known, InviteSpends, [Next]_vars
  PROVE  InviteSpends'
<1>1. ASSUME UNCHANGED accounts, \A i \in Invites : invites'[i] = "used" <=> invites[i] = "used"
      PROVE  InviteSpends'
  BY <1>1 DEF InviteSpends, Registered
<1>2. CASE Aside
  <2>1. UNCHANGED accounts
    BY <1>2, AsideTyped
  <2>2. \A i \in Invites : invites'[i] = "used" <=> invites[i] = "used"
    BY <1>2 DEF TypeOK, Aside, CreateInvite, RevokeInvite, ExpireInvite, Accept, Revalidate,
       Deliver, Tick, vars
  <2> QED BY <1>1, <2>1, <2>2
<1>3. CASE \E s \in Sessions : Logout(s) \/ LogoutAll(s) \/ Lapse(s)
  <2>1. UNCHANGED <<invites, accounts>>
    BY <1>3 DEF Logout, LogoutAll, Lapse
  <2> QED BY <1>1, <2>1
<1>4. ASSUME NEW r \in Requests, Reads(r) PROVE InviteSpends'
  <2>1. UNCHANGED <<invites, accounts>>
    BY <1>4, ReadsTyped
  <2> QED BY <1>1, <2>1
(* A row changes and keeps its invite. *)
<1>5. ASSUME NEW u \in Users, Registered(u), UNCHANGED invites,
             accounts' = accounts \/ \E row \in Account :
               accounts' = [accounts EXCEPT ![u] = row] /\ row.invite = accounts[u].invite
      PROVE  InviteSpends'
  <2>1. CASE accounts' = accounts
    BY <1>1, <1>5, <2>1
  <2>2. CASE \E row \in Account :
               accounts' = [accounts EXCEPT ![u] = row] /\ row.invite = accounts[u].invite
    <3>1. \A w \in Users : /\ Registered(w)' <=> Registered(w)
                           /\ accounts'[w].invite = accounts[w].invite
      BY <1>5, <2>2, NoneIsNone DEF TypeOK, Registered
    <3> QED BY <1>5, <3>1 DEF InviteSpends
  <2> QED BY <1>5, <2>1, <2>2
<1>6. ASSUME NEW p \in Nat, NEW t \in 0 .. MaxTime, NEW i \in Invites
      PROVE  LET row == [password |-> p, changedAt |-> t, codes |-> FreshCodes, invite |-> i]
             IN  row \in Account /\ row.invite = i
  BY FreshCodesAre DEF Account
<1>7. ASSUME NEW r \in Requests, Recover(r) PROVE InviteSpends'
  <2> DEFINE u == requests[r].user
  <2>1. u \in Users /\ Registered(u) /\ accounts[u] \in Account /\ requests[r].now \in 0 .. MaxTime
    BY <1>7, RecoverDoes
  <2>2. /\ accounts[u].password \in Nat /\ accounts[u].password + 1 \in Nat
        /\ accounts[u].changedAt \in 0 .. MaxTime /\ accounts[u].invite \in Invites
    BY <2>1 DEF Account
  <2>3. UNCHANGED invites
    BY <1>7 DEF Recover
  <2>4. accounts' = accounts \/ \E row \in Account :
          accounts' = [accounts EXCEPT ![u] = row] /\ row.invite = accounts[u].invite
    <3>1. PICK p, t : p = accounts[u].password + 1 /\ t = requests[r].now
      OBVIOUS
    <3>2. PICK one : one = [password |-> p, changedAt |-> t,
                            codes |-> FreshCodes, invite |-> accounts[u].invite]
      OBVIOUS
    <3>9. PICK p2, t2, i : /\ p2 = accounts[u].password /\ t2 = accounts[u].changedAt
                           /\ i = accounts[u].invite
      OBVIOUS
    <3>3. PICK two : two = [password |-> p2, changedAt |-> t2, codes |-> FreshCodes,
                            invite |-> i]
      OBVIOUS
    <3>4. one \in Account /\ one.invite = accounts[u].invite
      BY <1>6, <2>1, <2>2, <3>1, <3>2
    <3>10. p2 \in Nat /\ t2 \in 0 .. MaxTime /\ i \in Invites
      BY <2>2, <3>9
    <3>5. two \in Account /\ two.invite = accounts[u].invite
      BY <1>6, <3>10, <3>3, <3>9
    <3>6. \/ accounts' = [accounts EXCEPT ![u] = one]
          \/ accounts' = [accounts EXCEPT ![u] = two]
          \/ accounts' = accounts
      BY <1>7, <3>1, <3>2, <3>3, <3>9, RecoverDoes
    <3> QED BY <3>4, <3>5, <3>6
  <2> QED BY <1>5, <2>1, <2>3, <2>4
<1>8. ASSUME NEW r \in Requests, NEW s \in Sessions, Regenerate(r, s) PROVE InviteSpends'
  <2> DEFINE u == requests[r].user
  <2>1. u \in Users /\ Registered(u) /\ accounts[u] \in Account
    BY <1>8, RegenerateDoes
  <2>2. /\ accounts[u].password \in Nat
        /\ accounts[u].changedAt \in 0 .. MaxTime /\ accounts[u].invite \in Invites
    BY <2>1 DEF Account
  <2>3. UNCHANGED invites
    BY <1>8 DEF Regenerate
  <2>4. \E row \in Account :
          accounts' = [accounts EXCEPT ![u] = row] /\ row.invite = accounts[u].invite
    <3>1. PICK p, t, i : /\ p = accounts[u].password /\ t = accounts[u].changedAt
                         /\ i = accounts[u].invite
      OBVIOUS
    <3>2. PICK row : row = [password |-> p, changedAt |-> t, codes |-> FreshCodes, invite |-> i]
      OBVIOUS
    <3>5. p \in Nat /\ t \in 0 .. MaxTime /\ i \in Invites
      BY <2>2, <3>1
    <3>3. row \in Account /\ row.invite = i
      BY <1>6, <3>5, <3>2
    <3>4. accounts' = [accounts EXCEPT ![u] = row]
      BY <1>8, <3>1, <3>2, RegenerateDoes
    <3> QED BY <3>1, <3>3, <3>4
  <2> QED BY <1>5, <2>1, <2>3, <2>4
<1>9. ASSUME NEW r \in Requests, NEW s \in Sessions, Login(r, s) PROVE InviteSpends'
  BY <1>1, <1>9 DEF Login
<1>10. ASSUME NEW r \in Requests, NEW s \in Sessions, Register(r, s) PROVE InviteSpends'
  <2>1. PICK u, i, t : u = requests[r].user /\ i = requests[r].invite /\ t = requests[r].now
    OBVIOUS
  <2>2. u \in Users /\ i \in Invites /\ t \in 0 .. MaxTime
    BY <1>10, <2>1, RegisterDoes
  <2>3. CASE UNCHANGED accounts /\ invites' = [invites EXCEPT ![i] =
                                     IF Redeemable(i) THEN "revoked" ELSE @]
    <3>1. \A x \in Invites : invites'[x] = "used" <=> invites[x] = "used"
      BY <2>2, <2>3 DEF TypeOK, Redeemable
    <3> QED BY <1>1, <2>3, <3>1
  <2>4. CASE /\ Redeemable(i) /\ ~Registered(u)
             /\ invites' = [invites EXCEPT ![i] = "used"]
             /\ accounts' = [accounts EXCEPT ![u] =
                  [password |-> 0, changedAt |-> t, codes |-> FreshCodes, invite |-> i]]
    <3>1. PICK row \in Account : /\ row.invite = i /\ row # None
                                 /\ accounts' = [accounts EXCEPT ![u] = row]
      <4>1. 0 \in Nat
        OBVIOUS
      <4> QED BY <1>6, <2>2, <2>4, <4>1, NoneIsNone
    <3>2. \A w \in Users : accounts'[w] = IF w = u THEN row ELSE accounts[w]
      BY <3>1 DEF TypeOK
    <3>3. \A x \in Invites : invites'[x] = IF x = i THEN "used" ELSE invites[x]
      BY <2>4 DEF TypeOK
    <3>4. invites[i] # "used"
      BY <2>4 DEF Redeemable
    <3>5. \A w \in Users : Registered(w) => accounts[w].invite # i
      BY <2>2, <3>4 DEF InviteSpends
    <3>6. \A w \in Users : Registered(w)' <=> w = u \/ Registered(w)
      BY <3>1, <3>2 DEF Registered
    <3>7. \A w \in Users : Registered(w)' =>
             accounts'[w].invite = IF w = u THEN i ELSE accounts[w].invite
      BY <3>1, <3>2
    <3>8. \A v, w \in Users : Registered(v)' /\ Registered(w)'
              /\ accounts'[v].invite = accounts'[w].invite => v = w
      BY <2>2, <3>5, <3>6, <3>7 DEF InviteSpends
    <3>9. \A x \in Invites : invites'[x] = "used" <=>
              \E w \in Users : Registered(w)' /\ accounts'[w].invite = x
      BY <2>2, <2>4, <3>3, <3>5, <3>6, <3>7 DEF InviteSpends
    <3> QED BY <3>8, <3>9 DEF InviteSpends
  <2> QED BY <1>10, <2>1, <2>3, <2>4, RegisterDoes
<1> QED BY <1>2, <1>3, <1>4, <1>7, <1>8, <1>9, <1>10, Steps

-----------------------------------------------------------------------------
(* Passwords. *)

(* Sessions only end, or open with the password of the moment, and a live   *)
(* one keeps the password of its account.                                   *)
LEMMA PasswordsKept ==
  ASSUME TypeOK, OldPasswordEnds, NEW rows, Follow(rows),
         \A s \in Sessions : rows[s] # None /\ rows[s].status = "live" =>
           accounts'[sessions[s].user].password = accounts[sessions[s].user].password,
         \A s \in Sessions : \/ sessions'[s] = rows[s]
                             \/ sessions'[s].timely => sessions'[s].password =
                                                         accounts'[sessions'[s].user].password
  PROVE  OldPasswordEnds'
<1> SUFFICES ASSUME NEW s \in Sessions, Live(s)', sessions'[s].timely
             PROVE  sessions'[s].password = accounts'[sessions'[s].user].password
  BY DEF OldPasswordEnds
<1>1. CASE sessions'[s] = rows[s]
  <2>1. rows[s] # None /\ rows[s].status = "live"
    BY <1>1 DEF Live, Opened
  <2>2. Live(s)
    BY <2>1 DEF Follow, Live, Opened
  <2>3. /\ rows[s].user = sessions[s].user /\ rows[s].password = sessions[s].password
        /\ rows[s].timely = sessions[s].timely
    BY <2>2 DEF Follow, Live, Opened
  <2>4. sessions[s].password = accounts[sessions[s].user].password
    BY <1>1, <2>2, <2>3 DEF OldPasswordEnds
  <2> QED BY <1>1, <2>1, <2>3, <2>4
<1> QED BY <1>1

LEMMA FollowNothing ==
  ASSUME TypeOK
  PROVE  Follow(sessions)
BY DEF TypeOK, Follow

LEMMA PasswordStep ==
  ASSUME TypeOK, Known, OldPasswordEnds, [Next]_vars
  PROVE  OldPasswordEnds'
<1>1. ASSUME UNCHANGED <<accounts, sessions>> PROVE OldPasswordEnds'
  BY <1>1 DEF OldPasswordEnds, Live, Opened
<1>2. CASE Aside
  BY <1>1, <1>2, AsideTyped
<1>3. ASSUME NEW s \in Sessions, Logout(s) \/ LogoutAll(s) \/ Lapse(s) PROVE OldPasswordEnds'
  <2>1. Follow(sessions') /\ accounts' = accounts
    BY <1>3, LapseTyped DEF Logout, LogoutAll, Lapse
  <2> QED BY <2>1, PasswordsKept
<1>4. ASSUME NEW r \in Requests, Reads(r) PROVE OldPasswordEnds'
  BY <1>1, <1>4, ReadsTyped
<1>5. ASSUME NEW r \in Requests, NEW s \in Sessions, Register(r, s) PROVE OldPasswordEnds'
  <2>1. CASE UNCHANGED <<accounts, sessions>>
    BY <1>1, <2>1
  <2>2. ASSUME NEW u \in Users, ~Registered(u), NEW row,
               row.password = 0, accounts' = [accounts EXCEPT ![u] = row],
               NEW opened, opened.user = u, opened.password = 0,
               sessions' = [sessions EXCEPT ![s] = opened]
        PROVE  OldPasswordEnds'
    <3>1. \A x \in Sessions : sessions[x] # None => sessions[x].user \in Users \ {u}
      BY <2>2, UsersOf DEF Known, Opened
    <3>2. \A w \in Users \ {u} : accounts'[w] = accounts[w]
      BY <2>2 DEF TypeOK
    <3>3. accounts'[u].password = 0
      BY <2>2 DEF TypeOK
    <3>4. \A x \in Sessions : sessions'[x] = IF x = s THEN opened ELSE sessions[x]
      BY <2>2 DEF TypeOK
    <3> QED BY <2>2, <3>1, <3>2, <3>3, <3>4, FollowNothing, PasswordsKept
  <2>3. CASE ~UNCHANGED <<accounts, sessions>>
    <3>1. PICK u, i, t : u = requests[r].user /\ i = requests[r].invite /\ t = requests[r].now
      OBVIOUS
    <3>2. PICK row : row = [password |-> 0, changedAt |-> t, codes |-> FreshCodes, invite |-> i]
      OBVIOUS
    <3>3. PICK opened : opened = [user |-> u, password |-> 0, timely |-> TRUE, status |-> "live"]
      OBVIOUS
    <3>4. u \in Users /\ ~Registered(u)
      BY <1>5, <2>3, <3>1, RegisterDoes
    <3>5. /\ accounts' = [accounts EXCEPT ![u] = row]
          /\ sessions' = [sessions EXCEPT ![s] = opened]
      BY <1>5, <2>3, <3>1, <3>2, <3>3, RegisterDoes
    <3>6. row.password = 0 /\ opened.user = u /\ opened.password = 0
      BY <3>2, <3>3
    <3> QED BY <2>2, <3>4, <3>5, <3>6
  <2> QED BY <2>1, <2>3
(* A login, or a regeneration: the session is fresh. *)
<1>6. ASSUME NEW rows, Follow(rows), NEW s \in Sessions, NEW u \in Users, NEW p \in Nat,
             sessions' = [rows EXCEPT ![s] = Fresh(u, p)],
             \A w \in Users : accounts'[w].password = accounts[w].password
      PROVE  OldPasswordEnds'
  <2>1. \A x \in Sessions : sessions'[x] = IF x = s THEN Fresh(u, p) ELSE rows[x]
    BY <1>6 DEF Follow
  <2>2. /\ Fresh(u, p).user = u /\ Fresh(u, p).password = p
        /\ Fresh(u, p).timely => p = accounts[u].password
    BY FreshSession
  <2>3. \A x \in Sessions : sessions[x] # None => sessions[x].user \in Users
    BY UsersOf DEF Opened
  <2>4. \A x \in Sessions : rows[x] # None => sessions[x] # None
    BY <1>6 DEF Follow
  <2> QED BY <1>6, <2>1, <2>2, <2>3, <2>4, PasswordsKept
<1>7. ASSUME NEW r \in Requests, NEW s \in Sessions, Login(r, s) PROVE OldPasswordEnds'
  <2>1. PICK u, p, c : u = requests[r].user /\ p = requests[r].password /\ c = requests[r].current
    OBVIOUS
  <2>2. /\ u \in Users /\ p \in Nat /\ c \in Sessions \cup {None}
        /\ sessions' = [End(sessions, c, "rotated") EXCEPT ![s] = Fresh(u, p)]
    BY <1>7, <2>1, LoginDoes
  <2>3. Follow(End(sessions, c, "rotated"))
    BY <2>2, EndFollows
  <2>4. accounts' = accounts
    BY <1>7 DEF Login
  <2> QED BY <1>6, <2>2, <2>3, <2>4
<1>8. ASSUME NEW r \in Requests, NEW s \in Sessions, Regenerate(r, s) PROVE OldPasswordEnds'
  <2>1. PICK u, p, c : u = requests[r].user /\ p = requests[r].password /\ c = requests[r].current
    OBVIOUS
  <2>2. /\ u \in Users /\ p \in Nat /\ c \in Sessions
        /\ sessions' = [End(sessions, c, "out") EXCEPT ![s] = Fresh(u, p)]
        /\ accounts' = [accounts EXCEPT ![u] =
             [password |-> accounts[u].password, changedAt |-> accounts[u].changedAt,
              codes |-> FreshCodes, invite |-> accounts[u].invite]]
    BY <1>8, <2>1, RegenerateDoes
  <2>3. Follow(End(sessions, c, "out"))
    BY <2>2, EndFollows
  <2>4. \A w \in Users : accounts'[w].password = accounts[w].password
    BY <2>2 DEF TypeOK
  <2> QED BY <1>6, <2>2, <2>3, <2>4
<1>9. ASSUME NEW r \in Requests, Recover(r) PROVE OldPasswordEnds'
  <2>1. CASE UNCHANGED <<accounts, sessions>>
    BY <1>1, <2>1
  <2>2. CASE ~UNCHANGED <<accounts, sessions>>
    <3>1. PICK u : u = requests[r].user
      OBVIOUS
    <3>2. u \in Users /\ sessions' = Revoked(u)
      BY <1>9, <2>2, <3>1, RecoverDoes
    <3>3. \E row : accounts' = [accounts EXCEPT ![u] = row]
      BY <1>9, <3>1 DEF Recover
    <3>4. \A w \in Users \ {u} : accounts'[w] = accounts[w]
      BY <3>3 DEF TypeOK
    <3>5. /\ Follow(Revoked(u))
          /\ \A x \in Sessions : Revoked(u)[x] =
               IF Live(x) /\ sessions[x].user = u THEN [sessions[x] EXCEPT !.status = "out"]
               ELSE sessions[x]
      BY <3>2, RevokedFollows
    <3>6. \A x \in Sessions : Revoked(u)[x] # None /\ Revoked(u)[x].status = "live"
             => sessions[x].user \in Users \ {u}
      <4> SUFFICES ASSUME NEW x \in Sessions, Revoked(u)[x] # None,
                          Revoked(u)[x].status = "live"
                   PROVE  sessions[x].user \in Users \ {u}
        OBVIOUS
      <4>1. sessions[x] # None /\ sessions[x].user \in Users
        BY <3>5, UsersOf DEF Follow, Opened
      <4>2. sessions[x] \in Session
        BY <4>1, Rows DEF Opened
      <4>3. [sessions[x] EXCEPT !.status = "out"].status = "out"
        BY <4>2, StatusChanges
      <4>4. ~(Live(x) /\ sessions[x].user = u)
        BY <3>5, <4>3
      <4>5. Revoked(u)[x] = sessions[x]
        BY <3>5, <4>4
      <4>6. Live(x)
        BY <4>1, <4>5 DEF Live, Opened
      <4> QED BY <4>1, <4>4, <4>6
    <3> QED BY <3>2, <3>4, <3>5, <3>6, PasswordsKept
  <2> QED BY <2>1, <2>2
<1> QED BY <1>2, <1>3, <1>4, <1>5, <1>7, <1>8, <1>9, Steps

-----------------------------------------------------------------------------
(* Recovery codes. *)

(* Whoever has codes has the ones it had, or all those of an issue that is  *)
(* shown.                                                                   *)
LEMMA CodesKept ==
  ASSUME CodesKnown, ~collided' => ~collided, answered \subseteq answered',
         \A u \in Users : Registered(u)' =>
           \/ Registered(u) /\ accounts'[u].codes = accounts[u].codes
           \/ accounts'[u].codes = FreshCodes /\ issued + 1 \in answered'
  PROVE  CodesKnown'
<1> SUFFICES ASSUME ~collided', NEW u \in Users, Registered(u)', NEW c \in accounts'[u].codes
             PROVE  /\ c.issue \in answered'
                    /\ \A d \in accounts'[u].codes : d.issue = c.issue
  BY DEF CodesKnown
<1>1. CASE Registered(u) /\ accounts'[u].codes = accounts[u].codes
  BY <1>1 DEF CodesKnown
<1>2. CASE accounts'[u].codes = FreshCodes /\ issued + 1 \in answered'
  BY <1>2, FreshCodesAre
<1> QED BY <1>1, <1>2

LEMMA CodesStep ==
  ASSUME TypeOK, Known, CodesKnown, [Next]_vars
  PROVE  CodesKnown'
<1>1. ASSUME UNCHANGED <<accounts, answered, collided>> PROVE CodesKnown'
  BY <1>1, CodesKept DEF Registered
<1>2. CASE Aside
  BY <1>1, <1>2, AsideTyped
<1>3. ASSUME NEW s \in Sessions, Logout(s) \/ LogoutAll(s) \/ Lapse(s) PROVE CodesKnown'
  BY <1>1, <1>3 DEF Logout, LogoutAll, Lapse
<1>4. ASSUME NEW r \in Requests, Reads(r) PROVE CodesKnown'
  BY <1>1, <1>4, ReadsTyped
<1>5. ASSUME NEW r \in Requests, NEW s \in Sessions, Login(r, s) PROVE CodesKnown'
  BY <1>1, <1>5 DEF Login
(* An issue, shown to the client. *)
<1>6. ASSUME NEW u \in Users, NEW row, accounts' = [accounts EXCEPT ![u] = row],
             row.codes = FreshCodes, Issue(TRUE), collided' = collided
      PROVE  CodesKnown'
  <2>1. \A w \in Users : accounts'[w] = IF w = u THEN row ELSE accounts[w]
    BY <1>6 DEF TypeOK
  <2>2. issued + 1 \in answered' /\ answered \subseteq answered'
    BY <1>6 DEF Issue
  <2> QED BY <1>6, <2>1, <2>2, CodesKept DEF Registered
<1>7. ASSUME NEW r \in Requests, NEW s \in Sessions, Register(r, s) PROVE CodesKnown'
  <2>1. PICK u, i, t : u = requests[r].user /\ i = requests[r].invite /\ t = requests[r].now
    OBVIOUS
  <2>2. PICK row : row = [password |-> 0, changedAt |-> t, codes |-> FreshCodes, invite |-> i]
    OBVIOUS
  <2>3. u \in Users /\ row.codes = FreshCodes /\ collided' = collided
    BY <1>7, <2>1, <2>2, RegisterDoes DEF Register
  <2>4. \/ accounts' = [accounts EXCEPT ![u] = row] /\ Issue(TRUE)
        \/ UNCHANGED <<accounts, answered>>
    BY <1>7, <2>1, <2>2, RegisterDoes
  <2> QED BY <1>1, <1>6, <2>3, <2>4
<1>8. ASSUME NEW r \in Requests, NEW s \in Sessions, Regenerate(r, s) PROVE CodesKnown'
  <2>1. PICK u, row : /\ u = requests[r].user
                      /\ row = [password |-> accounts[u].password,
                                changedAt |-> accounts[u].changedAt,
                                codes |-> FreshCodes, invite |-> accounts[u].invite]
    OBVIOUS
  <2>2. u \in Users /\ row.codes = FreshCodes /\ collided' = collided
    BY <1>8, <2>1, RegenerateDoes DEF Regenerate
  <2>3. accounts' = [accounts EXCEPT ![u] = row] /\ Issue(TRUE)
    BY <1>8, <2>1, RegenerateDoes
  <2> QED BY <1>6, <2>2, <2>3
<1>9. ASSUME NEW r \in Requests, Recover(r) PROVE CodesKnown'
  <2>1. PICK u, row : /\ u = requests[r].user
                      /\ row = [password |-> accounts[u].password + 1,
                                changedAt |-> requests[r].now,
                                codes |-> FreshCodes, invite |-> accounts[u].invite]
    OBVIOUS
  <2>2. u \in Users /\ row.codes = FreshCodes
    BY <1>9, <2>1, RecoverDoes
  <2>3. \/ accounts' = [accounts EXCEPT ![u] = row] /\ Issue(TRUE) /\ collided' = collided
        \/ collided' = TRUE
        \/ UNCHANGED <<accounts, answered, collided>>
    BY <1>9, <2>1, RecoverDoes
  <2>4. CASE collided' = TRUE
    BY <2>4 DEF CodesKnown
  <2> QED BY <1>1, <1>6, <2>2, <2>3, <2>4
<1> QED BY <1>2, <1>3, <1>4, <1>5, <1>7, <1>8, <1>9, Steps

-----------------------------------------------------------------------------
(* Sockets. *)

(* Sockets and events stay, and a session that a step revokes has its event. *)
LEMMA SocketsKept ==
  ASSUME SocketsEnd, ~collided' => ~collided, UNCHANGED <<sockets, late>>,
         events \subseteq events',
         \A s \in sockets : sessions'[s].status = "out" =>
           \/ sessions[s].status = "out" /\ sessions'[s].user = sessions[s].user
           \/ s \in events' \/ sessions'[s].user \in events'
  PROVE  SocketsEnd'
BY DEF SocketsEnd

(* What the end of one session does to another, for the sockets. *)
LEMMA EndsOne ==
  ASSUME TypeOK, NEW x \in Sessions \cup {None}, NEW status \in {"out", "rotated", "lapsed"},
         NEW s \in Sessions, End(sessions, x, status)[s].status = "out"
  PROVE  \/ sessions[s].status = "out" /\ End(sessions, x, status)[s].user = sessions[s].user
         \/ s = x /\ status = "out"
<1>1. CASE s = x /\ Live(s)
  <2>1. sessions[s] \in Session
    BY <1>1, Rows DEF Live
  <2>2. End(sessions, x, status)[s] = [sessions[s] EXCEPT !.status = status]
    BY <1>1, EndFollows
  <2>3. End(sessions, x, status)[s].status = status
    BY <2>1, <2>2, StatusChanges
  <2> QED BY <1>1, <2>3
<1>2. CASE ~(s = x /\ Live(s))
  BY <1>2, EndFollows
<1> QED BY <1>1, <1>2

LEMMA RevokesAll ==
  ASSUME TypeOK, NEW u \in Users, NEW s \in Sessions, Revoked(u)[s].status = "out"
  PROVE  \/ sessions[s].status = "out" /\ Revoked(u)[s].user = sessions[s].user
         \/ Revoked(u)[s].user = u
<1>1. CASE Live(s) /\ sessions[s].user = u
  <2>1. sessions[s] \in Session
    BY <1>1, Rows DEF Live
  <2>2. Revoked(u)[s] = [sessions[s] EXCEPT !.status = "out"]
    BY <1>1, RevokedFollows
  <2> QED BY <1>1, <2>1, <2>2, StatusChanges
<1>2. CASE ~(Live(s) /\ sessions[s].user = u)
  BY <1>2, RevokedFollows
<1> QED BY <1>1, <1>2

LEMMA SocketsStep ==
  ASSUME TypeOK, Known, SocketsEnd, [Next]_vars
  PROVE  SocketsEnd'
<1>0. sockets \subseteq Sessions
  BY DEF TypeOK
<1>1. ASSUME UNCHANGED <<sessions, sockets, late, events, collided>> PROVE SocketsEnd'
  BY <1>1 DEF SocketsEnd
<1>2. CASE Aside
  <2>1. ASSUME NEW s \in Sessions, Accept(s) PROVE SocketsEnd'
    BY <2>1 DEF Accept, SocketsEnd, Live
  <2>2. ASSUME NEW s \in Sessions, Revalidate(s) PROVE SocketsEnd'
    BY <2>2 DEF Revalidate, SocketsEnd
  <2>3. ASSUME NEW e \in Users \cup Sessions, Deliver(e) PROVE SocketsEnd'
    BY <2>3 DEF Deliver, SocketsEnd
  <2>4. ASSUME NEW i \in Invites, CreateInvite(i) \/ RevokeInvite(i) \/ ExpireInvite(i)
        PROVE  SocketsEnd'
    BY <1>1, <2>4 DEF CreateInvite, RevokeInvite, ExpireInvite
  <2>5. CASE Tick \/ UNCHANGED vars
    BY <1>1, <2>5 DEF Tick, vars
  <2> QED BY <1>2, <2>1, <2>2, <2>3, <2>4, <2>5 DEF Aside
<1>3. ASSUME NEW s \in Sessions, Logout(s) \/ LogoutAll(s) \/ Lapse(s) PROVE SocketsEnd'
  <2>1. CASE Logout(s)
    <3>1. /\ sessions' = End(sessions, s, "out") /\ events' = events \cup {s}
          /\ UNCHANGED <<sockets, late, collided>>
      BY <2>1 DEF Logout
    <3>2. \A x \in sockets : sessions'[x].status = "out" =>
             \/ sessions[x].status = "out" /\ sessions'[x].user = sessions[x].user
             \/ x \in events'
      BY <1>0, <3>1, EndsOne
    <3> QED BY <3>1, <3>2, SocketsKept
  <2>2. CASE LogoutAll(s)
    <3>1. PICK u : u = sessions[s].user
      OBVIOUS
    <3>2. /\ u \in Users /\ sessions' = Revoked(u) /\ events' = events \cup {u}
          /\ UNCHANGED <<sockets, late, collided>>
      BY <2>2, <3>1, UsersOf DEF LogoutAll
    <3>3. \A x \in sockets : sessions'[x].status = "out" =>
             \/ sessions[x].status = "out" /\ sessions'[x].user = sessions[x].user
             \/ sessions'[x].user \in events'
      BY <1>0, <3>2, RevokesAll
    <3> QED BY <3>2, <3>3, SocketsKept
  <2>3. CASE Lapse(s)
    <3>1. /\ sessions' = End(sessions, s, "lapsed") /\ UNCHANGED <<sockets, late, events, collided>>
      BY <2>3 DEF Lapse
    <3>2. \A x \in sockets : sessions'[x].status = "out" =>
             sessions[x].status = "out" /\ sessions'[x].user = sessions[x].user
      BY <1>0, <3>1, EndsOne
    <3> QED BY <3>1, <3>2, SocketsKept
  <2> QED BY <1>3, <2>1, <2>2, <2>3
<1>4. ASSUME NEW r \in Requests, Reads(r) PROVE SocketsEnd'
  BY <1>1, <1>4, ReadsTyped
(* A session opens, live, beside the end of another. *)
<1>5. ASSUME NEW rows, rows \in [Sessions -> Session \cup {None}],
             NEW s \in Sessions, NEW row, row.status = "live",
             sessions' = [rows EXCEPT ![s] = row],
             UNCHANGED <<sockets, late, collided>>, events \subseteq events',
             \A x \in sockets : rows[x].status = "out" =>
               (sessions[x].status = "out" /\ rows[x].user = sessions[x].user) \/ x \in events'
      PROVE  SocketsEnd'
  <2>1. \A x \in Sessions : sessions'[x] = IF x = s THEN row ELSE rows[x]
    BY <1>5
  <2> QED BY <1>0, <1>5, <2>1, SocketsKept
<1>6. ASSUME NEW r \in Requests, NEW s \in Sessions, Register(r, s) PROVE SocketsEnd'
  <2>1. PICK row : row = [user |-> requests[r].user, password |-> 0, timely |-> TRUE,
                          status |-> "live"]
    OBVIOUS
  <2>2. row.status = "live"
    BY <2>1
  <2>3. sessions' = [sessions EXCEPT ![s] = row] \/ sessions' = sessions
    BY <1>6, <2>1, RegisterDoes
  <2>4. UNCHANGED <<sockets, late, events, collided>>
    BY <1>6 DEF Register
  <2>5. sessions \in [Sessions -> Session \cup {None}]
    BY DEF TypeOK
  <2> QED BY <1>1, <1>5, <2>2, <2>3, <2>4, <2>5
<1>7. ASSUME NEW r \in Requests, NEW s \in Sessions, Login(r, s) PROVE SocketsEnd'
  <2>1. PICK u, p, c : u = requests[r].user /\ p = requests[r].password /\ c = requests[r].current
    OBVIOUS
  <2>2. PICK rows : rows = End(sessions, c, "rotated")
    OBVIOUS
  <2>3. /\ u \in Users /\ p \in Nat /\ c \in Sessions \cup {None}
        /\ sessions' = [rows EXCEPT ![s] = Fresh(u, p)]
    BY <1>7, <2>1, <2>2, LoginDoes
  <2>4. UNCHANGED <<sockets, late, events, collided>>
    BY <1>7 DEF Login
  <2>5. \A x \in sockets : rows[x].status = "out" =>
           sessions[x].status = "out" /\ rows[x].user = sessions[x].user
    BY <1>0, <2>2, <2>3, EndsOne
  <2>6. rows \in [Sessions -> Session \cup {None}]
    BY <2>2, <2>3, EndFollows DEF Follow
  <2>7. Fresh(u, p).status = "live"
    BY <2>3, FreshSession
  <2> QED BY <1>5, <2>3, <2>4, <2>5, <2>6, <2>7
<1>8. ASSUME NEW r \in Requests, NEW s \in Sessions, Regenerate(r, s) PROVE SocketsEnd'
  <2>1. PICK u, p, c : u = requests[r].user /\ p = requests[r].password /\ c = requests[r].current
    OBVIOUS
  <2>2. PICK rows : rows = End(sessions, c, "out")
    OBVIOUS
  <2>3. /\ u \in Users /\ p \in Nat /\ c \in Sessions
        /\ sessions' = [rows EXCEPT ![s] = Fresh(u, p)] /\ events' = events \cup {c}
    BY <1>8, <2>1, <2>2, RegenerateDoes
  <2>4. UNCHANGED <<sockets, late, collided>>
    BY <1>8 DEF Regenerate
  <2>5. \A x \in sockets : rows[x].status = "out" =>
           (sessions[x].status = "out" /\ rows[x].user = sessions[x].user) \/ x \in events'
    BY <1>0, <2>2, <2>3, EndsOne
  <2>6. rows \in [Sessions -> Session \cup {None}]
    BY <2>2, <2>3, EndFollows DEF Follow
  <2>7. Fresh(u, p).status = "live"
    BY <2>3, FreshSession
  <2> QED BY <1>5, <2>3, <2>4, <2>5, <2>6, <2>7
<1>9. ASSUME NEW r \in Requests, Recover(r) PROVE SocketsEnd'
  <2>1. PICK u : u = requests[r].user
    OBVIOUS
  <2>2. u \in Users
    BY <1>9, <2>1, RecoverDoes
  <2>3. \/ sessions' = Revoked(u) /\ events' = events \cup {u} /\ collided' = collided
        \/ collided' = TRUE
        \/ UNCHANGED <<sessions, events, collided>>
    BY <1>9, <2>1, RecoverDoes
  <2>4. UNCHANGED <<sockets, late>>
    BY <1>9 DEF Recover
  <2>5. CASE sessions' = Revoked(u) /\ events' = events \cup {u} /\ collided' = collided
    <3>1. \A x \in sockets : sessions'[x].status = "out" =>
             \/ sessions[x].status = "out" /\ sessions'[x].user = sessions[x].user
             \/ sessions'[x].user \in events'
      BY <1>0, <2>2, <2>5, RevokesAll
    <3> QED BY <2>4, <2>5, <3>1, SocketsKept
  <2>6. CASE collided' = TRUE
    BY <2>6 DEF SocketsEnd
  <2>7. CASE UNCHANGED <<sessions, events, collided>>
    BY <1>1, <2>4, <2>7
  <2> QED BY <2>3, <2>5, <2>6, <2>7
<1> QED BY <1>2, <1>3, <1>4, <1>6, <1>7, <1>8, <1>9, Steps

-----------------------------------------------------------------------------
LEMMA Initially == Init => AccountsInv
<1> SUFFICES ASSUME Init PROVE AccountsInv
  OBVIOUS
<1>1. TypeOK
  <2>1. time \in 0 .. MaxTime /\ issued \in 0 .. MaxIssues /\ answered \subseteq 1 .. issued
    BY Limits DEF Init
  <2>2. invites \in [Invites -> {"none", "available", "expired", "used", "revoked"}]
    BY DEF Init
  <2>3. /\ accounts \in [Users -> Account \cup {None}]
        /\ sessions \in [Sessions -> Session \cup {None}]
        /\ requests \in [Requests -> Request \cup {None}]
    BY DEF Init
  <2>4. /\ sockets \subseteq Sessions /\ late \subseteq sockets
        /\ events \subseteq Users \cup Sessions /\ collided \in BOOLEAN
    BY DEF Init
  <2> QED BY <2>1, <2>2, <2>3, <2>4 DEF TypeOK
<1>2. Known /\ OldPasswordEnds /\ CodesKnown /\ SocketsEnd
  BY DEF Init, Known, OldPasswordEnds, CodesKnown, SocketsEnd, Registered, Opened, Live
<1>3. InviteSpends
  BY DEF Init, InviteSpends, Registered
<1> QED BY <1>1, <1>2, <1>3 DEF AccountsInv

LEMMA Inductive == AccountsInv /\ [Next]_vars => AccountsInv'
BY TypeStep, InviteStep, PasswordStep, CodesStep, SocketsStep DEF AccountsInv

LEMMA Invariant == Spec => []AccountsInv
BY Initially, Inductive, PTL DEF Spec

(* The rows of D1, the requests, the sockets and the events keep their      *)
(* types, whatever the users, sessions, invites and codes are.              *)
THEOREM TypeCorrect == Spec => []TypeOK
<1>1. AccountsInv => TypeOK
  BY DEF AccountsInv
<1> QED BY <1>1, Invariant, PTL

(* registerWithInvite, createInvite and revokeInvite: an invite makes one   *)
(* account at most, and is used exactly when it has made one.               *)
THEOREM InvitesSpent == Spec => []InviteSpends
<1>1. AccountsInv => InviteSpends
  BY DEF AccountsInv
<1> QED BY <1>1, Invariant, PTL

(* recoverPassword revokes every session of the account in its batch: none  *)
(* that was opened with a password in time outlives that password.          *)
THEOREM OldPasswordsEnd == Spec => []OldPasswordEnds
<1>1. AccountsInv => OldPasswordEnds
  BY DEF AccountsInv
<1> QED BY <1>1, Invariant, PTL

(* The recovery codes of an account are those that its owner was shown      *)
(* last, all of them of one issue, while no two changes collide.            *)
THEOREM CodesAreKnown == Spec => []CodesKnown
<1>1. AccountsInv => CodesKnown
  BY DEF AccountsInv
<1> QED BY <1>1, Invariant, PTL

(* disconnectSession and disconnectUser: the socket of a revoked session is *)
(* closed, or about to be, unless it was accepted after the revocation.     *)
THEOREM SocketsAreClosed == Spec => []SocketsEnd
<1>1. AccountsInv => SocketsEnd
  BY DEF AccountsInv
<1> QED BY <1>1, Invariant, PTL
=============================================================================
