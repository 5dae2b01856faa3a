------------------------------ MODULE Accounts ------------------------------
(***************************************************************************)
(* Accounts, sessions, invites and recovery codes                           *)
(* (src/worker/services/auth-service.ts, invite-service.ts,                 *)
(* src/worker/auth/session.ts, src/worker/routes/auth-routes.ts) and the    *)
(* sockets of a session, which ServerRealtime closes when it is told that   *)
(* the session has ended.  A request reads D1, computes hashes, and writes  *)
(* one batch; anything may happen between the read and the batch.           *)
(***************************************************************************)
EXTENDS Naturals

CONSTANTS Users, Sessions, Invites, Requests,
          Slots,              \* the codes of one issue
          MaxIssues,          \* bound on the issues of recovery codes
          MaxTime,            \* bound on the clock
          None

ASSUME Limits == MaxIssues \in Nat /\ MaxTime \in Nat
ASSUME Apart == Users \cap Sessions = {}

VARIABLES
  time,         \* the clock, in the milliseconds that a timestamp tells apart
  invites,      \* the state of each invite
  accounts,     \* the row of each username, None before it is registered
  sessions,     \* the row of each session, None before it is opened
  requests,     \* what a request in flight has read
  issued,       \* the issues of recovery codes so far
  answered,     \* history: the issues that were shown to a client
  sockets,      \* the sessions that have an open socket
  events,       \* disconnectSession and disconnectUser on their way
  late,         \* history: the sockets that were opened after their session ended
  collided      \* history: a failed recovery in the millisecond of another

vars == <<time, invites, accounts, sessions, requests, issued, answered,
          sockets, events, late, collided>>

Codes == [issue : 1 .. MaxIssues, slot : Slots]
FreshCodes == {c \in Codes : c.issue = issued + 1}

Account == [password : Nat, changedAt : 0 .. MaxTime, codes : SUBSET Codes, invite : Invites]

(* password and timely: which password opened it, and whether it still was  *)
(* the password then.  A session is out when it is revoked with an event,   *)
(* rotated when login replaces it.                                          *)
Session == [user : Users, password : Nat, timely : BOOLEAN,
            status : {"live", "out", "rotated", "lapsed"}]

Request ==
  [kind : {"register"}, user : Users, invite : Invites, now : 0 .. MaxTime]
  \cup [kind : {"login"}, user : Users, password : Nat, current : Sessions \cup {None}]
  \cup [kind : {"recover"}, user : Users, code : Codes \cup {None}, now : 0 .. MaxTime]
  \cup [kind : {"regenerate"}, user : Users, password : Nat, current : Sessions]

ASSUME NoneIsNone == None \notin Account /\ None \notin Session /\ None \notin Request
                     /\ None \notin Sessions

Registered(u) == accounts[u] # None
Opened(s) == sessions[s] # None
Live(s) == Opened(s) /\ sessions[s].status = "live"
Is(r, kind) == requests[r] # None /\ requests[r].kind = kind

(* Every live session of u, with its new status. *)
Revoked(u) == [s \in Sessions |-> IF Live(s) /\ sessions[s].user = u
                                  THEN [sessions[s] EXCEPT !.status = "out"] ELSE sessions[s]]

End(rows, s, status) ==
  IF s # None /\ rows[s] # None /\ rows[s].status = "live"
  THEN [rows EXCEPT ![s].status = status] ELSE rows

(* createSessionValues and its INSERT. *)
Fresh(u, password) == [user |-> u, password |-> password,
                       timely |-> password = accounts[u].password, status |-> "live"]

Init ==
  /\ time = 0
  /\ invites = [i \in Invites |-> "none"]
  /\ accounts = [u \in Users |-> None]
  /\ sessions = [s \in Sessions |-> None]
  /\ requests = [r \in Requests |-> None]
  /\ issued = 0 /\ answered = {}
  /\ sockets = {} /\ events = {} /\ late = {} /\ collided = FALSE

-----------------------------------------------------------------------------
Begin(r, request) ==
  /\ requests[r] = None
  /\ requests' = [requests EXCEPT ![r] = request]
  /\ UNCHANGED <<time, invites, accounts, sessions, issued, answered, sockets, events, late,
                 collided>>

Ends(r) == requests' = [requests EXCEPT ![r] = None]

IssueAgain(shown) ==      \* Mutant: an issue repeats the codes of the one before.
  /\ issued < MaxIssues
  /\ answered' = IF shown THEN answered \cup {issued + 1} ELSE answered
  /\ UNCHANGED issued

(* The codes of a batch are shown to the client that sent it, if it answers. *)
Issue(shown) == /\ issued < MaxIssues
                /\ issued' = issued + 1
                /\ answered' = IF shown THEN answered \cup {issued + 1} ELSE answered

-----------------------------------------------------------------------------
(* createInvite, or the script that makes the first one. *)
CreateInvite(i) ==
  /\ invites[i] = "none"
  /\ invites' = [invites EXCEPT ![i] = "available"]
  /\ UNCHANGED <<time, accounts, sessions, requests, issued, answered, sockets, events, late,
                 collided>>

RevokeInvite(i) ==
  /\ invites[i] # "none"
  /\ invites' = [invites EXCEPT ![i] = IF @ \in {"available", "expired"} THEN "revoked" ELSE @]
  /\ UNCHANGED <<time, accounts, sessions, requests, issued, answered, sockets, events, late,
                 collided>>

ExpireInvite(i) ==
  /\ invites[i] = "available"
  /\ invites' = [invites EXCEPT ![i] = "expired"]
  /\ UNCHANGED <<time, accounts, sessions, requests, issued, answered, sockets, events, late,
                 collided>>

BeginRegister(r, u, i) ==
  /\ invites[i] = "available"
  /\ Begin(r, [kind |-> "register", user |-> u, invite |-> i, now |-> time])

RedeemableAny(i) == invites[i] # "none"      \* Mutant: the batch trusts the first read.

(* The batch compares expires_at with the time of the first read.           *)
Redeemable(i) == invites[i] \in {"available", "expired"}

(* The account, its codes and its session, or the end of the invite: a      *)
(* username that was taken meanwhile revokes it.                            *)
Register(r, s) ==
  LET q == requests[r]
      created == Redeemable(q.invite) /\ ~Registered(q.user)
  IN  /\ Is(r, "register") /\ ~Opened(s)
      /\ Ends(r)
      /\ invites' = [invites EXCEPT ![q.invite] =
                       IF created THEN "used" ELSE IF Redeemable(q.invite) THEN "revoked" ELSE @]
      /\ accounts' = IF created
                     THEN [accounts EXCEPT ![q.user] =
                             [password |-> 0, changedAt |-> q.now, codes |-> FreshCodes,
                              invite |-> q.invite]]
                     ELSE accounts
      /\ sessions' = IF created
                     THEN [sessions EXCEPT ![s] = [user |-> q.user, password |-> 0,
                                                   timely |-> TRUE, status |-> "live"]]
                     ELSE sessions
      /\ IF created THEN Issue(TRUE) ELSE UNCHANGED <<issued, answered>>
      /\ UNCHANGED <<time, sockets, events, late, collided>>

-----------------------------------------------------------------------------
(* findUserByUsername and the verification of the password it returned;     *)
(* current is the session of the cookie, if there is one.                   *)
BeginLogin(r, u, current) ==
  /\ Registered(u)
  /\ Begin(r, [kind |-> "login", user |-> u, password |-> accounts[u].password,
               current |-> current])

Login(r, s) ==
  LET q == requests[r]
  IN  /\ Is(r, "login") /\ ~Opened(s)
      /\ Ends(r)
      /\ sessions' = [End(sessions, q.current, "rotated") EXCEPT ![s] = Fresh(q.user, q.password)]
      /\ UNCHANGED <<time, invites, accounts, issued, answered, sockets, events, late, collided>>

-----------------------------------------------------------------------------
(* A code that was issued, or a wrong one; now is read before the hashes. *)
BeginRecover(r, u, c) ==
  /\ Registered(u) /\ (c # None => c.issue <= issued)
  /\ Begin(r, [kind |-> "recover", user |-> u, code |-> c, now |-> time])

(* Another recovery, or the registration, was in the same millisecond. *)
Coincides(q) == accounts[q.user].changedAt = q.now

MarkedBefore(q, valid) == Coincides(q)   \* Mutant: the batch looks for an older change.
MarkedAlways(q, valid) == TRUE           \* Mutant: the batch does not look.

(* The later statements of the batch look for password_changed_at = now.    *)
Marked(q, valid) == valid \/ Coincides(q)

Recover(r) ==
  LET q == requests[r]
      valid == q.code # None /\ q.code \in accounts[q.user].codes
      marked == Marked(q, valid)
  IN  /\ Is(r, "recover")
      /\ Ends(r)
      /\ accounts' =
           [accounts EXCEPT ![q.user] =
              [password |-> IF valid THEN @.password + 1 ELSE @.password,
               changedAt |-> IF valid THEN q.now ELSE @.changedAt,
               codes |-> IF marked THEN FreshCodes ELSE @.codes,
               invite |-> @.invite]]
      /\ sessions' = IF marked THEN Revoked(q.user) ELSE sessions
      /\ IF marked THEN Issue(valid) ELSE UNCHANGED <<issued, answered>>
      /\ events' = IF valid THEN events \cup {q.user} ELSE events
      /\ collided' = (collided \/ (Coincides(q) /\ ~valid))
      /\ UNCHANGED <<time, invites, sockets, late>>

-----------------------------------------------------------------------------
(* requireSession, then the verification of the password.  The session was  *)
(* live when it was read.                                                   *)
BeginRegenerate(r, current) ==
  /\ Opened(current)
  /\ Begin(r, [kind |-> "regenerate", user |-> sessions[current].user,
               password |-> accounts[sessions[current].user].password, current |-> current])

RegenerateSilently(r, s) ==      \* Mutant: the sockets of the old session are not closed.
  LET q == requests[r]
  IN  /\ Is(r, "regenerate") /\ ~Opened(s)
      /\ Ends(r)
      /\ accounts' = [accounts EXCEPT ![q.user].codes = FreshCodes]
      /\ sessions' = [End(sessions, q.current, "out") EXCEPT ![s] = Fresh(q.user, q.password)]
      /\ Issue(TRUE)
      /\ UNCHANGED <<time, invites, events, sockets, late, collided>>

Regenerate(r, s) ==
  LET q == requests[r]
  IN  /\ Is(r, "regenerate") /\ ~Opened(s)
      /\ Ends(r)
      /\ accounts' = [accounts EXCEPT ![q.user].codes = FreshCodes]
      /\ sessions' = [End(sessions, q.current, "out") EXCEPT ![s] = Fresh(q.user, q.password)]
      /\ Issue(TRUE)
      /\ events' = events \cup {q.current}
      /\ UNCHANGED <<time, invites, sockets, late, collided>>

(* A wrong password, or a batch that D1 rejects. *)
Fails(r) ==
  /\ requests[r] # None
  /\ Ends(r)
  /\ UNCHANGED <<time, invites, accounts, sessions, issued, answered, sockets, events, late,
                 collided>>

-----------------------------------------------------------------------------
(* The session was live when it was read. *)
Logout(s) ==
  /\ Opened(s)
  /\ sessions' = End(sessions, s, "out")
  /\ events' = events \cup {s}
  /\ UNCHANGED <<time, invites, accounts, requests, issued, answered, sockets, late, collided>>

LogoutAll(s) ==
  /\ Opened(s)
  /\ sessions' = Revoked(sessions[s].user)
  /\ events' = events \cup {sessions[s].user}
  /\ UNCHANGED <<time, invites, accounts, requests, issued, answered, sockets, late, collided>>

(* expires_at or the idle limit passes. *)
Lapse(s) ==
  /\ Live(s)
  /\ sessions' = End(sessions, s, "lapsed")
  /\ UNCHANGED <<time, invites, accounts, requests, issued, answered, sockets, events, late,
                 collided>>

-----------------------------------------------------------------------------
(* ServerRealtime accepts an upgrade whose session was live when read. *)
Accept(s) ==
  /\ Opened(s)
  /\ sockets' = sockets \cup {s}
  /\ late' = IF Live(s) THEN late ELSE late \cup {s}
  /\ UNCHANGED <<time, invites, accounts, sessions, requests, issued, answered, events, collided>>

Deliver(e) ==
  /\ e \in events
  /\ events' = events \ {e}
  /\ sockets' = {s \in sockets : s # e /\ sessions[s].user # e}
  /\ late' = late \cap sockets'
  /\ UNCHANGED <<time, invites, accounts, sessions, requests, issued, answered, collided>>

(* The alarm of ServerRealtime, at the limit of the session; or the client. *)
Revalidate(s) ==
  /\ s \in sockets /\ ~Live(s)
  /\ sockets' = sockets \ {s} /\ late' = late \ {s}
  /\ UNCHANGED <<time, invites, accounts, sessions, requests, issued, answered, events, collided>>

Tick ==
  /\ time < MaxTime
  /\ time' = time + 1
  /\ UNCHANGED <<invites, accounts, sessions, requests, issued, answered, sockets, events, late,
                 collided>>

-----------------------------------------------------------------------------
Serves(r) ==
  \/ \E u \in Users, i \in Invites : BeginRegister(r, u, i)
  \/ \E u \in Users, s \in Sessions \cup {None} : BeginLogin(r, u, s)
  \/ \E u \in Users, c \in Codes \cup {None} : BeginRecover(r, u, c)
  \/ \E s \in Sessions : \/ BeginRegenerate(r, s)
                         \/ Register(r, s) \/ Login(r, s) \/ Regenerate(r, s)
  \/ Recover(r) \/ Fails(r)

Next ==
  \/ \E i \in Invites : CreateInvite(i) \/ RevokeInvite(i) \/ ExpireInvite(i)
  \/ \E r \in Requests : Serves(r)
  \/ \E s \in Sessions : Logout(s) \/ LogoutAll(s) \/ Lapse(s) \/ Accept(s) \/ Revalidate(s)
  \/ \E e \in Users \cup Sessions : Deliver(e)
  \/ Tick

Spec == Init /\ [][Next]_vars

-----------------------------------------------------------------------------
TypeOK ==
  /\ time \in 0 .. MaxTime
  /\ invites \in [Invites -> {"none", "available", "expired", "used", "revoked"}]
  /\ accounts \in [Users -> Account \cup {None}]
  /\ sessions \in [Sessions -> Session \cup {None}]
  /\ requests \in [Requests -> Request \cup {None}]
  /\ issued \in 0 .. MaxIssues /\ answered \subseteq 1 .. issued
  /\ sockets \subseteq Sessions /\ late \subseteq sockets
  /\ events \subseteq Users \cup Sessions
  /\ collided \in BOOLEAN

(* An invite makes one account and is used then, whatever registrations,    *)
(* revocations and expiries run at once (docs/authentication.md: cadastro e *)
(* consumo são condicionais no mesmo batch).                                *)
InviteSpends ==
  /\ \A u, w \in Users : Registered(u) /\ Registered(w) /\ accounts[u].invite = accounts[w].invite
                           => u = w
  /\ \A i \in Invites : invites[i] = "used" <=>
                          \E u \in Users : Registered(u) /\ accounts[u].invite = i

(* No session outlives a change of the password that opened it, but for one *)
(* whose login or regeneration had read the old password before the change. *)
OldPasswordEnds ==
  \A s \in Sessions : Live(s) /\ sessions[s].timely =>
    sessions[s].password = accounts[sessions[s].user].password

(* The codes of an account are of one issue, and its owner was shown them,  *)
(* unless a recovery failed in the millisecond in which another succeeded.  *)
CodesKnown ==
  ~collided => \A u \in Users : Registered(u) =>
    \A c \in accounts[u].codes :
      /\ c.issue \in answered
      /\ \A d \in accounts[u].codes : d.issue = c.issue

(* The sockets of a revoked session are closed, or the event that closes    *)
(* them is on its way, but for an upgrade accepted after the revocation.    *)
SocketsEnd ==
  ~collided => \A s \in sockets : sessions[s].status = "out" =>
    s \in late \/ s \in events \/ sessions[s].user \in events
=============================================================================
