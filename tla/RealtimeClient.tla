---------------------------- MODULE RealtimeClient ----------------------------
(***************************************************************************)
(* The realtime socket of one tab (src/src/features/rooms/                  *)
(* use-server-realtime.ts, realtime-resume.ts) against the ServerRealtime   *)
(* object: opening a transport, resuming the logical connection under the   *)
(* next epoch, the reconnection timer, the commands that wait for their     *)
(* answer, and what page, network and session do to all of it.  Messages    *)
(* and closes travel; either side may learn of the end of a transport late. *)
(* The server is the one of CallLease, seen from a single tab: what its     *)
(* upgrade, close, call, alarm and refresh handlers do to its connections.  *)
(***************************************************************************)
EXTENDS Naturals, Sequences

CONSTANTS Connections,  \* connectionIds (UUIDs)
          Sockets,      \* transports, a pool: one that both sides ended is reused
          Commands,     \* requestIds (UUIDs), a pool likewise
          Faults,       \* bound: what user, page, network and D1 do unasked
          None

VARIABLES
  client,    \* the refs, the state and the timer of the hook
  stored,    \* the identity in sessionStorage
  sockets,   \* both ends of each transport, and what is under way on it
  records,   \* server: the suspended connections
  pending,   \* the commands that wait for an answer
  told,      \* what came last left the connection "in" or "out" of the call
  revoked,   \* the session of the tab has ended
  saved,     \* server: the attachment that the alarm has read, until D1 answers it
  faults,
  excused,   \* history: connections the server may have lost for the tab
  unexplained,  \* history: those it refused to resume, and for no such reason
  taken,     \* history: those whose call another took, a refresh ended, or a
             \* command changed that was not answered, and the tab does not know
  astray     \* history: those that the alarm put back to what they had been

history == <<excused, unexplained, taken>>
check == <<saved, astray>>
vars == <<client, stored, sockets, records, pending, told, revoked, faults, history, check>>

Identity == [connection : Connections, epoch : Nat]
Carried == [connection : Connections, epoch : Nat, call : BOOLEAN]
Suspended == [epoch : Nat, call : BOOLEAN]
Checked == [socket : Sockets \cup {None}, carries : Carried]
ASSUME NoneIsNone ==
  None \notin Sockets \cup Commands \cup Identity \cup Carried \cup Suspended \cup Checked
ASSUME Bounded == Faults \in Nat

Unused == [client |-> "none", server |-> "none", normal |-> FALSE, broken |-> FALSE,
           asks |-> None, carries |-> None, down |-> <<>>, up |-> <<>>]

Init ==
  /\ client = [active |-> FALSE, unloading |-> FALSE, online |-> TRUE, timer |-> FALSE,
               identity |-> None, current |-> None, settled |-> TRUE, shown |-> "offline"]
  /\ stored = None
  /\ sockets = [k \in Sockets |-> Unused]
  /\ records = [c \in Connections |-> None]
  /\ pending = {} /\ told = "out"
  /\ revoked = FALSE /\ faults = Faults
  /\ excused = {} /\ unexplained = {} /\ taken = {}
  /\ saved = None /\ astray = {}

-----------------------------------------------------------------------------
Fault == faults > 0 /\ faults' = faults - 1
Released(x) == IF x.client = "gone" /\ x.server = "closed" THEN Unused ELSE x
Put(k, x) == sockets' = [sockets EXCEPT ![k] = Released(x)]
Transport ==
  IF client.current = None THEN "gone" ELSE sockets[client.current].client

Open(j) == sockets[j].server = "open"

(* What the server sends on an open socket comes to a client that still listens. *)
Listens(x) == x.client \in {"connecting", "open"} /\ ~x.broken
Sent(x, m) == IF x.server = "open" /\ Listens(x) THEN Append(x.down, m) ELSE x.down

(* The connections the tab may still ask for, and the one the alarm has read. *)
Named(x) == IF x = None THEN {} ELSE {x.connection}
UnderWay == UNION {Named(sockets[k].asks) \cup Named(sockets[k].carries) : k \in Sockets}
Read == IF saved = None THEN {} ELSE Named(saved.carries)
Held == Named(client.identity) \cup Named(stored) \cup UnderWay \cup Read

(* scheduleReconnect: one timer, and none while the browser is offline. *)
Scheduled(x) == [x EXCEPT !.timer = @ \/ (x.active /\ x.online)]

(* Mutant: the epoch of the connection is asked for again. *)
SameEpoch(identity) == identity
NextEpoch(identity) == IF identity = None THEN None ELSE [identity EXCEPT !.epoch = @ + 1]

(* connect, with no transport open or opening: a new one, under the next epoch *)
(* of the connection that is known.  Its predecessor is not listened to.      *)
Connect(before, k) ==
  /\ sockets[k] = Unused
  /\ client' = [before EXCEPT !.current = k, !.settled = FALSE,
                  !.shown = IF before.identity = None THEN "connecting" ELSE "reconnecting"]
  /\ sockets' = [sockets EXCEPT ![k] =
       [Unused EXCEPT !.client = "connecting", !.asks = NextEpoch(before.identity)]]

(* Given up before server.ready was heard: what the server did is not known. *)
Unheard(k) ==
  IF k = client.current /\ ~client.settled /\ sockets[k].asks # None
  THEN {sockets[k].asks.connection} ELSE {}

(* close() by the tab, with its code. *)
Closing(k, normal) ==
  IF k # None /\ sockets[k].client \in {"connecting", "open"}
  THEN /\ sockets' = [sockets EXCEPT ![k].client = "closing", ![k].normal = normal, ![k].down = <<>>]
       /\ excused' = excused \cup Unheard(k)
  ELSE UNCHANGED <<sockets, excused>>

-----------------------------------------------------------------------------
(* The effect starts, for a session of now, with the identity in the storage   *)
(* of the tab; that is too old after a minute.                               *)
Mounts(k) ==
  /\ ~client.active
  /\ Connect([client EXCEPT !.active = TRUE, !.identity = stored], k)
  /\ revoked' = FALSE
  /\ told' = IF stored = None THEN "out" ELSE told
  /\ UNCHANGED <<stored, records, pending, faults, history, check>>

IdentityAges ==
  /\ ~client.active /\ stored # None
  /\ stored' = None
  /\ UNCHANGED <<client, sockets, records, pending, told, revoked, faults, history, check>>

(* The timer fires.  With a transport open, or one that opens, that is all.    *)
TimerFires ==
  LET fired == [client EXCEPT !.timer = FALSE]
  IN /\ client.timer
     /\ \/ /\ Transport \in {"connecting", "open"}
           /\ client' = fired /\ UNCHANGED sockets
        \/ /\ Transport \notin {"connecting", "open"}
           /\ \E k \in Sockets : Connect(fired, k)
     /\ UNCHANGED <<stored, records, pending, told, revoked, faults, history, check>>

(* reconcile of the supervisor, or a command that finds no transport. *)
Reconcile ==
  /\ Fault
  /\ client.active /\ Transport \notin {"connecting", "open"}
  /\ \E k \in Sockets : Connect(client, k)
  /\ UNCHANGED <<stored, records, pending, told, revoked, history, check>>

(* Ten seconds without server.ready: close(4000), and connect returns false. *)
ReadyTimesOut ==
  /\ Fault
  /\ ~client.settled /\ Transport \in {"connecting", "open"}
  /\ client' = Scheduled([client EXCEPT !.settled = TRUE])
  /\ Closing(client.current, FALSE)
  /\ UNCHANGED <<stored, records, pending, told, revoked, unexplained, taken, check>>

(* The close event of a transport: closed here, broken, or ended by the server. *)
CloseEvent(k) ==
  LET s == sockets[k]
  IN /\ s.client \in {"connecting", "open", "closing"}
     /\ \/ s.client = "closing" \/ s.broken
        \/ s.server \in {"closed", "replaced", "cut"} /\ s.down = <<>>
     /\ Put(k, [s EXCEPT !.client = "gone"])
     /\ client' = IF k # client.current THEN client
                  ELSE Scheduled([client EXCEPT !.settled = TRUE, !.shown = "disconnected"])
     /\ excused' = excused \cup Unheard(k)
     /\ UNCHANGED <<stored, records, pending, told, revoked, faults, unexplained, taken, check>>

Opens(k) ==
  /\ sockets[k].client = "connecting" /\ ~sockets[k].broken /\ sockets[k].down # <<>>
  /\ sockets' = [sockets EXCEPT ![k].client = "open"]
  /\ UNCHANGED <<client, stored, records, pending, told, revoked, faults, history, check>>

(* server.ready: the connection is the one it names. *)
Ready(k) ==
  LET c == sockets[k].carries
      now == [connection |-> c.connection, epoch |-> c.epoch]
  IN /\ client' = [client EXCEPT !.identity = now, !.timer = FALSE, !.settled = TRUE,
                                !.shown = "connected"]
     /\ stored' = now
     /\ excused' = excused \cap UnderWay
     /\ told' = IF \/ client.identity # None /\ client.identity.connection = c.connection
                   \/ told = "unknown"
                THEN told ELSE "out"
     /\ UNCHANGED <<pending, taken>>

(* The ids of commands and answers in a queue of messages. *)
Ids(messages) == {messages[n].id : n \in DOMAIN messages} \ {None}
Kinds(messages) == {messages[n].what : n \in DOMAIN messages}

(* call.joined, call.left or call.conflict settles the command, if it waits;    *)
(* call.replaced: another connection has the call.  What a command that was    *)
(* given up may do yet is not known; an eviction settles nothing.            *)
Learns(k, m) ==
  LET rest == Tail(sockets[k].down)
  IN /\ pending' = pending \ {m.id}
     /\ told' = IF ~(Ids(sockets[k].up) \cup Ids(rest) \subseteq pending') THEN "unknown"
                ELSE IF \/ m.what \in {"conflict", "evicted"}
                        \/ m.id \notin pending \cup {None} THEN told
                ELSE IF m.what = "joined" THEN "in" ELSE "out"
     /\ taken' = IF \/ m.what \in {"conflict", "evicted"} \/ ~Open(k)
                    \/ {"replaced", "evicted"} \cap Kinds(rest) # {} THEN taken
                 ELSE taken \ {sockets[k].carries.connection}
     /\ UNCHANGED <<client, stored, excused>>

(* A close with 4003: the identity is forgotten, nothing is scheduled. *)
Ended ==
  /\ client' = [client EXCEPT !.identity = None, !.settled = TRUE, !.shown = "offline"]
  /\ stored' = None
  /\ UNCHANGED <<pending, told, excused, taken>>

(* What comes on a transport that is not the current one is ignored. *)
Hears(k) ==
  LET s == sockets[k]
      m == Head(s.down)
  IN /\ s.client = "open" /\ ~s.broken /\ s.down # <<>>
     /\ Put(k, [s EXCEPT !.down = Tail(@), !.asks = None,
                         !.client = IF m.what = "ended" THEN "gone" ELSE @])
     /\ IF k # client.current THEN UNCHANGED <<client, stored, pending, told, excused, taken>>
        ELSE CASE m.what = "ready" -> Ready(k)
               [] m.what = "ended" -> Ended
               [] OTHER -> Learns(k, m)
     /\ UNCHANGED <<records, revoked, faults, unexplained, check>>

-----------------------------------------------------------------------------
(* joinCall and leaveCall: sent on an open transport, also before it is ready. *)
Send(id, what) ==
  /\ client.active /\ Transport = "open" /\ id \notin pending
  /\ \A k \in Sockets : id \notin Ids(sockets[k].up) \cup Ids(sockets[k].down)
  /\ sockets' = [sockets EXCEPT ![client.current].up =
                    IF sockets[client.current].broken THEN @
                    ELSE Append(@, [what |-> what, id |-> id])]
  /\ pending' = pending \cup {id}
  /\ UNCHANGED <<client, stored, records, told, revoked, faults, history, check>>

(* Eight seconds without an answer: it may have been done, or be done yet. *)
CommandTimesOut(id) ==
  /\ id \in pending
  /\ pending' = pending \ {id} /\ told' = "unknown"
  /\ UNCHANGED <<client, stored, sockets, records, revoked, faults, history, check>>

-----------------------------------------------------------------------------
GoesOffline ==
  /\ Fault /\ client.online
  /\ client' = [client EXCEPT !.online = FALSE]
  /\ UNCHANGED <<stored, sockets, records, pending, told, revoked, history, check>>

(* Mutant: nothing listens for the browser coming back online. *)
OnlineUnnoticed ==
  /\ ~client.online
  /\ client' = [client EXCEPT !.online = TRUE]
  /\ UNCHANGED <<stored, sockets, records, pending, told, revoked, faults, history, check>>

ComesOnline ==
  /\ ~client.online
  /\ client' = Scheduled([client EXCEPT !.online = TRUE])
  /\ UNCHANGED <<stored, sockets, records, pending, told, revoked, faults, history, check>>

(* pagehide closes with 4004; the page may come back from the cache, still      *)
(* marked as unloading, or another document takes its place.                  *)
PageHides ==
  /\ Fault /\ client.active
  /\ client' = [client EXCEPT !.unloading = TRUE]
  /\ Closing(client.current, FALSE)
  /\ UNCHANGED <<stored, records, pending, told, revoked, unexplained, taken, check>>

PageReloads ==
  /\ client.unloading
  /\ client' = [client EXCEPT !.active = FALSE, !.unloading = FALSE, !.timer = FALSE,
                  !.identity = None, !.current = None, !.settled = TRUE, !.shown = "offline"]
  /\ Closing(client.current, FALSE)
  /\ pending' = {} /\ told' = "unknown"
  /\ UNCHANGED <<stored, records, revoked, faults, unexplained, taken, check>>

(* The cleanup of the effect, when the user logs out.  Once the page has been   *)
(* hidden it suspends instead of leaving.                                    *)
Unmounts ==
  /\ Fault /\ client.active
  /\ client' = [client EXCEPT !.active = FALSE, !.timer = FALSE, !.identity = None,
                  !.current = None, !.settled = TRUE, !.shown = "offline"]
  /\ Closing(client.current, ~client.unloading)
  /\ stored' = IF client.unloading THEN stored ELSE None
  /\ pending' = {} /\ told' = "unknown"
  /\ UNCHANGED <<records, revoked, unexplained, taken, check>>

(* The transport breaks: both sides are yet to learn of it. *)
NetworkBreaks(k) ==
  /\ Fault
  /\ sockets[k].client \in {"connecting", "open"} /\ ~sockets[k].broken
  /\ sockets' = [sockets EXCEPT ![k].broken = TRUE, ![k].down = <<>>, ![k].up = <<>>]
  /\ UNCHANGED <<client, stored, records, pending, told, revoked, history, check>>

-----------------------------------------------------------------------------
(* The server: fetch up to its D1 await.  It takes over an open socket of the   *)
(* connection under a later epoch, or its record, or makes a new connection.  *)
Arriving(k) == sockets[k].server = "none" /\ sockets[k].client # "none"
Replaceable(k) ==
  {j \in Sockets : /\ Open(j) /\ sockets[k].asks # None
                   /\ sockets[j].carries.connection = sockets[k].asks.connection
                   /\ sockets[k].asks.epoch > sockets[j].carries.epoch}
From(j) == saved # None /\ saved.socket = j      \* what the alarm has read
Recorded(k) ==
  /\ sockets[k].asks # None /\ records[sockets[k].asks.connection] # None
  /\ sockets[k].asks.epoch > records[sockets[k].asks.connection].epoch
(* Mutant: the call of the connection is not taken over with it. *)
LoadingCalless(k, call) ==
  [sockets[k] EXCEPT !.server = "loading",
     !.carries = [connection |-> sockets[k].asks.connection,
                  epoch |-> sockets[k].asks.epoch, call |-> FALSE]]
Loading(k, call) ==
  [sockets[k] EXCEPT !.server = "loading",
     !.carries = [connection |-> sockets[k].asks.connection,
                  epoch |-> sockets[k].asks.epoch, call |-> call]]

(* Its predecessor is closed with 4002 and its close event has no effect; what  *)
(* the alarm has read of it is of no transport any more.                     *)
FetchReplacing(k) ==
  /\ Arriving(k) /\ ~revoked
  /\ \E j \in Replaceable(k) :
       /\ sockets' = [sockets EXCEPT ![k] = Loading(k, sockets[j].carries.call),
                                     ![j] = [@ EXCEPT !.server = "replaced", !.up = <<>>]]
       /\ saved' = IF From(j) THEN [saved EXCEPT !.socket = None] ELSE saved
  /\ UNCHANGED <<client, stored, records, pending, told, revoked, faults, history, astray>>

FetchResuming(k) ==
  /\ Arriving(k) /\ ~revoked /\ Replaceable(k) = {} /\ Recorded(k)
  /\ LET c == sockets[k].asks.connection
     IN /\ sockets' = [sockets EXCEPT ![k] = Loading(k, records[c].call)]
        /\ records' = [records EXCEPT ![c] = None]
  /\ UNCHANGED <<client, stored, pending, told, revoked, faults, history, check>>

(* crypto.randomUUID(): a connectionId nothing holds; which one does not matter. *)
FreshConnection == CHOOSE c \in Connections : c \notin Held /\ records[c] = None

FetchNew(k) ==
  LET c == FreshConnection
  IN /\ Arriving(k) /\ ~revoked /\ Replaceable(k) = {} /\ ~Recorded(k)
     /\ \E x \in Connections : x \notin Held /\ records[x] = None
     /\ sockets' = [sockets EXCEPT ![k].server = "loading",
                      ![k].carries = [connection |-> c, epoch |-> 1, call |-> FALSE]]
     /\ unexplained' = Named(sockets[k].asks) \ excused
     /\ excused' = excused \ {c} /\ taken' = taken \ {c} /\ astray' = astray \ {c}
     /\ UNCHANGED <<client, stored, records, pending, told, revoked, faults, saved>>

(* 401 after the session has ended; or the request never arrives. *)
NotUpgraded(k) ==
  /\ Arriving(k)
  /\ revoked \/ sockets[k].broken \/ sockets[k].client = "gone"
  /\ Put(k, [sockets[k] EXCEPT !.server = "closed"])
  /\ UNCHANGED <<client, stored, records, pending, told, revoked, faults, history, check>>

(* A message that answers no command. *)
Notice(what) == [what |-> what, id |-> None]

(* D1 answered: the socket is accepted and server.ready sent. *)
Accepts(k) ==
  /\ sockets[k].server = "loading"
  /\ sockets' = [sockets EXCEPT ![k].server = "open",
                    ![k].down = IF Listens(sockets[k]) THEN <<Notice("ready")>> ELSE @]
  /\ UNCHANGED <<client, stored, records, pending, told, revoked, faults, history, check>>

(* D1 failed: what was taken over is lost with the request. *)
AcceptFails(k) ==
  /\ Fault
  /\ sockets[k].server = "loading"
  /\ Put(k, [sockets[k] EXCEPT !.server = "closed"])
  /\ excused' = excused \cup {sockets[k].carries.connection}
  /\ UNCHANGED <<client, stored, records, pending, told, revoked, unexplained, taken, check>>

(* findCallOwner: an open socket of the tab in a call, or else a record; or      *)
(* another device of the account, which may be in the call at any time.       *)
InCallOpen == {j \in Sockets : Open(j) /\ sockets[j].carries.call}
InCallSuspended == {c \in Connections : records[c] # None /\ records[c].call}
Owners == IF InCallOpen = {} THEN InCallSuspended
          ELSE {sockets[j].carries.connection : j \in InCallOpen}

Answering(k, what, call) ==
  [sockets[k] EXCEPT !.up = Tail(@), !.carries.call = call,
     !.down = Sent(sockets[k], [what |-> what, id |-> Head(sockets[k].up).id])]
Ousted(j, what) == [sockets[j] EXCEPT !.carries.call = FALSE,
                                      !.down = Sent(sockets[j], Notice(what))]
Taken(j) == Ousted(j, "replaced")

(* Nothing is sent on one that the server closes, and what came is handled yet. *)
Unanswered(k) == IF Open(k) THEN {} ELSE {sockets[k].carries.connection}

(* call.join, call.takeover and call.leave. *)
Leaves(k) ==
  /\ Head(sockets[k].up).what = "leave"
  /\ sockets' = [sockets EXCEPT ![k] = Answering(k, "left", FALSE)]
  /\ taken' = taken \cup Unanswered(k)
  /\ UNCHANGED <<records, excused>>

Conflicts(k) ==
  /\ Head(sockets[k].up).what = "join"
  /\ sockets' = [sockets EXCEPT ![k] = Answering(k, "conflict", sockets[k].carries.call)]
  /\ taken' = taken \cup Unanswered(k)
  /\ UNCHANGED <<records, excused>>

Joins(k) ==
  /\ \/ Head(sockets[k].up).what = "takeover"
     \/ /\ Head(sockets[k].up).what = "join"
        /\ sockets[k].carries.connection \in Owners \/ Owners = {}
  /\ sockets' = [sockets EXCEPT ![k] = Answering(k, "joined", TRUE)]
  /\ taken' = taken \cup Unanswered(k)
  /\ UNCHANGED <<records, excused>>

TakesOver(k, j) ==
  /\ Head(sockets[k].up).what = "takeover" /\ j \in InCallOpen
  /\ sockets[j].carries.connection # sockets[k].carries.connection
  /\ sockets' = [sockets EXCEPT ![k] = Answering(k, "joined", TRUE), ![j] = Taken(j)]
  /\ taken' = taken \cup Unanswered(k) \cup {sockets[j].carries.connection}
  /\ UNCHANGED <<records, excused>>

TakesOverSuspended(k, c) ==
  /\ Head(sockets[k].up).what = "takeover" /\ InCallOpen = {} /\ c \in InCallSuspended
  /\ sockets[k].carries.connection # c
  /\ sockets' = [sockets EXCEPT ![k] = Answering(k, "joined", TRUE)]
  /\ records' = [records EXCEPT ![c] = None]
  /\ excused' = excused \cup {c}
  /\ taken' = taken \cup Unanswered(k)

Attached(k) == sockets[k].server \in {"open", "closing", "cut"}

ServerHears(k) ==
  /\ Attached(k) /\ sockets[k].up # <<>> /\ ~sockets[k].broken
  /\ \/ Leaves(k) \/ Conflicts(k) \/ Joins(k)
     \/ \E j \in Sockets : TakesOver(k, j)
     \/ \E c \in Connections : TakesOverSuspended(k, c)
  /\ UNCHANGED <<client, stored, pending, told, revoked, faults, unexplained, check>>

(* call.takeover of another device. *)
TakenElsewhere(j) ==
  /\ Fault /\ j \in InCallOpen
  /\ sockets' = [sockets EXCEPT ![j] = Taken(j)]
  /\ taken' = taken \cup {sockets[j].carries.connection}
  /\ UNCHANGED <<client, stored, records, pending, told, revoked, excused, unexplained, check>>

(* refreshSocialState: the room of the call is no longer one of the user's.  An  *)
(* open socket gets call.member.left, which answers no command and of which   *)
(* the tab draws no conclusion.                                              *)
Evicts(j) ==
  /\ Fault /\ Attached(j) /\ sockets[j].carries.call
  /\ sockets' = [sockets EXCEPT ![j] = Ousted(j, "evicted")]
  /\ taken' = taken \cup {sockets[j].carries.connection}
  /\ UNCHANGED <<client, stored, records, pending, told, revoked, excused, unexplained, check>>

EvictsSuspended(c) ==
  /\ Fault /\ c \in InCallSuspended
  /\ records' = [records EXCEPT ![c].call = FALSE]
  /\ taken' = taken \cup {c}
  /\ UNCHANGED <<client, stored, sockets, pending, told, revoked, excused, unexplained, check>>

(* alarm: the attachment of an open socket is read, and D1 is asked for its      *)
(* session.  The answer writes back what was read, or D1 fails.              *)
AlarmReads(k) ==
  /\ Fault /\ saved = None /\ Open(k)
  /\ saved' = [socket |-> k, carries |-> sockets[k].carries]
  /\ UNCHANGED <<client, stored, sockets, records, pending, told, revoked, history, astray>>

AlarmLeaves ==
  /\ saved # None /\ saved' = None
  /\ UNCHANGED <<client, stored, sockets, records, pending, told, revoked, faults, history, astray>>

AlarmWrites(k) ==
  /\ From(k)
  /\ sockets' = [sockets EXCEPT ![k].carries = saved.carries]
  /\ saved' = None
  /\ astray' = IF saved.carries = sockets[k].carries THEN astray
               ELSE astray \cup {saved.carries.connection}
  /\ UNCHANGED <<client, stored, records, pending, told, revoked, faults, history>>

(* What was read of a replaced transport makes it live again: its close event    *)
(* suspends it, beside or instead of its successor.                          *)
AlarmRevives ==
  LET c == saved.carries
  IN /\ From(None)
     /\ records' = [records EXCEPT ![c.connection] = [epoch |-> c.epoch, call |-> c.call]]
     /\ saved' = None /\ astray' = astray \cup {c.connection}
     /\ UNCHANGED <<client, stored, sockets, pending, told, revoked, faults, history>>

(* The server closes one with 4004 (disconnectSession, reconnectable), 1008 or  *)
(* 1009: it suspends it once it learns that it is closed, and resumes it then.  *)
Cuts(k) ==
  /\ Fault /\ Open(k)
  /\ sockets' = [sockets EXCEPT ![k].server = "cut"]
  /\ excused' = excused \cup {sockets[k].carries.connection}
  /\ UNCHANGED <<client, stored, records, pending, told, revoked, unexplained, taken, check>>

(* disconnectSession or the alarm: every open socket is closed with 4003. *)
SessionEnds ==
  /\ Fault /\ ~revoked
  /\ revoked' = TRUE
  /\ sockets' = [k \in Sockets |->
       IF Open(k) THEN [sockets[k] EXCEPT !.server = "closing",
                                          !.down = Sent(sockets[k], Notice("ended"))]
       ELSE sockets[k]]
  /\ excused' = excused \cup {sockets[k].carries.connection : k \in {j \in Sockets : Open(j)}}
  /\ UNCHANGED <<client, stored, records, pending, told, unexplained, taken, check>>

(* webSocketClose, after what was sent before: 1000 and 4003 end the connection,  *)
(* every other code, and a transport that broke, suspends it.                  *)
ServerLoses(k) ==
  LET s == sockets[k]
      c == s.carries.connection
      ends == ~s.broken /\ (s.normal \/ s.server = "closing")
  IN /\ Attached(k)
     /\ s.broken \/ (s.client \in {"closing", "gone"} /\ s.up = <<>>)
     /\ Put(k, [s EXCEPT !.server = "closed", !.carries = None])
     /\ records' = IF ends THEN records
                   ELSE [records EXCEPT ![c] = [epoch |-> s.carries.epoch, call |-> s.carries.call]]
     /\ excused' = IF ends THEN excused \cup {c} ELSE excused
     /\ saved' = IF From(k) THEN None ELSE saved
     /\ UNCHANGED <<client, stored, pending, told, revoked, faults, unexplained, taken, astray>>

(* The close event of one that was replaced.                                *)
ReplacedGoes(k) ==
  /\ sockets[k].server = "replaced"
  /\ sockets[k].broken \/ sockets[k].client \in {"closing", "gone"}
  /\ Put(k, [sockets[k] EXCEPT !.server = "closed", !.carries = None])
  /\ UNCHANGED <<client, stored, records, pending, told, revoked, faults, history, check>>

(* The grace of a suspended connection is over, or another device takes its call. *)
GracePasses(c) ==
  /\ records[c] # None
  /\ records' = [records EXCEPT ![c] = None]
  /\ excused' = excused \cup ({c} \cap Held)
  /\ UNCHANGED <<client, stored, sockets, pending, told, revoked, faults, unexplained, taken, check>>

-----------------------------------------------------------------------------
(* Connected: both ends of the current transport are open. *)
Connected == /\ client.shown = "connected" /\ client.current # None
             /\ sockets[client.current].client = "open" /\ Open(client.current)
             /\ ~sockets[client.current].broken
Excluded == ~client.active \/ ~client.online \/ revoked

Next ==
  \/ \E k \in Sockets : Mounts(k)
  \/ IdentityAges \/ TimerFires \/ Reconcile \/ ReadyTimesOut
  \/ GoesOffline \/ ComesOnline \/ PageHides \/ PageReloads \/ Unmounts
  \/ SessionEnds \/ AlarmLeaves \/ AlarmRevives
  \/ \E id \in Commands : \/ \E what \in {"join", "takeover", "leave"} : Send(id, what)
                          \/ CommandTimesOut(id)
  \/ \E k \in Sockets :
       \/ CloseEvent(k) \/ Opens(k) \/ Hears(k) \/ NetworkBreaks(k)
       \/ FetchReplacing(k) \/ FetchResuming(k) \/ NotUpgraded(k) \/ Accepts(k)
       \/ AcceptFails(k) \/ ServerHears(k) \/ ServerLoses(k) \/ ReplacedGoes(k)
       \/ FetchNew(k) \/ TakenElsewhere(k) \/ Evicts(k) \/ Cuts(k)
       \/ AlarmReads(k) \/ AlarmWrites(k)
  \/ \E c \in Connections : GracePasses(c) \/ EvictsSuspended(c)

(* The timer fires; the browser delivers what came and what closed; the server *)
(* handles what reached it and learns of what ended; D1 answers the alarm; the *)
(* grace passes.                                                             *)
Browser(k) == CloseEvent(k) \/ Opens(k) \/ Hears(k)
Server(k) == \/ FetchReplacing(k) \/ FetchResuming(k) \/ FetchNew(k) \/ NotUpgraded(k)
             \/ Accepts(k) \/ ServerHears(k) \/ ServerLoses(k) \/ ReplacedGoes(k)
Alarm == AlarmLeaves \/ AlarmRevives \/ \E k \in Sockets : AlarmWrites(k)

Fairness ==
  /\ WF_vars(TimerFires)
  /\ WF_vars(\E c \in Connections : GracePasses(c))
  /\ WF_vars(Alarm)
  /\ \A k \in Sockets : WF_vars(Browser(k)) /\ WF_vars(Server(k))

Spec == Init /\ [][Next]_vars /\ Fairness

-----------------------------------------------------------------------------
(* A tab that asks for its connection under the next epoch gets it back: the     *)
(* server denies it only a connection of which the tab gave up a transport       *)
(* before it heard server.ready, whose grace was over, that was ended (1000,   *)
(* 4003) or cut (4004, 1008, 1009), taken over, or lost when D1 failed during  *)
(* its upgrade (use-server-realtime.ts connect, resumeConnection).            *)
Resumes == unexplained = {}

(* Once nothing is under way, the tab is on the connection and epoch it knows,   *)
(* and in the call or out of it as it was last told, across every transport it  *)
(* was resumed on; unless a command that was given up may have been done,       *)
(* another connection took the call and call.replaced was lost with a transport, *)
(* a refresh evicted the tab since it joined, the server handled a command after *)
(* it had closed the transport, or the alarm wrote an old attachment back      *)
(* (settleCommand, resumeConnection, joinCall, alarm).                        *)
InCall ==
  Connected /\ pending = {}
    /\ sockets[client.current].up = <<>> /\ sockets[client.current].down = <<>> =>
    LET c == sockets[client.current].carries
    IN /\ client.identity = [connection |-> c.connection, epoch |-> c.epoch]
       /\ told = "unknown" \/ c.connection \in taken \cup astray \/ (c.call <=> told = "in")

(* A tab that stays mounted, online and in its session is connected in the end,  *)
(* whatever was lost: every failure leaves a timer, an event or a transport     *)
(* behind that brings the next attempt (scheduleReconnect and its callers).    *)
Reconnects == ~Excluded ~> (Connected \/ Excluded)
=============================================================================
