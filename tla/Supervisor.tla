----------------------------- MODULE Supervisor -----------------------------
(***************************************************************************)
(* ConnectionSupervisor (src/src/features/call/connection-supervisor.ts)    *)
(* and the hook that feeds it                                               *)
(* (src/src/features/call/use-call-connection-supervisor.ts).  The hook     *)
(* reports what a render observed of socket, peer and voice, and asks for a *)
(* recovery; the supervisor runs one after a delay, and again after each    *)
(* failure.  Timers fire at any time and recoveries settle at any time,     *)
(* those of an abandoned generation too.                                    *)
(***************************************************************************)
EXTENDS Naturals

CONSTANTS Snapshots,        \* what a render may observe
          Timers,           \* timer handles, a finite pool
          Recoveries,       \* recover() calls in flight, a finite pool
          MaxAttempts,      \* MAX_RECOVERY_ATTEMPTS
          MaxGeneration,    \* bound on generation
          None

Snapshot == [active : BOOLEAN, networkOnline : BOOLEAN,
             socketState : {"connected", "connecting", "disconnected"},
             peerState : {"connected", "disconnected", "failed"},
             voice : {"idle", "joining", "connected", "reconnecting"},
             control : BOOLEAN]     \* reconciliationNeeded

ASSUME Observations == Snapshots \subseteq Snapshot
ASSUME Bounds == MaxAttempts \in Nat \ {0} /\ MaxGeneration \in Nat
ASSUME NoneIsNone ==
  None \notin Nat \cup Timers /\ None \notin [generation : Nat, silent : BOOLEAN]

VARIABLES
  sup,            \* the fields of the supervisor, and the state it reported
  timers,         \* the generation of each timer that has been set
  recoveries,     \* the recoveries in flight
  asked,          \* history: a request nothing has been done about yet
  crossed         \* history: a stale recovery settled during a current one

vars == <<sup, timers, recoveries, asked, crossed>>

Reasons == {"silent", "loud"}        \* control-operation-pending, and the others

States == {"idle", "connecting", "connected", "degraded", "reconnecting", "suspended",
           "recovering", "disconnecting", "disconnected", "failed"}

Fields == [health : Snapshot, left : BOOLEAN, generation : Nat, attempt : Nat,
           exhausted : BOOLEAN, pending : Reasons \cup {None},
           timer : Timers \cup {None}, running : BOOLEAN, state : States]

(* A recovery began in a generation up to g. *)
Recovery(g) == [generation : 0 .. g, silent : BOOLEAN]

Unobserved == [active |-> FALSE, networkOnline |-> TRUE, socketState |-> "disconnected",
               peerState |-> "connected", voice |-> "idle", control |-> FALSE]

VoiceExpected(h) == h.voice # "idle"
VoiceConnected(h) == h.voice \in {"connected", "reconnecting"}

(* deriveCallConnectionState: the first case that applies. *)
Derived(h) ==
  CASE ~h.active -> "idle"
    [] h.active /\ ~h.networkOnline -> "suspended"
    [] h.active /\ h.networkOnline /\ h.socketState # "connected" ->
         IF VoiceConnected(h) /\ h.peerState = "connected" THEN "degraded" ELSE "reconnecting"
    [] OTHER ->
         IF ~VoiceExpected(h) THEN "connected"
         ELSE IF ~VoiceConnected(h) THEN "connecting"
         ELSE CASE h.peerState = "failed" -> "reconnecting"
                [] h.peerState = "disconnected" -> "degraded"
                [] OTHER -> "connected"

Current == {r \in Recoveries : recoveries[r] # None /\ recoveries[r].generation = sup.generation}
Armed == {t \in Timers : timers[t] = sup.generation}
Free(pool, used) == {x \in pool : used[x] = None}

-----------------------------------------------------------------------------
(* The methods, each from the fields before it to the fields after it.      *)
UpdateHealthAlways(s, h) ==   \* Mutant: a disconnect is reported over.
  LET seen == [s EXCEPT !.health = h]
  IN  IF ~h.active THEN seen
      ELSE [seen EXCEPT !.state = IF s.exhausted THEN "failed" ELSE Derived(h)]

UpdateHealth(s, h) ==
  LET seen == [s EXCEPT !.health = h]
  IN  IF ~h.active \/ s.left THEN seen
      ELSE [seen EXCEPT !.state = IF s.exhausted THEN "failed" ELSE Derived(h)]

AcceptsExhausted(s) == s.health.active /\ ~s.left   \* Mutant.

Accepts(s) == s.health.active /\ ~s.exhausted /\ ~s.left

(* Mutant: only a timer keeps a request from being scheduled. *)
RequestDuring(s, reason, t) ==
  IF ~Accepts(s) THEN s
  ELSE [s EXCEPT !.pending = reason, !.timer = IF @ # None THEN @ ELSE t]

(* scheduleRecovery is due when the request finds neither timer nor run.    *)
RequestRecovery(s, reason, t) ==
  IF ~Accepts(s) THEN s
  ELSE [s EXCEPT !.pending = reason,
                 !.timer = IF s.running \/ @ # None THEN @ ELSE t]

(* Mutant: a resumption takes the generation of a disconnect back. *)
ResumedBack(s) ==
  [s EXCEPT !.left = FALSE, !.generation = @ - 1, !.attempt = 0,
            !.exhausted = FALSE, !.state = Derived(s.health)]

Resumed(s) ==
  [s EXCEPT !.left = FALSE, !.generation = @ + 1, !.attempt = 0,
            !.exhausted = FALSE, !.state = Derived(s.health)]

(* The timers after the fields went from s to next: a new handle is set with *)
(* the generation it was set in, g; a handle that is dropped stays set.     *)
SetTimer(s, next, g) ==
  timers' = IF next.timer # s.timer /\ next.timer # None
            THEN [timers EXCEPT ![next.timer] = g] ELSE timers

(* A timer or a run of an abandoned generation keeps a request from being   *)
(* scheduled: the request then waits for the next one.                      *)
Blocked(s) == \/ s.timer # None /\ timers[s.timer] # s.generation
              \/ s.running /\ \A r \in Recoveries :
                   recoveries[r] # None => recoveries[r].generation # s.generation

Heard(s) == Accepts(s) /\ ~Blocked(s)

-----------------------------------------------------------------------------
Init ==
  /\ sup = [health |-> Unobserved, left |-> FALSE, generation |-> 0, attempt |-> 0,
            exhausted |-> FALSE, pending |-> None, timer |-> None, running |-> FALSE,
            state |-> "idle"]
  /\ timers = [t \in Timers |-> None]
  /\ recoveries = [r \in Recoveries |-> None]
  /\ asked = FALSE /\ crossed = FALSE

-----------------------------------------------------------------------------
(* The effects of a render, in their order: a join resumes the supervisor,  *)
(* the health is updated, recoveries are asked for, and a session that has  *)
(* become active resumes it again.                                          *)
Joining(h) == sup.health.voice = "idle" /\ h.voice = "joining"
Activated(h) == ~sup.health.active /\ h.active

MediaReason(h) ==
  CASE h.control -> "silent"
    [] ~h.control /\ (h.peerState # "connected" \/ h.voice = "reconnecting") -> "loud"
    [] OTHER -> None

Requests(h) == h.active /\ (h.socketState = "disconnected" \/ MediaReason(h) # None)

Requested(s, h, t) ==
  LET socket == IF h.socketState = "disconnected" THEN RequestRecovery(s, "loud", t) ELSE s
  IN  IF ~Requests(h) THEN s
      ELSE IF MediaReason(h) # None THEN RequestRecovery(socket, MediaReason(h), t) ELSE socket

Observe(h, t) ==
  LET joined == IF Joining(h) THEN Resumed(sup) ELSE sup
      updated == UpdateHealth(joined, h)
      requested == Requested(updated, h, t)
      last == IF Activated(h) THEN Resumed(requested) ELSE requested
  IN  /\ h # sup.health
      /\ last.generation <= MaxGeneration
      /\ sup' = last
      /\ SetTimer(sup, requested, requested.generation)
      /\ asked' = /\ ~Activated(h)
                  /\ (asked /\ ~Joining(h)) \/ (Requests(h) /\ Heard(updated))
      /\ UNCHANGED <<recoveries, crossed>>

(* visibilitychange to visible, pageshow, resume and online.                *)
Lifecycle(online, t) ==
  LET updated == UpdateHealth(sup, [sup.health EXCEPT !.networkOnline = online])
      requested == RequestRecovery(updated, "loud", t)
  IN  /\ sup.health.active
      /\ sup' = requested
      /\ SetTimer(sup, requested, sup.generation)
      /\ asked' = (asked \/ Heard(updated))
      /\ UNCHANGED <<recoveries, crossed>>

(* offline and visibilitychange to hidden. *)
Notice(online) ==
  /\ sup.health.active /\ online \in {FALSE, sup.health.networkOnline}
  /\ sup' = UpdateHealth(sup, [sup.health EXCEPT !.networkOnline = online])
  /\ UNCHANGED <<timers, recoveries, asked, crossed>>

-----------------------------------------------------------------------------
Disconnect ==
  /\ sup.generation < MaxGeneration
  /\ sup' = [sup EXCEPT !.left = TRUE, !.generation = @ + 1, !.running = FALSE,
                        !.pending = None, !.timer = None, !.state = "disconnecting"]
  /\ timers' = IF sup.timer # None THEN [timers EXCEPT ![sup.timer] = None] ELSE timers
  /\ asked' = FALSE
  /\ UNCHANGED <<recoveries, crossed>>

Disconnected ==
  /\ sup.left
  /\ sup' = [sup EXCEPT !.state = "disconnected"]
  /\ UNCHANGED <<timers, recoveries, asked, crossed>>

Resume ==
  /\ sup.generation < MaxGeneration
  /\ sup' = Resumed(sup)
  /\ asked' = FALSE
  /\ UNCHANGED <<timers, recoveries, crossed>>

-----------------------------------------------------------------------------
(* A timer fires.  One of another generation only frees the handle.         *)
Stale(g) == g # sup.generation \/ sup.left

TimerStale(t) ==
  /\ timers[t] # None /\ Stale(timers[t])
  /\ timers' = [timers EXCEPT ![t] = None]
  /\ sup' = [sup EXCEPT !.timer = None]
  /\ UNCHANGED <<recoveries, asked, crossed>>

Silent == sup.pending = "silent"

RunRecovery(t, r) ==
  /\ timers[t] # None /\ ~Stale(timers[t])
  /\ recoveries[r] = None
  /\ timers' = [timers EXCEPT ![t] = None]
  /\ recoveries' = [recoveries EXCEPT ![r] = [generation |-> sup.generation, silent |-> Silent]]
  /\ sup' = [sup EXCEPT !.timer = None, !.running = TRUE, !.pending = None,
                        !.state = IF Silent \/ Derived(sup.health) = "connected" THEN @
                                  ELSE IF sup.attempt = 0 THEN "reconnecting" ELSE "recovering"]
  /\ asked' = FALSE
  /\ UNCHANGED crossed

-----------------------------------------------------------------------------
(* recover() settles.  activeRecovery is cleared whoever settles.           *)
Land(r) == recoveries' = [recoveries EXCEPT ![r] = None]

SettleStale(r) ==
  /\ recoveries[r] # None /\ Stale(recoveries[r].generation)
  /\ Land(r)
  /\ sup' = [sup EXCEPT !.running = FALSE]
  /\ crossed' = (crossed \/ Current # {})
  /\ UNCHANGED <<timers, asked>>

(* Healthy: markHealthy, and once more if it was asked for meanwhile.       *)
SettleHealthyForgetting(r, t) ==   \* Mutant: not once more.
  /\ recoveries[r] # None /\ ~Stale(recoveries[r].generation)
  /\ Land(r)
  /\ sup' = [sup EXCEPT !.running = FALSE, !.attempt = 0, !.exhausted = FALSE,
                        !.pending = None, !.state = Derived(sup.health)]
  /\ UNCHANGED <<timers, asked, crossed>>

SettleHealthy(r, t) ==
  LET next == [sup EXCEPT !.running = FALSE, !.attempt = 0, !.exhausted = FALSE,
                          !.timer = IF sup.pending # None THEN t ELSE @,
                          !.state = Derived(sup.health)]
  IN  /\ recoveries[r] # None /\ ~Stale(recoveries[r].generation)
      /\ Land(r)
      /\ sup' = next
      /\ SetTimer(sup, next, sup.generation)
      /\ UNCHANGED <<asked, crossed>>

GivingUpLate == sup.attempt >= MaxAttempts     \* Mutant: one attempt late.

GivingUp == sup.attempt + 1 >= MaxAttempts

GiveUp(r) ==
  /\ recoveries[r] # None /\ ~Stale(recoveries[r].generation)
  /\ GivingUp
  /\ Land(r)
  /\ sup' = [sup EXCEPT !.running = FALSE, !.attempt = @ + 1, !.exhausted = TRUE,
                        !.pending = None,
                        !.state = IF recoveries[r].silent THEN @ ELSE "failed"]
  /\ asked' = FALSE
  /\ UNCHANGED <<timers, crossed>>

Retry(r, t) ==
  LET next == [sup EXCEPT !.running = FALSE, !.attempt = @ + 1, !.timer = t,
                          !.pending = IF @ # None THEN @
                                      ELSE IF recoveries[r].silent THEN "silent" ELSE "loud",
                          !.state = IF recoveries[r].silent THEN @ ELSE "recovering"]
  IN  /\ recoveries[r] # None /\ ~Stale(recoveries[r].generation)
      /\ ~GivingUp
      /\ Land(r)
      /\ sup' = next
      /\ SetTimer(sup, next, sup.generation)
      /\ UNCHANGED <<asked, crossed>>

-----------------------------------------------------------------------------
Fires(t) == TimerStale(t) \/ \E r \in Recoveries : RunRecovery(t, r)

Settles(r) ==
  \/ SettleStale(r) \/ GiveUp(r)
  \/ \E t \in Free(Timers, timers) : SettleHealthy(r, t) \/ Retry(r, t)

Next ==
  \/ \E t \in Free(Timers, timers) :
       \/ \E h \in Snapshots : Observe(h, t)
       \/ \E online \in BOOLEAN : Lifecycle(online, t)
  \/ \E online \in BOOLEAN : Notice(online)
  \/ Disconnect \/ Disconnected \/ Resume
  \/ \E t \in Timers : Fires(t)
  \/ \E r \in Recoveries : Settles(r)

(* A timer that is set fires, and a recovery settles: its socket and        *)
(* control calls have timeouts, its fetches end.                            *)
Fairness == /\ \A t \in Timers : WF_vars(Fires(t))
            /\ \A r \in Recoveries : WF_vars(Settles(r))

Spec == Init /\ [][Next]_vars
FairSpec == Spec /\ Fairness

-----------------------------------------------------------------------------
(* Every field has its type, and what was begun was begun in a generation   *)
(* there has been: generations are not used again.                          *)
TypeOK ==
  /\ sup \in Fields
  /\ timers \in [Timers -> (0 .. sup.generation) \cup {None}]
  /\ recoveries \in [Recoveries -> Recovery(sup.generation) \cup {None}]
  /\ asked \in BOOLEAN /\ crossed \in BOOLEAN

(* A single recovery loop (docs/manual-realtime-test.md): of the current    *)
(* generation there is one timer or one recovery, unless a stale recovery   *)
(* settled during a current one.                                            *)
SingleLoop ==
  ~crossed =>
    /\ \A t, u \in Armed : t = u
    /\ \A r, q \in Current : r = q
    /\ Armed = {} \/ Current = {}

(* Once it has given up it waits for the user: no timer is left to begin    *)
(* another recovery, and nothing but a resumption will set one.             *)
GivesUp ==
  ~crossed /\ sup.exhausted => Armed = {} /\ Current = {} /\ sup.pending = None

(* After a disconnect nothing of the past is reported over it: neither the  *)
(* recovery that settles late nor a render that still observes a failure.   *)
DisconnectSticks ==
  sup.left => sup.state \in {"disconnecting", "disconnected"} /\ Armed = {} /\ Current = {}

(* A request that was accepted, and was not behind a timer or a recovery of *)
(* an abandoned generation, is acted on: a recovery begins, or the          *)
(* supervisor gives up, is disconnected or is resumed.                      *)
Answered == asked ~> ~asked

-----------------------------------------------------------------------------
(* The supervisor is the loop that RecoveryLoop describes. *)
Phase ==
  CASE crossed -> "astray"
    [] ~crossed /\ sup.left -> "disconnected"
    [] OTHER -> IF Current # {} THEN "recovering"
                ELSE IF Armed # {} THEN "armed"
                ELSE IF sup.exhausted THEN "given up" ELSE "rest"

Loop == INSTANCE RecoveryLoop WITH phase <- Phase, tries <- sup.attempt

LoopSpec == Loop!Spec
=============================================================================
