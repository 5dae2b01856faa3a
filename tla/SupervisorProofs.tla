-------------------------- MODULE SupervisorProofs --------------------------
(***************************************************************************)
(* Theorems about Supervisor, for any snapshots, pools and bounds: types,   *)
(* the single loop, giving up, the silence after a disconnect, and that     *)
(* every step is one of RecoveryLoop or stutters.                           *)
(***************************************************************************)
EXTENDS Supervisor, TLAPS

(* A timer that is set is the one the supervisor holds. *)
Held == ~crossed => \A t \in Timers : timers[t] # None => sup.timer = t

(* A current recovery is the only one, and no timer is set beside it.       *)
Alone ==
  ~crossed => \A r \in Current : /\ sup.running /\ sup.timer = None
                                 /\ \A q \in Current : q = r

(* The count of failures. *)
Counted == /\ ~sup.exhausted => sup.attempt < MaxAttempts
           /\ ~crossed => sup.attempt <= MaxAttempts

SupervisorInv == TypeOK /\ Held /\ Alone /\ GivesUp /\ DisconnectSticks /\ Counted

-----------------------------------------------------------------------------
LEMMA DerivedState ==
  ASSUME NEW h \in Snapshot PROVE Derived(h) \in States
BY DEF Derived, States, Snapshot, VoiceConnected, VoiceExpected

LEMMA UpdatedFields ==
  ASSUME NEW s \in Fields, NEW h \in Snapshot
  PROVE  LET u == UpdateHealth(s, h)
         IN  /\ u \in Fields
             /\ u.health = h
             /\ u.left = s.left /\ u.generation = s.generation /\ u.attempt = s.attempt
             /\ u.exhausted = s.exhausted /\ u.pending = s.pending /\ u.timer = s.timer
             /\ u.running = s.running
             /\ s.left => u.state = s.state
<1>1. Derived(h) \in States
  BY DerivedState
<1> QED BY <1>1 DEF UpdateHealth, Fields, States

LEMMA RequestedFields ==
  ASSUME NEW s \in Fields, NEW reason \in Reasons, NEW t \in Timers
  PROVE  LET q == RequestRecovery(s, reason, t)
         IN  /\ q \in Fields
             /\ q.health = s.health
             /\ q.left = s.left /\ q.generation = s.generation /\ q.attempt = s.attempt
             /\ q.exhausted = s.exhausted /\ q.running = s.running /\ q.state = s.state
             /\ q.pending # s.pending => ~s.exhausted
             /\ \/ q.timer = s.timer
                \/ q.timer = t /\ s.timer = None /\ ~s.running /\ ~s.exhausted /\ ~s.left
BY DEF RequestRecovery, Accepts, Fields

LEMMA ResumedFields ==
  ASSUME NEW s \in Fields
  PROVE  LET q == Resumed(s)
         IN  /\ q \in Fields
             /\ q.health = s.health
             /\ ~q.left /\ q.generation = s.generation + 1 /\ q.attempt = 0
             /\ ~q.exhausted /\ q.running = s.running
             /\ q.pending = s.pending /\ q.timer = s.timer
<1>1. Derived(s.health) \in States
  BY DerivedState DEF Fields
<1>2. PICK g \in Nat : g = s.generation + 1
  BY DEF Fields
<1>3. Resumed(s) = [s EXCEPT !.left = FALSE, !.generation = g, !.attempt = 0,
                             !.exhausted = FALSE, !.state = Derived(s.health)]
  BY <1>2 DEF Resumed, Fields
<1>4. PICK d \in States : d = Derived(s.health)
  BY <1>1
<1>5. [s EXCEPT !.left = FALSE, !.generation = g, !.attempt = 0,
                !.exhausted = FALSE, !.state = d] \in Fields
  BY DEF Fields
<1>6. ASSUME NEW q, q = Resumed(s)
      PROVE  /\ q.health = s.health
             /\ ~q.left /\ q.generation = s.generation + 1 /\ q.attempt = 0
             /\ ~q.exhausted /\ q.running = s.running
             /\ q.pending = s.pending /\ q.timer = s.timer
  BY <1>2, <1>3, <1>4, <1>6 DEF Fields
<1> QED BY <1>3, <1>4, <1>5, <1>6

(* What a request, a render or a lifecycle event does to the loop: nothing, *)
(* or it sets a timer where there was neither timer nor recovery.           *)
Requesting(s, q, t) ==
  /\ q \in Fields
  /\ q.left = s.left /\ q.generation = s.generation /\ q.attempt = s.attempt
  /\ q.exhausted = s.exhausted /\ q.running = s.running
  /\ s.left => q.state = s.state
  /\ q.pending # s.pending => ~s.exhausted
  /\ \/ q.timer = s.timer
     \/ q.timer = t /\ s.timer = None /\ ~s.running /\ ~s.exhausted /\ ~s.left

LEMMA HeardOnce ==
  ASSUME NEW s \in Fields, NEW h \in Snapshot, NEW t \in Timers
  PROVE  Requesting(s, Requested(UpdateHealth(s, h), h, t), t)
<1> DEFINE u == UpdateHealth(s, h)
           one == RequestRecovery(u, "loud", t)
           two(x) == RequestRecovery(x, MediaReason(h), t)
<1>1. /\ u \in Fields
      /\ u.left = s.left /\ u.generation = s.generation /\ u.attempt = s.attempt
      /\ u.exhausted = s.exhausted /\ u.pending = s.pending /\ u.timer = s.timer
      /\ u.running = s.running
      /\ s.left => u.state = s.state
  BY UpdatedFields
<1>2. "loud" \in Reasons /\ (MediaReason(h) # None => MediaReason(h) \in Reasons)
  BY DEF MediaReason, Reasons
<1>3. Requesting(s, u, t)
  BY <1>1 DEF Requesting
<1>4. ASSUME NEW x, Requesting(s, x, t), NEW reason \in Reasons
      PROVE  Requesting(s, RequestRecovery(x, reason, t), t)
  <2>1. x \in Fields
    BY <1>4 DEF Requesting
  <2> HIDE DEF Requesting
  <2>2. LET q == RequestRecovery(x, reason, t)
        IN  /\ q \in Fields
            /\ q.left = x.left /\ q.generation = x.generation /\ q.attempt = x.attempt
            /\ q.exhausted = x.exhausted /\ q.running = x.running /\ q.state = x.state
            /\ q.pending # x.pending => ~x.exhausted
            /\ \/ q.timer = x.timer
               \/ q.timer = t /\ x.timer = None /\ ~x.running /\ ~x.exhausted /\ ~x.left
    BY <2>1, RequestedFields
  <2>3. t # None
    BY NoneIsNone
  <2> QED BY <1>4, <2>2, <2>3 DEF Requesting
<1> DEFINE sock == IF h.socketState = "disconnected" THEN one ELSE u
<1>5. Requesting(s, sock, t)
  BY <1>2, <1>3, <1>4
<1> HIDE DEF sock
<1>6. CASE MediaReason(h) # None
  <2>1. Requesting(s, two(sock), t)
    BY <1>2, <1>4, <1>5, <1>6
  <2> QED BY <1>3, <1>6, <2>1 DEF Requested, sock
<1>7. CASE MediaReason(h) = None
  BY <1>3, <1>5, <1>7 DEF Requested, sock
<1> QED BY <1>6, <1>7

-----------------------------------------------------------------------------
(* A step that only asks keeps the loop as it is, or sets its timer.        *)
LEMMA AskingKeeps ==
  ASSUME SupervisorInv, NEW t, Requesting(sup, sup', t),
         t \in Free(Timers, timers) \/ sup'.timer = sup.timer,
         SetTimer(sup, sup', sup.generation),
         asked' \in BOOLEAN, UNCHANGED <<recoveries, crossed>>
  PROVE  SupervisorInv'
<1> USE DEF SupervisorInv, Requesting
<1>1. sup \in Fields /\ sup' \in Fields /\ sup.generation \in Nat
  BY DEF TypeOK, Fields
<1>2. \/ sup'.timer = sup.timer /\ timers' = timers
      \/ /\ sup'.timer = t /\ t \in Timers /\ timers[t] = None /\ sup.timer = None
         /\ ~sup.running /\ ~sup.exhausted /\ ~sup.left
         /\ timers' = [timers EXCEPT ![t] = sup.generation]
  BY NoneIsNone DEF SetTimer, Free
<1>3. TypeOK'
  BY <1>1, <1>2 DEF TypeOK
<1>4. Held'
  <2>1. timers \in [Timers -> (0 .. sup.generation) \cup {None}]
    BY DEF TypeOK
  <2>2. SUFFICES ASSUME ~crossed, NEW u \in Timers, timers'[u] # None
                 PROVE  sup'.timer = u
    BY DEF Held
  <2>3. timers[u] # None => sup.timer = u
    BY <2>2 DEF Held
  <2>4. CASE sup'.timer = sup.timer /\ timers' = timers
    BY <2>2, <2>3, <2>4
  <2>5. CASE sup'.timer = t /\ sup.timer = None /\ timers' = [timers EXCEPT ![t] = sup.generation]
    BY <2>1, <2>2, <2>3, <2>5, NoneIsNone
  <2> QED BY <1>2, <2>4, <2>5
<1>5. Current' = Current
  BY DEF Current
<1>6. Alone'
  BY <1>2, <1>5 DEF Alone
<1>7. sup.exhausted \/ sup.left => Armed' = Armed
  BY <1>2 DEF Armed
<1>8. GivesUp'
  BY <1>5, <1>7 DEF GivesUp
<1>9. DisconnectSticks'
  BY <1>5, <1>7 DEF DisconnectSticks
<1>10. Counted'
  BY DEF Counted
<1> QED BY <1>3, <1>4, <1>6, <1>8, <1>9, <1>10

(* A step to a later generation abandons what was armed or running.         *)
LEMMA AfreshKeeps ==
  ASSUME SupervisorInv, NEW t, sup' \in Fields,
         sup'.generation > sup.generation,
         ~sup'.left, sup'.attempt = 0, ~sup'.exhausted, sup'.running = sup.running,
         \/ sup'.timer = sup.timer /\ timers' = timers
         \/ /\ sup'.timer = t /\ t \in Timers /\ sup.timer = None
            /\ \E g \in 0 .. sup'.generation : timers' = [timers EXCEPT ![t] = g],
         asked' \in BOOLEAN, UNCHANGED <<recoveries, crossed>>
  PROVE  SupervisorInv'
<1> USE DEF SupervisorInv
<1>1. sup.generation \in Nat /\ sup'.generation \in Nat
  BY DEF TypeOK, Fields
<1>2. timers \in [Timers -> (0 .. sup'.generation) \cup {None}]
  BY <1>1, NoneIsNone DEF TypeOK
<1>3. recoveries \in [Recoveries -> Recovery(sup'.generation) \cup {None}]
  BY <1>1 DEF TypeOK, Recovery
<1>4. TypeOK'
  BY <1>2, <1>3 DEF TypeOK
<1>5. Current' = {}
  BY <1>1 DEF Current, TypeOK, Recovery
<1>6. Held'
  BY <1>2, NoneIsNone DEF Held
<1>7. Alone' /\ GivesUp' /\ DisconnectSticks'
  BY <1>5 DEF Alone, GivesUp, DisconnectSticks
<1>8. Counted'
  BY Bounds DEF Counted
<1> QED BY <1>4, <1>6, <1>7, <1>8

(* A render asks, or starts afresh.                                         *)
LEMMA ObserveDoes ==
  ASSUME SupervisorInv, NEW h \in Snapshots, NEW t \in Free(Timers, timers), Observe(h, t)
  PROVE  /\ asked' \in BOOLEAN /\ UNCHANGED <<recoveries, crossed>>
         /\ \/ /\ Requesting(sup, sup', t) /\ SetTimer(sup, sup', sup.generation)
            \/ /\ sup' \in Fields /\ sup'.generation > sup.generation
               /\ ~sup'.left /\ sup'.attempt = 0 /\ ~sup'.exhausted /\ sup'.running = sup.running
               /\ \/ sup'.timer = sup.timer /\ timers' = timers
                  \/ /\ sup'.timer = t /\ t \in Timers /\ sup.timer = None
                     /\ \E g \in 0 .. sup'.generation : timers' = [timers EXCEPT ![t] = g]
<1> DEFINE joined == IF Joining(h) THEN Resumed(sup) ELSE sup
           requested == Requested(UpdateHealth(joined, h), h, t)
<1>1. sup \in Fields /\ h \in Snapshot /\ t \in Timers /\ t # None
  BY Observations, NoneIsNone DEF SupervisorInv, TypeOK, Free
<1>2. sup.generation \in Nat
  BY <1>1 DEF Fields
<1>3. PICK j : j = joined
  OBVIOUS
<1>4. PICK q : q = requested
  OBVIOUS
<1>5. /\ j \in Fields /\ j.timer = sup.timer /\ j.running = sup.running
      /\ Joining(h) => /\ j.generation = sup.generation + 1 /\ j.attempt = 0
                       /\ ~j.exhausted /\ ~j.left
      /\ ~Joining(h) => j = sup
  BY <1>1, <1>3, ResumedFields
<1>6. Requesting(j, q, t)
  BY <1>1, <1>3, <1>4, <1>5, HeardOnce
<1>7. /\ sup' = IF Activated(h) THEN Resumed(q) ELSE q
      /\ SetTimer(sup, q, q.generation)
      /\ asked' \in BOOLEAN /\ UNCHANGED <<recoveries, crossed>>
  BY <1>3, <1>4 DEF Observe, SupervisorInv, TypeOK, Heard, Accepts, Blocked, Requests,
     Activated, Joining
<1>8. q \in Fields /\ q.generation = j.generation
  BY <1>6 DEF Requesting
<1>9. CASE ~Joining(h) /\ ~Activated(h)
  <2>1. sup' = q /\ Requesting(sup, sup', t) /\ SetTimer(sup, sup', sup.generation)
    BY <1>5, <1>6, <1>7, <1>8, <1>9
  <2> QED BY <1>7, <2>1
<1>10. CASE Joining(h) \/ Activated(h)
  <2>1. /\ sup' \in Fields
        /\ sup'.running = sup.running /\ sup'.timer = q.timer
        /\ ~sup'.left /\ sup'.attempt = 0 /\ ~sup'.exhausted
        /\ sup'.generation > sup.generation /\ sup'.generation >= q.generation
    <3>1. CASE Activated(h)
      <4>1. /\ sup' \in Fields /\ ~sup'.left /\ sup'.attempt = 0 /\ ~sup'.exhausted
            /\ sup'.generation = q.generation + 1
            /\ sup'.running = q.running /\ sup'.timer = q.timer
        BY <1>7, <1>8, <3>1, ResumedFields
      <4>2. q.running = j.running /\ q.generation = j.generation
        BY <1>6 DEF Requesting
      <4> QED BY <1>2, <1>5, <4>1, <4>2
    <3>2. CASE ~Activated(h)
      <4>1. sup' = q /\ Joining(h)
        BY <1>7, <1>10, <3>2
      <4> QED BY <1>2, <1>5, <1>6, <1>8, <4>1 DEF Requesting
    <3> QED BY <3>1, <3>2
  <2>2. q.generation \in Nat /\ sup'.generation \in Nat
    BY <1>8, <2>1 DEF Fields
  <2>3. \/ q.timer = sup.timer /\ timers' = timers
        \/ q.timer = t /\ sup.timer = None /\ timers' = [timers EXCEPT ![t] = q.generation]
    BY <1>1, <1>5, <1>6, <1>7 DEF Requesting, SetTimer
  <2>4. q.generation \in 0 .. sup'.generation
    BY <2>1, <2>2
  <2> QED BY <1>1, <1>7, <2>1, <2>3, <2>4
<1> QED BY <1>9, <1>10

LEMMA EventDoes ==
  ASSUME SupervisorInv, NEW online \in BOOLEAN,
         Notice(online) \/ \E t \in Free(Timers, timers) : Lifecycle(online, t)
  PROVE  /\ asked' \in BOOLEAN /\ UNCHANGED <<recoveries, crossed>>
         /\ SetTimer(sup, sup', sup.generation)
         /\ \E t \in Free(Timers, timers) \cup {None} :
              /\ Requesting(sup, sup', t)
              /\ t \in Free(Timers, timers) \/ sup'.timer = sup.timer
<1> DEFINE h == [sup.health EXCEPT !.networkOnline = online]
           u == UpdateHealth(sup, h)
<1>1. sup \in Fields /\ h \in Snapshot
  BY DEF SupervisorInv, TypeOK, Fields, Snapshot
<1> HIDE DEF h
<1>2. /\ u \in Fields
      /\ u.left = sup.left /\ u.generation = sup.generation /\ u.attempt = sup.attempt
      /\ u.exhausted = sup.exhausted /\ u.pending = sup.pending /\ u.timer = sup.timer
      /\ u.running = sup.running
      /\ sup.left => u.state = sup.state
  BY <1>1, UpdatedFields
<1> HIDE DEF u
<1>3. CASE Notice(online)
  <2>1. sup' = u /\ timers' = timers /\ UNCHANGED <<recoveries, asked, crossed>>
    BY <1>3 DEF Notice, u, h
  <2>2. Requesting(sup, sup', None) /\ sup'.timer = sup.timer
        /\ SetTimer(sup, sup', sup.generation)
    BY <1>2, <2>1 DEF Requesting, SetTimer
  <2>3. asked' \in BOOLEAN
    BY <2>1 DEF SupervisorInv, TypeOK
  <2> QED BY <2>1, <2>2, <2>3
<1>4. CASE \E t \in Free(Timers, timers) : Lifecycle(online, t)
  <2>0. PICK t \in Free(Timers, timers) : Lifecycle(online, t)
    BY <1>4
  <2>1. /\ sup' = RequestRecovery(u, "loud", t)
        /\ SetTimer(sup, sup', sup.generation)
        /\ UNCHANGED <<recoveries, crossed>>
    BY <2>0 DEF Lifecycle, u, h
  <2>2. t \in Timers /\ t # None /\ "loud" \in Reasons
    BY NoneIsNone DEF Free, Reasons
  <2>3. LET q == RequestRecovery(u, "loud", t)
        IN  /\ q \in Fields
            /\ q.left = u.left /\ q.generation = u.generation /\ q.attempt = u.attempt
            /\ q.exhausted = u.exhausted /\ q.running = u.running /\ q.state = u.state
            /\ q.pending # u.pending => ~u.exhausted
            /\ \/ q.timer = u.timer
               \/ q.timer = t /\ u.timer = None /\ ~u.running /\ ~u.exhausted /\ ~u.left
    BY <1>2, <2>2, RequestedFields
  <2>4. Requesting(sup, sup', t)
    BY <1>2, <2>1, <2>3 DEF Requesting
  <2>5. asked' \in BOOLEAN
    BY <2>0 DEF Lifecycle, SupervisorInv, TypeOK, Heard, Accepts, Blocked
  <2> QED BY <2>1, <2>4, <2>5
<1> QED BY <1>3, <1>4

LEMMA ObserveKeeps ==
  ASSUME SupervisorInv, NEW h \in Snapshots, NEW t \in Free(Timers, timers), Observe(h, t)
  PROVE  SupervisorInv'
BY ObserveDoes, AskingKeeps, AfreshKeeps

LEMMA EventKeeps ==
  ASSUME SupervisorInv, NEW online \in BOOLEAN,
         Notice(online) \/ \E t \in Free(Timers, timers) : Lifecycle(online, t)
  PROVE  SupervisorInv'
BY EventDoes, AskingKeeps

LEMMA ResumeKeeps ==
  ASSUME SupervisorInv, Resume
  PROVE  SupervisorInv'
<1>1. sup \in Fields
  BY DEF SupervisorInv, TypeOK
<1>2. sup' = Resumed(sup) /\ timers' = timers /\ asked' = FALSE /\ UNCHANGED <<recoveries, crossed>>
  BY DEF Resume
<1>3. /\ sup' \in Fields /\ ~sup'.left /\ sup'.generation = sup.generation + 1
      /\ sup'.attempt = 0 /\ ~sup'.exhausted /\ sup'.running = sup.running
      /\ sup'.timer = sup.timer
  BY <1>1, <1>2, ResumedFields
<1>4. sup'.generation > sup.generation
  BY <1>1, <1>3 DEF Fields
<1> QED BY <1>2, <1>3, <1>4, AfreshKeeps

LEMMA DisconnectKeeps ==
  ASSUME SupervisorInv, Disconnect \/ Disconnected
  PROVE  SupervisorInv'
<1> USE DEF SupervisorInv
<1>1. CASE Disconnect
  <2>1. PICK g \in Nat : g = sup.generation + 1
    BY DEF TypeOK, Fields
  <2>2. /\ sup' \in Fields /\ sup'.left /\ sup'.generation = g /\ ~sup'.running
        /\ sup'.pending = None /\ sup'.timer = None /\ sup'.state = "disconnecting"
        /\ sup'.attempt = sup.attempt /\ sup'.exhausted = sup.exhausted
    <3>1. sup' = [sup EXCEPT !.left = TRUE, !.generation = g, !.running = FALSE,
                             !.pending = None, !.timer = None, !.state = "disconnecting"]
      BY <1>1, <2>1 DEF Disconnect
    <3> QED BY <3>1 DEF TypeOK, Fields, States
  <2>3. /\ timers' \in [Timers -> (0 .. sup.generation) \cup {None}]
        /\ recoveries' = recoveries /\ asked' = FALSE /\ crossed' = crossed
    BY <1>1 DEF Disconnect, TypeOK
  <2>4. sup.generation \in Nat /\ g > sup.generation
    BY <2>1 DEF TypeOK, Fields
  <2>5. timers' \in [Timers -> (0 .. g) \cup {None}]
    BY <2>3, <2>4, NoneIsNone
  <2>6. recoveries \in [Recoveries -> Recovery(g) \cup {None}]
    BY <2>4 DEF TypeOK, Recovery
  <2>7. TypeOK'
    BY <2>2, <2>3, <2>5, <2>6 DEF TypeOK
  <2>8. Armed' = {} /\ Current' = {}
    <3>1. Armed' = {}
      BY <2>2, <2>3, <2>4, NoneIsNone DEF Armed
    <3>2. Current' = {}
      BY <2>2, <2>3, <2>4 DEF Current, TypeOK, Recovery
    <3> QED BY <3>1, <3>2
  <2>9. Held'
    <3>1. timers' = IF sup.timer # None THEN [timers EXCEPT ![sup.timer] = None] ELSE timers
      BY <1>1 DEF Disconnect
    <3>2. timers \in [Timers -> (0 .. sup.generation) \cup {None}]
      BY DEF TypeOK
    <3>3. ASSUME ~crossed, NEW u \in Timers, timers'[u] # None
          PROVE  FALSE
      <4>1. CASE sup.timer # None
        BY <3>1, <3>2, <3>3, <4>1 DEF Held
      <4>2. CASE sup.timer = None
        BY <3>1, <3>2, <3>3, <4>2, NoneIsNone DEF Held
      <4> QED BY <4>1, <4>2
    <3> QED BY <2>3, <3>3 DEF Held
  <2>10. Alone' /\ GivesUp' /\ DisconnectSticks'
    BY <2>2, <2>8 DEF Alone, GivesUp, DisconnectSticks
  <2>11. Counted'
    BY <2>2, <2>3 DEF Counted
  <2> QED BY <2>7, <2>9, <2>10, <2>11
<1>2. CASE Disconnected
  <2>1. /\ sup' \in Fields /\ sup.left /\ sup'.left = sup.left
        /\ sup'.generation = sup.generation /\ sup'.running = sup.running
        /\ sup'.pending = sup.pending /\ sup'.timer = sup.timer /\ sup'.state = "disconnected"
        /\ sup'.attempt = sup.attempt /\ sup'.exhausted = sup.exhausted
    BY <1>2 DEF Disconnected, TypeOK, Fields, States
  <2>2. UNCHANGED <<timers, recoveries, asked, crossed>>
    BY <1>2 DEF Disconnected
  <2>3. TypeOK' /\ Armed' = Armed /\ Current' = Current
    BY <2>1, <2>2 DEF TypeOK, Armed, Current
  <2> QED BY <2>1, <2>2, <2>3 DEF Held, Alone, GivesUp, DisconnectSticks, Counted
<1> QED BY <1>1, <1>2

-----------------------------------------------------------------------------
LEMMA StaleTimerKeeps ==
  ASSUME SupervisorInv, NEW t \in Timers, TimerStale(t)
  PROVE  SupervisorInv'
<1> USE DEF SupervisorInv
<1>1. /\ sup' \in Fields /\ sup'.left = sup.left
      /\ sup'.generation = sup.generation /\ sup'.running = sup.running
      /\ sup'.pending = sup.pending /\ sup'.timer = None /\ sup'.state = sup.state
      /\ sup'.attempt = sup.attempt /\ sup'.exhausted = sup.exhausted
  BY DEF TimerStale, TypeOK, Fields
<1>2. /\ timers[t] # None /\ timers' = [timers EXCEPT ![t] = None]
      /\ UNCHANGED <<recoveries, asked, crossed>>
  BY DEF TimerStale
<1>3. timers \in [Timers -> (0 .. sup.generation) \cup {None}]
  BY DEF TypeOK
<1>4. TypeOK'
  BY <1>1, <1>2, <1>3 DEF TypeOK
<1>5. ASSUME ~crossed, NEW u \in Timers, timers'[u] # None
      PROVE  FALSE
  <2>1. u # t /\ timers[u] # None
    BY <1>2, <1>3, <1>5
  <2> QED BY <1>2, <1>5, <2>1 DEF Held
<1>6. Held'
  BY <1>2, <1>5 DEF Held
<1>7. Current' = Current
  BY <1>1, <1>2 DEF Current
<1>8. Armed' \subseteq Armed
  BY <1>1, <1>2, <1>3, NoneIsNone DEF Armed, TypeOK, Fields
<1>9. Alone'
  BY <1>1, <1>2, <1>7 DEF Alone
<1> QED BY <1>1, <1>2, <1>4, <1>6, <1>7, <1>8, <1>9 DEF GivesUp, DisconnectSticks, Counted

LEMMA RunKeeps ==
  ASSUME SupervisorInv, NEW t \in Timers, NEW r \in Recoveries, RunRecovery(t, r)
  PROVE  SupervisorInv'
<1> USE DEF SupervisorInv
<1>1. /\ timers[t] = sup.generation /\ ~sup.left
      /\ timers' = [timers EXCEPT ![t] = None]
      /\ asked' = FALSE /\ crossed' = crossed
      /\ recoveries' = [recoveries EXCEPT ![r] = [generation |-> sup.generation, silent |-> Silent]]
  BY DEF RunRecovery, Stale
<1>2. PICK st \in States :
        sup' = [sup EXCEPT !.timer = None, !.running = TRUE, !.pending = None, !.state = st]
  <2> DEFINE st == IF Silent \/ Derived(sup.health) = "connected" THEN sup.state
                   ELSE IF sup.attempt = 0 THEN "reconnecting" ELSE "recovering"
  <2>1. st \in States
    BY DEF TypeOK, Fields, States
  <2>2. sup' = [sup EXCEPT !.timer = None, !.running = TRUE, !.pending = None, !.state = st]
    BY DEF RunRecovery
  <2> QED BY <2>1, <2>2
<1>3. /\ sup' \in Fields /\ sup'.left = sup.left
      /\ sup'.generation = sup.generation /\ sup'.running = TRUE
      /\ sup'.pending = None /\ sup'.timer = None
      /\ sup'.attempt = sup.attempt /\ sup'.exhausted = sup.exhausted
  BY <1>2 DEF TypeOK, Fields
<1>4. timers \in [Timers -> (0 .. sup.generation) \cup {None}] /\ sup.generation \in Nat
  BY DEF TypeOK, Fields
<1>5. [generation |-> sup.generation, silent |-> Silent] \in Recovery(sup.generation)
  BY <1>4 DEF Recovery, Silent
<1>6. TypeOK'
  BY <1>1, <1>3, <1>4, <1>5 DEF TypeOK
<1>7. ASSUME ~crossed
      PROVE  /\ Current = {} /\ sup.timer = t /\ t # None
             /\ \A u \in Timers : timers'[u] = None
  <2>1. timers[t] # None /\ t # None
    BY <1>1, <1>4, NoneIsNone
  <2>2. sup.timer = t
    BY <1>7, <2>1 DEF Held
  <2>3. Current = {}
    BY <1>7, <2>1, <2>2 DEF Alone
  <2>4. \A u \in Timers : timers'[u] = None
    BY <1>1, <1>4, <1>7, <2>2 DEF Held
  <2> QED BY <2>1, <2>2, <2>3, <2>4
<1>8. Held'
  BY <1>1, <1>7 DEF Held
<1>9. ~crossed => Current' \subseteq {r}
  <2>1. ASSUME ~crossed, NEW q \in Current', q # r
        PROVE  FALSE
    <3>1. recoveries'[q] = recoveries[q] /\ q \in Recoveries
      BY <1>1, <2>1 DEF Current, TypeOK
    <3> QED BY <1>3, <1>7, <2>1, <3>1 DEF Current
  <2> QED BY <2>1
<1>10. Alone'
  BY <1>1, <1>3, <1>9 DEF Alone
<1>11. ~crossed => ~sup.exhausted
  BY <1>1 DEF GivesUp, Armed
<1> QED BY <1>1, <1>3, <1>6, <1>8, <1>10, <1>11 DEF GivesUp, DisconnectSticks, Counted

LEMMA StaleRunKeeps ==
  ASSUME SupervisorInv, NEW r \in Recoveries, SettleStale(r)
  PROVE  SupervisorInv'
<1> USE DEF SupervisorInv
<1>1. /\ sup' \in Fields /\ sup'.left = sup.left
      /\ sup'.generation = sup.generation /\ sup'.state = sup.state
      /\ sup'.pending = sup.pending /\ sup'.timer = sup.timer
      /\ sup'.attempt = sup.attempt /\ sup'.exhausted = sup.exhausted
  BY DEF SettleStale, TypeOK, Fields
<1>2. /\ recoveries' = [recoveries EXCEPT ![r] = None]
      /\ crossed' = (crossed \/ Current # {})
      /\ UNCHANGED <<timers, asked>>
  BY DEF SettleStale, Land
<1>3. TypeOK'
  BY <1>1, <1>2 DEF TypeOK
<1>4. Current' \subseteq Current /\ Armed' = Armed
  BY <1>1, <1>2 DEF Current, Armed, TypeOK
<1>5. ~crossed' => ~crossed /\ Current' = {}
  BY <1>2, <1>4 DEF TypeOK
<1>6. Held' /\ Alone'
  BY <1>1, <1>2, <1>5 DEF Held, Alone
<1> QED BY <1>1, <1>2, <1>3, <1>4, <1>5, <1>6 DEF GivesUp, DisconnectSticks, Counted

(* What a current recovery finds as it settles, as long as nothing crossed. *)
LEMMA SettlesAlone ==
  ASSUME SupervisorInv, NEW r \in Recoveries,
         recoveries[r] # None, ~Stale(recoveries[r].generation), ~crossed,
         Land(r), sup'.generation = sup.generation
  PROVE  /\ sup.timer = None /\ ~sup.exhausted
         /\ \A u \in Timers : timers[u] = None
         /\ Current' = {}
<1> USE DEF SupervisorInv
<1>1. r \in Current
  BY DEF Stale, Current
<1>2. sup.timer = None /\ ~sup.exhausted /\ \A q \in Current : q = r
  BY <1>1 DEF Alone, GivesUp
<1>3. \A u \in Timers : timers[u] = None
  BY <1>2, NoneIsNone DEF Held
<1>4. Current' = {}
  BY <1>1, <1>2 DEF Land, Current, TypeOK
<1> QED BY <1>2, <1>3, <1>4

(* A recovery settles and leaves the loop at rest, or with one timer.       *)
LEMMA SettlingKeeps ==
  ASSUME SupervisorInv, NEW r \in Recoveries, NEW t,
         recoveries[r] # None, ~Stale(recoveries[r].generation), Land(r),
         sup' \in Fields, sup'.left = sup.left, sup'.generation = sup.generation,
         sup'.timer = sup.timer \/ (sup'.timer = t /\ t \in Free(Timers, timers)),
         SetTimer(sup, sup', sup.generation),
         ~crossed /\ sup'.exhausted => sup'.timer = sup.timer /\ sup'.pending = None,
         Counted', asked' \in BOOLEAN, crossed' = crossed
  PROVE  SupervisorInv'
<1> USE DEF SupervisorInv
<1>1. timers \in [Timers -> (0 .. sup.generation) \cup {None}] /\ sup.generation \in Nat
  BY DEF TypeOK, Fields
<1>2. \/ sup'.timer = sup.timer /\ timers' = timers
      \/ /\ sup'.timer = t /\ t \in Timers /\ timers[t] = None
         /\ timers' = [timers EXCEPT ![t] = sup.generation]
      \/ sup'.timer = t /\ t = sup.timer /\ timers' = timers
  BY NoneIsNone DEF SetTimer, Free
<1>3. ~sup.left
  BY DEF Stale
<1>4. TypeOK'
  BY <1>1, <1>2 DEF TypeOK, Land
<1>5. CASE crossed
  BY <1>3, <1>4, <1>5 DEF Held, Alone, GivesUp, DisconnectSticks
<1>6. CASE ~crossed
  <2>1. /\ sup.timer = None /\ ~sup.exhausted
        /\ \A u \in Timers : timers[u] = None
        /\ Current' = {}
    BY <1>6, SettlesAlone
  <2>2. Held'
    BY <1>1, <1>2, <2>1 DEF Held
  <2>3. Alone' /\ DisconnectSticks'
    BY <1>3, <2>1 DEF Alone, DisconnectSticks
  <2>4. sup'.exhausted => Armed' = {}
    <3>1. sup'.exhausted => timers' = timers
      BY <1>6 DEF SetTimer
    <3> QED BY <1>1, <2>1, <3>1, NoneIsNone DEF Armed
  <2>5. GivesUp'
    BY <2>1, <2>4 DEF GivesUp
  <2> QED BY <1>4, <2>2, <2>3, <2>5
<1> QED BY <1>5, <1>6

(* What settling comes to: giving up, healing, trying again with timer t.   *)
Gives(t) == /\ sup'.exhausted /\ sup'.timer = sup.timer /\ sup'.pending = None
            /\ GivingUp /\ sup'.attempt = sup.attempt + 1

Heals(t) == /\ ~sup'.exhausted /\ sup'.attempt = 0
            /\ \/ sup'.timer = sup.timer
               \/ sup'.timer = t /\ t \in Free(Timers, timers)

Retries(t) == /\ sup'.exhausted = sup.exhausted /\ ~GivingUp
              /\ sup'.attempt = sup.attempt + 1
              /\ sup'.timer = t /\ t \in Free(Timers, timers)

(* What each way of settling does to the fields. *)
LEMMA SettledFields ==
  ASSUME SupervisorInv, NEW r \in Recoveries, NEW t,
         \/ GiveUp(r)
         \/ t \in Free(Timers, timers) /\ (SettleHealthy(r, t) \/ Retry(r, t))
  PROVE  /\ recoveries[r] # None /\ ~Stale(recoveries[r].generation) /\ Land(r)
         /\ sup' \in Fields /\ sup'.left = sup.left /\ sup'.generation = sup.generation
         /\ SetTimer(sup, sup', sup.generation) /\ asked' \in BOOLEAN /\ crossed' = crossed
         /\ \/ Gives(t) \/ Heals(t) \/ Retries(t)
<1> USE DEF SupervisorInv
<1>1. sup \in Fields /\ Derived(sup.health) \in States
  BY DerivedState DEF TypeOK, Fields
<1>2. PICK n \in Nat : n = sup.attempt + 1
  BY <1>1 DEF Fields
<1>3. CASE GiveUp(r)
  <2>1. PICK st \in States :
          sup' = [sup EXCEPT !.running = FALSE, !.attempt = n, !.exhausted = TRUE,
                             !.pending = None, !.state = st]
    <3>1. \A x \in BOOLEAN : (IF x THEN sup.state ELSE "failed") \in States
      BY <1>1 DEF Fields, States
    <3>2. recoveries[r].silent \in BOOLEAN
      BY <1>3 DEF GiveUp, TypeOK, Recovery
    <3> QED BY <1>2, <1>3, <3>1, <3>2 DEF GiveUp
  <2>2. /\ sup' \in Fields /\ sup'.left = sup.left /\ sup'.generation = sup.generation
        /\ sup'.exhausted /\ sup'.timer = sup.timer /\ sup'.pending = None /\ sup'.attempt = n
    BY <1>1, <2>1 DEF Fields
  <2> QED BY <1>2, <1>3, <2>2 DEF GiveUp, SetTimer, Gives
<1>4. CASE t \in Free(Timers, timers) /\ SettleHealthy(r, t)
  <2>1. PICK timer \in Timers \cup {None}, d \in States :
          /\ timer = t \/ timer = sup.timer
          /\ sup' = [sup EXCEPT !.running = FALSE, !.attempt = 0, !.exhausted = FALSE,
                                !.timer = timer, !.state = d]
    <3>1. (IF sup.pending # None THEN t ELSE sup.timer) \in Timers \cup {None}
      BY <1>1, <1>4 DEF Fields, Free
    <3> QED BY <1>1, <1>4, <3>1 DEF SettleHealthy
  <2>2. /\ sup' \in Fields /\ sup'.left = sup.left /\ sup'.generation = sup.generation
        /\ ~sup'.exhausted /\ sup'.attempt = 0 /\ sup'.timer = timer
    BY <1>1, <2>1 DEF Fields
  <2>3. SetTimer(sup, sup', sup.generation)
    BY <1>4 DEF SettleHealthy
  <2> QED BY <1>4, <2>1, <2>2, <2>3 DEF SettleHealthy, TypeOK, Heals
<1>5. CASE t \in Free(Timers, timers) /\ Retry(r, t)
  <2>1. PICK reason \in Reasons, st \in States :
          sup' = [sup EXCEPT !.running = FALSE, !.attempt = n, !.timer = t,
                             !.pending = reason, !.state = st]
    <3>1. \A x \in BOOLEAN : (IF x THEN sup.state ELSE "recovering") \in States
      BY <1>1 DEF Fields, States
    <3>2. recoveries[r].silent \in BOOLEAN
      BY <1>5 DEF Retry, TypeOK, Recovery
    <3>3. (IF sup.pending # None THEN sup.pending
           ELSE IF recoveries[r].silent THEN "silent" ELSE "loud") \in Reasons
      BY <1>1 DEF Fields, Reasons
    <3> QED BY <1>2, <1>5, <3>1, <3>2, <3>3 DEF Retry
  <2>2. /\ sup' \in Fields /\ sup'.left = sup.left /\ sup'.generation = sup.generation
        /\ sup'.exhausted = sup.exhausted /\ sup'.attempt = n /\ sup'.timer = t
    BY <1>1, <1>5, <2>1 DEF Fields, Free
  <2>3. SetTimer(sup, sup', sup.generation)
    BY <1>5 DEF Retry
  <2> QED BY <1>2, <1>5, <2>2, <2>3 DEF Retry, TypeOK, Retries
<1> QED BY <1>3, <1>4, <1>5

LEMMA SettleKeeps ==
  ASSUME SupervisorInv, NEW r \in Recoveries, NEW t,
         \/ GiveUp(r)
         \/ t \in Free(Timers, timers) /\ (SettleHealthy(r, t) \/ Retry(r, t))
  PROVE  SupervisorInv'
<1>1. /\ recoveries[r] # None /\ ~Stale(recoveries[r].generation) /\ Land(r)
      /\ sup' \in Fields /\ sup'.left = sup.left /\ sup'.generation = sup.generation
      /\ SetTimer(sup, sup', sup.generation) /\ asked' \in BOOLEAN /\ crossed' = crossed
      /\ Gives(t) \/ Heals(t) \/ Retries(t)
  BY SettledFields
<1>2. ~crossed => ~sup.exhausted
  BY <1>1, SettlesAlone
<1>3. sup.attempt \in Nat /\ sup'.attempt \in Nat /\ MaxAttempts \in Nat \ {0}
  BY <1>1, Bounds DEF SupervisorInv, TypeOK, Fields
<1>4. Counted'
  BY <1>1, <1>2, <1>3 DEF SupervisorInv, Counted, Gives, Heals, Retries, GivingUp
<1>5. sup'.timer = sup.timer \/ (sup'.timer = t /\ t \in Free(Timers, timers))
  BY <1>1 DEF Gives, Heals, Retries
<1>6. ~crossed /\ sup'.exhausted => sup'.timer = sup.timer /\ sup'.pending = None
  BY <1>1, <1>2 DEF Gives, Heals, Retries
<1> QED BY <1>1, <1>4, <1>5, <1>6, SettlingKeeps

-----------------------------------------------------------------------------
THEOREM InvHolds == Spec => []SupervisorInv
<1>1. Init => SupervisorInv
  <2> SUFFICES ASSUME Init PROVE SupervisorInv
    OBVIOUS
  <2>1. TypeOK
    BY DEF Init, TypeOK, Fields, States, Unobserved, Snapshot
  <2>2. sup.generation = 0 /\ ~sup.exhausted /\ ~sup.left /\ sup.attempt = 0
    BY DEF Init
  <2>3. Current = {}
    BY DEF Init, Current
  <2>4. Held
    BY DEF Init, Held
  <2> QED BY <2>1, <2>2, <2>3, <2>4, Bounds
          DEF SupervisorInv, Alone, GivesUp, DisconnectSticks, Counted
<1>2. SupervisorInv /\ [Next]_vars => SupervisorInv'
  <2> SUFFICES ASSUME SupervisorInv, [Next]_vars PROVE SupervisorInv'
    OBVIOUS
  <2>1. CASE UNCHANGED vars
    BY <2>1 DEF vars, SupervisorInv, TypeOK, Held, Alone, GivesUp, DisconnectSticks, Counted,
       Current, Armed
  <2>2. CASE Next
    BY <2>2, ObserveKeeps, EventKeeps, ResumeKeeps, DisconnectKeeps, StaleTimerKeeps, RunKeeps,
       StaleRunKeeps, SettleKeeps DEF Next, Fires, Settles
  <2> QED BY <2>1, <2>2
<1> QED BY <1>1, <1>2, PTL DEF Spec

(* The fields keep their types; no generation is used again.                *)
THEOREM TypeCorrect == Spec => []TypeOK
<1> QED BY InvHolds, PTL DEF SupervisorInv

(* One timer or one recovery of the current generation, unless an abandoned *)
(* recovery settled during a current one.                                   *)
THEOREM OneLoop == Spec => []SingleLoop
<1>1. SupervisorInv => SingleLoop
  <2> SUFFICES ASSUME SupervisorInv, ~crossed
               PROVE  /\ \A t, u \in Armed : t = u
                      /\ \A r, q \in Current : r = q
                      /\ Armed = {} \/ Current = {}
    BY DEF SingleLoop
  <2>1. \A t \in Armed : sup.timer = t /\ t # None
    BY NoneIsNone DEF SupervisorInv, Held, Armed, TypeOK, Fields
  <2> QED BY <2>1 DEF SupervisorInv, Alone
<1> QED BY <1>1, InvHolds, PTL

(* Having given up, the supervisor waits for the user.                      *)
THEOREM GivenUpWaits == Spec => []GivesUp
<1> QED BY InvHolds, PTL DEF SupervisorInv

(* Nothing of before a disconnect is reported or begun after it.            *)
THEOREM DisconnectIsFinal == Spec => []DisconnectSticks
<1> QED BY InvHolds, PTL DEF SupervisorInv

-----------------------------------------------------------------------------
(* The phase of the loop, case by case. *)
LEMMA PhaseCases ==
  ASSUME crossed \in BOOLEAN
  PROVE  /\ crossed => Phase = "astray"
         /\ ~crossed /\ sup.left => Phase = "disconnected"
         /\ ~crossed /\ ~sup.left =>
              /\ Current # {} => Phase = "recovering"
              /\ Current = {} /\ Armed # {} => Phase = "armed"
              /\ Current = {} /\ Armed = {} /\ sup.exhausted => Phase = "given up"
              /\ Current = {} /\ Armed = {} /\ ~sup.exhausted => Phase = "rest"
BY DEF Phase

LEMMA PhaseCasesNext ==
  ASSUME crossed' \in BOOLEAN
  PROVE  /\ crossed' => Phase' = "astray"
         /\ ~crossed' /\ sup'.left => Phase' = "disconnected"
         /\ ~crossed' /\ ~sup'.left =>
              /\ Current' # {} => Phase' = "recovering"
              /\ Current' = {} /\ Armed' # {} => Phase' = "armed"
              /\ Current' = {} /\ Armed' = {} /\ sup'.exhausted => Phase' = "given up"
              /\ Current' = {} /\ Armed' = {} /\ ~sup'.exhausted => Phase' = "rest"
BY DEF Phase

(* A step between the same phases with the same count is a stutter.         *)
LEMMA AskingImplements ==
  ASSUME SupervisorInv, SupervisorInv', NEW t, Requesting(sup, sup', t),
         t \in Free(Timers, timers) \/ sup'.timer = sup.timer,
         SetTimer(sup, sup', sup.generation), UNCHANGED <<recoveries, crossed>>
  PROVE  Loop!Request \/ UNCHANGED <<Phase, sup.attempt>>
<1> USE DEF SupervisorInv
<1>1. /\ sup'.left = sup.left /\ sup'.exhausted = sup.exhausted
      /\ sup'.attempt = sup.attempt /\ sup'.generation = sup.generation
      /\ Current' = Current /\ crossed' = crossed /\ crossed \in BOOLEAN
  BY DEF Requesting, Current, TypeOK
<1>2. CASE timers' = timers
  <2>1. Armed' = Armed
    BY <1>1, <1>2 DEF Armed
  <2>2. Phase' = Phase
    BY <1>1, <2>1 DEF Phase
  <2> QED BY <1>1, <2>2
<1>3. CASE timers' # timers
  <2>1. /\ t \in Timers /\ timers' = [timers EXCEPT ![t] = sup.generation] /\ timers[t] = None
        /\ sup.timer = None /\ ~sup.running /\ ~sup.exhausted /\ ~sup.left
    BY <1>3, NoneIsNone DEF SetTimer, Requesting, Free
  <2>2. CASE crossed
    BY <1>1, <2>2, PhaseCases, PhaseCasesNext
  <2>3. CASE ~crossed
    <3>1. Current = {} /\ \A u \in Timers : timers[u] = None
      BY <2>1, <2>3, NoneIsNone DEF Alone, Held
    <3>2. Armed = {} /\ t \in Armed'
      BY <1>1, <2>1, <3>1, NoneIsNone DEF Armed, TypeOK, Fields
    <3>3. Phase = "rest"
      BY <1>1, <2>1, <2>3, <3>1, <3>2, PhaseCases
    <3>4. /\ crossed' \in BOOLEAN /\ ~crossed' /\ ~sup'.left
          /\ Current' = {} /\ Armed' # {}
      BY <1>1, <2>1, <2>3, <3>1, <3>2
    <3>5. Phase' = "armed"
      BY <3>4, PhaseCasesNext
    <3> QED BY <1>1, <3>3, <3>5 DEF Loop!Request
  <2> QED BY <2>2, <2>3
<1> QED BY <1>2, <1>3

LEMMA AfreshImplements ==
  ASSUME SupervisorInv, SupervisorInv', ~sup'.left, sup'.attempt = 0, ~sup'.exhausted,
         sup'.generation > sup.generation, UNCHANGED <<recoveries, crossed>>
  PROVE  Loop!Resume \/ Loop!Unaccounted
<1> USE DEF SupervisorInv
<1>1. crossed' = crossed /\ crossed \in BOOLEAN /\ Current' = {}
  BY DEF Current, TypeOK, Recovery, Fields
<1>2. CASE crossed
  BY <1>1, <1>2, PhaseCases, PhaseCasesNext DEF Loop!Unaccounted
<1>3. CASE ~crossed
  <2>1. Phase # "astray"
    BY <1>3 DEF Phase
  <2>2. Phase' \in {"rest", "armed"}
    <3>1. crossed' \in BOOLEAN /\ ~crossed' /\ ~sup'.left /\ Current' = {}
      BY <1>1, <1>3
    <3>2. CASE Armed' # {}
      BY <3>1, <3>2, PhaseCasesNext
    <3>3. CASE Armed' = {}
      BY <3>1, <3>3, PhaseCasesNext
    <3> QED BY <3>2, <3>3
  <2> QED BY <2>1, <2>2 DEF Loop!Resume
<1> QED BY <1>2, <1>3

LEMMA ObserveImplements ==
  ASSUME SupervisorInv, SupervisorInv', NEW h \in Snapshots, NEW t \in Free(Timers, timers),
         Observe(h, t)
  PROVE  \/ Loop!Request \/ Loop!Resume \/ Loop!Unaccounted
         \/ UNCHANGED <<Phase, sup.attempt>>
BY ObserveDoes, AskingImplements, AfreshImplements

LEMMA EventImplements ==
  ASSUME SupervisorInv, SupervisorInv', NEW online \in BOOLEAN,
         Notice(online) \/ \E t \in Free(Timers, timers) : Lifecycle(online, t)
  PROVE  Loop!Request \/ UNCHANGED <<Phase, sup.attempt>>
BY EventDoes, AskingImplements

LEMMA SettleImplements ==
  ASSUME SupervisorInv, SupervisorInv', NEW r \in Recoveries, NEW t,
         \/ GiveUp(r)
         \/ t \in Free(Timers, timers) /\ (SettleHealthy(r, t) \/ Retry(r, t))
  PROVE  Loop!Succeed \/ Loop!Fail \/ Loop!Unaccounted
<1> USE DEF SupervisorInv
<1>1. /\ recoveries[r] # None /\ ~Stale(recoveries[r].generation) /\ Land(r)
      /\ sup' \in Fields /\ sup'.left = sup.left /\ sup'.generation = sup.generation
      /\ SetTimer(sup, sup', sup.generation) /\ asked' \in BOOLEAN /\ crossed' = crossed
      /\ Gives(t) \/ Heals(t) \/ Retries(t)
  BY SettledFields
<1>2. crossed \in BOOLEAN /\ ~sup.left /\ r \in Current
      /\ sup.attempt \in Nat /\ sup'.attempt \in Nat
  BY <1>1 DEF TypeOK, Stale, Current, Fields
<1>3. CASE crossed
  BY <1>1, <1>2, <1>3, PhaseCases, PhaseCasesNext DEF Loop!Unaccounted
<1>4. CASE ~crossed
  <2>1. /\ sup.timer = None /\ ~sup.exhausted
        /\ \A u \in Timers : timers[u] = None
        /\ Current' = {}
    BY <1>1, <1>4, SettlesAlone
  <2>2. Phase = "recovering" /\ Phase' \in {"armed", "given up", "rest"}
    BY <1>1, <1>2, <1>4, <2>1, PhaseCases, PhaseCasesNext
  <2>3. Armed' = {} => Phase' = IF sup'.exhausted THEN "given up" ELSE "rest"
    BY <1>1, <1>2, <1>4, <2>1, PhaseCasesNext
  <2>4. Armed' # {} => Phase' = "armed"
    BY <1>1, <1>2, <1>4, <2>1, PhaseCasesNext
  <2>5. MaxAttempts \in Nat /\ sup.attempt < MaxAttempts
    BY <2>1, Bounds DEF Counted
  <2>6. CASE Gives(t)
    <3>1. Armed' = {}
      <4>1. timers' = timers
        BY <1>1, <2>6 DEF Gives, SetTimer
      <4> QED BY <2>1, <4>1, NoneIsNone, <1>1 DEF Armed, Fields
    <3>2. sup'.attempt = MaxAttempts /\ sup'.attempt = sup.attempt + 1
      BY <1>2, <2>5, <2>6 DEF Gives, GivingUp
    <3> QED BY <2>2, <2>3, <2>6, <3>1, <3>2 DEF Gives, Loop!Fail
  <2>7. CASE Heals(t)
    BY <2>2, <2>3, <2>4, <2>7 DEF Heals, Loop!Succeed
  <2>8. CASE Retries(t)
    <3>1. t \in Armed'
      BY <1>1, <2>1, <2>8, NoneIsNone DEF Retries, SetTimer, Free, Armed, TypeOK
    <3>2. sup'.attempt # MaxAttempts /\ sup'.attempt = sup.attempt + 1
      BY <1>2, <2>5, <2>8 DEF Retries, GivingUp
    <3> QED BY <2>2, <2>4, <3>1, <3>2 DEF Loop!Fail
  <2> QED BY <1>1, <2>6, <2>7, <2>8
<1> QED BY <1>3, <1>4

LEMMA TimerImplements ==
  ASSUME SupervisorInv, SupervisorInv', NEW t \in Timers, Fires(t)
  PROVE  Loop!Begin \/ UNCHANGED <<Phase, sup.attempt>>
<1> USE DEF SupervisorInv
<1>1. CASE TimerStale(t)
  <2>1. /\ sup'.left = sup.left /\ sup'.generation = sup.generation
        /\ sup'.attempt = sup.attempt /\ sup'.exhausted = sup.exhausted
        /\ UNCHANGED <<recoveries, crossed>>
        /\ timers' = [timers EXCEPT ![t] = None]
        /\ timers[t] # sup.generation \/ sup.left
    BY <1>1 DEF TimerStale, TypeOK, Fields, Stale
  <2>2. Current' = Current
    BY <2>1 DEF Current
  <2>3. ~sup.left => Armed' = Armed
    BY <2>1, NoneIsNone DEF Armed, TypeOK, Fields
  <2>4. Phase' = Phase
    BY <2>1, <2>2, <2>3 DEF Phase
  <2> QED BY <2>1, <2>4
<1>2. ASSUME NEW r \in Recoveries, RunRecovery(t, r)
      PROVE  Loop!Begin \/ UNCHANGED <<Phase, sup.attempt>>
  <2>1. /\ timers[t] = sup.generation /\ ~sup.left /\ crossed' = crossed
        /\ recoveries' = [recoveries EXCEPT ![r] = [generation |-> sup.generation, silent |-> Silent]]
    BY <1>2 DEF RunRecovery, Stale
  <2>2. sup'.left = sup.left /\ sup'.generation = sup.generation /\ sup'.attempt = sup.attempt
    BY <1>2 DEF RunRecovery, TypeOK, Fields
  <2>3. crossed \in BOOLEAN /\ t \in Armed
    BY <2>1 DEF TypeOK, Armed
  <2>4. CASE crossed
    BY <2>1, <2>2, <2>3, <2>4, PhaseCases, PhaseCasesNext
  <2>5. CASE ~crossed
    <3>1. Current = {} /\ ~sup.exhausted
      <4>1. sup.timer = t /\ t # None
        BY <2>1, <2>3, <2>5, NoneIsNone DEF Held, TypeOK, Fields
      <4> QED BY <2>3, <2>5, <4>1 DEF Alone, GivesUp
    <3>2. r \in Current'
      <4>1. recoveries'[r] = [generation |-> sup.generation, silent |-> Silent]
        BY <2>1 DEF TypeOK
      <4>2. [generation |-> sup.generation, silent |-> Silent] # None
        <5>1. sup.generation \in Nat /\ Silent \in BOOLEAN
          BY DEF Silent, TypeOK, Fields
        <5> QED BY <5>1, NoneIsNone
      <4> QED BY <2>2, <4>1, <4>2 DEF Current
    <3>3. Phase = "armed" /\ Phase' = "recovering"
      BY <2>1, <2>2, <2>3, <2>5, <3>1, <3>2, PhaseCases, PhaseCasesNext
    <3> QED BY <2>2, <3>1, <3>3 DEF Counted, Loop!Begin
  <2> QED BY <2>4, <2>5
<1> QED BY <1>1, <1>2 DEF Fires

LEMMA StaleRunImplements ==
  ASSUME SupervisorInv, SupervisorInv', NEW r \in Recoveries, SettleStale(r)
  PROVE  Loop!Astray \/ UNCHANGED <<Phase, sup.attempt>>
<1> USE DEF SupervisorInv
<1>1. /\ sup'.left = sup.left /\ sup'.generation = sup.generation
      /\ sup'.attempt = sup.attempt /\ sup'.exhausted = sup.exhausted
      /\ recoveries' = [recoveries EXCEPT ![r] = None]
      /\ crossed' = (crossed \/ Current # {}) /\ timers' = timers
  BY DEF SettleStale, Land, TypeOK, Fields
<1>2. Current' \subseteq Current /\ Armed' = Armed
  BY <1>1 DEF Current, Armed, TypeOK
<1>3. crossed \in BOOLEAN /\ sup.attempt \in Nat /\ (sup.left => Current = {})
  BY DEF TypeOK, Fields, DisconnectSticks
<1>4. CASE ~crossed /\ Current # {}
  BY <1>1, <1>3, <1>4, PhaseCases, PhaseCasesNext DEF Loop!Astray
<1>5. CASE crossed \/ Current = {}
  <2>1. crossed' = crossed /\ (crossed \/ Current' = Current)
    BY <1>1, <1>2, <1>3, <1>5
  <2>2. CASE crossed
    BY <1>1, <1>3, <2>1, <2>2, PhaseCases, PhaseCasesNext
  <2>3. CASE ~crossed
    <3>1. crossed' = crossed /\ Current' = Current
      BY <2>1, <2>3
    <3>2. Phase' = Phase
      <4>1. /\ crossed' \in BOOLEAN /\ ~crossed' /\ Current' = Current
            /\ sup'.left = sup.left /\ sup'.exhausted = sup.exhausted /\ Armed' = Armed
        BY <1>1, <1>2, <1>3, <2>3, <3>1
      <4>2. CASE sup.left
        BY <1>3, <2>3, <4>1, <4>2, PhaseCases, PhaseCasesNext
      <4>3. CASE ~sup.left /\ Current # {}
        BY <1>3, <2>3, <4>1, <4>3, PhaseCases, PhaseCasesNext
      <4>4. CASE ~sup.left /\ Current = {} /\ Armed # {}
        <5>1. Phase = "armed"
          BY <1>3, <2>3, <4>4, PhaseCases
        <5>2. ~sup'.left /\ Current' = {} /\ Armed' # {}
          BY <4>1, <4>4
        <5>3. Phase' = "armed"
          BY <4>1, <5>2, PhaseCasesNext
        <5> QED BY <5>1, <5>3
      <4>5. CASE ~sup.left /\ Current = {} /\ Armed = {}
        <5>1. Phase = IF sup.exhausted THEN "given up" ELSE "rest"
          BY <1>3, <2>3, <4>5, PhaseCases
        <5>2. ~sup'.left /\ Current' = {} /\ Armed' = {}
          BY <4>1, <4>5
        <5>3. Phase' = IF sup'.exhausted THEN "given up" ELSE "rest"
          BY <4>1, <5>2, PhaseCasesNext
        <5> QED BY <4>1, <5>1, <5>3
      <4> QED BY <4>2, <4>3, <4>4, <4>5
    <3> QED BY <1>1, <3>2
  <2> QED BY <1>1, <1>3, <2>2, <2>3
<1> QED BY <1>4, <1>5

(* The supervisor implements the loop of RecoveryLoop: at most MaxAttempts  *)
(* failures in a row, one recovery at a time, none after a disconnect.      *)
THEOREM ImplementsLoop == Spec => LoopSpec
<1>1. Init => Loop!Init
  <2>1. Init => Current = {} /\ Armed = {}
    BY NoneIsNone DEF Init, Current, Armed
  <2> QED BY <2>1 DEF Init, Phase, Loop!Init
<1>2. SupervisorInv /\ SupervisorInv' /\ [Next]_vars => [Loop!Next]_(Loop!vars)
  <2> SUFFICES ASSUME SupervisorInv, SupervisorInv', [Next]_vars
               PROVE  Loop!Next \/ UNCHANGED <<Phase, sup.attempt>>
    BY DEF Loop!vars
  <2>1. CASE UNCHANGED vars
    BY <2>1 DEF vars, Phase, Current, Armed
  <2>2. ASSUME NEW h \in Snapshots, NEW t \in Free(Timers, timers), Observe(h, t)
        PROVE  Loop!Next \/ UNCHANGED <<Phase, sup.attempt>>
    BY <2>2, ObserveImplements DEF Loop!Next
  <2>3. ASSUME NEW online \in BOOLEAN,
               Notice(online) \/ \E t \in Free(Timers, timers) : Lifecycle(online, t)
        PROVE  Loop!Next \/ UNCHANGED <<Phase, sup.attempt>>
    BY <2>3, EventImplements DEF Loop!Next
  <2>4. CASE Disconnect
    <3>1. /\ sup'.left /\ sup'.attempt = sup.attempt /\ crossed' = crossed
      BY <2>4 DEF Disconnect, SupervisorInv, TypeOK, Fields
    <3>2. crossed \in BOOLEAN /\ sup.attempt \in Nat
      BY DEF SupervisorInv, TypeOK, Fields
    <3>3. CASE crossed
      BY <3>1, <3>2, <3>3, PhaseCases, PhaseCasesNext
    <3>4. CASE ~crossed
      <4>1. Phase # "astray"
        BY <3>4 DEF Phase
      <4>2. Phase' = "disconnected"
        BY <3>1, <3>2, <3>4, PhaseCasesNext
      <4> QED BY <3>1, <4>1, <4>2 DEF Loop!Disconnect, Loop!Next
    <3> QED BY <3>2, <3>3, <3>4
  <2>5. CASE Disconnected
    <3>1. /\ sup'.left = sup.left /\ sup'.generation = sup.generation
          /\ sup'.attempt = sup.attempt /\ sup'.exhausted = sup.exhausted
          /\ UNCHANGED <<timers, recoveries, crossed>>
      BY <2>5 DEF Disconnected, SupervisorInv, TypeOK, Fields
    <3> QED BY <3>1 DEF Phase, Current, Armed
  <2>6. CASE Resume
    <3>1. sup \in Fields /\ sup' = Resumed(sup) /\ UNCHANGED <<recoveries, crossed>>
      BY <2>6 DEF Resume, SupervisorInv, TypeOK
    <3>2. ~sup'.left /\ sup'.attempt = 0 /\ ~sup'.exhausted /\ sup'.generation = sup.generation + 1
      BY <3>1, ResumedFields
    <3>3. sup'.generation > sup.generation
      BY <3>1, <3>2 DEF Fields
    <3> QED BY <3>1, <3>2, <3>3, AfreshImplements DEF Loop!Next
  <2>7. ASSUME NEW t \in Timers, Fires(t)
        PROVE  Loop!Next \/ UNCHANGED <<Phase, sup.attempt>>
    BY <2>7, TimerImplements DEF Loop!Next
  <2>8. ASSUME NEW r \in Recoveries, Settles(r)
        PROVE  Loop!Next \/ UNCHANGED <<Phase, sup.attempt>>
    BY <2>8, StaleRunImplements, SettleImplements DEF Settles, Loop!Next
  <2> QED BY <2>1, <2>2, <2>3, <2>4, <2>5, <2>6, <2>7, <2>8 DEF Next
<1> QED BY <1>1, <1>2, InvHolds, PTL DEF Spec, LoopSpec, Loop!Spec
=============================================================================
