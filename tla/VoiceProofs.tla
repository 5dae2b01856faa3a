----------------------------- MODULE VoiceProofs -----------------------------
(***************************************************************************)
(* The theorems about three views of the call of a client.                  *)
(*                                                                          *)
(* About VoiceSession, for any rooms and operations: once nothing is under  *)
(* way, what the user is shown, what the client holds and the call the      *)
(* server has it in agree, and a camera or a screen is live exactly when    *)
(* it is shown.                                                             *)
(*                                                                          *)
(* About Microphone, for any media sessions and tracks: once nothing is     *)
(* under way, the only open microphone is the one the call publishes,       *)
(* muted as the user chose, and the others are told so.                     *)
(*                                                                          *)
(* About CallResumption, for any conversations: what is stored for a        *)
(* reload, what is shown and what the user asked for agree once everything  *)
(* is rendered.                                                             *)
(*                                                                          *)
(* None is null in the code, apart from everything it may stand beside.     *)
(***************************************************************************)
EXTENDS Microphone, CallResumption, VoiceSession, SequenceTheorems, TLAPS

-----------------------------------------------------------------------------
(* The microphone.                                                          *)

Statuses == {"idle", "joining", "connected", "recovering", "reconnecting"}
Phases == {"new", "permission", "publishing", "ready", "stopping", "detaching", "over"}
Tracks == Inputs \cup {None}
Sessions == [phase : Phases, published : BOOLEAN, track : Tracks, recovers : BOOLEAN,
             read : Tracks, overtaken : BOOLEAN]
Changes == [client : Clients, phase : {"permission", "replacing"}, track : Tracks, late : BOOLEAN]
Controls == [userMuted : BOOLEAN, deafened : BOOLEAN]
Presences == [inCall : BOOLEAN, muted : BOOLEAN, deafened : BOOLEAN]

NoneApart == None \notin Clients \cup Inputs \cup Changes

TypeOK ==
  /\ call \in Statuses /\ wanted \in BOOLEAN /\ current \in Clients \cup {None}
  /\ sessions \in [Clients -> Sessions]
  /\ input \in [Inputs -> {"none", "live", "ended"}] /\ enabled \in [Inputs -> BOOLEAN]
  /\ ref \in Tracks /\ controls \in Controls /\ change \in Changes \cup {None}
  /\ online \in BOOLEAN /\ presence \in Presences
  /\ saved \in Presences \cup {None} /\ unsent \in BOOLEAN /\ loose \subseteq Inputs

-----------------------------------------------------------------------------
(* The invariant.                                                           *)

Phase(c) == sessions[c].phase
Starting(c) == Phase(c) \in {"permission", "publishing"}

(* A session that holds a track open.                                       *)
Holds(c) == Phase(c) \in {"publishing", "ready", "stopping", "detaching"}

(* What goes with a phase.                                                  *)
Phased ==
  \A c \in Clients :
    /\ sessions[c].published <=> Phase(c) \in {"ready", "stopping", "detaching"}
    /\ Holds(c) => sessions[c].track # None
    /\ Phase(c) = "new" => sessions[c] = New
    /\ Phase(c) = "permission" => sessions[c].track = None

(* One session at a time starts, is ready or is rebuilt, and it is the one of  *)
(* the hook; the status says which.                                         *)
OneActive ==
  /\ \A c, d \in Clients : UnderWay(c) /\ UnderWay(d) => c = d
  /\ \A c \in Clients :
       /\ Phase(c) = "ready" => call = "connected" /\ current = c
       /\ UnderWay(c) /\ wanted => current = c /\ call \in {"joining", "recovering"}
       /\ UnderWay(c) => call # "connected"
       /\ Phase(c) = "detaching" /\ ~sessions[c].overtaken => wanted
       /\ wanted /\ Starting(c) => (sessions[c].recovers <=> call = "recovering")
  /\ call = "connected" => wanted /\ current # None /\ Phase(current) = "ready"
  /\ call = "reconnecting" => \A c \in Clients : ~UnderWay(c)

Replacing == change # None /\ change.phase = "replacing"

(* What is told of the controls is what they are, but for a change that was   *)
(* not sent or was undone.                                                  *)
Told ==
  presence.inCall /\ ~unsent =>
    presence.deafened = controls.deafened /\ presence.muted = EffectiveMuted(controls)

(* Whatever names a track names one that was opened.                        *)
Named ==
  /\ ref # None => input[ref] # "none"
  /\ \A c \in Clients : /\ sessions[c].track # None => input[sessions[c].track] # "none"
                        /\ sessions[c].read # None => input[sessions[c].read] # "none"
  /\ \A t \in loose : input[t] # "none"

(* A track belongs to one session, or to the change that opened it.          *)
Owned ==
  /\ \A c \in Clients : Holds(c) =>
       /\ input[sessions[c].track] = "live" /\ sessions[c].track \notin loose
       /\ \A d \in Clients : Holds(d) /\ sessions[d].track = sessions[c].track => c = d
       /\ Replacing => change.track # sessions[c].track
  /\ Replacing => /\ change.track # None /\ input[change.track] = "live" /\ change.track \notin loose
                  /\ Phase(change.client) \in {"ready", "stopping", "detaching", "over"}
  /\ \A t \in LiveInputs : \/ \E c \in Clients : Holds(c) /\ sessions[c].track = t
                           \/ Replacing /\ change.track = t

(* The hook knows the track of the session, while it is ready, rebuilt and    *)
(* started again.                                                           *)
Known ==
  /\ call = "connected" =>
       /\ ref = sessions[current].track
       /\ enabled[ref] = ~EffectiveMuted(controls)
  /\ \A c \in Clients :
       /\ Phase(c) = "detaching" /\ ~sessions[c].overtaken =>
            sessions[c].read = sessions[c].track /\ ref = sessions[c].track
       /\ wanted /\ Starting(c) /\ call = "recovering" /\ Usable(ref) # None =>
            sessions[c].track = ref
  /\ wanted /\ call = "reconnecting" => Usable(ref) = None

Inv == /\ TypeOK /\ Phased /\ OneActive /\ Told
       /\ loose # Inputs => Named /\ Owned /\ Known
-----------------------------------------------------------------------------
(* What an update of one session leaves.                                    *)
LEMMA SessionIs ==
  ASSUME TypeOK, NEW c \in Clients
  PROVE  /\ sessions[c] \in Sessions /\ sessions[c].phase \in Phases
         /\ sessions[c].published \in BOOLEAN /\ sessions[c].track \in Tracks
         /\ sessions[c].recovers \in BOOLEAN /\ sessions[c].read \in Tracks
         /\ sessions[c].overtaken \in BOOLEAN
BY DEF TypeOK, Sessions

LEMMA EndedIs ==
  ASSUME NoneApart, TypeOK, NEW t \in Tracks
  PROVE  /\ Ended(t) \in [Inputs -> {"none", "live", "ended"}]
         /\ \A x \in Inputs : Ended(t)[x] = IF x = t THEN "ended" ELSE input[x]
BY DEF Ended, TypeOK, Tracks, NoneApart

LEMMA MutedIs ==
  ASSUME TypeOK, NEW t
  PROVE  /\ EffectiveMuted(controls) \in BOOLEAN
         /\ Muted(t) \in [Inputs -> BOOLEAN]
         /\ t \in Inputs => Muted(t)[t] = ~EffectiveMuted(controls)
BY DEF Muted, EffectiveMuted, TypeOK, Controls

LEMMA NewIs ==
  /\ New \in Sessions /\ New.phase = "new" /\ ~New.published /\ New.track = None
  /\ ~New.recovers /\ New.read = None /\ ~New.overtaken
BY DEF New, Sessions, Phases, Tracks

-----------------------------------------------------------------------------
LEMMA InvInit == MicrophoneInit => Inv
<1> SUFFICES ASSUME MicrophoneInit PROVE Inv
  OBVIOUS
<1>1. TypeOK
  BY NewIs DEF MicrophoneInit, TypeOK, Statuses, Unmuted, Controls, Away, Presences, Tracks
<1>2. \A c \in Clients : sessions[c] = New
  BY DEF MicrophoneInit
<1>3. Phased /\ OneActive /\ Told
  BY <1>2, NewIs DEF MicrophoneInit, Phased, OneActive, Told, Phase, Holds, UnderWay, Starting, Away
<1>4. Named /\ Owned /\ Known
  BY <1>1, <1>2, NewIs
     DEF MicrophoneInit, Named, Owned, Known, Holds, Phase, Replacing, LiveInputs, Starting
<1> QED BY <1>1, <1>3, <1>4 DEF Inv
-----------------------------------------------------------------------------
(* Types.                                                                   *)
LEMMA TellsType ==
  ASSUME TypeOK, NEW c, c \in Controls, Tells(c)
  PROVE  presence' \in Presences /\ unsent' \in BOOLEAN
<1>1. (EffectiveMuted(c) \/ c.deafened) \in BOOLEAN /\ c.deafened \in BOOLEAN
  BY DEF EffectiveMuted, Controls
<1> QED BY <1>1 DEF Tells, TypeOK, Presences, EffectiveMuted, Controls

LEMMA TogglesType ==
  ASSUME NoneApart, TypeOK, NEW action, Toggles(action)
  PROVE  TypeOK' /\ controls' \in Controls
<1>1. controls' \in Controls
  BY DEF Toggles, Reduced, TypeOK, Controls
<1>2. presence' \in Presences /\ unsent' \in BOOLEAN
  BY <1>1, TellsType DEF Toggles
<1>3. enabled' \in [Inputs -> BOOLEAN]
  BY DEF Toggles, SetMuted, TypeOK, EffectiveMuted
<1> QED BY <1>1, <1>2, <1>3 DEF Toggles, TypeOK

LEMMA AwayIs ==
  /\ Away \in Presences /\ ~Away.inCall /\ ~Away.muted /\ ~Away.deafened
  /\ [Away EXCEPT !.inCall = TRUE] \in Presences
  /\ [Away EXCEPT !.inCall = TRUE].muted = FALSE /\ [Away EXCEPT !.inCall = TRUE].deafened = FALSE
  /\ Unmuted \in Controls /\ Unmuted.deafened = FALSE /\ EffectiveMuted(Unmuted) = FALSE
BY DEF Away, Presences, Unmuted, Controls, EffectiveMuted

-----------------------------------------------------------------------------
(* A step that touches neither a session nor a track.                        *)
LEMMA AsideInv ==
  ASSUME Inv, TypeOK',
         UNCHANGED <<call, wanted, current, sessions, input, enabled, ref, controls, presence,
                     unsent, loose>>,
         change' = change \/ (~Replacing /\ ~Replacing')
  PROVE  Inv'
<1> USE DEF Inv
<1>1. Phased' /\ OneActive' /\ Told'
  BY DEF Phased, OneActive, Told, Phase, Holds, UnderWay, Starting
<1>2. ASSUME loose' # Inputs PROVE Named' /\ Known'
  BY <1>2 DEF Named, Known, Phase, Starting, Usable
<1>3. ASSUME loose' # Inputs PROVE Owned'
  <2>1. CASE change' = change
    BY <1>3, <2>1 DEF Owned, Holds, Phase, Replacing, LiveInputs
  <2>2. CASE ~Replacing /\ ~Replacing'
    BY <1>3, <2>2 DEF Owned, Holds, Phase, LiveInputs
  <2> QED BY <2>1, <2>2
<1> QED BY <1>1, <1>2, <1>3

LEMMA AsideSteps ==
  ASSUME NoneApart, Inv, SocketToggles \/ AlarmReadsPresence \/ AlarmLeavesPresence
                         \/ ChangeAsked \/ ChangeRefused
  PROVE  Inv'
<1>1. CASE SocketToggles \/ AlarmReadsPresence \/ AlarmLeavesPresence
  <2>1. UNCHANGED <<call, wanted, current, sessions, input, enabled, ref, controls, presence,
                    unsent, loose>> /\ change' = change
    BY <1>1 DEF SocketToggles, AlarmReadsPresence, AlarmLeavesPresence
  <2>2. online' \in BOOLEAN /\ saved' \in Presences \cup {None}
    BY <1>1 DEF Inv, TypeOK, SocketToggles, AlarmReadsPresence, AlarmLeavesPresence
  <2>3. TypeOK'
    BY <2>1, <2>2 DEF Inv, TypeOK
  <2> QED BY <2>1, <2>3, AsideInv
<1>2. CASE ChangeAsked
  <2>1. PICK x \in Changes : change' = x /\ x.phase = "permission"
    <3>1. current \in Clients
      BY <1>2 DEF Inv, TypeOK, ChangeAsked
    <3>2. [client |-> current, phase |-> "permission", track |-> None, late |-> FALSE] \in Changes
      BY <3>1 DEF Changes, Tracks
    <3> QED BY <1>2, <3>2 DEF ChangeAsked
  <2>2. TypeOK'
    BY <1>2, <2>1 DEF Inv, TypeOK, ChangeAsked
  <2>3. ~Replacing /\ ~Replacing'
    BY <1>2, <2>1 DEF Replacing, ChangeAsked
  <2> QED BY <1>2, <2>2, <2>3, AsideInv DEF ChangeAsked
<1>3. CASE ChangeRefused
  <2>1. TypeOK'
    BY <1>3 DEF Inv, TypeOK, ChangeRefused
  <2>2. ~Replacing /\ ~Replacing'
    BY <1>3 DEF Replacing, ChangeRefused
  <2> QED BY <1>3, <2>1, <2>2, AsideInv DEF ChangeRefused
<1> QED BY <1>1, <1>2, <1>3

(* A late leave, or the alarm, changes what the others are told, and no more. *)
LEMMA PresenceSteps ==
  ASSUME NoneApart, Inv, LeavesLate \/ AlarmWritesPresence
  PROVE  Inv'
<1> USE DEF Inv
<1>1. UNCHANGED <<call, wanted, current, sessions, input, enabled, ref, controls, change, online,
                  loose>>
  BY DEF LeavesLate, AlarmWritesPresence
<1>2. /\ presence' \in Presences /\ saved' \in Presences \cup {None} /\ unsent' \in BOOLEAN
      /\ ~presence'.inCall \/ unsent' \/ (presence' = presence /\ ~unsent)
  BY AwayIs DEF LeavesLate, AlarmWritesPresence, TypeOK
<1>3. TypeOK'
  BY <1>1, <1>2 DEF TypeOK
<1>4. Told'
  BY <1>1, <1>2 DEF Told, EffectiveMuted
<1>5. Phased' /\ OneActive'
  BY <1>1 DEF Phased, OneActive, Phase, Holds, UnderWay, Starting
<1>6. ASSUME loose' # Inputs PROVE Named' /\ Owned' /\ Known'
  BY <1>1, <1>6 DEF Named, Owned, Known, Phase, Holds, Replacing, LiveInputs, Starting, Usable,
     EffectiveMuted
<1> QED BY <1>3, <1>4, <1>5, <1>6

(* The controls are toggled: the track follows, and the others are told.     *)
LEMMA TogglesInv ==
  ASSUME NoneApart, Inv, NEW action, Toggles(action)
  PROVE  Inv'
<1> USE DEF Inv
<1>1. TypeOK' /\ controls' \in Controls
  BY TogglesType
<1>2. UNCHANGED <<call, wanted, current, sessions, input, ref, change, loose>>
  BY DEF Toggles
<1>3. Phased' /\ OneActive'
  BY <1>2 DEF Phased, OneActive, Phase, Holds, UnderWay, Starting
<1>4. Told'
  <2> SUFFICES ASSUME presence'.inCall, ~unsent'
               PROVE  presence'.deafened = controls'.deafened
                      /\ presence'.muted = EffectiveMuted(controls')
    BY DEF Told, EffectiveMuted
  <2>1. PICK m, d : m = (EffectiveMuted(controls') \/ controls'.deafened) /\ d = controls'.deafened
    OBVIOUS
  <2>2. presence' = [presence EXCEPT !.muted = m, !.deafened = d]
    BY <2>1 DEF Toggles, Tells
  <2>3. presence'.muted = m /\ presence'.deafened = d
    BY <2>2 DEF TypeOK, Presences
  <2>4. m = EffectiveMuted(controls')
    BY <1>1, <2>1 DEF EffectiveMuted, Controls
  <2> QED BY <2>1, <2>3, <2>4
<1>5. ASSUME loose' # Inputs PROVE Named' /\ Owned'
  BY <1>2, <1>5 DEF Named, Owned, Phase, Holds, Replacing, LiveInputs
<1>6. ASSUME loose' # Inputs PROVE Known'
  <2>1. ASSUME call = "connected"
        PROVE  enabled'[ref] = ~EffectiveMuted(controls')
    <3>1. current # None /\ current \in Clients /\ Phase(current) = "ready" /\ ref = sessions[current].track
      BY <1>2, <1>6, <2>1 DEF OneActive, Known, TypeOK
    <3>2. sessions[current].published /\ ref # None
      BY <3>1 DEF Phased, Holds, Phase
    <3>3. enabled' = [enabled EXCEPT ![ref] = ~EffectiveMuted(controls')]
      BY <3>1, <3>2 DEF Toggles, SetMuted
    <3> QED BY <3>2, <3>3 DEF TypeOK, Tracks
  <2> QED BY <1>2, <1>6, <2>1 DEF Known, Phase, Starting, Usable, EffectiveMuted
<1> QED BY <1>1, <1>3, <1>4, <1>5, <1>6
-----------------------------------------------------------------------------
(* A session starts. *)
LEMMA JoinsCallInv ==
  ASSUME NoneApart, Inv, NEW c \in Clients, JoinsCall(c)
  PROVE  Inv'
<1> USE DEF Inv
<1>1. /\ call = "idle" /\ Phase(c) = "new" /\ sessions[c] = New /\ \A x \in Clients : ~UnderWay(x)
      /\ call' = "joining" /\ wanted' = TRUE /\ current' = c
      /\ UNCHANGED <<input, enabled, ref, controls, change, loose>>
  BY DEF JoinsCall, Starts, Unused, Phased, Phase
<1>2. /\ sessions' = [sessions EXCEPT ![c].phase = "permission", ![c].track = None]
      /\ presence' = [Away EXCEPT !.inCall = TRUE] /\ unsent' = (controls # Unmuted)
      /\ online' = online /\ saved' = saved
  BY DEF JoinsCall, Starts
<1>3. PICK s : s = [New EXCEPT !.phase = "permission", !.track = None]
  OBVIOUS
<1>a. /\ s \in Sessions /\ s.phase = "permission" /\ s.track = None /\ ~s.published
      /\ s.read = None /\ ~s.recovers
  BY <1>3, NewIs DEF Sessions, Phases, Tracks
<1>4. sessions' \in [Clients -> Sessions] /\ sessions'[c] = s
      /\ \A x \in Clients : x # c => sessions'[x] = sessions[x]
  BY <1>1, <1>2, <1>3, <1>a DEF TypeOK
<1>5. TypeOK'
  BY <1>1, <1>2, <1>4, AwayIs DEF TypeOK, Statuses, JoinsCall
<1>6. \A x \in Clients : ~Holds(c) /\ ~Holds(c)' /\ ~(Phase(x) = "ready")
                         /\ (Holds(x)' => x # c) /\ (UnderWay(x)' => x = c)
  BY <1>1, <1>a, <1>4 DEF Holds, Phase, OneActive, UnderWay
<1>7. Phased' /\ OneActive'
  BY <1>1, <1>a, <1>4, <1>6 DEF Phased, OneActive, Holds, Phase, UnderWay, Starting
<1>8. Told'
  <2>1. ~unsent' => controls' = Unmuted
    BY <1>1, <1>2
  <2>2. presence'.muted = FALSE /\ presence'.deafened = FALSE
    BY <1>2, AwayIs
  <2> QED BY <2>1, <2>2, AwayIs DEF Told
<1>9. ASSUME loose' # Inputs PROVE Named'
  BY <1>1, <1>a, <1>4, <1>9 DEF Named
<1>10. ASSUME loose' # Inputs PROVE Owned'
  <2>1. Owned
    BY <1>1, <1>10
  <2>2. \A x \in Clients : (Holds(x)' <=> Holds(x)) /\ (Holds(x) => sessions'[x] = sessions[x])
    BY <1>4, <1>6 DEF Holds, Phase
  <2>3. LiveInputs' = LiveInputs /\ (Replacing' <=> Replacing)
    BY <1>1 DEF LiveInputs, Replacing
  <2>4. Replacing => change.client \in Clients /\ change.client # c
    BY <1>1, <2>1 DEF Owned, Replacing, TypeOK, Changes, NoneApart
  <2> QED BY <1>1, <1>4, <2>1, <2>2, <2>3, <2>4 DEF Owned, Phase
<1>11. Known'
  BY <1>1, <1>a, <1>4, <1>6 DEF Known, Phase, Starting, UnderWay
<1> QED BY <1>5, <1>7, <1>8, <1>9, <1>10, <1>11

LEMMA PermissionGrantedInv ==
  ASSUME NoneApart, Inv, NEW c \in Clients, NEW t \in Inputs, PermissionGranted(c, t)
  PROVE  Inv'
<1> USE DEF Inv
<1>1. /\ Phase(c) = "permission" /\ input[t] = "none"
      /\ UNCHANGED <<call, wanted, current, enabled, ref, controls, change, presence, saved, unsent, loose,
                     online>>
      /\ input' = [input EXCEPT ![t] = "live"]
      /\ sessions' = [sessions EXCEPT ![c].phase = "publishing", ![c].track = t]
  BY DEF PermissionGranted, Unopened, Opens, Phase
<1>2. PICK s : s = [sessions[c] EXCEPT !.phase = "publishing", !.track = t]
  OBVIOUS
<1>3. /\ s \in Sessions /\ s.phase = "publishing" /\ s.track = t
      /\ s.published = sessions[c].published /\ s.recovers = sessions[c].recovers
      /\ s.read = sessions[c].read /\ s.overtaken = sessions[c].overtaken
  BY <1>2, SessionIs DEF Sessions, Phases, Tracks
<1>4. sessions' \in [Clients -> Sessions] /\ sessions'[c] = s
      /\ \A x \in Clients : x # c => sessions'[x] = sessions[x]
  BY <1>1, <1>2, <1>3 DEF TypeOK
<1>5. TypeOK' /\ \A x \in Inputs : input'[x] = IF x = t THEN "live" ELSE input[x]
  BY <1>1, <1>4 DEF TypeOK
<1>6. Phased' /\ OneActive'
  <2>1. \A x \in Clients : /\ UnderWay(x)' <=> UnderWay(x)
                           /\ Starting(x)' <=> Starting(x)
                           /\ Phase(x)' = "ready" <=> Phase(x) = "ready"
                           /\ Phase(x)' = "detaching" <=> Phase(x) = "detaching"
    BY <1>1, <1>3, <1>4 DEF UnderWay, Phase, Starting
  <2>2. Phased'
    BY <1>1, <1>3, <1>4 DEF Phased, Phase, Holds, NoneApart
  <2>3. OneActive'
    BY <1>1, <1>3, <1>4, <2>1 DEF OneActive, TypeOK, Phase
  <2> QED BY <2>2, <2>3
<1>7. Told'
  BY <1>1 DEF Told, EffectiveMuted
<1>8. ASSUME loose' # Inputs PROVE Named'
  BY <1>1, <1>3, <1>4, <1>5, <1>8 DEF Named, TypeOK, Sessions, Tracks
<1>9. ASSUME loose' # Inputs PROVE Owned'
  <2>1. Owned /\ Named
    BY <1>1, <1>9
  <2>2. \A x \in Clients : Holds(x)' <=> Holds(x) \/ x = c
    BY <1>1, <1>3, <1>4 DEF Holds, Phase
  <2>3. \A x \in Clients : Holds(x) => x # c /\ sessions[x].track # t /\ sessions'[x] = sessions[x]
    BY <1>1, <1>4, <2>1 DEF Holds, Phase, Owned
  <2>4. t \notin loose /\ (Replacing => change.track # t /\ change.track \in Inputs)
    BY <1>1, <2>1 DEF Named, Owned, TypeOK, Changes, Tracks, Replacing
  <2>5. LiveInputs' = LiveInputs \cup {t} /\ (Replacing' <=> Replacing)
    BY <1>1, <1>5, <2>4 DEF LiveInputs, Replacing
  <2>6. Replacing => change.client \in Clients /\ change.client # c
    BY <1>1, <2>1 DEF Owned, Replacing, TypeOK, Changes, NoneApart
  <2>7. \A x \in Clients : Holds(x)' =>
          /\ input'[sessions'[x].track] = "live" /\ sessions'[x].track \notin loose'
          /\ \A d \in Clients : Holds(d)' /\ sessions'[d].track = sessions'[x].track => x = d
          /\ Replacing' => change'.track # sessions'[x].track
    BY <1>1, <1>3, <1>4, <1>5, <2>1, <2>2, <2>3, <2>4, <2>5 DEF Owned, TypeOK, Sessions, Tracks
  <2>8. \A u \in LiveInputs' : \/ \E x \in Clients : Holds(x)' /\ sessions'[x].track = u
                               \/ Replacing' /\ change'.track = u
    BY <1>1, <1>3, <1>4, <2>1, <2>2, <2>3, <2>5 DEF Owned
  <2>9. Replacing' => /\ change'.track # None /\ input'[change'.track] = "live" /\ change'.track \notin loose'
                      /\ Phase(change.client)' \in {"ready", "stopping", "detaching", "over"}
    BY <1>1, <1>4, <1>5, <2>1, <2>4, <2>5, <2>6 DEF Owned, Phase
  <2> QED BY <2>7, <2>8, <2>9 DEF Owned
<1>10. ASSUME loose' # Inputs PROVE Known'
  <2>1. Known /\ Named /\ ref # t
    BY <1>1, <1>10 DEF Named, TypeOK, NoneApart
  <2>2. Usable(ref)' = Usable(ref)
    BY <1>1, <1>5, <2>1 DEF Usable, TypeOK, Tracks
  <2>3. call = "connected" => current \in Clients /\ current # c
    BY <1>1 DEF OneActive, UnderWay, Phase, TypeOK
  <2>4. Starting(c) /\ (wanted /\ call = "recovering" => Usable(ref) = None)
    BY <1>1, <2>1 DEF Known, Phased, Starting, Phase, Usable
  <2> QED BY <1>1, <1>3, <1>4, <2>1, <2>2, <2>3, <2>4 DEF Known, Phase, Starting, EffectiveMuted
<1> QED BY <1>5, <1>6, <1>7, <1>8, <1>9, <1>10
(* A start ends: its microphone becomes the one of the call, or is left open. *)
LEMMA StartEndsInv ==
  ASSUME NoneApart, Inv, NEW c \in Clients, StartEnds(c)
  PROVE  Inv'
<1> USE DEF Inv
<1>1. PICK t \in Inputs : t = sessions[c].track
  BY SessionIs DEF StartEnds, Phased, Holds, Phase, Tracks
<1>2. /\ Phase(c) = "publishing"
      /\ UNCHANGED <<wanted, current, input, controls, change, online, saved, unsent>>
  BY DEF StartEnds, Phase
<1>3. PICK p, b : p = (IF wanted THEN "ready" ELSE "over") /\ b = wanted
  OBVIOUS
<1>4. PICK s : s = [sessions[c] EXCEPT !.phase = p, !.published = b]
  OBVIOUS
<1>5. /\ s \in Sessions /\ s.phase = p /\ s.published = b /\ s.track = t
      /\ s.recovers = sessions[c].recovers /\ s.read = sessions[c].read
      /\ s.overtaken = sessions[c].overtaken
  BY <1>1, <1>3, <1>4, SessionIs DEF Sessions, Phases, TypeOK
<1>6. sessions' = [sessions EXCEPT ![c] = s]
  <2>1. CASE wanted
    BY <1>3, <1>4, <2>1 DEF StartEnds
  <2>2. CASE ~wanted
    <3>1. ~sessions[c].published
      BY <1>2 DEF Phased, Phase
    <3>2. s = [sessions[c] EXCEPT !.phase = "over"]
      BY <1>3, <1>4, <2>2, <3>1, SessionIs DEF Sessions, TypeOK
    <3> QED BY <2>2, <3>2 DEF StartEnds
  <2> QED BY <2>1, <2>2
<1>7. sessions' \in [Clients -> Sessions] /\ sessions'[c] = s
      /\ \A x \in Clients : x # c => sessions'[x] = sessions[x]
  BY <1>5, <1>6 DEF TypeOK
<1>8. /\ call' \in Statuses /\ enabled' \in [Inputs -> BOOLEAN] /\ ref' \in Tracks
      /\ presence' \in Presences /\ loose' \subseteq Inputs
  BY <1>1, MutedIs, AwayIs DEF StartEnds, LeftAtServer, TypeOK, Statuses, Tracks
<1>9. TypeOK'
  BY <1>2, <1>7, <1>8 DEF TypeOK
<1>10. Phased'
  BY <1>1, <1>2, <1>3, <1>5, <1>7 DEF Phased, Phase, Holds, NoneApart
<1>11. \A x \in Clients : ~UnderWay(x)' /\ (x # c => ~UnderWay(x) /\ Phase(x) # "ready")
  <2>1. \A x \in Clients : UnderWay(x) => x = c
    BY <1>2 DEF OneActive, UnderWay, Phase
  <2>2. \A x \in Clients : Phase(x) # "ready"
    BY <1>2 DEF OneActive, UnderWay, Phase
  <2> QED BY <1>3, <1>5, <1>7, <2>1, <2>2 DEF UnderWay
<1>12. wanted => call' = "connected" /\ current = c /\ enabled' = Muted(t) /\ ref' = t
                 /\ UNCHANGED <<presence, loose>>
  BY <1>1, <1>2 DEF StartEnds, OneActive, UnderWay, Phase
<1>13. ~wanted => call' = call /\ UNCHANGED <<enabled, ref>> /\ loose' = loose \cup {t}
                  /\ presence' \in {presence, Away}
  BY <1>1 DEF StartEnds, LeftAtServer
<1>14. OneActive'
  <2>1. CASE wanted
    BY <1>2, <1>3, <1>5, <1>7, <1>11, <1>12, <2>1 DEF OneActive, Phase, UnderWay, Starting, NoneApart
  <2>2. CASE ~wanted
    <3>1. call # "connected"
      BY <2>2 DEF OneActive
    <3> QED BY <1>2, <1>3, <1>5, <1>7, <1>11, <1>13, <2>2, <3>1
            DEF OneActive, Phase, UnderWay, Starting
  <2> QED BY <2>1, <2>2
<1>15. Told'
  BY <1>2, <1>12, <1>13, AwayIs DEF Told, EffectiveMuted, TypeOK
<1>16. ASSUME loose' # Inputs PROVE loose # Inputs /\ Named /\ Owned /\ Known
  BY <1>1, <1>12, <1>13, <1>16 DEF TypeOK
<1>17. ASSUME loose' # Inputs PROVE Named'
  <2>1. input[t] # "none"
    BY <1>1, <1>2, <1>16, <1>17 DEF Owned, Holds, Phase
  <2> QED BY <1>1, <1>2, <1>5, <1>7, <1>12, <1>13, <1>16, <1>17, <2>1 DEF Named, TypeOK
<1>18. ASSUME loose' # Inputs PROVE Owned'
  <2>1. /\ \A x \in Clients : sessions'[x].track = sessions[x].track
        /\ Replacing' <=> Replacing
        /\ Replacing => change.client \in Clients
    BY <1>1, <1>2, <1>5, <1>7 DEF Replacing, TypeOK, Changes, NoneApart
  <2>2. Holds(c) /\ \A x \in Clients : x # c => (Holds(x)' <=> Holds(x))
    BY <1>2, <1>7 DEF Holds, Phase
  <2>3. Replacing => Phase(change.client)' \in {"ready", "stopping", "detaching", "over"}
    <3> SUFFICES ASSUME Replacing PROVE Phase(change.client)' \in {"ready", "stopping", "detaching", "over"}
      OBVIOUS
    <3>1. Phase(change.client) \in {"ready", "stopping", "detaching", "over"}
      BY <1>16, <1>18 DEF Owned
    <3>2. change.client # c /\ change.client \in Clients
      BY <1>2, <2>1, <3>1
    <3> QED BY <1>2, <1>7, <3>1, <3>2 DEF Phase
  <2>4. CASE wanted
    <3>1. LiveInputs' = LiveInputs /\ UNCHANGED loose /\ Holds(c)'
      BY <1>2, <1>3, <1>5, <1>7, <1>12, <2>4 DEF LiveInputs, Holds, Phase
    <3> QED BY <1>2, <1>16, <1>18, <2>1, <2>2, <2>3, <3>1 DEF Owned
  <2>5. CASE ~wanted
    <3>1. LiveInputs' = LiveInputs \ {t} /\ loose' = loose \cup {t} /\ ~Holds(c)'
      BY <1>2, <1>3, <1>5, <1>7, <1>13, <2>5 DEF LiveInputs, Holds, Phase
    <3>2. /\ \A x \in Clients : Holds(x)' => Holds(x) /\ sessions[x].track # t
          /\ Replacing => change.track # t
      BY <1>1, <1>16, <1>18, <2>2, <3>1 DEF Owned
    <3>3. \A u \in LiveInputs' : \/ \E x \in Clients : Holds(x)' /\ sessions'[x].track = u
                                 \/ Replacing' /\ change'.track = u
      BY <1>1, <1>2, <1>16, <1>18, <2>1, <2>2, <3>1 DEF Owned
    <3> QED BY <1>2, <1>16, <1>18, <2>1, <2>3, <3>1, <3>2, <3>3 DEF Owned
  <2> QED BY <2>4, <2>5
<1>19. ASSUME loose' # Inputs PROVE Known'
  <2>1. \A x \in Clients : ~Starting(x)' /\ Phase(x)' # "detaching"
    BY <1>11 DEF Starting, UnderWay, Phase
  <2>2. CASE wanted
    <3>1. call' = "connected" /\ ref' = sessions'[current'].track
      BY <1>2, <1>5, <1>7, <1>12, <2>2
    <3>2. enabled'[ref'] = ~EffectiveMuted(controls')
      BY <1>1, <1>2, <1>12, <2>2, MutedIs
    <3> QED BY <2>1, <3>1, <3>2 DEF Known
  <2>3. CASE ~wanted
    <3>1. call' # "connected" /\ ~wanted'
      BY <1>2, <1>13, <2>3 DEF OneActive
    <3> QED BY <2>1, <3>1 DEF Known
  <2> QED BY <2>2, <2>3
<1> QED BY <1>9, <1>10, <1>14, <1>15, <1>17, <1>18, <1>19
(* A start fails: its track is stopped, and the next recovery opens another. *)
LEMMA SessionFailsInv ==
  ASSUME NoneApart, Inv, NEW c \in Clients, SessionFails(c)
  PROVE  Inv'
<1> USE DEF Inv
<1>1. PICK t \in Tracks : t = sessions[c].track
  BY SessionIs
<1>2. /\ Phase(c) \in {"permission", "publishing"} /\ input' = Ended(t)
      /\ sessions' = [sessions EXCEPT ![c].phase = "over"]
      /\ current' = (IF current = c THEN None ELSE current)
      /\ UNCHANGED <<wanted, enabled, ref, controls, change, online, saved, unsent, loose>>
      /\ IF sessions[c].recovers THEN call' = "reconnecting" /\ UNCHANGED presence
         ELSE call' = "idle" /\ presence' \in {presence, Away}
  BY <1>1 DEF SessionFails, Phase, LeftAtServer
<1>3. PICK s : s = [sessions[c] EXCEPT !.phase = "over"]
  OBVIOUS
<1>4. /\ s \in Sessions /\ s.phase = "over" /\ s.published = sessions[c].published /\ s.track = t
      /\ s.recovers = sessions[c].recovers /\ s.read = sessions[c].read
      /\ s.overtaken = sessions[c].overtaken
  BY <1>1, <1>3, SessionIs DEF Sessions, Phases
<1>5. sessions' \in [Clients -> Sessions] /\ sessions'[c] = s
      /\ \A x \in Clients : x # c => sessions'[x] = sessions[x]
  BY <1>2, <1>3, <1>4 DEF TypeOK
<1>6. /\ input' \in [Inputs -> {"none", "live", "ended"}]
      /\ \A x \in Inputs : input'[x] = IF x = t THEN "ended" ELSE input[x]
  BY <1>2, EndedIs
<1>7. TypeOK'
  BY <1>2, <1>5, <1>6, AwayIs DEF TypeOK, Statuses
<1>8. Phased'
  BY <1>2, <1>4, <1>5 DEF Phased, Phase, Holds
<1>9. \A x \in Clients : ~UnderWay(x)' /\ Phase(x)' # "ready" /\ ~Starting(x)'
  <2>1. \A x \in Clients : (UnderWay(x) => x = c) /\ Phase(x) # "ready"
    BY <1>2 DEF OneActive, UnderWay, Phase
  <2> QED BY <1>4, <1>5, <2>1 DEF UnderWay, Starting, Phase
<1>10. call' \in {"idle", "reconnecting"}
  BY <1>2
<1>11. OneActive'
  BY <1>9, <1>10 DEF OneActive, UnderWay, Phase
<1>12. Told'
  BY <1>2, AwayIs DEF Told, EffectiveMuted
<1>13. ASSUME loose' # Inputs PROVE Named'
  BY <1>2, <1>4, <1>5, <1>6, <1>13 DEF Named, TypeOK, Tracks, Sessions
<1>14. ASSUME loose' # Inputs PROVE Owned'
  <2>1. Owned
    BY <1>2, <1>14
  <2>2. /\ \A x \in Clients : sessions'[x].track = sessions[x].track
        /\ Replacing' <=> Replacing
        /\ Replacing => change.client \in Clients /\ change.track \in Tracks
    BY <1>2, <1>4, <1>5, <1>1 DEF Replacing, TypeOK, Changes, NoneApart
  <2>3. \A x \in Clients : Holds(x)' => Holds(x) /\ x # c
    BY <1>4, <1>5 DEF Holds, Phase
  <2>4. \A x \in Clients : Holds(x) /\ x # c => Holds(x)'
    BY <1>5 DEF Holds, Phase
  <2>5. t = None \/ (t \in Inputs /\ Holds(c))
    BY <1>1, <1>2 DEF Tracks, Phased, Holds, Phase
  <2>6. \A x \in Clients : Holds(x)' => sessions[x].track # t /\ sessions[x].track \in Inputs
    BY <1>1, <2>1, <2>3, <2>5, SessionIs DEF Owned, Phased, Tracks
  <2>7. LiveInputs' = LiveInputs \ {t}
    BY <1>2, <1>6 DEF LiveInputs
  <2>8. Replacing => change.track # t /\ change.track \in Inputs
    BY <1>1, <2>1, <2>2, <2>5 DEF Owned, Tracks
  <2>9. Replacing => Phase(change.client)' \in {"ready", "stopping", "detaching", "over"}
    <3> SUFFICES ASSUME Replacing
                 PROVE  Phase(change.client)' \in {"ready", "stopping", "detaching", "over"}
      OBVIOUS
    <3>1. Phase(change.client) \in {"ready", "stopping", "detaching", "over"}
      BY <2>1 DEF Owned
    <3>2. change.client # c /\ change.client \in Clients
      BY <1>2, <2>2, <3>1
    <3> QED BY <1>2, <1>5, <3>1, <3>2 DEF Phase
  <2>10. \A u \in LiveInputs' : \/ \E x \in Clients : Holds(x)' /\ sessions'[x].track = u
                                \/ Replacing' /\ change'.track = u
    BY <1>1, <1>2, <2>1, <2>2, <2>4, <2>7 DEF Owned
  <2>11. \A x \in Clients : Holds(x)' =>
          /\ input'[sessions'[x].track] = "live" /\ sessions'[x].track \notin loose'
          /\ \A d \in Clients : Holds(d)' /\ sessions'[d].track = sessions'[x].track => x = d
          /\ Replacing' => change'.track # sessions'[x].track
    BY <1>2, <1>6, <2>1, <2>2, <2>3, <2>6 DEF Owned
  <2>12. Replacing' => /\ change'.track # None /\ input'[change'.track] = "live"
                       /\ change'.track \notin loose'
    BY <1>2, <1>6, <2>1, <2>2, <2>8 DEF Owned
  <2> QED BY <1>2, <2>2, <2>9, <2>10, <2>11, <2>12 DEF Owned
<1>15. ASSUME loose' # Inputs PROVE Known'
  <2>1. \A x \in Clients : Phase(x)' # "detaching"
    BY <1>9 DEF UnderWay, Phase
  <2>2. wanted' /\ call' = "reconnecting" => Usable(ref)' = None
    <3> SUFFICES ASSUME wanted, sessions[c].recovers
                 PROVE  Usable(ref)' = None
      BY <1>2
    <3>1. UnderWay(c) /\ Starting(c) /\ call \in {"joining", "recovering"}
      BY <1>2 DEF UnderWay, Phase, OneActive, Starting
    <3>2. Usable(ref) # None => t = ref
      BY <1>1, <1>2, <1>15, <3>1 DEF Known, OneActive
    <3>3. ref = None \/ ref = t \/ (ref \in Inputs /\ input[ref] # "live")
      BY <3>2 DEF Usable, TypeOK, Tracks
    <3> QED BY <1>2, <1>6, <3>3 DEF Usable, TypeOK, Tracks
  <2> QED BY <1>9, <1>10, <2>1, <2>2 DEF Known
<1> QED BY <1>7, <1>8, <1>11, <1>12, <1>13, <1>14, <1>15
-----------------------------------------------------------------------------
(* A session ends. *)
LEMMA LeavesCallInv ==
  ASSUME NoneApart, Inv, LeavesCall
  PROVE  Inv'
<1> USE DEF Inv
<1>1. /\ call' = "idle" /\ wanted' = FALSE /\ current' = None /\ ref' = None
      /\ controls' = Unmuted /\ presence' \in {presence, Away} /\ unsent' = (presence' # Away)
      /\ sessions' = [c \in Clients |->
           IF c = current /\ sessions[c].phase = "ready"
           THEN [sessions[c] EXCEPT !.phase = "stopping"]
           ELSE [sessions[c] EXCEPT !.overtaken = @ \/ UnderWay(c)]]
      /\ UNCHANGED <<input, enabled, change, online, saved, loose>>
  BY DEF LeavesCall, LeftAtServer
<1>2. \A c \in Clients :
        /\ sessions'[c] \in Sessions
        /\ sessions'[c].phase = IF Phase(c) = "ready" THEN "stopping" ELSE Phase(c)
        /\ sessions'[c].published = sessions[c].published /\ sessions'[c].track = sessions[c].track
        /\ sessions'[c].recovers = sessions[c].recovers /\ sessions'[c].read = sessions[c].read
        /\ UnderWay(c) => sessions'[c].overtaken
        /\ ~UnderWay(c) /\ Phase(c) # "ready" => sessions'[c] = sessions[c]
  <2> SUFFICES ASSUME NEW c \in Clients
               PROVE  /\ sessions'[c] \in Sessions
                      /\ sessions'[c].phase = IF Phase(c) = "ready" THEN "stopping" ELSE Phase(c)
                      /\ sessions'[c].published = sessions[c].published
                      /\ sessions'[c].track = sessions[c].track
                      /\ sessions'[c].recovers = sessions[c].recovers
                      /\ sessions'[c].read = sessions[c].read
                      /\ UnderWay(c) => sessions'[c].overtaken
                      /\ ~UnderWay(c) /\ Phase(c) # "ready" => sessions'[c] = sessions[c]
    OBVIOUS
  <2>1. CASE Phase(c) = "ready"
    <3>1. sessions'[c] = [sessions[c] EXCEPT !.phase = "stopping"]
      BY <1>1, <2>1 DEF OneActive, Phase
    <3> QED BY <2>1, <3>1, SessionIs DEF Sessions, Phases, UnderWay, Phase
  <2>2. CASE Phase(c) # "ready"
    <3>1. PICK o : o = (sessions[c].overtaken \/ UnderWay(c))
      OBVIOUS
    <3>2. sessions'[c] = [sessions[c] EXCEPT !.overtaken = o]
      BY <1>1, <2>2, <3>1 DEF Phase
    <3>3. o \in BOOLEAN /\ (UnderWay(c) => o) /\ (~UnderWay(c) => o = sessions[c].overtaken)
      BY <3>1, SessionIs
    <3> QED BY <2>2, <3>2, <3>3, SessionIs DEF Sessions, Phase
  <2> QED BY <2>1, <2>2
<1>3. sessions' \in [Clients -> Sessions]
  BY <1>1, <1>2
<1>4. TypeOK'
  BY <1>1, <1>3, AwayIs DEF TypeOK, Statuses, Tracks
<1>5. \A c \in Clients : /\ UnderWay(c)' <=> UnderWay(c)
                         /\ Holds(c)' <=> Holds(c)
                         /\ Phase(c)' # "ready"
                         /\ Phase(c)' = "detaching" => sessions'[c].overtaken
  BY <1>2 DEF UnderWay, Holds, Phase
<1>6. Phased'
  <2> SUFFICES ASSUME NEW c \in Clients
               PROVE  /\ sessions'[c].published <=> Phase(c)' \in {"ready", "stopping", "detaching"}
                      /\ Holds(c)' => sessions'[c].track # None
                      /\ Phase(c)' = "new" => sessions'[c] = New
                      /\ Phase(c)' = "permission" => sessions'[c].track = None
    BY DEF Phased
  <2> QED BY <1>2, <1>5 DEF Phased, Phase, UnderWay
<1>7. OneActive'
  BY <1>1, <1>2, <1>5 DEF OneActive
<1>8. Told'
  BY <1>1, AwayIs DEF Told
<1>9. ASSUME loose' # Inputs PROVE Named' /\ Owned' /\ Known'
  <2>1. Named /\ Owned
    BY <1>1, <1>9
  <2>2. Named'
    BY <1>1, <1>2, <2>1 DEF Named
  <2>3. LiveInputs' = LiveInputs /\ (Replacing' <=> Replacing)
        /\ (Replacing => change.client \in Clients)
    BY <1>1 DEF LiveInputs, Replacing, TypeOK, Changes, NoneApart
  <2>4. Replacing => Phase(change.client)' \in {"ready", "stopping", "detaching", "over"}
    BY <1>1, <1>2, <2>1, <2>3 DEF Owned, Phase
  <2>5. Owned'
    BY <1>1, <1>2, <1>5, <2>1, <2>3, <2>4 DEF Owned
  <2>6. Known'
    BY <1>1, <1>5 DEF Known
  <2> QED BY <2>2, <2>5, <2>6
<1> QED BY <1>4, <1>6, <1>7, <1>8, <1>9

LEMMA StopEndsInv ==
  ASSUME NoneApart, Inv, NEW c \in Clients, StopEnds(c)
  PROVE  Inv'
<1> USE DEF Inv
<1>1. PICK t \in Tracks : t = sessions[c].track
  BY SessionIs
<1>2. /\ Phase(c) = "stopping" /\ input' = Ended(t)
      /\ sessions' = [sessions EXCEPT ![c].phase = "over", ![c].published = FALSE]
      /\ UNCHANGED <<call, wanted, current, enabled, ref, controls, change, online, presence, saved, unsent,
                     loose>>
  BY <1>1 DEF StopEnds, Phase
<1>3. PICK s : s = [sessions[c] EXCEPT !.phase = "over", !.published = FALSE]
  OBVIOUS
<1>4. /\ s \in Sessions /\ s.phase = "over" /\ s.published = FALSE /\ s.track = t
      /\ s.recovers = sessions[c].recovers /\ s.read = sessions[c].read
      /\ s.overtaken = sessions[c].overtaken
  BY <1>1, <1>3, SessionIs DEF Sessions, Phases
<1>5. sessions' \in [Clients -> Sessions] /\ sessions'[c] = s
      /\ \A x \in Clients : x # c => sessions'[x] = sessions[x]
  BY <1>2, <1>3, <1>4 DEF TypeOK
<1>6. /\ input' \in [Inputs -> {"none", "live", "ended"}]
      /\ \A x \in Inputs : input'[x] = IF x = t THEN "ended" ELSE input[x]
  BY <1>2, EndedIs
<1>7. TypeOK'
  BY <1>2, <1>5, <1>6 DEF TypeOK
<1>8. Phased'
  BY <1>2, <1>4, <1>5 DEF Phased, Phase, Holds
<1>9. \A x \in Clients : /\ UnderWay(x)' <=> UnderWay(x)
                         /\ Starting(x)' <=> Starting(x)
                         /\ Phase(x)' = "ready" <=> Phase(x) = "ready"
                         /\ Phase(x)' = "detaching" <=> Phase(x) = "detaching"
                         /\ sessions'[x].recovers = sessions[x].recovers
                         /\ sessions'[x].overtaken = sessions[x].overtaken
                         /\ sessions'[x].track = sessions[x].track
                         /\ sessions'[x].read = sessions[x].read
  BY <1>1, <1>2, <1>4, <1>5 DEF UnderWay, Phase, Starting
<1>10. OneActive'
  BY <1>2, <1>9 DEF OneActive, TypeOK, Phase
<1>11. Told'
  BY <1>2 DEF Told, EffectiveMuted
<1>12. ASSUME loose' # Inputs PROVE Named'
  BY <1>2, <1>6, <1>9, <1>12 DEF Named, TypeOK, Tracks, Sessions
<1>13. ASSUME loose' # Inputs PROVE Owned'
  <2>0. UNCHANGED <<change, loose>> /\ \A x \in Clients : sessions'[x].track = sessions[x].track
    BY <1>2, <1>9
  <2>1. Owned /\ Holds(c)
    BY <1>2, <1>13 DEF Holds
  <2>2. /\ Replacing' <=> Replacing
        /\ Replacing => change.client \in Clients /\ change.track \in Tracks
    BY <1>2 DEF Replacing, TypeOK, Changes, NoneApart
  <2>3. \A x \in Clients : (Holds(x)' => Holds(x) /\ x # c) /\ (Holds(x) /\ x # c => Holds(x)')
    BY <1>4, <1>5 DEF Holds, Phase
  <2>4. t \in Inputs
    BY <1>1, <2>1 DEF Tracks, Phased
  <2>5. \A x \in Clients : Holds(x)' => sessions[x].track # t /\ sessions[x].track \in Inputs
    BY <1>1, <2>1, <2>3, SessionIs DEF Owned, Phased, Tracks
  <2>6. LiveInputs' = LiveInputs \ {t}
    BY <1>2, <1>6 DEF LiveInputs
  <2>7. Replacing => change.track # t /\ change.track \in Inputs
    BY <1>1, <2>1, <2>2 DEF Owned, Tracks
  <2>8. Replacing => Phase(change.client)' \in {"ready", "stopping", "detaching", "over"}
    BY <1>2, <1>4, <1>5, <2>1, <2>2 DEF Owned, Phase
  <2>9. \A u \in LiveInputs' : \/ \E x \in Clients : Holds(x)' /\ sessions'[x].track = u
                               \/ Replacing' /\ change'.track = u
    <3> SUFFICES ASSUME NEW u \in LiveInputs, u # t
                 PROVE  (\E x \in Clients : Holds(x)' /\ sessions[x].track = u)
                        \/ (Replacing /\ change.track = u)
      BY <2>0, <2>2, <2>6
    <3>1. \A x \in Clients : Holds(x) /\ sessions[x].track = u => Holds(x)'
      BY <1>1, <2>3
    <3> QED BY <2>1, <3>1 DEF Owned
  <2>10. \A x \in Clients : Holds(x)' =>
          /\ input'[sessions'[x].track] = "live" /\ sessions'[x].track \notin loose'
          /\ \A d \in Clients : Holds(d)' /\ sessions'[d].track = sessions'[x].track => x = d
          /\ Replacing' => change'.track # sessions'[x].track
    <3>1. \A x \in Clients : Holds(x)' => Holds(x)
      BY <2>3
    <3> SUFFICES ASSUME NEW x \in Clients, Holds(x)'
                 PROVE  /\ input'[sessions[x].track] = "live" /\ sessions[x].track \notin loose
                        /\ \A d \in Clients : Holds(d)' /\ sessions[d].track = sessions[x].track => x = d
                        /\ Replacing => change.track # sessions[x].track
      BY <2>0, <2>2
    <3>2. Holds(x)
      BY <3>1
    <3> QED BY <1>6, <2>1, <2>5, <3>1, <3>2 DEF Owned
  <2>11. Replacing' => /\ change'.track # None /\ input'[change'.track] = "live"
                       /\ change'.track \notin loose'
    BY <1>2, <1>6, <2>1, <2>2, <2>7 DEF Owned
  <2> QED BY <1>2, <2>2, <2>8, <2>9, <2>10, <2>11 DEF Owned
<1>14. ASSUME loose' # Inputs PROVE Known'
  <2>1. Known
    BY <1>2, <1>14
  <2>2. Usable(ref)' = None \/ Usable(ref)' = Usable(ref)
    BY <1>2, <1>6 DEF Usable, TypeOK, Tracks
  <2>3. call = "connected" => current \in Clients
    BY DEF OneActive, TypeOK
  <2> QED BY <1>2, <1>9, <2>1, <2>2, <2>3 DEF Known, EffectiveMuted
<1> QED BY <1>7, <1>8, <1>10, <1>11, <1>12, <1>13, <1>14
LEMMA RebuildInv ==
  ASSUME NoneApart, Inv, Rebuild
  PROVE  Inv'
<1> USE DEF Inv
<1>1. PICK c \in Clients : c = current
  BY DEF Rebuild, TypeOK
<1>2. /\ call = "connected" /\ Phase(c) = "ready" /\ wanted /\ call' = "recovering"
      /\ sessions' = [sessions EXCEPT ![c].phase = "detaching", ![c].read = ref]
      /\ UNCHANGED <<wanted, current, input, enabled, ref, controls, change, online, presence,
                     saved, unsent, loose>>
  BY <1>1 DEF Rebuild, Phase, OneActive
<1>3. PICK s : s = [sessions[c] EXCEPT !.phase = "detaching", !.read = ref]
  OBVIOUS
<1>4. /\ s \in Sessions /\ s.phase = "detaching" /\ s.published = sessions[c].published
      /\ s.track = sessions[c].track /\ s.read = ref
      /\ s.recovers = sessions[c].recovers /\ s.overtaken = sessions[c].overtaken
  BY <1>3, SessionIs DEF Sessions, Phases, TypeOK
<1>5. sessions' \in [Clients -> Sessions] /\ sessions'[c] = s
      /\ \A x \in Clients : x # c => sessions'[x] = sessions[x]
  BY <1>2, <1>3, <1>4 DEF TypeOK
<1>6. TypeOK'
  BY <1>2, <1>5 DEF TypeOK, Statuses
<1>7. Phased'
  BY <1>2, <1>4, <1>5 DEF Phased, Phase, Holds
<1>8. \A x \in Clients : /\ UnderWay(x)' <=> x = c
                         /\ Phase(x)' # "ready" /\ ~Starting(x)'
                         /\ Holds(x)' <=> Holds(x)
                         /\ Phase(x)' = "detaching" => x = c
  BY <1>1, <1>2, <1>4, <1>5 DEF OneActive, UnderWay, Phase, Starting, Holds
<1>9. OneActive'
  BY <1>1, <1>2, <1>8 DEF OneActive
<1>10. Told'
  BY <1>2 DEF Told, EffectiveMuted
<1>11. UNCHANGED <<input, change, loose>> /\ \A x \in Clients : sessions'[x].track = sessions[x].track
  BY <1>2, <1>4, <1>5
<1>12. ASSUME loose' # Inputs PROVE Named'
  BY <1>2, <1>4, <1>5, <1>11, <1>12 DEF Named
<1>13. ASSUME loose' # Inputs PROVE Owned'
  <2>1. Owned
    BY <1>2, <1>13
  <2>2. LiveInputs' = LiveInputs /\ (Replacing' <=> Replacing)
        /\ (Replacing => change.client \in Clients)
    BY <1>2 DEF LiveInputs, Replacing, TypeOK, Changes, NoneApart
  <2>3. Replacing => Phase(change.client)' \in {"ready", "stopping", "detaching", "over"}
    BY <1>2, <1>4, <1>5, <2>1, <2>2 DEF Owned, Phase
  <2>4. \A x \in Clients : Holds(x)' => Holds(x)
    BY <1>8
  <2>5. \A x \in Clients : Holds(x) => Holds(x)'
    BY <1>8
  <2>6. \A x \in Clients : Holds(x)' =>
          /\ input'[sessions'[x].track] = "live" /\ sessions'[x].track \notin loose'
          /\ \A d \in Clients : Holds(d)' /\ sessions'[d].track = sessions'[x].track => x = d
          /\ Replacing' => change'.track # sessions'[x].track
    BY <1>11, <2>1, <2>2, <2>4 DEF Owned
  <2>7. Replacing' => /\ change'.track # None /\ input'[change'.track] = "live"
                      /\ change'.track \notin loose'
    BY <1>2, <2>1, <2>2 DEF Owned
  <2>8. \A u \in LiveInputs' : \/ \E x \in Clients : Holds(x)' /\ sessions'[x].track = u
                               \/ Replacing' /\ change'.track = u
    BY <1>11, <2>1, <2>2, <2>5 DEF Owned
  <2> QED BY <1>2, <2>2, <2>3, <2>6, <2>7, <2>8 DEF Owned
<1>14. ASSUME loose' # Inputs PROVE Known'
  <2>1. ref = sessions[c].track
    BY <1>1, <1>2, <1>14 DEF Known
  <2> QED BY <1>2, <1>4, <1>5, <1>8, <2>1 DEF Known
<1> QED BY <1>6, <1>7, <1>9, <1>10, <1>12, <1>13, <1>14

(* A fresh session is started by a recovery, with the track that is left or   *)
(* without one.                                                             *)
LEMMA StartsAnewDoes ==
  ASSUME NoneApart, Inv, NEW c \in Clients, NEW t \in Tracks, Phase(c) = "new", StartsAnew(c, t)
  PROVE  /\ sessions' \in [Clients -> Sessions]
         /\ Phase(c)' = (IF t = None THEN "permission" ELSE "publishing")
         /\ sessions'[c].track = t /\ sessions'[c].recovers /\ ~sessions'[c].published
         /\ sessions'[c].read = None
         /\ \A x \in Clients : x # c =>
              /\ Phase(x)' = (IF Phase(x) = "detaching" THEN "over" ELSE Phase(x))
              /\ sessions'[x].published = (Phase(x) # "detaching" /\ sessions[x].published)
              /\ sessions'[x].track = sessions[x].track /\ sessions'[x].read = sessions[x].read
              /\ sessions'[x].recovers = sessions[x].recovers
              /\ sessions'[x].overtaken = sessions[x].overtaken
              /\ Phase(x) # "detaching" => sessions'[x] = sessions[x]
<1> USE DEF Inv
<1>1. sessions' = [x \in Clients |->
        CASE x = c -> [sessions[c] EXCEPT !.track = t, !.recovers = TRUE,
                         !.phase = IF t = None THEN "permission" ELSE "publishing"]
          [] x # c /\ sessions[x].phase = "detaching" ->
               [sessions[x] EXCEPT !.phase = "over", !.published = FALSE]
          [] OTHER -> sessions[x]]
  BY DEF StartsAnew
<1>2. sessions[c] = New
  BY DEF Phased
<1>3. PICK p \in Phases : p = (IF t = None THEN "permission" ELSE "publishing")
  BY DEF Phases
<1>4. sessions'[c] = [New EXCEPT !.track = t, !.recovers = TRUE, !.phase = p]
  BY <1>1, <1>2, <1>3
<1>5. /\ sessions'[c] \in Sessions /\ sessions'[c].phase = p /\ sessions'[c].track = t
      /\ sessions'[c].recovers /\ ~sessions'[c].published /\ sessions'[c].read = None
  BY <1>4, NewIs DEF Sessions
<1>6. ASSUME NEW x \in Clients, x # c
      PROVE  /\ sessions'[x] \in Sessions
             /\ sessions'[x].phase = (IF Phase(x) = "detaching" THEN "over" ELSE Phase(x))
             /\ sessions'[x].published = (Phase(x) # "detaching" /\ sessions[x].published)
             /\ sessions'[x].track = sessions[x].track /\ sessions'[x].read = sessions[x].read
             /\ sessions'[x].recovers = sessions[x].recovers
             /\ sessions'[x].overtaken = sessions[x].overtaken
             /\ Phase(x) # "detaching" => sessions'[x] = sessions[x]
  <2>1. CASE Phase(x) = "detaching"
    <3>1. sessions'[x] = [sessions[x] EXCEPT !.phase = "over", !.published = FALSE]
      BY <1>1, <1>6, <2>1 DEF Phase
    <3> QED BY <2>1, <3>1, SessionIs DEF Sessions, Phases
  <2>2. CASE Phase(x) # "detaching"
    <3>1. sessions'[x] = sessions[x]
      BY <1>1, <1>6, <2>2 DEF Phase
    <3> QED BY <2>2, <3>1, SessionIs DEF Phase
  <2> QED BY <2>1, <2>2
<1>7. sessions' \in [Clients -> Sessions]
  BY <1>1, <1>5, <1>6
<1> QED BY <1>3, <1>5, <1>6, <1>7 DEF Phase
(* In both recoveries nothing else is under way but the session that was      *)
(* detached, and its track is handed on, or there is none.                   *)
LEMMA StartedAnewInv ==
  ASSUME NoneApart, Inv, NEW c \in Clients, NEW t \in Tracks, Phase(c) = "new", StartsAnew(c, t),
         call' = "recovering", call # "connected", loose' \in {loose, Inputs},
         \A x \in Clients : UnderWay(x) => Phase(x) = "detaching",
         loose' # Inputs => /\ wanted /\ t = Usable(ref)
                            /\ \A x \in Clients : Phase(x) = "detaching" => sessions[x].track = t
                            /\ t # None => \E x \in Clients : Phase(x) = "detaching"
  PROVE  Inv'
<1> USE DEF Inv
<1>1. /\ current' = c
      /\ UNCHANGED <<wanted, input, enabled, ref, controls, change, online, presence, saved, unsent>>
  BY DEF StartsAnew
<1>2. /\ sessions' \in [Clients -> Sessions]
      /\ Phase(c)' = (IF t = None THEN "permission" ELSE "publishing")
      /\ sessions'[c].track = t /\ sessions'[c].recovers /\ ~sessions'[c].published
      /\ sessions'[c].read = None
  BY StartsAnewDoes
<1>3. \A x \in Clients : x # c =>
        /\ Phase(x)' = (IF Phase(x) = "detaching" THEN "over" ELSE Phase(x))
        /\ sessions'[x].published = (Phase(x) # "detaching" /\ sessions[x].published)
        /\ sessions'[x].track = sessions[x].track /\ sessions'[x].read = sessions[x].read
        /\ sessions'[x].recovers = sessions[x].recovers
        /\ sessions'[x].overtaken = sessions[x].overtaken
        /\ Phase(x) # "detaching" => sessions'[x] = sessions[x]
  BY StartsAnewDoes
<1>4. TypeOK'
  BY <1>1, <1>2 DEF TypeOK, Statuses
<1>5. Phased'
  <2> SUFFICES ASSUME NEW x \in Clients
               PROVE  /\ sessions'[x].published <=> Phase(x)' \in {"ready", "stopping", "detaching"}
                      /\ Holds(x)' => sessions'[x].track # None
                      /\ Phase(x)' = "new" => sessions'[x] = New
                      /\ Phase(x)' = "permission" => sessions'[x].track = None
    BY DEF Phased
  <2>1. CASE x = c
    BY <1>2, <2>1 DEF Holds
  <2>2. CASE x # c
    <3>1. /\ sessions[x].published <=> Phase(x) \in {"ready", "stopping", "detaching"}
          /\ Holds(x) => sessions[x].track # None
          /\ Phase(x) = "new" => sessions[x] = New
          /\ Phase(x) = "permission" => sessions[x].track = None
      BY DEF Phased
    <3>2. /\ Phase(x)' = (IF Phase(x) = "detaching" THEN "over" ELSE Phase(x))
          /\ sessions'[x].published = (Phase(x) # "detaching" /\ sessions[x].published)
          /\ Phase(x) # "detaching" => sessions'[x] = sessions[x]
      BY <1>3, <2>2
    <3>3. CASE Phase(x) = "detaching"
      BY <3>2, <3>3 DEF Holds
    <3>4. CASE Phase(x) # "detaching"
      BY <3>1, <3>2, <3>4 DEF Holds
    <3> QED BY <3>3, <3>4
  <2> QED BY <2>1, <2>2
<1>6. \A x \in Clients : /\ UnderWay(x)' => x = c
                         /\ Phase(x)' \notin {"ready", "detaching"}
                         /\ Starting(x)' => x = c
  <2>1. \A x \in Clients : Phase(x) # "ready"
    BY DEF OneActive
  <2>2. \A x \in Clients : x # c => Phase(x)' \notin {"permission", "publishing", "detaching", "ready"}
    BY <1>3, <2>1 DEF UnderWay, Phase
  <2> QED BY <1>2, <2>2 DEF UnderWay, Phase, Starting
<1>7. OneActive'
  BY <1>1, <1>2, <1>6 DEF OneActive
<1>8. Told'
  BY <1>1 DEF Told, EffectiveMuted
<1>9. ASSUME loose' # Inputs
      PROVE  /\ loose' = loose /\ Named /\ Owned /\ Known /\ wanted /\ t = Usable(ref)
             /\ \A x \in Clients : Phase(x) = "detaching" => sessions[x].track = t
             /\ t # None => \E x \in Clients : Phase(x) = "detaching" /\ sessions[x].track = t
  BY <1>9
<1>10. ASSUME loose' # Inputs PROVE Named'
  <2>1. t # None => input[t] # "none"
    BY <1>9, <1>10 DEF Usable
  <2>2. \A x \in Clients : x # c => sessions'[x].track = sessions[x].track
                                    /\ sessions'[x].read = sessions[x].read
    BY <1>3
  <2> QED BY <1>1, <1>2, <1>9, <1>10, <2>1, <2>2 DEF Named
<1>11. ASSUME loose' # Inputs PROVE Owned'
  <2>1. UNCHANGED <<input, change, loose>> /\ Owned
    BY <1>1, <1>9, <1>11
  <2>2. \A x \in Clients : x # c /\ Holds(x)' =>
          Holds(x) /\ Phase(x) # "detaching" /\ sessions'[x].track = sessions[x].track
    BY <1>3 DEF Holds
  <2>3. \A x \in Clients : Holds(x) =>
          x # c /\ (Phase(x) # "detaching" => Holds(x)' /\ sessions'[x].track = sessions[x].track)
    BY <1>3 DEF Holds
  <2>4. Holds(c)' <=> t # None
    BY <1>2 DEF Holds
  <2>5. ASSUME t # None
        PROVE  /\ input[t] = "live" /\ t \notin loose /\ (Replacing => change.track # t)
               /\ \A x \in Clients : x # c /\ Holds(x)' => sessions[x].track # t
    <3>1. PICK d \in Clients : Phase(d) = "detaching" /\ sessions[d].track = t
      BY <1>9, <1>11, <2>5
    <3>2. Holds(d)
      BY <3>1 DEF Holds
    <3> QED BY <2>1, <2>2, <3>1, <3>2 DEF Owned
  <2>6. LiveInputs' = LiveInputs /\ (Replacing' => Replacing) /\ (Replacing => Replacing')
        /\ (Replacing => change.client \in Clients)
    BY <2>1 DEF LiveInputs, Replacing, TypeOK, Changes, NoneApart
  <2>7. \A x \in Clients : Holds(x)' =>
          /\ input'[sessions'[x].track] = "live" /\ sessions'[x].track \notin loose'
          /\ \A d \in Clients : Holds(d)' /\ sessions'[d].track = sessions'[x].track => x = d
          /\ Replacing' => change'.track # sessions'[x].track
    <3> SUFFICES ASSUME NEW x \in Clients, Holds(x)'
                 PROVE  /\ input[sessions'[x].track] = "live" /\ sessions'[x].track \notin loose
                        /\ \A d \in Clients : Holds(d)' /\ sessions'[d].track = sessions'[x].track => x = d
                        /\ Replacing => change.track # sessions'[x].track
      BY <2>1, <2>6
    <3>1. CASE x = c
      BY <1>2, <2>2, <2>4, <2>5, <3>1
    <3>2. CASE x # c
      BY <1>2, <2>1, <2>2, <2>4, <2>5, <3>2 DEF Owned
    <3> QED BY <3>1, <3>2
  <2>8. Replacing' => /\ change'.track # None /\ input'[change'.track] = "live"
                      /\ change'.track \notin loose'
    BY <2>1, <2>6 DEF Owned
  <2>9. Replacing => Phase(change.client)' \in {"ready", "stopping", "detaching", "over"}
    <3> SUFFICES ASSUME Replacing PROVE sessions'[change.client].phase \in {"stopping", "over"}
      BY <2>1 DEF Phase
    <3>1. Phase(change.client) \in {"ready", "stopping", "detaching", "over"} /\ change.client \in Clients
      BY <2>1, <2>6 DEF Owned
    <3>2. Phase(change.client) # "ready"
      BY <3>1 DEF OneActive
    <3> QED BY <1>3, <3>1, <3>2 DEF Phase
  <2>10. \A u \in LiveInputs' : \/ \E x \in Clients : Holds(x)' /\ sessions'[x].track = u
                                \/ Replacing' /\ change'.track = u
    <3> SUFFICES ASSUME NEW u \in LiveInputs
                 PROVE  (\E x \in Clients : Holds(x)' /\ sessions'[x].track = u)
                        \/ (Replacing /\ change.track = u)
      BY <2>1, <2>6
    <3>1. ASSUME NEW x \in Clients, Holds(x), sessions[x].track = u
          PROVE  \E y \in Clients : Holds(y)' /\ sessions'[y].track = u
      <4>1. CASE Phase(x) = "detaching"
        <5>1. u = t /\ t # None
          BY <1>9, <1>11, <3>1, <4>1 DEF Phased
        <5> QED BY <1>2, <2>4, <5>1
      <4>2. CASE Phase(x) # "detaching"
        BY <2>3, <3>1, <4>2
      <4> QED BY <4>1, <4>2
    <3> QED BY <2>1, <3>1 DEF Owned
  <2> QED BY <2>1, <2>6, <2>7, <2>8, <2>9, <2>10 DEF Owned
<1>12. ASSUME loose' # Inputs PROVE Known'
  <2>1. Usable(ref)' = t
    BY <1>1, <1>9, <1>12 DEF Usable
  <2>2. t # None => t = ref
    BY <1>9, <1>12 DEF Usable
  <2> QED BY <1>1, <1>2, <1>6, <2>1, <2>2 DEF Known
<1> QED BY <1>4, <1>5, <1>7, <1>8, <1>10, <1>11, <1>12

LEMMA DetachEndsInv ==
  ASSUME NoneApart, Inv, NEW c \in Clients, DetachEnds(c)
  PROVE  Inv'
<1> USE DEF Inv
<1>1. PICK d \in Clients : /\ sessions[d].phase = "detaching" /\ StartsAnew(c, Usable(sessions[d].read))
                           /\ loose' = IF sessions[d].overtaken THEN Inputs ELSE loose
  BY DEF DetachEnds
<1>2. Phase(c) = "new" /\ call' = "recovering"
  BY DEF DetachEnds, Unused, Phase
<1>3. PICK t \in Tracks : t = Usable(sessions[d].read)
  BY SessionIs DEF Usable, Tracks
<1>4. UnderWay(d) /\ Holds(d) /\ call # "connected" /\ \A x \in Clients : UnderWay(x) => x = d
  BY <1>1 DEF OneActive, UnderWay, Holds, Phase
<1>5. ASSUME loose' # Inputs
      PROVE  /\ wanted /\ t = Usable(ref)
             /\ \A x \in Clients : Phase(x) = "detaching" => sessions[x].track = t
  <2>1. ~sessions[d].overtaken /\ Owned /\ Known
    BY <1>1, <1>5
  <2>2. wanted /\ sessions[d].read = sessions[d].track /\ ref = sessions[d].track
    BY <1>1, <2>1 DEF OneActive, Known, Phase
  <2>3. input[ref] = "live" /\ ref # None
    BY <1>4, <2>1, <2>2 DEF Owned, Phased
  <2>4. t = ref /\ t = Usable(ref)
    BY <1>3, <2>2, <2>3 DEF Usable
  <2> QED BY <1>4, <2>2, <2>4 DEF UnderWay, Phase
<1>6. /\ StartsAnew(c, t) /\ loose' \in {loose, Inputs}
      /\ \A x \in Clients : UnderWay(x) => Phase(x) = "detaching"
      /\ \E x \in Clients : Phase(x) = "detaching"
  BY <1>1, <1>3, <1>4 DEF Phase
<1> QED BY <1>2, <1>4, <1>5, <1>6, StartedAnewInv

LEMMA RebuildAgainInv ==
  ASSUME NoneApart, Inv, NEW c \in Clients, RebuildAgain(c)
  PROVE  Inv'
<1> USE DEF Inv
<1>1. /\ call = "reconnecting" /\ wanted /\ Phase(c) = "new" /\ call' = "recovering"
      /\ StartsAnew(c, Usable(ref)) /\ loose' = loose
  BY DEF RebuildAgain, Unused, Phase
<1>2. PICK t \in Tracks : t = Usable(ref)
  BY DEF Usable, TypeOK, Tracks
<1>3. \A x \in Clients : ~UnderWay(x) /\ Phase(x) # "detaching"
  BY <1>1 DEF OneActive, UnderWay, Phase
<1>4. loose' # Inputs => t = None
  BY <1>1, <1>2 DEF Known
<1>5. StartsAnew(c, t) /\ call # "connected" /\ loose' \in {loose, Inputs}
  BY <1>1, <1>2
<1> QED BY <1>1, <1>2, <1>3, <1>4, <1>5, StartedAnewInv
-----------------------------------------------------------------------------
(* changeMicrophone. *)
LEMMA ChangeIs ==
  ASSUME NoneApart, TypeOK, change # None
  PROVE  change \in Changes /\ change.client \in Clients /\ change.track \in Tracks
         /\ change.late \in BOOLEAN
BY DEF TypeOK, Changes

(* A track that opens, or is not wanted and closes: nobody has it yet.        *)
LEMMA ChangeOpensInv ==
  ASSUME NoneApart, Inv, NEW t \in Inputs, ChangeOpens(t)
  PROVE  Inv'
<1> USE DEF Inv
<1>1. /\ change # None /\ change.phase = "permission" /\ input[t] = "none" /\ ~Replacing
      /\ UNCHANGED <<call, wanted, current, sessions, enabled, ref, controls, online, presence,
                     saved, unsent, loose>>
  BY DEF ChangeOpens, Unopened, Replacing
<1>2. PICK p, l : /\ p = (IF sessions[change.client].published THEN "live" ELSE "ended")
                  /\ l = (sessions[change.client].phase # "ready")
  OBVIOUS
<1>3. input' = [input EXCEPT ![t] = p] /\ p \in {"live", "ended"} /\ l \in BOOLEAN
  BY <1>2 DEF ChangeOpens, Opens
<1>4. input' \in [Inputs -> {"none", "live", "ended"}]
      /\ \A x \in Inputs : input'[x] = IF x = t THEN p ELSE input[x]
  BY <1>3 DEF TypeOK
<1>5. /\ p = "live" => change' = [change EXCEPT !.phase = "replacing", !.track = t, !.late = l]
                       /\ sessions[change.client].published
      /\ p = "ended" => change' = None
  BY <1>2 DEF ChangeOpens
<1>6. /\ p = "live" => change' \in Changes /\ change'.client = change.client
                       /\ change'.phase = "replacing" /\ change'.track = t /\ change' # None
      /\ change' \in Changes \cup {None}
  <2>1. [change EXCEPT !.phase = "replacing", !.track = t, !.late = l] \in Changes
    BY <1>1, <1>3, ChangeIs DEF Changes, Tracks
  <2>2. p = "live" => change' \in Changes /\ change'.client = change.client
                      /\ change'.phase = "replacing" /\ change'.track = t
    BY <1>1, <1>5, <2>1, ChangeIs DEF Changes
  <2> QED BY <1>3, <1>5, <2>2 DEF NoneApart
<1>7. TypeOK'
  BY <1>1, <1>4, <1>6 DEF TypeOK
<1>8. Phased' /\ OneActive' /\ Told'
  BY <1>1 DEF Phased, OneActive, Told, Phase, Holds, UnderWay, Starting, EffectiveMuted
<1>9. ASSUME loose' # Inputs
      PROVE  /\ loose' = loose /\ Named /\ Owned /\ Known /\ ref # t /\ t \notin loose
             /\ \A x \in Clients : sessions[x].track # t /\ sessions[x].read # t
  <2>1. loose' = loose /\ Named /\ Owned /\ Known
    BY <1>1, <1>9
  <2> QED BY <1>1, <2>1 DEF Named, NoneApart
<1>10. ASSUME loose' # Inputs PROVE Named'
  BY <1>1, <1>4, <1>9, <1>10, SessionIs DEF Named, TypeOK, Tracks
<1>11. ASSUME loose' # Inputs PROVE Owned'
  <2>1. \A x \in Clients : (Holds(x)' => Holds(x)) /\ (Holds(x) => Holds(x)')
    BY <1>1 DEF Holds, Phase
  <2>2. \A x \in Clients : Holds(x)' =>
          /\ input'[sessions'[x].track] = "live" /\ sessions'[x].track \notin loose'
          /\ \A d \in Clients : Holds(d)' /\ sessions'[d].track = sessions'[x].track => x = d
    <3>1. \A x \in Clients : Holds(x) => sessions[x].track \in Inputs
      BY SessionIs DEF Phased, Tracks
    <3> QED BY <1>1, <1>4, <1>9, <1>11, <2>1, <3>1 DEF Owned
  <2>3. CASE p = "live"
    <3>1. change'.track = t /\ Replacing' /\ LiveInputs' = LiveInputs \cup {t}
      BY <1>1, <1>4, <1>6, <1>9, <1>11, <2>3 DEF Replacing, LiveInputs
    <3>2. Phase(change.client) \in {"ready", "stopping", "detaching", "over"}
          /\ change.client \in Clients
      BY <1>1, <1>5, <2>3, ChangeIs DEF Phased
    <3>3. sessions'[change'.client].phase \in {"ready", "stopping", "detaching", "over"}
      BY <1>1, <1>6, <2>3, <3>2 DEF Phase
    <3>4. \A u \in LiveInputs' : \/ \E x \in Clients : Holds(x)' /\ sessions'[x].track = u
                                 \/ Replacing' /\ change'.track = u
      BY <1>1, <1>9, <1>11, <2>1, <3>1 DEF Owned
    <3>5. t # None /\ input'[t] = "live" /\ t \notin loose'
      BY <1>4, <1>9, <1>11, <2>3 DEF NoneApart
    <3>6. \A x \in Clients : change'.track # sessions'[x].track
      BY <1>1, <1>9, <1>11, <3>1
    <3> QED BY <2>2, <3>1, <3>3, <3>4, <3>5, <3>6 DEF Owned, Phase
  <2>4. CASE p = "ended"
    <3>1. ~Replacing' /\ LiveInputs' = LiveInputs
      BY <1>1, <1>4, <1>5, <2>4 DEF Replacing, LiveInputs
    <3>2. \A u \in LiveInputs' : \E x \in Clients : Holds(x)' /\ sessions'[x].track = u
      BY <1>1, <1>9, <1>11, <2>1, <3>1 DEF Owned
    <3> QED BY <2>2, <3>1, <3>2 DEF Owned
  <2> QED BY <1>3, <2>3, <2>4
<1>12. ASSUME loose' # Inputs PROVE Known'
  <2>1. Usable(ref)' = Usable(ref)
    BY <1>1, <1>4, <1>9, <1>12 DEF Usable, TypeOK, Tracks
  <2> QED BY <1>1, <1>9, <1>12, <2>1 DEF Known, Phase, Starting, EffectiveMuted
<1> QED BY <1>7, <1>8, <1>10, <1>11, <1>12

LEMMA ChangeFailsInv ==
  ASSUME NoneApart, Inv, ChangeFails
  PROVE  Inv'
<1> USE DEF Inv
<1>1. PICK t \in Tracks : t = change.track
  BY ChangeIs DEF ChangeFails
<1>2. /\ Replacing /\ input' = Ended(t) /\ change' = None /\ ~Replacing'
      /\ UNCHANGED <<call, wanted, current, sessions, enabled, ref, controls, online, presence,
                     saved, unsent, loose>>
  BY <1>1 DEF ChangeFails, Replacing
<1>3. /\ input' \in [Inputs -> {"none", "live", "ended"}]
      /\ \A x \in Inputs : input'[x] = IF x = t THEN "ended" ELSE input[x]
  BY <1>2, EndedIs
<1>4. TypeOK'
  BY <1>2, <1>3 DEF TypeOK
<1>5. Phased' /\ OneActive' /\ Told'
  BY <1>2 DEF Phased, OneActive, Told, Phase, Holds, UnderWay, Starting, EffectiveMuted
<1>6. ASSUME loose' # Inputs
      PROVE  /\ loose' = loose /\ Named /\ Owned /\ Known
             /\ \A x \in Clients : Holds(x) => sessions[x].track # t /\ sessions[x].track \in Inputs
  <2>1. loose' = loose /\ Named /\ Owned /\ Known
    BY <1>2, <1>6
  <2> QED BY <1>1, <1>2, <2>1, SessionIs DEF Owned, Phased, Tracks
<1>7. ASSUME loose' # Inputs PROVE Named'
  BY <1>2, <1>3, <1>6, <1>7, SessionIs DEF Named, TypeOK, Tracks
<1>8. ASSUME loose' # Inputs PROVE Owned'
  <2>1. \A x \in Clients : (Holds(x)' => Holds(x)) /\ (Holds(x) => Holds(x)')
    BY <1>2 DEF Holds, Phase
  <2>2. \A x \in Clients : Holds(x)' =>
          /\ input'[sessions'[x].track] = "live" /\ sessions'[x].track \notin loose'
          /\ \A d \in Clients : Holds(d)' /\ sessions'[d].track = sessions'[x].track => x = d
    BY <1>2, <1>3, <1>6, <1>8, <2>1 DEF Owned
  <2>3. LiveInputs' = LiveInputs \ {t}
    BY <1>2, <1>3 DEF LiveInputs
  <2>4. \A u \in LiveInputs' : \E x \in Clients : Holds(x)' /\ sessions'[x].track = u
    BY <1>1, <1>2, <1>6, <1>8, <2>1, <2>3 DEF Owned
  <2> QED BY <1>2, <2>2, <2>4 DEF Owned
<1>9. ASSUME loose' # Inputs PROVE Known'
  <2>1. Usable(ref)' = None \/ Usable(ref)' = Usable(ref)
    BY <1>2, <1>3 DEF Usable, TypeOK, Tracks
  <2> QED BY <1>2, <1>6, <1>9, <2>1 DEF Known, Phase, Starting, EffectiveMuted
<1> QED BY <1>4, <1>5, <1>7, <1>8, <1>9
(* What a change that is replacing a track can count on, even where tracks    *)
(* were set aside.                                                          *)
Past == {"ready", "stopping", "detaching", "over"}
Changed == Replacing => change.track # None /\ Phase(change.client) \in Past

LEMMA ChangedStays ==
  ASSUME NoneApart, TypeOK, Changed, change' = change,
         \A x \in Clients : Phase(x) \in Past => sessions'[x].phase \in Past
  PROVE  Changed'
BY ChangeIs DEF Changed, Replacing, Phase

LEMMA ChangedStep ==
  ASSUME NoneApart, Inv, Changed, MicrophoneNext
  PROVE  Changed'
<1> USE DEF Inv
<1>1. CASE SocketToggles \/ LeavesLate \/ AlarmReadsPresence \/ AlarmLeavesPresence
           \/ AlarmWritesPresence \/ Rebuild
  <2>1. CASE SocketToggles \/ LeavesLate \/ AlarmReadsPresence \/ AlarmLeavesPresence
             \/ AlarmWritesPresence
    BY <2>1 DEF SocketToggles, LeavesLate, AlarmReadsPresence, AlarmLeavesPresence,
       AlarmWritesPresence, Changed, Replacing, Phase
  <2>2. CASE Rebuild
    <3>1. change' = change
      BY <2>2 DEF Rebuild
    <3>2. \A x \in Clients : sessions'[x].phase \in {Phase(x), "detaching"}
      BY <2>2, SessionIs DEF Rebuild, TypeOK, Sessions, Phase
    <3> QED BY <3>1, <3>2, ChangedStays DEF Past
  <2> QED BY <1>1, <2>1, <2>2
<1>2. ASSUME NEW action, Toggles(action) PROVE Changed'
  BY <1>2 DEF Toggles, Changed, Replacing, Phase
<1>3. ASSUME NEW c \in Clients, JoinsCall(c) \/ StartEnds(c) \/ SessionFails(c) \/ StopEnds(c)
      PROVE  Changed'
  <2>1. change' = change
    BY <1>3 DEF JoinsCall, StartEnds, SessionFails, StopEnds
  <2>2. CASE JoinsCall(c)
    <3>1. \A x \in Clients : Phase(x) \in Past => sessions'[x].phase \in Past
      BY <2>2 DEF JoinsCall, Starts, Unused, TypeOK, Phase, Past
    <3> QED BY <2>1, <3>1, ChangedStays
  <2>3. CASE StartEnds(c) \/ SessionFails(c) \/ StopEnds(c)
    <3>1. \A x \in Clients : Phase(x) \in Past => sessions'[x].phase \in Past
      <4>1. \A x \in Clients : x # c => sessions'[x] = sessions[x]
        BY <2>3 DEF StartEnds, SessionFails, StopEnds, TypeOK
      <4>2. sessions'[c].phase \in Past
        BY <2>3, SessionIs DEF StartEnds, SessionFails, StopEnds, TypeOK, Sessions, Past
      <4> QED BY <4>1, <4>2 DEF Phase
    <3> QED BY <2>1, <3>1, ChangedStays
  <2> QED BY <1>3, <2>2, <2>3
<1>4. ASSUME NEW c \in Clients, NEW t \in Inputs, PermissionGranted(c, t) PROVE Changed'
  <2>1. change' = change /\ \A x \in Clients : Phase(x) \in Past => sessions'[x].phase \in Past
    BY <1>4 DEF PermissionGranted, TypeOK, Phase, Past
  <2> QED BY <2>1, ChangedStays
<1>5. ASSUME NEW c \in Clients, NEW t \in Tracks, Phase(c) = "new", StartsAnew(c, t) PROVE Changed'
  <2>1. change' = change
    BY <1>5 DEF StartsAnew
  <2>2. \A x \in Clients : x # c => sessions'[x].phase \in {Phase(x), "over"}
    BY <1>5, StartsAnewDoes DEF Phase
  <2> QED BY <1>5, <2>1, <2>2, ChangedStays DEF Past
<1>6. ASSUME NEW c \in Clients, DetachEnds(c) \/ RebuildAgain(c) PROVE Changed'
  <2>1. PICK t \in Tracks : StartsAnew(c, t)
    BY <1>6, SessionIs DEF DetachEnds, RebuildAgain, Usable, TypeOK, Tracks
  <2>2. Phase(c) = "new"
    BY <1>6 DEF DetachEnds, RebuildAgain, Unused, Phase
  <2> QED BY <1>5, <2>1, <2>2
<1>7. CASE LeavesCall
  <2>1. change' = change
    BY <1>7 DEF LeavesCall
  <2>2. \A x \in Clients : sessions'[x].phase \in {Phase(x), "stopping"}
    BY <1>7, SessionIs DEF LeavesCall, Sessions, Phase
  <2> QED BY <2>1, <2>2, ChangedStays DEF Past
<1>8. CASE ChangeAsked \/ ChangeRefused \/ ChangeEnds \/ ChangeFails
  BY <1>8 DEF ChangeAsked, ChangeRefused, ChangeEnds, ChangeFails, Changed, Replacing
<1>9. ASSUME NEW t \in Inputs, ChangeOpens(t) PROVE Changed'
  <2>1. change # None /\ UNCHANGED sessions
    BY <1>9 DEF ChangeOpens
  <2>2. CASE sessions[change.client].published
    <3>1. PICK l : l = (sessions[change.client].phase # "ready")
      OBVIOUS
    <3>2. change' = [change EXCEPT !.phase = "replacing", !.track = t, !.late = l]
      BY <1>9, <2>2, <3>1 DEF ChangeOpens
    <3>3. change'.client = change.client /\ change'.track = t
      BY <2>1, <3>2, ChangeIs DEF Changes
    <3>4. change.client \in Clients /\ Phase(change.client) \in Past
      BY <2>1, <2>2, ChangeIs DEF Phased, Past
    <3> QED BY <2>1, <3>3, <3>4 DEF Changed, Phase, NoneApart
  <2>3. CASE ~sessions[change.client].published
    BY <1>9, <2>3 DEF ChangeOpens, Changed, Replacing
  <2> QED BY <2>2, <2>3
<1> QED BY <1>1, <1>2, <1>3, <1>4, <1>6, <1>7, <1>8, <1>9 DEF MicrophoneNext

(* The new track takes the place of the old one, which is stopped.           *)
LEMMA ChangeEndsInv ==
  ASSUME NoneApart, Inv, Changed, ChangeEnds
  PROVE  Inv'
<1> USE DEF Inv
<1>1. PICK c \in Clients, t \in Inputs : c = change.client /\ t = change.track
  <2>1. change # None /\ Replacing
    BY DEF ChangeEnds, Replacing
  <2> QED BY <2>1, ChangeIs DEF Changed, Tracks
<1>2. PICK o \in Tracks : o = sessions[c].track
  BY SessionIs
<1>3. /\ Replacing /\ input' = Ended(o) /\ ref' = t /\ change' = None /\ ~Replacing'
      /\ sessions' = [sessions EXCEPT ![c].track = t]
      /\ enabled' = (IF sessions[c].published THEN Muted(t) ELSE enabled)
      /\ loose' = IF \/ current = c /\ Phase(c) = "ready"
                     \/ call = "idle" /\ Phase(c) = "stopping" /\ ~change.late
                  THEN loose ELSE Inputs
      /\ UNCHANGED <<call, wanted, current, controls, online, presence, saved, unsent>>
  BY <1>1, <1>2 DEF ChangeEnds, Replacing, Phase
<1>4. PICK s : s = [sessions[c] EXCEPT !.track = t]
  OBVIOUS
<1>5. /\ s \in Sessions /\ s.phase = sessions[c].phase /\ s.track = t
      /\ s.published = sessions[c].published /\ s.recovers = sessions[c].recovers
      /\ s.read = sessions[c].read /\ s.overtaken = sessions[c].overtaken
  BY <1>4, SessionIs DEF Sessions, Tracks
<1>6. sessions' \in [Clients -> Sessions] /\ sessions'[c] = s
      /\ \A x \in Clients : x # c => sessions'[x] = sessions[x]
  BY <1>3, <1>4, <1>5 DEF TypeOK
<1>7. /\ input' \in [Inputs -> {"none", "live", "ended"}]
      /\ \A x \in Inputs : input'[x] = IF x = o THEN "ended" ELSE input[x]
  BY <1>3, EndedIs
<1>8. TypeOK'
  <2>1. enabled' \in [Inputs -> BOOLEAN] /\ loose' \subseteq Inputs
    BY <1>3, MutedIs DEF TypeOK
  <2> QED BY <1>3, <1>6, <1>7, <2>1 DEF TypeOK, Tracks
<1>9. Phase(c) \in Past
  BY <1>1, <1>3 DEF Changed
<1>10. Phased'
  <2> SUFFICES ASSUME NEW x \in Clients
               PROVE  /\ sessions'[x].published <=> Phase(x)' \in {"ready", "stopping", "detaching"}
                      /\ Holds(x)' => sessions'[x].track # None
                      /\ Phase(x)' = "new" => sessions'[x] = New
                      /\ Phase(x)' = "permission" => sessions'[x].track = None
    BY DEF Phased
  <2>1. CASE x = c
    BY <1>5, <1>6, <1>9, <2>1 DEF Phased, Phase, Holds, Past, NoneApart
  <2>2. CASE x # c
    BY <1>6, <2>2 DEF Phased, Phase, Holds
  <2> QED BY <2>1, <2>2
<1>11. \A x \in Clients : /\ sessions'[x].phase = sessions[x].phase
                          /\ sessions'[x].recovers = sessions[x].recovers
                          /\ sessions'[x].read = sessions[x].read
                          /\ sessions'[x].overtaken = sessions[x].overtaken
  BY <1>5, <1>6
<1>12. UNCHANGED <<call, wanted, current, controls, presence, unsent>>
  BY <1>3
<1>13. OneActive'
  BY <1>11, <1>12 DEF OneActive, UnderWay, Phase, Starting, TypeOK
<1>14. Told'
  BY <1>12 DEF Told, EffectiveMuted
<1>15. ASSUME loose' # Inputs
       PROVE  /\ loose' = loose /\ Named /\ Owned /\ Known /\ Holds(c) /\ sessions[c].published
              /\ \/ current = c /\ Phase(c) = "ready" /\ call = "connected"
                 \/ call = "idle" /\ Phase(c) = "stopping"
  BY <1>3, <1>15 DEF Holds, OneActive, Phased
<1>16. ASSUME loose' # Inputs
       PROVE  /\ t # o /\ o \in Inputs /\ input[t] = "live" /\ input'[t] = "live" /\ t \notin loose'
              /\ \A x \in Clients : x # c /\ Holds(x) =>
                   sessions[x].track \in Inputs /\ sessions[x].track # o /\ sessions[x].track # t
  <2>1. t # o /\ o \in Inputs /\ input[t] = "live" /\ t \notin loose'
    BY <1>1, <1>2, <1>3, <1>15, <1>16 DEF Owned, Phased, Tracks
  <2>2. \A x \in Clients : x # c /\ Holds(x) =>
          sessions[x].track \in Inputs /\ sessions[x].track # o /\ sessions[x].track # t
    BY <1>1, <1>2, <1>3, <1>15, <1>16, SessionIs DEF Owned, Phased, Tracks
  <2> QED BY <1>7, <2>1, <2>2
<1>17. ASSUME loose' # Inputs PROVE Named'
  <2>1. \A u \in Inputs : input[u] # "none" => input'[u] # "none"
    BY <1>7
  <2>2. Named /\ loose' = loose /\ input'[t] # "none" /\ ref' = t
    BY <1>3, <1>15, <1>16, <1>17
  <2> QED BY <1>5, <1>6, <2>1, <2>2, SessionIs DEF Named, TypeOK, Tracks
<1>18. ASSUME loose' # Inputs PROVE Owned'
  <2>1. \A x \in Clients : (Holds(x)' => Holds(x)) /\ (Holds(x) => Holds(x)')
    BY <1>11 DEF Holds, Phase
  <2>2. \A x \in Clients : Holds(x)' =>
          /\ input'[sessions'[x].track] = "live" /\ sessions'[x].track \notin loose'
          /\ \A d \in Clients : Holds(d)' /\ sessions'[d].track = sessions'[x].track => x = d
    BY <1>5, <1>6, <1>7, <1>15, <1>16, <1>18, <2>1 DEF Owned
  <2>3. LiveInputs' = LiveInputs \ {o}
    BY <1>7, <1>15, <1>18 DEF LiveInputs
  <2>4. \A u \in LiveInputs' : \E x \in Clients : Holds(x)' /\ sessions'[x].track = u
    <3> SUFFICES ASSUME NEW u \in LiveInputs, u # o
                 PROVE  \E x \in Clients : Holds(x)' /\ sessions'[x].track = u
      BY <2>3
    <3>1. CASE u = t
      BY <1>5, <1>6, <1>15, <1>18, <2>1, <3>1
    <3>2. CASE u # t
      <4>1. PICK x \in Clients : Holds(x) /\ sessions[x].track = u
        BY <1>1, <1>15, <1>18, <3>2 DEF Owned
      <4> QED BY <1>2, <1>6, <2>1, <4>1
    <3> QED BY <3>1, <3>2
  <2>5. ~Replacing'
    BY <1>3
  <2> QED BY <2>2, <2>4, <2>5 DEF Owned
<1>19. ASSUME loose' # Inputs PROVE Known'
  <2>1. CASE current = c /\ Phase(c) = "ready" /\ call = "connected"
    <3>1. ref' = sessions'[current'].track
      BY <1>3, <1>5, <1>6, <1>12, <2>1
    <3>2. enabled'[ref'] = ~EffectiveMuted(controls')
      BY <1>3, <1>12, <1>15, <1>19, MutedIs
    <3>3. \A x \in Clients : Phase(x)' # "detaching" /\ ~Starting(x)'
      BY <1>11, <2>1 DEF OneActive, UnderWay, Starting, Phase
    <3> QED BY <1>12, <2>1, <3>1, <3>2, <3>3 DEF Known
  <2>2. CASE call = "idle" /\ Phase(c) = "stopping"
    <3>1. \A x \in Clients : /\ Phase(x)' = "detaching" => sessions'[x].overtaken
                             /\ ~(wanted' /\ Starting(x)')
      BY <1>11, <1>12, <2>2 DEF OneActive, UnderWay, Starting, Phase
    <3> QED BY <1>12, <2>2, <3>1 DEF Known
  <2> QED BY <1>15, <1>19, <2>1, <2>2
<1> QED BY <1>8, <1>10, <1>13, <1>14, <1>17, <1>18, <1>19
-----------------------------------------------------------------------------
LEMMA InvStep ==
  ASSUME NoneApart, Inv, Changed, [MicrophoneNext]_microphoneVars
  PROVE  Inv' /\ Changed'
<1>1. CASE UNCHANGED microphoneVars
  <2>1. UNCHANGED <<call, wanted, current, sessions, input, enabled, ref, controls, change, online,
                    presence, saved, unsent, loose>>
    BY <1>1 DEF microphoneVars
  <2>2. TypeOK'
    BY <2>1 DEF Inv, TypeOK
  <2> QED BY <2>1, <2>2, AsideInv DEF Changed, Replacing, Phase
<1>2. CASE MicrophoneNext
  <2>1. Changed'
    BY <1>2, ChangedStep
  <2>2. Inv'
    BY <1>2, AsideSteps, PresenceSteps, TogglesInv, JoinsCallInv, PermissionGrantedInv, StartEndsInv, SessionFailsInv,
       LeavesCallInv, StopEndsInv, RebuildInv, DetachEndsInv, RebuildAgainInv, ChangeOpensInv,
       ChangeEndsInv, ChangeFailsInv DEF MicrophoneNext
  <2> QED BY <2>1, <2>2
<1> QED BY <1>1, <1>2

LEMMA InvFollows ==
  ASSUME NoneApart, Inv
  PROVE  Follows
<1> USE DEF Inv
<1> SUFFICES ASSUME Settled
             PROVE  /\ call = "idle" => LiveInputs = {}
                    /\ call = "connected" /\ loose # Inputs =>
                         /\ sessions[current].published /\ ref = sessions[current].track
                         /\ LiveInputs = {ref} /\ enabled[ref] = ~EffectiveMuted(controls)
  BY DEF Follows, Told
<1>1. ~Replacing /\ \A c \in Clients : Holds(c) => Phase(c) = "ready"
  BY DEF Settled, Replacing, Holds, Phase
<1>2. \A c \in Clients : Holds(c) => call = "connected" /\ c = current
  BY <1>1 DEF OneActive
<1>3. CASE loose = Inputs
  BY <1>3 DEF LiveInputs
<1>4. CASE loose # Inputs
  <2>1. \A t \in LiveInputs : \E c \in Clients : Holds(c) /\ sessions[c].track = t
    BY <1>1, <1>4 DEF Owned
  <2>2. call = "idle" => LiveInputs = {}
    BY <1>2, <2>1
  <2>3. ASSUME call = "connected"
        PROVE  /\ sessions[current].published /\ ref = sessions[current].track
               /\ LiveInputs = {ref} /\ enabled[ref] = ~EffectiveMuted(controls)
    <3>1. current \in Clients /\ Phase(current) = "ready" /\ Holds(current)
      BY <2>3 DEF OneActive, TypeOK, Holds
    <3>2. /\ sessions[current].published /\ ref = sessions[current].track
          /\ enabled[ref] = ~EffectiveMuted(controls)
      BY <1>4, <2>3, <3>1 DEF Phased, Known
    <3>3. ref \in Inputs /\ input[ref] = "live" /\ ref \notin loose
      BY <1>4, <3>1, <3>2 DEF Owned, Phased, TypeOK, Tracks
    <3>4. LiveInputs = {ref}
      BY <1>2, <2>1, <3>2, <3>3 DEF LiveInputs
    <3> QED BY <3>2, <3>4
  <2> QED BY <2>2, <2>3
<1> QED BY <1>3, <1>4

(* Once nothing is under way: out of a call no microphone is open; in one the   *)
(* session publishes the microphone the hook knows, it is open and nothing     *)
(* else is, and it is silent exactly when the user is muted or deafened; and   *)
(* the others see what the controls say.  What is set aside is unsent, a word  *)
(* to the server that was lost or that its alarm wrote over, and loose         *)
(* (use-voice-session.ts: startClient, reconcile, leave, changeMicrophone,     *)
(* applyVoiceControl; server-realtime.ts: alarm).                            *)
THEOREM FollowsHolds ==
  ASSUME NoneApart
  PROVE  MicrophoneSpec => []Follows
<1>1. MicrophoneInit => Inv /\ Changed
  BY InvInit DEF MicrophoneInit, Changed, Replacing
<1>2. Inv /\ Changed /\ [MicrophoneNext]_microphoneVars => Inv' /\ Changed'
  BY InvStep
<1>3. Inv => Follows
  BY InvFollows
<1> QED BY <1>1, <1>2, <1>3, PTL DEF MicrophoneSpec

-----------------------------------------------------------------------------
(* The conversation that is stored for a reload.                            *)

Entries == [conversation : Conversations, camera : BOOLEAN, old : BOOLEAN]
Pages == [loaded : BOOLEAN, connected : BOOLEAN, known : SUBSET Conversations]
Voices == [status : {"idle", "joining", "connected"}, room : Conversations \cup {None},
           camera : BOOLEAN, conflict : Conversations \cup {None}]
JoinsInFlight == [conversation : Conversations, overtaken : BOOLEAN]
SwitchesInFlight == [conversation : Conversations, phase : {"leaving", "joining", "over"}]
Refs == [resume : Entries \cup {None}, resumed : BOOLEAN, camera : BOOLEAN, had : BOOLEAN]
Dependencies == {"connection", "bootstrap", "status", "shown", "camera", "conflict"}

TabNoneApart == None \notin Conversations \cup Entries \cup JoinsInFlight \cup SwitchesInFlight

TabTypeOK ==
  /\ page \in Pages /\ voice \in Voices /\ refs \in Refs
  /\ joining \in JoinsInFlight \cup {None} /\ switch \in SwitchesInFlight \cup {None}
  /\ shown \in Conversations \cup {None} /\ stored \in Entries \cup {None}
  /\ changed \subseteq Dependencies /\ wish \in Conversations \cup {None}
  /\ strayed \in BOOLEAN

-----------------------------------------------------------------------------
(* The invariant.                                                           *)

(* A page is loaded, then connected, then commits that; until then there is  *)
(* no call, and what is shown without one is yet to be committed.            *)
Early == ~page.connected \/ "connection" \in changed
Opening ==
  /\ page.connected => page.loaded
  /\ ~page.loaded => shown = None /\ changed = {} /\ refs = Blank
  /\ Early => voice.status = "idle" /\ voice.conflict = None /\ joining = None /\ switch = None
  /\ Early /\ shown # None => refs.had /\ "shown" \in changed

(* A join in flight is the one of the status, or overtaken.                  *)
InFlight ==
  /\ joining # None => voice.status = IF joining.overtaken THEN "idle" ELSE "joining"
  /\ voice.status = "joining" => joining # None
  /\ ForSwitch => joining # None
  /\ voice.status # "idle" => voice.conflict = None

(* What the page was opened with is resumed with the first commit after the   *)
(* connection, or not at all.                                               *)
ToResume == refs.resume # None /\ ~refs.resumed
ResumesEarly == ToResume => Early

(* The effect that saves runs with the next commit, and will clear.          *)
WillSave == changed \cap {"bootstrap", "shown", "camera", "status"} # {}
WillClear == refs.had /\ WillSave

(* In a call: it is the one asked for, shown or about to be, and stored or    *)
(* about to be.                                                             *)
InACall == ~strayed /\ voice.status # "idle" =>
  /\ voice.room = wish /\ refs.had
  /\ wish # None
  /\ IF Switching THEN switch.phase = "joining" /\ switch.conversation = wish
     ELSE /\ shown = wish
          /\ \/ WillSave
             \/ stored # None /\ stored.conversation = wish /\ stored.camera = voice.camera

(* A switch shows another conversation in the end.                           *)
InASwitch == ~strayed /\ Switching =>
  /\ refs.had /\ switch.conversation # shown /\ voice.conflict = None
  /\ switch.phase = "leaving" => wish = switch.conversation

(* Out of a call, what is stored or asked for is about to be resumed, joined   *)
(* by a switch, or cleared.                                                 *)
Resumed(x) == x # None /\ x.conversation = wish
OutOfACall == ~strayed /\ voice.status = "idle" =>
  /\ stored # None => ~page.loaded \/ ToResume \/ Switching \/ WillClear
  /\ wish # None => \/ Switching /\ switch.phase = "leaving"
                    \/ Resumed(IF page.loaded THEN refs.resume ELSE stored)
                       /\ (page.loaded => ToResume)
  /\ ToResume => \/ refs.had /\ "shown" \in changed /\ wish = None
                 \/ ~refs.had /\ Resumed(refs.resume) /\ Resumed(stored)
  /\ ~page.loaded /\ stored # None => Resumed(stored)

TabInv == /\ TabTypeOK /\ Opening /\ InFlight /\ ResumesEarly
       /\ InACall /\ InASwitch /\ OutOfACall
-----------------------------------------------------------------------------
LEMMA IdleIs ==
  /\ Idle \in Voices /\ Idle.status = "idle" /\ Idle.conflict = None /\ ~Idle.camera
  /\ Blank \in Refs /\ Blank.resume = None /\ ~Blank.resumed /\ ~Blank.camera /\ ~Blank.had
BY DEF Idle, Voices, Blank, Refs

(* What the helpers do, field by field.                                     *)
LEMMA JoinStartsDoes ==
  ASSUME TabTypeOK, NEW c \in Conversations, JoinStarts(c)
  PROVE  /\ voice' \in Voices /\ voice'.status = "joining" /\ voice'.room = c
         /\ voice'.conflict = None /\ voice'.camera = voice.camera
         /\ joining' \in JoinsInFlight /\ ~joining'.overtaken
BY DEF JoinStarts, TabTypeOK, Voices, JoinsInFlight

LEMMA HangsDoes ==
  ASSUME TabTypeOK, Hangs
  PROVE  /\ voice' = Idle /\ joining' \in JoinsInFlight \cup {None}
         /\ joining' # None => joining # None /\ (joining # joining' => joining'.overtaken)
         /\ joining # None => joining' \in JoinsInFlight /\ joining'.overtaken
         /\ changed' = changed \cup {"status"}
BY DEF Hangs, TabTypeOK, JoinsInFlight

LEMMA RefsSet ==
  ASSUME NEW r, r \in Refs
  PROVE  LET s == [r EXCEPT !.had = TRUE]
         IN  s \in Refs /\ s.had /\ s.resume = r.resume /\ (s.resumed <=> r.resumed)
BY DEF Refs

LEMMA SwitchShowsDoes ==
  ASSUME TabTypeOK, Switching, NEW also, SwitchShows(also)
  PROVE  /\ shown' = switch.conversation /\ shown' \in Conversations /\ switch' = None
         /\ refs' \in Refs /\ refs'.had /\ refs'.resume = refs.resume
         /\ refs'.resumed <=> refs.resumed
         /\ changed \cup also \subseteq changed' /\ changed' \subseteq changed \cup also \cup {"shown"}
         /\ shown' # shown => "shown" \in changed'
<1>1. switch \in SwitchesInFlight
  BY DEF TabTypeOK, Switching
<1>2. shown' = switch.conversation /\ shown' \in Conversations /\ switch' = None
  BY <1>1 DEF SwitchShows, SwitchesInFlight
<1>3. refs' = [refs EXCEPT !.had = TRUE] /\ refs \in Refs
  BY DEF SwitchShows, TabTypeOK
<1>4. /\ changed \cup also \subseteq changed' /\ changed' \subseteq changed \cup also \cup {"shown"}
      /\ shown' # shown => "shown" \in changed'
  BY DEF SwitchShows
<1> QED BY <1>2, <1>3, <1>4, RefsSet

-----------------------------------------------------------------------------
LEMMA LoadsInv ==
  ASSUME TabInv, Loads
  PROVE  TabInv'
<1> USE DEF TabInv
<1>1. /\ ~page.loaded /\ page' \in Pages /\ page'.loaded /\ page'.connected = page.connected
      /\ stored' \in {stored, None} /\ wish' = (IF stored' = None THEN None ELSE wish)
      /\ UNCHANGED <<voice, joining, switch, shown, changed, strayed>>
  BY DEF Loads, TabTypeOK, Pages
<1>2. /\ refs' \in Refs /\ refs'.resume = stored' /\ ~refs'.resumed /\ ~refs'.had
  <2>1. refs' = [Blank EXCEPT !.resume = stored'] /\ stored' \in Entries \cup {None}
    BY <1>1 DEF Loads, TabTypeOK
  <2> QED BY <2>1 DEF Blank, Refs
<1>3. ~page.connected /\ shown = None /\ voice.status = "idle" /\ joining = None /\ switch = None
      /\ changed = {} /\ voice.conflict = None
  BY <1>1 DEF Opening, Early, TabTypeOK, Pages
<1>4. TabTypeOK'
  BY <1>1, <1>2 DEF TabTypeOK
<1>5. Opening' /\ ResumesEarly'
  BY <1>1, <1>2, <1>3 DEF Opening, ResumesEarly, Early
<1>6. InFlight' /\ InACall' /\ InASwitch'
  BY <1>1, <1>3 DEF InFlight, ForSwitch, Switching, InACall, InASwitch
<1>7. OutOfACall'
  BY <1>1, <1>2, <1>3 DEF OutOfACall, Resumed, ToResume, Switching, WillClear, WillSave
<1> QED BY <1>4, <1>5, <1>6, <1>7

(* Steps of the page and the storage that no effect has seen yet.            *)
Turns ==
  /\ page' \in Pages /\ page'.loaded = page.loaded
  /\ changed \subseteq changed' /\ changed' \subseteq changed \cup {"bootstrap", "connection"}
  /\ (changed' # changed \/ page'.connected) => page.loaded
  /\ (~page'.connected \/ "connection" \in changed') <=> Early
  /\ stored' \in Entries \cup {None} /\ (stored' = None <=> stored = None)
  /\ stored # None => /\ stored'.conversation = stored.conversation
                      /\ stored'.camera = stored.camera
  /\ UNCHANGED <<voice, joining, switch, shown, refs, wish, strayed>>

LEMMA PageTurns ==
  ASSUME TabNoneApart, TabInv, Connects \/ Ages \/ \E known \in SUBSET page.known : BootstrapChanges(known)
  PROVE  Turns
<1> USE DEF TabInv
<1>1. page \in Pages /\ (page.connected => page.loaded) /\ stored \in Entries \cup {None}
  BY DEF TabTypeOK, Opening
<1>2. CASE Connects
  BY <1>1, <1>2 DEF Connects, Turns, Pages, Early
<1>3. CASE Ages
  <2>1. stored' \in Entries /\ stored'.conversation = stored.conversation
        /\ stored'.camera = stored.camera /\ stored # None /\ stored' # None
    BY <1>1, <1>3 DEF Ages, Entries, TabNoneApart
  <2>2. UNCHANGED <<page, voice, joining, switch, shown, refs, changed, wish, strayed>>
    BY <1>3 DEF Ages
  <2> QED BY <1>1, <2>1, <2>2 DEF Turns, Early
<1>4. ASSUME NEW known \in SUBSET page.known, BootstrapChanges(known) PROVE Turns
  BY <1>1, <1>4 DEF BootstrapChanges, Turns, Pages, Early
<1> QED BY <1>2, <1>3, <1>4

LEMMA TurnsInv ==
  ASSUME TabInv, Turns
  PROVE  TabInv'
<1> USE DEF TabInv
<1>1. TabTypeOK'
  BY DEF Turns, TabTypeOK, Dependencies
<1>2. Early' <=> Early
  BY DEF Turns, Early
<1>3. Opening'
  BY <1>2 DEF Opening, Turns
<1>4. InFlight' /\ ResumesEarly'
  BY <1>2 DEF InFlight, ForSwitch, Switching, ResumesEarly, ToResume, Turns
<1>5. InACall' /\ InASwitch'
  BY DEF InACall, InASwitch, Switching, WillSave, Turns
<1>6. OutOfACall'
  BY DEF OutOfACall, Resumed, ToResume, Switching, WillClear, WillSave, Turns
<1> QED BY <1>1, <1>3, <1>4, <1>5, <1>6

LEMMA ReloadsInv ==
  ASSUME TabNoneApart, TabInv, Reloads
  PROVE  TabInv'
<1> USE DEF TabInv
<1>1. /\ page' \in Pages /\ ~page'.loaded /\ ~page'.connected
      /\ voice' = Idle /\ joining' = None /\ switch' = None /\ shown' = None
      /\ refs' = Blank /\ changed' = {} /\ UNCHANGED <<stored, wish>>
      /\ page.loaded /\ (~strayed' => ~strayed /\ ~Switching /\ changed = {})
      /\ strayed' \in BOOLEAN
  BY DEF Reloads, GoesAstray, Opened, TabTypeOK, Pages, Switching
<1>2. TabTypeOK'
  BY <1>1, IdleIs DEF TabTypeOK
<1>3. Opening' /\ InFlight' /\ ResumesEarly' /\ InACall' /\ InASwitch'
  BY <1>1, IdleIs DEF Opening, Early, InFlight, ForSwitch, Switching, ResumesEarly, ToResume, InACall,
                      InASwitch
<1>4. OutOfACall'
  <2> SUFFICES ASSUME ~strayed' PROVE /\ wish # None => Resumed(stored)
                                      /\ stored # None => Resumed(stored)
    BY <1>1, IdleIs DEF OutOfACall, ToResume, Switching, Resumed
  <2>1. ~strayed /\ ~Switching /\ changed = {} /\ page.loaded
    BY <1>1
  <2>2. CASE voice.status = "idle"
    BY <2>1, <2>2 DEF OutOfACall, Resumed, WillClear, WillSave
  <2>3. CASE voice.status # "idle"
    BY <2>1, <2>3 DEF InACall, Resumed, WillSave
  <2> QED BY <2>2, <2>3
<1> QED BY <1>2, <1>3, <1>4

-----------------------------------------------------------------------------
(* The user.                                                                *)
LEMMA JoinsInv ==
  ASSUME TabNoneApart, TabInv, NEW c \in Conversations, Joins(c)
  PROVE  TabInv'
<1> USE DEF TabInv
<1>1. /\ page.loaded /\ voice.status = "idle" /\ changed = {} /\ joining = None
      /\ shown' = c /\ (c # shown => "shown" \in changed') /\ changed' \subseteq {"shown", "status"}
      /\ strayed' = (Switching \/ refs.camera)
      /\ wish' = (IF Joinable THEN c ELSE None)
      /\ UNCHANGED <<page, switch, stored>>
  BY DEF Joins
<1>2. refs' \in Refs /\ refs'.had /\ refs'.resume = refs.resume /\ (refs'.resumed <=> refs.resumed)
  <2>1. refs' = [refs EXCEPT !.had = TRUE] /\ refs \in Refs
    BY DEF Joins, TabTypeOK
  <2> QED BY <2>1, RefsSet
<1>3. CASE Joinable
  <2>1. /\ voice' \in Voices /\ voice'.status = "joining" /\ voice'.room = c
        /\ voice'.conflict = None /\ joining' \in JoinsInFlight /\ ~joining'.overtaken
        /\ "status" \in changed' /\ wish' = c
    BY <1>1, <1>3, JoinStartsDoes DEF Joins
  <2>2. ~Early /\ ~Early' /\ page.connected
    BY <1>1, <1>3 DEF Joinable, Early
  <2>3. TabTypeOK'
    BY <1>1, <1>2, <2>1 DEF TabTypeOK, Dependencies, Switching, Refs
  <2>4. Opening' /\ ResumesEarly'
    BY <1>1, <1>2, <2>2 DEF Opening, ResumesEarly, ToResume
  <2>5. InFlight'
    BY <1>1, <2>1, TabNoneApart DEF InFlight, ForSwitch, Switching, TabNoneApart
  <2>6. InACall' /\ InASwitch' /\ OutOfACall'
    BY <1>1, <1>2, <2>1 DEF InACall, InASwitch, OutOfACall, Switching, WillSave, TabNoneApart
  <2> QED BY <2>3, <2>4, <2>5, <2>6
<1>4. CASE ~Joinable
  <2>1. UNCHANGED <<voice, joining>> /\ ~page.connected /\ wish' = None
    BY <1>1, <1>4 DEF Joins, Joinable
  <2>2. Early /\ Early' /\ shown = None /\ switch = None /\ "shown" \in changed'
    BY <1>1, <2>1 DEF Early, Opening, TabNoneApart
  <2>3. TabTypeOK'
    BY <1>1, <1>2, <2>1 DEF TabTypeOK, Dependencies, Switching, Refs
  <2>4. Opening' /\ ResumesEarly' /\ InFlight'
    BY <1>1, <1>2, <2>1, <2>2 DEF Opening, ResumesEarly, InFlight, ForSwitch, Switching
  <2>5. InACall' /\ InASwitch' /\ OutOfACall'
    BY <1>1, <1>2, <2>1, <2>2 DEF InACall, InASwitch, OutOfACall, Switching, WillClear, WillSave
  <2> QED BY <2>3, <2>4, <2>5
<1> QED BY <1>3, <1>4
LEMMA TakesOverInv ==
  ASSUME TabNoneApart, TabInv, TakesOver
  PROVE  TabInv'
<1> USE DEF TabInv
<1>1. /\ page.connected /\ voice.status = "idle" /\ changed = {} /\ joining = None
      /\ voice.conflict \in Conversations /\ strayed' = TRUE /\ changed' = {"status"}
      /\ wish' = voice.conflict /\ UNCHANGED <<page, switch, shown, refs, stored>>
  BY DEF TakesOver, Joinable, TabTypeOK, Voices
<1>2. /\ voice' \in Voices /\ voice'.status = "joining" /\ voice'.conflict = None
      /\ joining' \in JoinsInFlight /\ ~joining'.overtaken
  BY <1>1, JoinStartsDoes DEF TakesOver
<1>3. ~Early /\ ~Early'
  BY <1>1 DEF Early
<1>4. TabTypeOK'
  BY <1>1, <1>2 DEF TabTypeOK, Dependencies
<1>5. Opening' /\ ResumesEarly' /\ InFlight'
  BY <1>1, <1>2, <1>3 DEF Opening, ResumesEarly, ToResume, InFlight, ForSwitch, Switching, TabNoneApart
<1>6. InACall' /\ InASwitch' /\ OutOfACall'
  BY <1>1 DEF InACall, InASwitch, OutOfACall
<1> QED BY <1>4, <1>5, <1>6

LEMMA HangsInv ==
  ASSUME TabNoneApart, TabInv, Leaves \/ \E c \in Conversations : Switches(c)
  PROVE  TabInv'
<1> USE DEF TabInv
<1>1. /\ voice.status # "idle" /\ ~Early /\ ~ToResume /\ page.loaded
      /\ voice' = Idle /\ joining' \in JoinsInFlight \cup {None}
      /\ joining' # None => joining'.overtaken
      /\ joining # None => joining' # None
      /\ changed' = changed \cup {"status"} /\ UNCHANGED <<page, shown, stored>>
  BY HangsDoes DEF Leaves, Switches, Opening, Early, ResumesEarly, TabNoneApart
<1>2. ~Early' /\ ~(~page.connected)
  BY <1>1 DEF Early
<1>3. CASE Leaves
  <2>1. wish' = None /\ UNCHANGED <<switch, refs, strayed>>
    BY <1>3 DEF Leaves
  <2>2. TabTypeOK'
    BY <1>1, <2>1, IdleIs DEF TabTypeOK, Dependencies
  <2>3. Opening' /\ ResumesEarly' /\ InFlight'
    BY <1>1, <1>2, <2>1, IdleIs DEF Opening, ResumesEarly, ToResume, InFlight, ForSwitch, Switching
  <2>4. InACall' /\ InASwitch'
    BY <1>1, <2>1, IdleIs DEF InACall, InASwitch, Switching
  <2>5. OutOfACall'
    BY <1>1, <2>1 DEF OutOfACall, InACall, ToResume, Resumed, Switching, WillClear, WillSave
  <2> QED BY <2>2, <2>3, <2>4, <2>5
<1>4. ASSUME NEW c \in Conversations, Switches(c) PROVE TabInv'
  <2>1. /\ ~Switching /\ c # shown /\ wish' = c /\ strayed' = (strayed \/ refs.camera)
        /\ refs' = [refs EXCEPT !.had = TRUE]
    BY <1>4 DEF Switches, GoesAstray
  <2>2. /\ refs' \in Refs /\ refs'.had /\ refs'.resume = refs.resume
        /\ refs'.resumed <=> refs.resumed
    BY <2>1, RefsSet DEF TabTypeOK
  <2>3. /\ switch' \in SwitchesInFlight /\ switch'.conversation = c /\ switch'.phase = "leaving"
        /\ switch' # None
    BY <1>4 DEF Switches, SwitchesInFlight, TabNoneApart
  <2>4. TabTypeOK'
    BY <1>1, <2>1, <2>2, <2>3, IdleIs DEF TabTypeOK, Dependencies, Refs
  <2>5. Opening' /\ ResumesEarly' /\ InFlight'
    BY <1>1, <1>2, <2>2, <2>3, IdleIs DEF Opening, ResumesEarly, ToResume, InFlight, ForSwitch,
                                          Switching
  <2>6. InACall' /\ InASwitch' /\ OutOfACall'
    BY <1>1, <2>1, <2>2, <2>3, IdleIs DEF InACall, InASwitch, OutOfACall, Switching, ToResume
  <2> QED BY <2>4, <2>5, <2>6
<1> QED BY <1>3, <1>4

LEMMA TogglesCameraInv ==
  ASSUME TabInv, TogglesCamera
  PROVE  TabInv'
<1> USE DEF TabInv
<1>1. /\ voice.status = "connected" /\ changed' = changed \cup {"camera"}
      /\ voice' \in Voices /\ voice'.status = voice.status /\ voice'.room = voice.room
      /\ voice'.conflict = voice.conflict
      /\ UNCHANGED <<page, joining, switch, shown, refs, stored, wish, strayed>>
  BY DEF TogglesCamera, TabTypeOK, Voices
<1>2. ~Early /\ ~Early' /\ page.loaded
  BY <1>1 DEF Early, Opening
<1>3. TabTypeOK'
  BY <1>1 DEF TabTypeOK, Dependencies
<1>4. Opening' /\ ResumesEarly' /\ InFlight'
  BY <1>1, <1>2 DEF Opening, ResumesEarly, ToResume, InFlight, ForSwitch, Switching
<1>5. InACall' /\ InASwitch' /\ OutOfACall'
  BY <1>1 DEF InACall, InASwitch, OutOfACall, Switching, WillSave
<1> QED BY <1>3, <1>4, <1>5

-----------------------------------------------------------------------------
(* The promises.                                                            *)
LEMMA SwitchJoinsInv ==
  ASSUME TabNoneApart, TabInv, SwitchJoins
  PROVE  TabInv'
<1> USE DEF TabInv
<1>1. /\ switch \in SwitchesInFlight /\ switch # None /\ switch.phase = "leaving" /\ joining = None
      /\ ~Early /\ page.loaded /\ page.connected /\ ~ToResume
      /\ UNCHANGED <<page, shown, refs, stored, wish, strayed>>
  BY DEF SwitchJoins, Switching, TabTypeOK, Opening, Early, ResumesEarly
<1>2. /\ switch' \in SwitchesInFlight /\ switch'.conversation = switch.conversation
      /\ switch'.phase = IF Joinable THEN "joining" ELSE "over"
  BY <1>1 DEF SwitchJoins, SwitchesInFlight
<1>3. CASE Joinable
  <2>1. /\ voice' \in Voices /\ voice'.status = "joining" /\ voice'.room = switch.conversation
        /\ voice'.conflict = None
        /\ joining' \in JoinsInFlight /\ ~joining'.overtaken /\ changed' = changed \cup {"status"}
    BY <1>1, <1>3, JoinStartsDoes DEF SwitchJoins, SwitchesInFlight
  <2>2. TabTypeOK'
    BY <1>1, <1>2, <2>1 DEF TabTypeOK, Dependencies
  <2>3. switch' # None /\ joining' # None /\ switch'.phase = "joining" /\ ~Early'
    BY <1>1, <1>2, <1>3, <2>1 DEF TabNoneApart, Early
  <2>4. Opening' /\ ResumesEarly' /\ InFlight'
    BY <1>1, <2>1, <2>3 DEF Opening, ResumesEarly, ToResume, InFlight
  <2>5. InACall' /\ InASwitch' /\ OutOfACall'
    BY <1>1, <1>2, <2>1, <2>3 DEF InACall, InASwitch, OutOfACall, Switching, SwitchesInFlight, TabNoneApart
  <2> QED BY <2>2, <2>4, <2>5
<1>4. CASE ~Joinable
  <2>1. UNCHANGED <<voice, joining, changed>> /\ voice.status # "idle" /\ ~Early'
    BY <1>1, <1>4 DEF SwitchJoins, Joinable, Early
  <2>2. strayed
    BY <1>1, <2>1 DEF InACall, Switching
  <2>3. TabTypeOK'
    BY <1>1, <1>2, <2>1 DEF TabTypeOK
  <2>4. Opening' /\ ResumesEarly' /\ InFlight'
    BY <1>1, <1>2, <1>4, <2>1 DEF Opening, ResumesEarly, ToResume, InFlight, ForSwitch
  <2>5. InACall' /\ InASwitch' /\ OutOfACall'
    BY <1>1, <2>2 DEF InACall, InASwitch, OutOfACall
  <2> QED BY <2>3, <2>4, <2>5
<1> QED BY <1>3, <1>4

(* A switch is over, and the tab is in no call, or in the one of the switch.  *)
LEMMA ShowsInv ==
  ASSUME TabNoneApart, TabInv, Switching, NEW also, also \subseteq {"status", "conflict"}, SwitchShows(also),
         UNCHANGED <<page, stored, strayed>>,
         voice' \in Voices, joining' \in JoinsInFlight \cup {None}, wish' \in Conversations \cup {None},
         joining' # None => voice'.status = (IF joining'.overtaken THEN "idle" ELSE "joining"),
         voice'.status = "joining" => joining' # None,
         voice'.status # "idle" => voice'.conflict = None,
         voice'.status # "idle" /\ ~strayed => voice'.room = wish' /\ wish' = switch.conversation,
         voice'.status = "idle" /\ ~strayed => wish' = None
  PROVE  TabInv'
<1> USE DEF TabInv
<1>1. /\ shown' = switch.conversation /\ shown' \in Conversations /\ switch' = None
      /\ refs' \in Refs /\ refs'.had /\ refs'.resume = refs.resume
      /\ refs'.resumed <=> refs.resumed
      /\ changed \cup also \subseteq changed' /\ changed' \subseteq changed \cup also \cup {"shown"}
      /\ shown' # shown => "shown" \in changed'
  BY SwitchShowsDoes
<1>2. ~Early /\ ~Early' /\ page.loaded /\ ~ToResume
  BY <1>1 DEF Opening, Early, Switching, ResumesEarly
<1>3. TabTypeOK'
  BY <1>1 DEF TabTypeOK, Dependencies
<1>4. Opening' /\ ResumesEarly'
  BY <1>1, <1>2 DEF Opening, ResumesEarly, ToResume
<1>5. InFlight'
  BY <1>1 DEF InFlight, ForSwitch, Switching, Voices
<1>6. ~strayed => "shown" \in changed'
  BY <1>1 DEF InASwitch
<1>7. InACall' /\ InASwitch'
  BY <1>1, <1>6, TabNoneApart DEF InACall, InASwitch, Switching, WillSave, TabNoneApart
<1>8. OutOfACall'
  BY <1>1, <1>2, <1>6 DEF OutOfACall, ToResume, WillClear, WillSave
<1> QED BY <1>3, <1>4, <1>5, <1>7, <1>8

LEMMA SwitchEndsInv ==
  ASSUME TabNoneApart, TabInv, SwitchEnds
  PROVE  TabInv'
<1> USE DEF TabInv
<1>1. /\ Switching /\ switch.phase = "over" /\ SwitchShows({})
      /\ UNCHANGED <<page, voice, joining, stored, wish, strayed>>
  BY DEF SwitchEnds
<1>2. wish' \in Conversations \cup {None} /\ page.loaded /\ ~ToResume
  BY <1>1 DEF TabTypeOK, Opening, Early, Switching, ResumesEarly
<1>3. ~strayed => voice.status = "idle" /\ wish = None
  BY <1>1, <1>2 DEF InACall, OutOfACall
<1> QED BY <1>1, <1>2, <1>3, ShowsInv DEF TabTypeOK, InFlight

LEMMA JoinSucceedsInv ==
  ASSUME TabNoneApart, TabInv, JoinSucceeds
  PROVE  TabInv'
<1> USE DEF TabInv
<1>1. /\ joining # None /\ ~joining.overtaken /\ joining' = None /\ Reports({"status"})
      /\ UNCHANGED <<page, stored, wish, strayed>>
  BY DEF JoinSucceeds
<1>2. voice.status = "joining" /\ ~Early /\ ~ToResume /\ page.loaded /\ voice.conflict = None
  BY <1>1 DEF InFlight, Opening, Early, ResumesEarly
<1>3. /\ voice' \in Voices /\ voice'.status = "connected" /\ voice'.room = voice.room
      /\ voice'.conflict = None
  BY <1>2 DEF JoinSucceeds, TabTypeOK, Voices
<1>4. CASE ForSwitch
  <2>1. SwitchShows({"status"}) /\ Switching
    BY <1>1, <1>4 DEF Reports, ForSwitch
  <2>2. ~strayed => voice.room = wish /\ wish = switch.conversation
    BY <1>2, <2>1 DEF InACall
  <2>3. wish' \in Conversations \cup {None}
    BY <1>1 DEF TabTypeOK
  <2> QED BY <1>1, <1>3, <2>1, <2>2, <2>3, ShowsInv
<1>5. CASE ~ForSwitch
  <2>1. changed' = changed \cup {"status"} /\ UNCHANGED <<shown, refs, switch>> /\ ~Early'
    BY <1>1, <1>2, <1>5 DEF Reports, Early
  <2>2. TabTypeOK'
    BY <1>1, <1>3, <2>1 DEF TabTypeOK, Dependencies
  <2>3. Opening' /\ ResumesEarly' /\ InFlight'
    BY <1>1, <1>2, <1>3, <1>5, <2>1 DEF Opening, ResumesEarly, ToResume, InFlight, ForSwitch, Switching
  <2>4. InACall' /\ InASwitch' /\ OutOfACall'
    BY <1>1, <1>2, <1>3, <2>1 DEF InACall, InASwitch, OutOfACall, Switching, WillSave
  <2> QED BY <2>2, <2>3, <2>4
<1> QED BY <1>4, <1>5

(* The tab is idle again, and what it asked for is forgotten.                *)
LEMMA IdleInv ==
  ASSUME TabNoneApart, TabInv, page.connected, ~Early, ~ToResume,
         UNCHANGED <<page, stored, shown, refs, strayed>>,
         changed' \subseteq Dependencies \ {"connection"}, changed \subseteq changed', joining' = None,
         voice' \in Voices, voice'.status = "idle", wish' \in Conversations \cup {None},
         voice.status # "idle" => wish' = None /\ "status" \in changed',
         voice.status = "idle" => wish' = wish /\ voice'.conflict = voice.conflict,
         switch' \in SwitchesInFlight \cup {None}, ~ForSwitch', switch' = None <=> switch = None,
         switch # None => /\ switch'.conversation = switch.conversation
                          /\ switch'.phase = "leaving" <=> switch.phase = "leaving"
                          /\ ~strayed => voice'.conflict = None
  PROVE  TabInv'
<1> USE DEF TabInv
<1>1. ~Early'
  BY DEF Early
<1>2. TabTypeOK'
  BY DEF TabTypeOK
<1>3. Opening' /\ ResumesEarly' /\ InFlight'
  BY <1>1 DEF Opening, ResumesEarly, ToResume, InFlight
<1>4. InACall' /\ InASwitch'
  BY DEF InACall, InASwitch, Switching
<1>5. OutOfACall'
  BY DEF InACall, OutOfACall, Opening, ToResume, Switching, WillClear, WillSave
<1> QED BY <1>2, <1>3, <1>4, <1>5

LEMMA JoinConflictsInv ==
  ASSUME TabNoneApart, TabInv, NEW c \in Conversations, JoinConflicts(c)
  PROVE  TabInv'
<1> USE DEF TabInv
<1>1. /\ joining # None /\ ~joining.overtaken /\ joining' = None /\ Reports({"status", "conflict"})
      /\ UNCHANGED <<page, stored, strayed>> /\ wish' = None
  BY DEF JoinConflicts
<1>2. /\ voice.status = "joining" /\ ~Early /\ ~ToResume /\ page.connected
  BY <1>1 DEF InFlight, Opening, Early, ResumesEarly
<1>3. voice' \in Voices /\ voice'.status = "idle"
  BY DEF JoinConflicts, Idle, Voices
<1>4. CASE ForSwitch
  <2>1. SwitchShows({"status", "conflict"}) /\ Switching
    BY <1>1, <1>4 DEF Reports, ForSwitch
  <2> QED BY <1>1, <1>3, <2>1, ShowsInv
<1>5. CASE ~ForSwitch
  <2>1. changed' = changed \cup {"status", "conflict"} /\ UNCHANGED <<shown, refs, switch>>
    BY <1>1, <1>5 DEF Reports
  <2>2. changed' \subseteq Dependencies \ {"connection"}
    BY <1>2, <2>1 DEF Early, TabTypeOK, Dependencies
  <2>3. switch # None => strayed
    BY <1>2, <1>5 DEF InACall, ForSwitch, Switching
  <2>4. switch' \in SwitchesInFlight \cup {None} /\ ~ForSwitch'
    BY <1>5, <2>1 DEF TabTypeOK, ForSwitch, Switching
  <2> QED BY <1>1, <1>2, <1>3, <2>1, <2>2, <2>3, <2>4, IdleInv
<1> QED BY <1>4, <1>5

LEMMA JoinFailsInv ==
  ASSUME TabNoneApart, TabInv, JoinFails
  PROVE  TabInv'
<1> USE DEF TabInv
<1>1. /\ joining # None /\ joining' = None /\ UNCHANGED <<page, shown, refs, stored, strayed>>
  BY DEF JoinFails
<1>2. /\ switch' \in SwitchesInFlight \cup {None} /\ ~ForSwitch' /\ (switch' = None <=> switch = None)
      /\ switch # None => /\ switch'.conversation = switch.conversation
                          /\ switch'.phase = "leaving" <=> switch.phase = "leaving"
  <2>1. switch \in SwitchesInFlight \cup {None}
    BY DEF TabTypeOK
  <2>2. CASE ForSwitch
    <3>1. switch' = [switch EXCEPT !.phase = "over"] /\ switch \in SwitchesInFlight
          /\ switch.phase = "joining"
      BY <2>1, <2>2 DEF JoinFails, ForSwitch, Switching
    <3>2. /\ switch' \in SwitchesInFlight /\ switch'.phase = "over"
          /\ switch'.conversation = switch.conversation
      BY <3>1 DEF SwitchesInFlight
    <3> QED BY <3>1, <3>2 DEF TabNoneApart, ForSwitch
  <2>3. CASE ~ForSwitch
    BY <2>1, <2>3 DEF JoinFails, ForSwitch, Switching
  <2> QED BY <2>2, <2>3
<1>3. ~Early /\ ~ToResume /\ page.connected
  BY <1>1 DEF Opening, Early, ResumesEarly
<1>4. CASE joining.overtaken
  <2>1. UNCHANGED <<voice, changed, wish>> /\ voice.status = "idle"
    BY <1>1, <1>4 DEF JoinFails, InFlight
  <2>2. /\ voice' \in Voices /\ wish' \in Conversations \cup {None}
        /\ changed' \subseteq Dependencies \ {"connection"}
    BY <1>3, <2>1 DEF TabTypeOK, Early
  <2>3. switch # None /\ ~strayed => voice'.conflict = None
    BY <2>1 DEF InASwitch, Switching
  <2> QED BY <1>1, <1>2, <1>3, <2>1, <2>2, <2>3, IdleInv
<1>5. CASE ~joining.overtaken
  <2>1. voice' = Idle /\ changed' = changed \cup {"status"} /\ wish' = None
        /\ voice.status # "idle"
    BY <1>1, <1>5 DEF JoinFails, InFlight
  <2>2. changed' \subseteq Dependencies \ {"connection"}
    BY <1>3, <2>1 DEF TabTypeOK, Early, Dependencies
  <2> QED BY <1>1, <1>2, <1>3, <2>1, <2>2, IdleIs, IdleInv
<1> QED BY <1>4, <1>5

-----------------------------------------------------------------------------
(* The effects of a commit.                                                 *)
LEMMA CommitDoes ==
  ASSUME TabNoneApart, TabTypeOK, Commit
  PROVE  /\ changed # {} /\ UNCHANGED <<page, switch>>
         /\ shown' = IF Clears THEN None
                     ELSE IF Rejoins THEN refs.resume.conversation
                     ELSE IF Conflicts THEN voice.conflict ELSE shown
         /\ changed' \subseteq {"shown", "status", "camera"}
         /\ shown' # shown => "shown" \in changed'
         /\ StartsCamera => "camera" \in changed'
         /\ IF Rejoins /\ Joinable
            THEN "status" \in changed' /\ JoinStarts(refs.resume.conversation)
            ELSE /\ voice' = [voice EXCEPT !.camera = @ \/ StartsCamera] /\ UNCHANGED joining
         /\ refs' = [Remembered EXCEPT
               !.had = IF Clears THEN FALSE ELSE @ \/ Saves,
               !.resume = IF Clears THEN None ELSE @,
               !.camera = @ /\ voice.status # "connected"]
         /\ stored' = IF Saves THEN Entry(shown, voice.camera)
                      ELSE IF Clears \/ Lost THEN None ELSE stored
         /\ strayed' = (strayed \/ (Rejoins /\ Clears))
         /\ wish' = IF Lost THEN None ELSE wish
BY DEF Commit, GoesAstray

LEMMA RememberedIs ==
  ASSUME TabNoneApart, TabTypeOK, Commit
  PROVE  /\ Remembered \in Refs /\ refs' \in Refs
         /\ Rejoins => Remembered.resume = refs.resume /\ Remembered.resumed /\ Remembered.had
         /\ Lost => Remembered.resume = None /\ ~Rejoins
         /\ ~Rejoins => Remembered.had = refs.had /\ Remembered.resumed = refs.resumed
         /\ ~Rejoins /\ ~Lost => Remembered = refs
         /\ refs'.resumed = Remembered.resumed
         /\ refs'.resume = IF Clears THEN None ELSE Remembered.resume
         /\ refs'.had = IF Clears THEN FALSE ELSE Remembered.had \/ Saves
<1>1. refs \in Refs
  BY DEF TabTypeOK
<1>2. refs.resume # None => refs.resume \in Entries
  BY <1>1 DEF Refs
<1>3. /\ Remembered \in Refs
      /\ Rejoins => Remembered.resume = refs.resume /\ Remembered.resumed /\ Remembered.had
      /\ Lost => Remembered.resume = None /\ ~Rejoins
      /\ ~Rejoins => Remembered.had = refs.had /\ Remembered.resumed = refs.resumed
      /\ ~Rejoins /\ ~Lost => Remembered = refs
  <2>1. CASE Rejoins
    <3>1. refs.resume.camera \in BOOLEAN
      BY <1>2, <2>1 DEF Rejoins, Resumes, Entries
    <3>2. Remembered = [refs EXCEPT !.resumed = TRUE, !.camera = refs.resume.camera, !.had = TRUE]
      BY <2>1 DEF Remembered
    <3>3. /\ Remembered \in Refs /\ Remembered.resume = refs.resume /\ Remembered.resumed
          /\ Remembered.had
      BY <1>1, <3>1, <3>2 DEF Refs
    <3> QED BY <2>1, <3>3 DEF Rejoins
  <2>2. CASE Lost
    <3>1. Remembered = [refs EXCEPT !.resume = None] /\ ~Rejoins
      BY <2>2 DEF Remembered, Rejoins
    <3> QED BY <1>1, <2>2, <3>1 DEF Refs
  <2>3. CASE ~Rejoins /\ ~Lost
    BY <1>1, <2>3 DEF Remembered
  <2> QED BY <2>1, <2>2, <2>3
<1>4. PICK r : r = Remembered
  OBVIOUS
<1>5. PICK h, p, m : /\ h = (IF Clears THEN FALSE ELSE r.had \/ Saves)
                     /\ p = (IF Clears THEN None ELSE r.resume)
                     /\ m = (r.camera /\ voice.status # "connected")
  OBVIOUS
<1>6. refs' = [r EXCEPT !.had = h, !.resume = p, !.camera = m]
  BY <1>4, <1>5, CommitDoes
<1>7. r \in Refs /\ h \in BOOLEAN /\ p \in Entries \cup {None} /\ m \in BOOLEAN
  BY <1>3, <1>4, <1>5 DEF Refs, Saves, Saved
<1>8. refs' \in Refs /\ refs'.resumed = r.resumed /\ refs'.resume = p /\ refs'.had = h
  BY <1>6, <1>7 DEF Refs
<1> QED BY <1>3, <1>4, <1>5, <1>8

LEMMA CommitType ==
  ASSUME TabNoneApart, TabTypeOK, Commit
  PROVE  TabTypeOK'
<1>1. refs' \in Refs /\ UNCHANGED <<page, switch>>
  BY RememberedIs, CommitDoes
<1>2. refs.resume # None => refs.resume.conversation \in Conversations
  BY DEF TabTypeOK, Refs, Entries
<1>3. shown' \in Conversations \cup {None}
  BY <1>2, CommitDoes DEF TabTypeOK, Voices, Rejoins, Resumes
<1>4. changed' \subseteq Dependencies /\ strayed' \in BOOLEAN
  BY CommitDoes DEF Dependencies, TabTypeOK
<1>5. voice' \in Voices /\ joining' \in JoinsInFlight \cup {None}
  <2>1. CASE Rejoins /\ Joinable
    BY <1>2, <2>1, CommitDoes, JoinStartsDoes DEF Rejoins, Resumes
  <2>2. CASE ~(Rejoins /\ Joinable)
    <3>1. PICK v : v = (voice.camera \/ StartsCamera)
      OBVIOUS
    <3>2. voice' = [voice EXCEPT !.camera = v] /\ v \in BOOLEAN /\ UNCHANGED joining
      BY <2>2, <3>1, CommitDoes
    <3> QED BY <3>2 DEF TabTypeOK, Voices
  <2> QED BY <2>1, <2>2
<1>6. stored' \in Entries \cup {None}
  <2>1. CASE Saves
    <3>1. shown \in Conversations /\ voice.camera \in BOOLEAN
      BY <2>1 DEF Saves, TabTypeOK, Voices
    <3>2. Entry(shown, voice.camera) \in Entries
      BY <3>1 DEF Entry, Entries
    <3> QED BY <2>1, <3>2, CommitDoes
  <2>2. CASE ~Saves
    BY <2>2, CommitDoes DEF TabTypeOK
  <2> QED BY <2>1, <2>2
<1>7. wish' \in Conversations \cup {None}
  BY CommitDoes DEF TabTypeOK
<1> QED BY <1>1, <1>3, <1>4, <1>5, <1>6, <1>7 DEF TabTypeOK
(* In a call a commit saves, and starts the camera that was to be resumed.    *)
LEMMA CommitInCall ==
  ASSUME TabNoneApart, TabInv, Commit, voice.status # "idle"
  PROVE  TabInv'
<1> USE DEF TabInv
<1>1. ~Resumes /\ ~Lost /\ ~Rejoins /\ ~Clears /\ ~Conflicts /\ ~Early /\ page.connected
  BY DEF Resumes, Lost, Rejoins, Clears, Conflicts, InFlight, Opening, Early, TabTypeOK, Pages, TabNoneApart
<1>2. TabTypeOK'
  BY CommitType
<1>3. /\ UNCHANGED <<page, switch, shown, joining, wish, strayed>>
      /\ changed' \subseteq {"shown", "status", "camera"}
      /\ voice' = [voice EXCEPT !.camera = @ \/ StartsCamera]
      /\ StartsCamera => "camera" \in changed'
      /\ stored' = IF Saves THEN Entry(shown, voice.camera) ELSE stored
  <2>1. UNCHANGED <<page, switch, joining, wish>>
    BY <1>1, CommitDoes
  <2>2. UNCHANGED <<shown, strayed>>
    BY <1>1, CommitDoes DEF TabTypeOK
  <2>3. changed' \subseteq {"shown", "status", "camera"} /\ (StartsCamera => "camera" \in changed')
    BY <1>1, CommitDoes
  <2>4. voice' = [voice EXCEPT !.camera = @ \/ StartsCamera]
    BY <1>1, CommitDoes
  <2>5. stored' = IF Saves THEN Entry(shown, voice.camera) ELSE stored
    BY <1>1, CommitDoes
  <2> QED BY <2>1, <2>2, <2>3, <2>4, <2>5
<1>4. /\ voice'.status = voice.status /\ voice'.room = voice.room /\ voice'.conflict = voice.conflict
      /\ voice'.camera # voice.camera => "camera" \in changed'
  <2>1. PICK v : v = (voice.camera \/ StartsCamera)
    OBVIOUS
  <2>2. voice' = [voice EXCEPT !.camera = v] /\ v \in BOOLEAN
    BY <1>3, <2>1
  <2>3. /\ voice'.status = voice.status /\ voice'.room = voice.room /\ voice'.conflict = voice.conflict
        /\ voice'.camera = v /\ voice.camera \in BOOLEAN
    BY <2>2 DEF TabTypeOK, Voices
  <2> QED BY <1>3, <2>1, <2>3
<1>5. refs'.resume = refs.resume /\ refs'.resumed = refs.resumed /\ refs'.had = (refs.had \/ Saves)
  BY <1>1, RememberedIs
<1>6. ~Early' /\ ~ToResume
  BY <1>1, <1>3 DEF Early, ResumesEarly
<1>7. Opening' /\ ResumesEarly'
  BY <1>1, <1>3, <1>5, <1>6 DEF Opening, ResumesEarly, ToResume
<1>8. InFlight'
  BY <1>3, <1>4 DEF InFlight, ForSwitch, Switching
<1>9. InACall'
  <2> SUFFICES ASSUME ~strayed
               PROVE  /\ voice'.room = wish /\ refs'.had /\ wish # None
                      /\ IF Switching THEN switch.phase = "joining" /\ switch.conversation = wish
                         ELSE /\ shown = wish
                              /\ \/ WillSave'
                                 \/ /\ stored' # None /\ stored'.conversation = wish
                                    /\ stored'.camera = voice'.camera
    BY <1>3, <1>4 DEF InACall, Switching
  <2>1. voice'.room = wish /\ refs'.had /\ wish # None
    BY <1>4, <1>5 DEF InACall
  <2>2. ASSUME ~Switching, ~WillSave'
        PROVE  stored' # None /\ stored'.conversation = wish /\ stored'.camera = voice'.camera
    <3>1. voice'.camera = voice.camera /\ shown = wish /\ shown # None
      BY <1>4, <2>2 DEF WillSave, InACall
    <3>2. CASE Saves
      <4>1. stored' \in Entries /\ stored'.conversation = shown /\ stored'.camera = voice.camera
        BY <1>2, <1>3, <3>1, <3>2 DEF Entry, Entries, TabTypeOK, Voices
      <4> QED BY <3>1, <4>1 DEF TabNoneApart
    <3>3. CASE ~Saves
      <4>1. ~WillSave
        BY <3>1, <3>3 DEF Saves, Saved, WillSave
      <4> QED BY <1>3, <2>2, <3>1, <3>3, <4>1 DEF InACall
    <3> QED BY <3>2, <3>3
  <2> QED BY <2>1, <2>2 DEF InACall
<1>10. InASwitch' /\ OutOfACall'
  BY <1>3, <1>4, <1>5 DEF InASwitch, OutOfACall, Switching
<1> QED BY <1>2, <1>7, <1>8, <1>9, <1>10

(* The connection is there: the call the page was opened with is joined.      *)
LEMMA CommitRejoins ==
  ASSUME TabNoneApart, TabInv, Commit, Rejoins
  PROVE  TabInv'
<1> USE DEF TabInv
<1>1. /\ ToResume /\ Early /\ page.connected /\ page.loaded /\ voice.status = "idle" /\ Joinable
      /\ ~Lost /\ joining = None /\ switch = None /\ voice.conflict = None
  BY DEF Rejoins, Resumes, ToResume, ResumesEarly, Opening, Joinable
<1>2. TabTypeOK'
  BY CommitType
<1>3. PICK c \in Conversations : c = refs.resume.conversation
  BY <1>1 DEF ToResume, TabTypeOK, Refs, Entries
<1>4. /\ voice'.status = "joining" /\ voice'.room = c /\ voice'.conflict = None
      /\ joining' \in JoinsInFlight /\ ~joining'.overtaken
      /\ "status" \in changed' /\ "connection" \notin changed'
      /\ UNCHANGED <<page, switch, wish>> /\ strayed' = (strayed \/ Clears)
      /\ shown' = IF Clears THEN None ELSE c
  BY <1>1, <1>3, CommitDoes, JoinStartsDoes
<1>5. refs'.resumed /\ (~Clears => refs'.had)
  BY RememberedIs
<1>6. ~Early' /\ ~ToResume'
  BY <1>1, <1>4, <1>5 DEF Early, ToResume
<1>7. Opening' /\ ResumesEarly'
  BY <1>1, <1>4, <1>6 DEF Opening, ResumesEarly
<1>8. InFlight'
  BY <1>1, <1>4 DEF InFlight, ForSwitch, Switching, TabNoneApart
<1>9. ~strayed' => ~Clears /\ wish = c
  <2> SUFFICES ASSUME ~strayed' PROVE ~Clears /\ wish = c
    OBVIOUS
  <2>1. ~Clears /\ ~strayed
    BY <1>4
  <2>2. Remembered.had /\ ~Switching
    BY <1>1, RememberedIs DEF Switching
  <2>3. "shown" \notin changed
    BY <1>1, <2>1, <2>2 DEF Clears, Saved
  <2> QED BY <1>1, <1>3, <2>1, <2>3 DEF OutOfACall, Resumed
<1>10. InACall' /\ InASwitch' /\ OutOfACall'
  BY <1>1, <1>3, <1>4, <1>5, <1>9 DEF InACall, InASwitch, OutOfACall, Switching, WillSave, TabNoneApart
<1> QED BY <1>2, <1>7, <1>8, <1>10

(* Out of a call, with nothing to join: the entry goes, with the conversation  *)
(* that is lost or the call that was had.                                   *)
LEMMA CommitIdle ==
  ASSUME TabNoneApart, TabInv, Commit, voice.status = "idle", ~Rejoins
  PROVE  TabInv'
<1> USE DEF TabInv
<1>1. TabTypeOK'
  BY CommitType
<1>2. /\ UNCHANGED <<page, switch, joining>> /\ strayed' = strayed
      /\ "connection" \notin changed' /\ ~Saves /\ ~StartsCamera
      /\ changed # {} /\ page.loaded
      /\ shown' = IF Clears THEN None ELSE IF Conflicts THEN voice.conflict ELSE shown
      /\ shown' # shown => "shown" \in changed'
      /\ stored' = (IF Clears \/ Lost THEN None ELSE stored)
      /\ wish' = IF Lost THEN None ELSE wish
  <2>1. ~Saves /\ ~StartsCamera /\ changed # {} /\ page.loaded
    BY DEF Saves, StartsCamera, Opening, Commit
  <2>2. UNCHANGED <<page, switch, joining>> /\ strayed' = strayed
    BY CommitDoes DEF TabTypeOK
  <2>3. "connection" \notin changed' /\ (shown' # shown => "shown" \in changed')
    BY CommitDoes
  <2>4. shown' = IF Clears THEN None ELSE IF Conflicts THEN voice.conflict ELSE shown
    BY CommitDoes
  <2>5. stored' = (IF Clears \/ Lost THEN None ELSE stored)
    BY <2>1, CommitDoes
  <2>6. wish' = IF Lost THEN None ELSE wish
    BY CommitDoes
  <2> QED BY <2>1, <2>2, <2>3, <2>4, <2>5, <2>6
<1>3. voice'.status = "idle" /\ voice'.conflict = voice.conflict
  <2>1. PICK v : v = (voice.camera \/ StartsCamera)
    OBVIOUS
  <2>2. voice' = [voice EXCEPT !.camera = v]
    BY <2>1, CommitDoes
  <2> QED BY <2>2 DEF TabTypeOK, Voices
<1>4. /\ refs'.resume = (IF Clears \/ Lost THEN None ELSE refs.resume) /\ refs'.resumed = refs.resumed
      /\ refs'.had = IF Clears THEN FALSE ELSE refs.had
  <2>1. /\ Remembered.had = refs.had /\ refs'.resumed = refs.resumed
        /\ refs'.resume = IF Clears THEN None ELSE Remembered.resume
        /\ refs'.had = IF Clears THEN FALSE ELSE Remembered.had \/ Saves
    BY RememberedIs
  <2>2. refs.had \in BOOLEAN
    BY DEF TabTypeOK, Refs
  <2>3. Remembered.resume = IF Lost THEN None ELSE refs.resume
    BY RememberedIs
  <2> QED BY <1>2, <2>1, <2>2, <2>3
<1>5. Clears <=> Saved /\ refs.had /\ ~Switching
  BY RememberedIs DEF Clears
<1>6. ToResume' => ToResume /\ ~page.connected /\ Early'
  <2> SUFFICES ASSUME ToResume', page.connected PROVE FALSE
    BY <1>2, <1>4 DEF ToResume, Early
  <2>1. ToResume /\ ~Lost
    BY <1>4 DEF ToResume
  <2>2. "connection" \in changed
    BY <2>1 DEF ResumesEarly, Early
  <2>3. Resumes
    BY <2>1, <2>2 DEF Resumes, ToResume
  <2> QED BY <2>1, <2>3 DEF Rejoins
<1>7. Opening' /\ ResumesEarly'
  <2>1. Early' => ~page.connected /\ Early
    BY <1>2 DEF Early
  <2>2. Early => shown' = None
    <3> SUFFICES ASSUME Early, ~Clears PROVE shown' = None
      BY <1>2
    <3>1. shown = None
      BY <1>2, <1>5 DEF Opening, Saved, Switching
    <3>2. ~Conflicts
      BY DEF Opening, Conflicts, TabTypeOK, Pages, TabNoneApart
    <3> QED BY <1>2, <3>1, <3>2
  <2>3. Opening'
    BY <1>2, <1>3, <2>1, <2>2 DEF Opening
  <2> QED BY <1>6, <2>3 DEF ResumesEarly
<1>8. InFlight'
  BY <1>2, <1>3 DEF InFlight, ForSwitch, Switching
<1>9. InACall' /\ InASwitch'
  <2> SUFFICES ASSUME ~strayed, Switching PROVE ~Clears /\ ~Lost /\ ~Conflicts
    BY <1>2, <1>3, <1>4 DEF InACall, InASwitch, Switching
  <2>1. ~Clears
    BY <1>5
  <2>2. ~Lost
    BY DEF Lost, Resumes, ResumesEarly, ToResume, Opening, Switching
  <2>3. ~Conflicts
    BY DEF InASwitch, Conflicts, TabTypeOK, Pages, TabNoneApart
  <2> QED BY <2>1, <2>2, <2>3
<1>10. OutOfACall'
  <2> SUFFICES ASSUME ~strayed PROVE OutOfACall'
    BY <1>2 DEF OutOfACall
  <2>1. stored' # None => ToResume' \/ Switching
    BY <1>2, <1>4, <1>5 DEF OutOfACall, ToResume, WillClear, WillSave, Saved
  <2>2. wish' # None => \/ Switching /\ switch.phase = "leaving"
                        \/ Resumed(refs.resume)' /\ ToResume'
    BY <1>2, <1>4, <1>5 DEF OutOfACall, Resumed, ToResume
  <2>3. ToResume' => ~refs'.had /\ Resumed(refs.resume)' /\ Resumed(stored)'
    <3> SUFFICES ASSUME ToResume' PROVE ~refs'.had /\ Resumed(refs.resume)' /\ Resumed(stored)'
      OBVIOUS
    <3>1. ToResume /\ ~Clears /\ ~Lost /\ Early /\ ~Switching
      BY <1>4, <1>6 DEF ToResume, ResumesEarly, Opening, Switching
    <3>2. ~refs.had /\ Resumed(refs.resume) /\ Resumed(stored)
      BY <1>5, <3>1 DEF OutOfACall, Saved
    <3> QED BY <1>2, <1>4, <3>1, <3>2 DEF Resumed
  <2> QED BY <1>2, <2>1, <2>2, <2>3 DEF OutOfACall, Switching
<1> QED BY <1>1, <1>7, <1>8, <1>9, <1>10

-----------------------------------------------------------------------------
LEMMA TabInvInit == TabInit => TabInv
<1> SUFFICES ASSUME TabInit PROVE TabInv
  OBVIOUS
<1>1. TabTypeOK
  BY IdleIs DEF TabInit, TabTypeOK, Opened, Pages
<1>2. ~page.connected /\ ~page.loaded
  BY DEF TabInit, Opened
<1> QED BY <1>1, <1>2, IdleIs
        DEF TabInit, TabInv, Opening, InFlight, ForSwitch, Switching, ResumesEarly, ToResume, InACall,
            InASwitch, OutOfACall, Early

LEMMA TabInvStep ==
  ASSUME TabNoneApart, TabInv, [TabNext]_tabVars
  PROVE  TabInv'
<1>1. CASE UNCHANGED tabVars
  BY <1>1 DEF tabVars, TabInv, TabTypeOK, Opening, Early, InFlight, ForSwitch, Switching, ResumesEarly,
              ToResume, InACall, WillSave, InASwitch, OutOfACall, WillClear, Resumed
<1>2. CASE Commit
  BY <1>2, CommitInCall, CommitRejoins, CommitIdle
<1>3. CASE Connects \/ Ages \/ \E known \in SUBSET page.known : BootstrapChanges(known)
  BY <1>3, PageTurns, TurnsInv
<1>4. CASE \E c \in Conversations : JoinConflicts(c)
  BY <1>4, JoinConflictsInv
<1> QED BY <1>1, <1>2, <1>3, <1>4, LoadsInv, ReloadsInv, JoinsInv, TakesOverInv, HangsInv,
           TogglesCameraInv, SwitchJoinsInv, SwitchEndsInv, JoinSucceedsInv, JoinFailsInv DEF TabNext

LEMMA InvResumable ==
  ASSUME TabInv
  PROVE  Resumable
BY DEF TabInv, Resumable, Rendered, Switching, Opening, Early, ResumesEarly, InACall, OutOfACall, WillSave,
       WillClear, Resumed

(* Once everything is rendered and no join is under way, the call is the one     *)
(* the user asked for, it is shown, and its entry in sessionStorage comes back  *)
(* to it with its camera; out of a call nothing is stored and none was asked    *)
(* for.  None is null: no conversation, entry, join or switch                 *)
(* (callContext: the effects that resume, save and clear; switchCall).         *)
THEOREM ResumableHolds ==
  ASSUME TabNoneApart
  PROVE  TabSpec => []Resumable
<1>1. TabInv /\ [TabNext]_tabVars => TabInv'
  BY TabInvStep
<1> QED BY <1>1, TabInvInit, InvResumable, PTL DEF TabSpec

-----------------------------------------------------------------------------
(* The voice session: its types.                                            *)

Names == Operations \cup {None}
Stages == {"leaving", "joining", "detaching", "repair", "microphone", "session", "publish",
           "devices", "camera", "screen"}
HookType ==
  [status : {"idle", "joining", "connected", "reconnecting", "recovering"}, generation : Nat,
   requested : BOOLEAN, inFlight : BOOLEAN, client : Names, microphone : Names,
   recovery : Names, shown : Rooms \cup {None}]
OperationType ==
  [kind : {"join", "switch", "recover"}, at : Stages, generation : Nat, room : Rooms \cup {None},
   microphone : Names, from : Names]
TaskType == [at : {"permission", "publishing", "switching"}, generation : Nat, session : Nat,
             manager : Nat, client : Names]
ClosingType == [client : Names, behind : BOOLEAN]
CaptureType ==
  [state : {"idle", "requesting-permission", "publishing", "active", "switching", "stopping"},
   busy : BOOLEAN, wanted : BOOLEAN, generation : Nat, stream : {"none", "live", "ended"},
   manager : Nat, task : TaskType \cup {None}, closing : ClosingType \cup {None}, sent : Names]
CommandType == [what : {"join", "leave"}, by : Names, room : Rooms \cup {None}]

HookNoneApart == None \notin Operations \cup Rooms \cup OperationType \cup TaskType \cup ClosingType

HookTypeOK ==
  /\ session \in HookType
  /\ operations \in [Operations -> OperationType \cup {None}]
  /\ peers \in [Operations -> {"none", "open", "closed"}]
  /\ published \in [Operations -> Names]
  /\ microphones \subseteq Operations
  /\ captures \in [Captures -> CaptureType]
  /\ commands \in Seq(CommandType)
  /\ lease \in Rooms \cup {None}

-----------------------------------------------------------------------------
(* What the parts of the model have in them, action by action.              *)
LEMMA HookTypeInit == Init => HookTypeOK
BY DEF Init, HookTypeOK, HookType, CaptureType, Names

LEMMA CommandsTyped ==
  ASSUME commands \in Seq(CommandType)
  PROVE  /\ commands # <<>> => Head1 \in CommandType /\ Tail(commands) \in Seq(CommandType)
         /\ \A what \in {"join", "leave"}, p \in Names, r \in Rooms \cup {None} :
              Command(what, p, r) => commands' \in Seq(CommandType)
<1>1. commands # <<>> => Head1 \in CommandType /\ Tail(commands) \in Seq(CommandType)
  BY DEF Head1
<1>2. ASSUME NEW what \in {"join", "leave"}, NEW p \in Names, NEW r \in Rooms \cup {None}
      PROVE  Append(commands, [what |-> what, by |-> p, room |-> r]) \in Seq(CommandType)
  BY DEF CommandType
<1> QED BY <1>1, <1>2 DEF Command

(* What an action that leaves the captures alone does to the others. *)
LEMMA RejectedTyped ==
  ASSUME HookTypeOK, NEW p \in Operations, operations[p] # None, JoinRejected(p)
  PROVE  session' \in HookType /\ operations' \in [Operations -> OperationType \cup {None}]
BY DEF HookTypeOK, HookType, OperationType, JoinRejected, Ends

LEMMA PeersTyped ==
  ASSUME HookTypeOK, NEW c \in Names
  PROVE  /\ PeerClosed(c) \in [Operations -> {"none", "open", "closed"}]
         /\ Unpublished(c) \in [Operations -> Names]
         /\ Silenced(c) \subseteq Operations
BY DEF HookTypeOK, PeerClosed, Unpublished, Silenced, Names

LEMMA StoppedTyped ==
  ASSUME NEW x \in CaptureType
  PROVE  Stopped(x) \in CaptureType
<1>1. x.manager + 1 \in Nat
  BY DEF CaptureType
<1>2. \A n \in Nat : [x EXCEPT !.manager = n, !.stream = "none"] \in CaptureType
  BY DEF CaptureType
<1> QED BY <1>1, <1>2 DEF Stopped

LEMMA IdledTyped ==
  ASSUME NEW x \in CaptureType
  PROVE  Idled(x) \in CaptureType
<1>1. CASE x.closing = None
  BY <1>1 DEF Idled, CaptureType
<1>2. CASE x.closing # None
  <2>1. x.closing \in ClosingType
    BY <1>2 DEF CaptureType
  <2>2. [x.closing EXCEPT !.behind = FALSE] \in ClosingType
    BY <2>1 DEF ClosingType
  <2> QED BY <1>2, <2>2 DEF Idled, CaptureType
<1> QED BY <1>1, <1>2

LEMMA CaughtTyped ==
  ASSUME NEW s \in Captures, NEW x \in CaptureType
  PROVE  Caught(s, x) \in CaptureType
<1>1. Idled(x) \in CaptureType /\ Stopped(Idled(x)) \in CaptureType
  BY IdledTyped, StoppedTyped
<1>2. [Stopped(Idled(x)) EXCEPT !.wanted = FALSE, !.state = "idle"] \in CaptureType
  BY <1>1 DEF CaptureType
<1> QED BY <1>1, <1>2 DEF Caught

LEMMA LeaveTyped ==
  ASSUME HookTypeOK, NEW p \in Names, LeaveWith(p)
  PROVE  /\ session' \in HookType /\ commands' \in Seq(CommandType)
         /\ peers' \in [Operations -> {"none", "open", "closed"}]
         /\ published' \in [Operations -> Names]
         /\ microphones' \subseteq Operations
         /\ captures' \in [Captures -> CaptureType]
<1>1. session.client \in Names
  BY DEF HookTypeOK, HookType
<1>2. /\ peers' \in [Operations -> {"none", "open", "closed"}]
      /\ published' \in [Operations -> Names]
      /\ microphones' \subseteq Operations
  BY <1>1, PeersTyped DEF LeaveWith
<1>3. session' \in HookType
  <2>1. session \in HookType /\ session.generation + 1 \in Nat
    BY DEF HookTypeOK, HookType
  <2>2. \A n \in Nat :
          [session EXCEPT !.requested = TRUE, !.inFlight = FALSE, !.generation = n,
             !.recovery = None, !.client = None, !.microphone = None, !.status = "idle"] \in HookType
    BY <2>1 DEF HookType, Names
  <2> QED BY <2>1, <2>2 DEF LeaveWith
<1>5. commands' \in Seq(CommandType)
  BY CommandsTyped DEF LeaveWith, HookTypeOK
<1>4. ASSUME NEW s \in Captures
      PROVE  [Stopped(captures[s]) EXCEPT !.state = "idle", !.wanted = FALSE,
               !.sent = IF @ = session.client THEN None ELSE @] \in CaptureType
  <2>1. Stopped(captures[s]) \in CaptureType
    BY StoppedTyped DEF HookTypeOK
  <2> QED BY <2>1 DEF CaptureType, Names
<1> QED BY <1>2, <1>3, <1>4, <1>5 DEF LeaveWith

LEMMA ClosedTyped ==
  ASSUME HookTypeOK, NEW c \in Names, Closed(c)
  PROVE  /\ peers' \in [Operations -> {"none", "open", "closed"}]
         /\ published' \in [Operations -> Names]
         /\ captures' \in [Captures -> CaptureType]
<1>1. /\ peers' \in [Operations -> {"none", "open", "closed"}]
      /\ published' \in [Operations -> Names]
  BY PeersTyped DEF Closed
<1>3. ASSUME NEW s \in Captures
      PROVE  [captures[s] EXCEPT !.sent = IF @ = c THEN None ELSE @] \in CaptureType
  <2>1. PICK x \in CaptureType : x = captures[s]
    BY DEF HookTypeOK
  <2>2. PICK n : n = IF x.sent = c THEN None ELSE x.sent
    OBVIOUS
  <2>3. n \in Names
    BY <2>2 DEF CaptureType, Names
  <2>4. [x EXCEPT !.sent = n] \in CaptureType
    BY <2>3 DEF CaptureType
  <2> QED BY <2>1, <2>2, <2>4
<1> QED BY <1>1, <1>3 DEF Closed

LEMMA DetachTyped ==
  ASSUME HookTypeOK, NEW c \in Names, NEW p \in Names, Detach(c, p)
  PROVE  /\ session' \in HookType
         /\ peers' \in [Operations -> {"none", "open", "closed"}]
         /\ published' \in [Operations -> Names]
         /\ captures' \in [Captures -> CaptureType]
<1>1. session' \in HookType
  <2>1. session \in HookType /\ session.generation + 1 \in Nat
    BY DEF HookTypeOK, HookType
  <2>2. \A n \in Nat : [session EXCEPT !.generation = n, !.status = "recovering", !.recovery = p]
                         \in HookType
    BY <2>1 DEF HookType
  <2> QED BY <2>1, <2>2 DEF Detach
<1>2. CASE Closed(c)
  BY <1>1, <1>2, ClosedTyped
<1>3. CASE UNCHANGED <<peers, published, captures>>
  BY <1>1, <1>3 DEF HookTypeOK
<1> QED BY <1>2, <1>3 DEF Detach

(* An operation that goes on is another operation in its place.             *)
LEMMA GoesOn ==
  ASSUME operations \in [Operations -> OperationType \cup {None}],
         NEW p \in Operations, operations[p] \in OperationType,
         NEW at \in Stages, NEW g \in Nat, NEW r \in Rooms \cup {None}, NEW m \in Names
  PROVE  /\ [operations EXCEPT ![p].at = at, ![p].generation = g]
              \in [Operations -> OperationType \cup {None}]
         /\ [operations EXCEPT ![p].at = at, ![p].microphone = m, ![p].room = r]
              \in [Operations -> OperationType \cup {None}]
         /\ [operations EXCEPT ![p].at = at, ![p].microphone = m]
              \in [Operations -> OperationType \cup {None}]
         /\ Goes(p, at) \in [Operations -> OperationType \cup {None}]
<1>1. /\ [operations[p] EXCEPT !.at = at, !.generation = g] \in OperationType
      /\ [operations[p] EXCEPT !.at = at, !.microphone = m, !.room = r] \in OperationType
      /\ [operations[p] EXCEPT !.at = at, !.microphone = m] \in OperationType
      /\ [operations[p] EXCEPT !.at = at] \in OperationType
  BY DEF OperationType
<1>2. \A o \in OperationType :
        [operations EXCEPT ![p] = o] \in [Operations -> OperationType \cup {None}]
  OBVIOUS
<1>3. /\ [operations EXCEPT ![p].at = at, ![p].generation = g]
           = [operations EXCEPT ![p] = [operations[p] EXCEPT !.at = at, !.generation = g]]
      /\ [operations EXCEPT ![p].at = at, ![p].microphone = m, ![p].room = r]
           = [operations EXCEPT ![p] = [operations[p] EXCEPT !.at = at, !.microphone = m, !.room = r]]
      /\ [operations EXCEPT ![p].at = at, ![p].microphone = m]
           = [operations EXCEPT ![p] = [operations[p] EXCEPT !.at = at, !.microphone = m]]
      /\ Goes(p, at) = [operations EXCEPT ![p] = [operations[p] EXCEPT !.at = at]]
  BY DEF Goes
<1> QED BY <1>1, <1>2, <1>3

(* The operations that begin or go on. *)
LEMMA JoinBeginsTyped ==
  ASSUME HookTypeOK
  PROVE  /\ JoinBegins(session) \in HookType
         /\ \A r \in Rooms \cup {None} : [JoinBegins(session) EXCEPT !.shown = r] \in HookType
<1>1. session \in HookType /\ session.generation + 1 \in Nat
  BY DEF HookTypeOK, HookType
<1>2. \A n \in Nat : [session EXCEPT !.inFlight = TRUE, !.requested = FALSE, !.status = "joining",
                                     !.generation = n] \in HookType
  BY <1>1 DEF HookType
<1>3. JoinBegins(session) \in HookType
  BY <1>1, <1>2 DEF JoinBegins
<1>4. \A r \in Rooms \cup {None} : [JoinBegins(session) EXCEPT !.shown = r] \in HookType
  BY <1>3 DEF HookType
<1> QED BY <1>3, <1>4

LEMMA ReturnsTyped ==
  ASSUME HookTypeOK, NEW p \in Operations, operations[p] # None, NEW before \in HookType
  PROVE  Returns(p, before) \in HookType
<1>1. operations[p].room \in Rooms \cup {None}
  BY DEF HookTypeOK, OperationType
<1> QED BY <1>1 DEF Returns, HookType, Names

(* What is asked of the hook, and what its commands are answered.            *)
UserActs ==
  \/ \E p \in Operations, r \in Rooms : Join(p, r) \/ SwitchCall(p, r)
  \/ Leave \/ PeerFails \/ PeerComesBack
AnswersAct ==
  \/ JoinGranted \/ JoinRefused \/ LeaveHandled \/ LeaveLost
  \/ \E p \in Operations : JoinTimesOut(p) \/ LeaveTimesOut(p)

LEMMA UserTyped ==
  ASSUME HookNoneApart, HookTypeOK, UserActs
  PROVE  HookTypeOK'
<1> USE DEF HookTypeOK
<1>1. ASSUME NEW p \in Operations, NEW r \in Rooms, Join(p, r) PROVE HookTypeOK'
  <2>1. session' \in HookType /\ session'.generation \in Nat
    BY <1>1, JoinBeginsTyped DEF Join, HookType
  <2>2. operations' \in [Operations -> OperationType \cup {None}]
    BY <1>1, <2>1 DEF Join, OperationType, Names, Stages
  <2>3. commands' \in Seq(CommandType)
    BY <1>1, CommandsTyped DEF Join, Names
  <2> QED BY <1>1, <2>1, <2>2, <2>3 DEF Join
<1>2. ASSUME NEW p \in Operations, NEW r \in Rooms, SwitchCall(p, r) PROVE HookTypeOK'
  <2>1. LeaveWith(p)
    BY <1>2 DEF SwitchCall
  <2>2. operations' \in [Operations -> OperationType \cup {None}]
    BY <1>2 DEF SwitchCall, OperationType, Names, Stages
  <2> QED BY <1>2, <2>1, <2>2, LeaveTyped DEF SwitchCall, Names
<1>3. CASE Leave
  BY <1>3, LeaveTyped DEF Leave, Names
<1>4. CASE PeerFails
  BY <1>4 DEF PeerFails, HookType, clients, server
<1>5. CASE PeerComesBack
  BY <1>5 DEF PeerComesBack, HookType, clients, server
<1> QED BY <1>1, <1>2, <1>3, <1>4, <1>5 DEF UserActs

LEMMA LeaveEndsTyped ==
  ASSUME HookNoneApart, HookTypeOK, NEW p \in Operations, operations[p] # None,
         NEW queue \in Seq(CommandType), LeaveEnds(p, queue)
  PROVE  /\ session' \in HookType /\ operations' \in [Operations -> OperationType \cup {None}]
         /\ commands' \in Seq(CommandType)
<1>1. operations[p] \in OperationType
  BY DEF HookTypeOK
<1>2. CASE session.status = "idle" /\ ~session.inFlight
  <2>1. session' \in HookType /\ session'.generation \in Nat
    BY <1>2, JoinBeginsTyped DEF LeaveEnds, HookType
  <2>2. operations' = [operations EXCEPT ![p].at = "joining", ![p].generation = session'.generation]
    BY <1>2 DEF LeaveEnds
  <2>3. operations' \in [Operations -> OperationType \cup {None}]
    <3>1. "joining" \in Stages
      BY DEF Stages
    <3>2. operations \in [Operations -> OperationType \cup {None}]
      BY DEF HookTypeOK
    <3>3. None \in Names /\ None \in Rooms \cup {None}
      BY DEF Names
    <3> QED BY <1>1, <2>1, <2>2, <3>1, <3>2, <3>3, GoesOn
  <2>4. [what |-> "join", by |-> p, room |-> operations[p].room] \in CommandType
    BY <1>1 DEF OperationType, CommandType, Names
  <2>5. commands' = Append(queue, [what |-> "join", by |-> p, room |-> operations[p].room])
    BY <1>2 DEF LeaveEnds
  <2>6. commands' \in Seq(CommandType)
    BY <2>4, <2>5
  <2> QED BY <2>1, <2>3, <2>6
<1>3. CASE ~(session.status = "idle" /\ ~session.inFlight)
  BY <1>1, <1>3 DEF LeaveEnds, Ends, HookTypeOK, HookType, OperationType
<1> QED BY <1>2, <1>3

LEMMA AnswersTyped ==
  ASSUME HookNoneApart, HookTypeOK, AnswersAct
  PROVE  HookTypeOK'
<1> USE DEF HookTypeOK
<1>1. commands # <<>> => /\ Head1 \in CommandType /\ Tail(commands) \in Seq(CommandType)
                         /\ Head1.by \in Names /\ Head1.room \in Rooms \cup {None}
  BY CommandsTyped DEF CommandType
<1>2. \A at : Waits(at) => Head1.by # None /\ operations[Head1.by] # None
  BY DEF Waits, Doing
<1>3. session.generation \in Nat
  BY DEF HookType
<1>4. CASE JoinGranted
  <2>1. commands # <<>> /\ lease' \in Rooms \cup {None} /\ commands' \in Seq(CommandType)
    BY <1>1, <1>4 DEF JoinGranted
  <2>2. CASE Waits("joining")
    <3>1. session' \in HookType
      BY <1>1, <1>2, <1>4, <2>1, <2>2 DEF JoinGranted, StartClient, HookType
    <3>2. operations' \in [Operations -> OperationType \cup {None}]
      <4>1. Head1.by \in Operations /\ operations[Head1.by] \in OperationType
        BY <1>1, <1>2, <2>1, <2>2 DEF Names
      <4>2. operations' = [operations EXCEPT ![Head1.by].at = "microphone",
                                             ![Head1.by].generation = session.generation]
        BY <1>4, <2>2 DEF JoinGranted
      <4>3. "microphone" \in Stages
        BY DEF Stages
      <4> QED BY <1>3, <4>1, <4>2, <4>3, GoesOn
    <3> QED BY <1>4, <2>1, <3>1, <3>2 DEF JoinGranted
  <2>3. CASE ~Waits("joining")
    BY <1>4, <2>1, <2>3 DEF JoinGranted
  <2> QED BY <2>2, <2>3
<1>5. CASE JoinRefused
  <2>1. commands # <<>> /\ commands' \in Seq(CommandType)
    BY <1>1, <1>5 DEF JoinRefused
  <2>2. CASE Waits("joining")
    BY <1>1, <1>2, <1>5, <2>1, <2>2, RejectedTyped DEF JoinRefused, Names
  <2>3. CASE ~Waits("joining")
    BY <1>5, <2>1, <2>3 DEF JoinRefused
  <2> QED BY <2>2, <2>3
<1>6. CASE LeaveHandled
  <2>1. commands # <<>> /\ lease' = None
    BY <1>6 DEF LeaveHandled
  <2>2. CASE ~Waits("leaving")
    BY <1>1, <1>6, <2>1, <2>2 DEF LeaveHandled
  <2>3. CASE Waits("leaving")
    <3>1. Head1.by \in Operations /\ operations[Head1.by] # None
      BY <1>1, <1>2, <2>1, <2>3 DEF Names
    <3>2. LeaveEnds(Head1.by, Tail(commands))
      BY <1>6, <2>3 DEF LeaveHandled
    <3>3. /\ session' \in HookType /\ operations' \in [Operations -> OperationType \cup {None}]
          /\ commands' \in Seq(CommandType)
      BY <1>1, <2>1, <3>1, <3>2, LeaveEndsTyped
    <3> QED BY <1>6, <2>1, <3>3 DEF LeaveHandled
  <2> QED BY <2>2, <2>3
<1>7. ASSUME NEW p \in Operations, JoinTimesOut(p) PROVE HookTypeOK'
  BY <1>7, RejectedTyped DEF JoinTimesOut, Doing, server
<1>8. CASE LeaveLost
  BY <1>1, <1>8 DEF LeaveLost, clients
<1>9. ASSUME NEW p \in Operations, LeaveTimesOut(p) PROVE HookTypeOK'
  <2>1. operations[p] # None /\ LeaveEnds(p, commands) /\ commands \in Seq(CommandType)
    BY <1>9 DEF LeaveTimesOut, Doing
  <2>2. /\ session' \in HookType /\ operations' \in [Operations -> OperationType \cup {None}]
        /\ commands' \in Seq(CommandType)
    BY <2>1, LeaveEndsTyped
  <2> QED BY <1>9, <2>2 DEF LeaveTimesOut
<1> QED BY <1>4, <1>5, <1>6, <1>7, <1>8, <1>9 DEF AnswersAct

LEMMA StartsTyped ==
  ASSUME HookNoneApart, HookTypeOK, NEW p \in Operations,
         \/ MicrophoneGranted(p) \/ SessionCreated(p) \/ Published(p)
         \/ PublishedTooLate(p) \/ StartFails(p) \/ DevicesListed(p)
  PROVE  HookTypeOK'
<1> USE DEF HookTypeOK
<1>1. operations[p] # None /\ operations[p] \in OperationType
  BY DEF MicrophoneGranted, SessionCreated, Published, PublishedTooLate, StartFails, DevicesListed, Doing
<1>2. PeerClosed(p) \in [Operations -> {"none", "open", "closed"}]
  BY PeersTyped DEF Names
<1>3. Ends(p) \in [Operations -> OperationType \cup {None}]
  BY DEF Ends
<1>4. \A at \in Stages : Goes(p, at) \in [Operations -> OperationType \cup {None}]
  BY <1>1, GoesOn DEF Names, OperationType
<1>5. ASSUME LeavesUnlessRecovery(p) PROVE commands' \in Seq(CommandType)
  BY <1>5, CommandsTyped DEF LeavesUnlessRecovery, Names
<1>6. \A before \in HookType : Returns(p, before) \in HookType
  BY <1>1, ReturnsTyped
<1>7. CASE MicrophoneGranted(p)
  <2>1. operations' \in [Operations -> OperationType \cup {None}]
    <3>1. operations' = [operations EXCEPT ![p].at = "session", ![p].microphone = p]
      BY <1>7 DEF MicrophoneGranted
    <3>2. [operations[p] EXCEPT !.at = "session", !.microphone = p] \in OperationType
      BY <1>1 DEF OperationType, Stages, Names
    <3>3. operations' = [operations EXCEPT
            ![p] = [operations[p] EXCEPT !.at = "session", !.microphone = p]]
      BY <3>1
    <3> QED BY <3>2, <3>3
  <2> QED BY <1>7, <2>1 DEF MicrophoneGranted, server
<1>8. CASE SessionCreated(p)
  BY <1>4, <1>8 DEF SessionCreated, server, Stages
<1>9. CASE Published(p)
  <2>1. operations[p].microphone \in Names
    BY <1>1 DEF OperationType
  <2>2. session' \in HookType
    BY <1>9, <2>1 DEF Published, HookType
  <2>3. published' \in [Operations -> Names]
    BY <1>9, <2>1 DEF Published
  <2> QED BY <1>4, <1>9, <2>2, <2>3 DEF Published, server, Stages
<1>10. CASE PublishedTooLate(p)
  <2>1. [session EXCEPT !.inFlight = FALSE] \in HookType
    BY DEF HookType
  <2>2. session' \in HookType
    BY <1>6, <1>10, <2>1 DEF PublishedTooLate
  <2> QED BY <1>2, <1>3, <1>5, <1>10, <2>2 DEF PublishedTooLate
<1>11. CASE StartFails(p)
  <2>1. \A c \in Names, status \in {"idle", "reconnecting"}, f \in BOOLEAN :
          [session EXCEPT !.client = c, !.status = status, !.inFlight = f] \in HookType
    BY DEF HookType
  <2>2. session.client \in Names /\ None \in Names /\ session.inFlight \in BOOLEAN
    BY DEF HookType, Names
  <2>3. session' \in HookType
    BY <1>6, <1>11, <2>1, <2>2 DEF StartFails
  <2> QED BY <1>2, <1>3, <1>5, <1>11, <2>3 DEF StartFails
<1>12. CASE DevicesListed(p)
  <2>1. [session EXCEPT !.status = "connected"] \in HookType
    BY DEF HookType
  <2> QED BY <1>3, <1>4, <1>6, <1>12, <2>1 DEF DevicesListed, server, Stages
<1> QED BY <1>7, <1>8, <1>9, <1>10, <1>11, <1>12

LEMMA RecoveriesTyped ==
  ASSUME HookNoneApart, HookTypeOK, NEW p \in Operations,
         \/ ReconcileRebuilding(p) \/ ReconcileRepairing(p) \/ Repaired(p) \/ RepairFails(p)
         \/ RecoveryStarts(p)
  PROVE  HookTypeOK'
<1> USE DEF HookTypeOK
<1>1. ASSUME NEW at \in {"detaching", "repair"}, session' \in HookType
      PROVE  [operations EXCEPT ![p] = Recovery(p, at)] \in [Operations -> OperationType \cup {None}]
  <2>1. Recovery(p, at) \in OperationType
    BY <1>1 DEF Recovery, OperationType, HookType, Stages
  <2> QED BY <2>1
<1>2. session.client \in Names /\ session.recovery \in Names /\ p \in Names
  BY DEF HookType, Names
<1>3. CASE ReconcileRebuilding(p)
  BY <1>1, <1>2, <1>3, DetachTyped DEF ReconcileRebuilding, server
<1>4. CASE ReconcileRepairing(p)
  <2>1. session' \in HookType
    BY <1>2, <1>4 DEF ReconcileRepairing, HookType
  <2> QED BY <1>1, <1>4, <2>1 DEF ReconcileRepairing, server
<1>5. CASE Repaired(p)
  <2>1. [session EXCEPT !.status = "connected"] \in HookType
    BY DEF HookType
  <2>2. session' \in HookType
    BY <1>5, <2>1, ReturnsTyped DEF Repaired, Doing
  <2> QED BY <1>5, <2>2 DEF Repaired, server, Ends
<1>6. CASE RepairFails(p)
  <2>1. operations[p] \in OperationType /\ operations[p].from \in Names
    BY <1>6 DEF RepairFails, Doing, OperationType
  <2>2. Detach(operations[p].from, session.recovery)
    BY <1>6 DEF RepairFails
  <2>3. session' \in HookType /\ session'.generation \in Nat
    BY <1>2, <2>1, <2>2, DetachTyped DEF HookType
  <2>4. operations' \in [Operations -> OperationType \cup {None}]
    <3>1. "detaching" \in Stages
      BY DEF Stages
    <3>2. operations' = [operations EXCEPT ![p].at = "detaching",
                                           ![p].generation = session'.generation]
      BY <1>6 DEF RepairFails
    <3> QED BY <2>1, <2>3, <3>1, <3>2, GoesOn DEF Names
  <2> QED BY <1>2, <1>6, <2>1, <2>2, <2>3, <2>4, DetachTyped DEF RepairFails, server
<1>7. CASE RecoveryStarts(p)
  <2>1. operations[p] \in OperationType /\ operations[p].microphone \in Names
    BY <1>7 DEF RecoveryStarts, Doing, OperationType
  <2>2. session' \in HookType
    BY <1>2, <1>7 DEF RecoveryStarts, StartClient, HookType
  <2>3. operations' \in [Operations -> OperationType \cup {None}]
    <3>1. PICK at \in {"session", "microphone"}, m \in {operations[p].microphone, None} :
            operations' = [operations EXCEPT ![p].at = at, ![p].microphone = m,
                                             ![p].room = session.shown]
      BY <1>7 DEF RecoveryStarts
    <3>2. at \in Stages /\ m \in Names /\ session.shown \in Rooms \cup {None}
      BY <2>1 DEF Stages, Names, HookType
    <3>3. [operations EXCEPT ![p].at = at, ![p].microphone = m, ![p].room = session.shown]
            \in [Operations -> OperationType \cup {None}]
      BY <2>1, <3>2, GoesOn DEF OperationType
    <3> QED BY <3>1, <3>3
  <2>4. Closed(operations[p].from) /\ operations[p].from \in Names
    BY <1>7, <2>1 DEF RecoveryStarts, OperationType
  <2> QED BY <1>7, <2>2, <2>3, <2>4, ClosedTyped DEF RecoveryStarts, server
<1> QED BY <1>3, <1>4, <1>5, <1>6, <1>7

LEMMA RestoresTyped ==
  ASSUME HookNoneApart, HookTypeOK, NEW p \in Operations, NEW s \in Captures,
         CaptureRestored(p, s) \/ CaptureLost(p, s) \/ CaptureUnwanted(p, s)
  PROVE  HookTypeOK'
<1> USE DEF HookTypeOK
<1>1. operations[p] # None /\ operations[p] \in OperationType /\ AfterCapture(p, s)
  BY DEF CaptureRestored, CaptureLost, CaptureUnwanted, Doing
<1>2. session' \in HookType /\ operations' \in [Operations -> OperationType \cup {None}]
  <2>1. Goes(p, "screen") \in [Operations -> OperationType \cup {None}]
    BY <1>1, GoesOn DEF Stages, Names, OperationType
  <2>2. [session EXCEPT !.status = "connected"] \in HookType
    BY DEF HookType
  <2>3. Returns(p, [session EXCEPT !.status = "connected"]) \in HookType
    BY <1>1, <2>2, ReturnsTyped
  <2> QED BY <1>1, <2>1, <2>3 DEF AfterCapture, Ends
<1>3. captures' \in [Captures -> CaptureType]
  <2>1. captures[s] \in CaptureType
    OBVIOUS
  <2>2. CASE CaptureRestored(p, s)
    <3>1. [captures[s] EXCEPT !.stream = "live", !.state = "active", !.sent = p] \in CaptureType
      BY <2>1 DEF CaptureType, Names
    <3>2. captures' = [captures EXCEPT ![s] = [captures[s] EXCEPT !.stream = "live", !.state = "active",
                                                                  !.sent = p]]
      BY <2>2 DEF CaptureRestored
    <3> QED BY <3>1, <3>2
  <2>3. CASE CaptureLost(p, s)
    <3>1. Stopped(captures[s]) \in CaptureType
      BY <2>1, StoppedTyped
    <3>2. [Stopped(captures[s]) EXCEPT !.wanted = FALSE, !.state = "idle"] \in CaptureType
      BY <3>1 DEF CaptureType
    <3> QED BY <2>3, <3>2 DEF CaptureLost
  <2>4. CASE CaptureUnwanted(p, s)
    BY <2>4 DEF CaptureUnwanted
  <2> QED BY <2>2, <2>3, <2>4
<1>4. UNCHANGED <<peers, published, microphones, commands, lease>>
  BY DEF CaptureRestored, CaptureLost, CaptureUnwanted, server
<1> QED BY <1>2, <1>3, <1>4

LEMMA CapturesTyped ==
  ASSUME HookNoneApart, HookTypeOK,
         \/ ScreenEnds \/ ChangeCamera \/ CameraRemoved
         \/ \E s \in Captures :
              \/ StartCapture(s) \/ CaptureGranted(s) \/ CaptureDenied(s) \/ CapturePublished(s)
              \/ CapturePublishFails(s) \/ CameraChanged(s) \/ CameraNotChanged(s)
              \/ StopCapture(s) \/ CaptureClosed(s)
  PROVE  HookTypeOK'
<1> USE DEF HookTypeOK
<1>1. ASSUME NEW s \in Captures, NEW x \in CaptureType, captures' = [captures EXCEPT ![s] = x]
      PROVE  captures' \in [Captures -> CaptureType]
  BY <1>1
<1>2. session.generation \in Nat /\ session.client \in Names
  BY DEF HookType
<1>3. \A s \in Captures : captures[s] \in CaptureType
  OBVIOUS
<1>4. ASSUME UNCHANGED <<session, clients, server>>, captures' \in [Captures -> CaptureType]
      PROVE  HookTypeOK'
  BY <1>4 DEF clients, server
<1>5. ASSUME NEW x \in CaptureType
      PROVE  Idled(x) \in CaptureType /\ Stopped(x) \in CaptureType /\ Stopped(Idled(x)) \in CaptureType
  BY <1>5, IdledTyped, StoppedTyped
<1>6. ASSUME NEW s \in Captures, StartCapture(s) PROVE HookTypeOK'
  <2>1. captures[s].generation \in Nat /\ captures[s].manager \in Nat
    BY DEF CaptureType
  <2>2. [at |-> "permission", generation |-> captures[s].generation, session |-> session.generation,
         manager |-> captures[s].manager, client |-> session.client] \in TaskType
    BY <1>2, <2>1 DEF TaskType
  <2>3. \A t \in TaskType : [captures[s] EXCEPT !.busy = TRUE, !.wanted = TRUE,
          !.state = "requesting-permission", !.task = t] \in CaptureType
    BY <1>3 DEF CaptureType
  <2>4. PICK t \in TaskType : captures' = [captures EXCEPT ![s].busy = TRUE, ![s].wanted = TRUE,
                                ![s].state = "requesting-permission", ![s].task = t]
    BY <1>6, <2>2 DEF StartCapture
  <2>5. captures' = [captures EXCEPT ![s] = [captures[s] EXCEPT !.busy = TRUE, !.wanted = TRUE,
                                               !.state = "requesting-permission", !.task = t]]
    BY <2>4
  <2> QED BY <1>1, <1>4, <1>6, <2>3, <2>5 DEF StartCapture
<1>7. ASSUME NEW s \in Captures, CaptureGranted(s) PROVE HookTypeOK'
  <2> DEFINE x == captures[s]
             open == IF s = "screen" /\ x.stream # "none" THEN x ELSE [x EXCEPT !.stream = "live"]
  <2>1. x \in CaptureType /\ open \in CaptureType /\ [x EXCEPT !.stream = "ended"] \in CaptureType
    BY <1>3 DEF CaptureType
  <2>2. x.task \in TaskType /\ open.task = x.task
    BY <1>7, <2>1 DEF CaptureGranted, At, CaptureType
  <2>3. [open EXCEPT !.task.at = "publishing", !.state = "publishing"] \in CaptureType
    <3>1. [x.task EXCEPT !.at = "publishing"] \in TaskType
      BY <2>2 DEF TaskType
    <3>2. \A t \in TaskType : [open EXCEPT !.task = t, !.state = "publishing"] \in CaptureType
      BY <2>1 DEF CaptureType
    <3>3. [open EXCEPT !.task.at = "publishing", !.state = "publishing"]
            = [open EXCEPT !.task = [x.task EXCEPT !.at = "publishing"], !.state = "publishing"]
      BY <2>1, <2>2 DEF CaptureType
    <3> QED BY <3>1, <3>2, <3>3
  <2>4. Caught(s, x) \in CaptureType /\ Idled(open) \in CaptureType
        /\ Idled([x EXCEPT !.stream = "ended"]) \in CaptureType
    BY <1>5, <2>1, CaughtTyped
  <2>5. \E y \in CaptureType : captures' = [captures EXCEPT ![s] = y]
    BY <1>7, <2>3, <2>4 DEF CaptureGranted
  <2> QED BY <1>1, <1>4, <1>7, <2>5 DEF CaptureGranted
<1>8. ASSUME NEW s \in Captures, CaptureDenied(s) PROVE HookTypeOK'
  BY <1>3, <1>1, <1>4, <1>8, CaughtTyped DEF CaptureDenied
<1>9. ASSUME NEW s \in Captures, CapturePublished(s) PROVE HookTypeOK'
  <2> DEFINE x == captures[s]
  <2>1. x \in CaptureType /\ x.task \in TaskType /\ x.task.client \in Names
    BY <1>3, <1>9 DEF CapturePublished, At, CaptureType, TaskType
  <2>6. Idled(x) \in CaptureType /\ Stopped(Idled(x)) \in CaptureType
    BY <1>5, <2>1
  <2>7. \A y \in CaptureType, c \in Names :
          /\ [y EXCEPT !.state = "active", !.sent = c] \in CaptureType
          /\ [y EXCEPT !.state = "idle"] \in CaptureType
          /\ [y EXCEPT !.state = "idle", !.wanted = FALSE] \in CaptureType
    BY DEF CaptureType
  <2>2. [Idled(x) EXCEPT !.state = "active", !.sent = x.task.client] \in CaptureType
    BY <2>1, <2>6, <2>7
  <2>3. [Stopped(Idled(x)) EXCEPT !.state = "idle"] \in CaptureType
    BY <2>1, <2>6, <2>7
  <2>4. [Idled(x) EXCEPT !.state = "idle", !.wanted = FALSE] \in CaptureType
    BY <2>1, <2>6, <2>7
  <2>5. \E y \in CaptureType : captures' = [captures EXCEPT ![s] = y]
    BY <1>9, <2>2, <2>3, <2>4, <2>6 DEF CapturePublished
  <2> QED BY <1>1, <1>4, <1>9, <2>5 DEF CapturePublished
<1>10. ASSUME NEW s \in Captures, CapturePublishFails(s) PROVE HookTypeOK'
  <2>1. captures[s] \in CaptureType /\ [captures[s] EXCEPT !.stream = "ended"] \in CaptureType
    BY <1>3 DEF CaptureType
  <2>2. \E y \in CaptureType : captures' = [captures EXCEPT ![s] = Caught(s, y)]
    BY <1>10, <2>1 DEF CapturePublishFails
  <2>3. \E y \in CaptureType : captures' = [captures EXCEPT ![s] = y]
    BY <2>2, CaughtTyped
  <2> QED BY <1>1, <1>4, <1>10, <2>3 DEF CapturePublishFails
<1>11. ASSUME NEW s \in Captures, CameraChanged(s) PROVE HookTypeOK'
  <2>1. Idled(captures[s]) \in CaptureType
    BY <1>3, <1>5
  <2>2. [Idled(captures[s]) EXCEPT !.state = "active"] \in CaptureType
    BY <2>1 DEF CaptureType
  <2> QED BY <1>1, <1>4, <1>11, <2>1, <2>2 DEF CameraChanged
<1>12. ASSUME NEW s \in Captures, CameraNotChanged(s) PROVE HookTypeOK'
  <2>1. Idled(captures[s]) \in CaptureType
    BY <1>3, <1>5
  <2>2. [Idled(captures[s]) EXCEPT !.state = IF captures[s].stream = "none" THEN "idle" ELSE "active"]
          \in CaptureType
    BY <2>1 DEF CaptureType
  <2> QED BY <1>1, <1>4, <1>12, <2>1, <2>2 DEF CameraNotChanged
<1>13. ASSUME NEW s \in Captures, StopCapture(s) PROVE HookTypeOK'
  <2>5. Stopped(captures[s]) \in CaptureType
    BY <1>3, <1>5
  <2>6. \A y \in CaptureType : y.generation + 1 \in Nat
    BY DEF CaptureType
  <2>1. Stopped(captures[s]) \in CaptureType /\ captures[s].generation + 1 \in Nat
    BY <1>3, <2>5, <2>6
  <2>2. [client |-> session.client, behind |-> At(s, "publishing")] \in ClosingType
    BY <1>2 DEF ClosingType, At
  <2>3. \A n \in Nat, state \in {"idle", "stopping"}, closing \in ClosingType \cup {None} :
          [Stopped(captures[s]) EXCEPT !.generation = n, !.wanted = FALSE, !.state = state,
                                       !.closing = closing] \in CaptureType
    BY <2>1 DEF CaptureType
  <2>7. PICK state \in {"idle", "stopping"}, closing \in ClosingType \cup {None} :
          captures' = [captures EXCEPT ![s] = [Stopped(captures[s]) EXCEPT
                         !.generation = captures[s].generation + 1,
                         !.wanted = FALSE, !.state = state, !.closing = closing]]
    BY <1>13, <2>2 DEF StopCapture
  <2>4. \E y \in CaptureType : captures' = [captures EXCEPT ![s] = y]
    BY <2>1, <2>3, <2>7
  <2> QED BY <1>1, <1>4, <1>13, <2>4 DEF StopCapture
<1>14. ASSUME NEW s \in Captures, CaptureClosed(s) PROVE HookTypeOK'
  <2>1. [captures[s] EXCEPT !.state = "idle", !.closing = None,
           !.sent = IF @ = captures[s].closing.client THEN None ELSE @] \in CaptureType
    BY <1>3 DEF CaptureType, Names
  <2>2. captures' = [captures EXCEPT ![s] = [captures[s] EXCEPT !.state = "idle", !.closing = None,
           !.sent = IF @ = captures[s].closing.client THEN None ELSE @]]
    BY <1>14 DEF CaptureClosed
  <2> QED BY <1>1, <1>4, <1>14, <2>1, <2>2 DEF CaptureClosed
<1>15. CASE ScreenEnds
  <2>1. PICK s \in Captures : captures' = [captures EXCEPT ![s].stream = "ended"]
    BY <1>15 DEF ScreenEnds
  <2>2. [captures[s] EXCEPT !.stream = "ended"] \in CaptureType
    BY <1>3 DEF CaptureType
  <2> QED BY <1>1, <1>4, <1>15, <2>1, <2>2 DEF ScreenEnds
<1>16. CASE ChangeCamera
  <2>1. PICK s \in Captures : captures' = [captures EXCEPT
         ![s].busy = TRUE, ![s].generation = captures[s].generation + 1, ![s].state = "switching",
         ![s].task = [at |-> "switching", generation |-> captures[s].generation + 1,
                      session |-> session.generation, manager |-> captures[s].manager,
                      client |-> session.client]]
    BY <1>16 DEF ChangeCamera
  <2>2. captures[s].generation + 1 \in Nat /\ captures[s].manager \in Nat
    BY <1>3 DEF CaptureType
  <2>3. PICK n : n = captures[s].generation + 1
    OBVIOUS
  <2>4. PICK t : t = [at |-> "switching", generation |-> n, session |-> session.generation,
                      manager |-> captures[s].manager, client |-> session.client]
    OBVIOUS
  <2>5. n \in Nat /\ t \in TaskType
    BY <1>2, <2>2, <2>3, <2>4 DEF TaskType
  <2>6. captures' = [captures EXCEPT ![s] = [captures[s] EXCEPT !.busy = TRUE, !.generation = n,
                                               !.state = "switching", !.task = t]]
    BY <2>1, <2>3, <2>4
  <2>7. [captures[s] EXCEPT !.busy = TRUE, !.generation = n, !.state = "switching", !.task = t]
          \in CaptureType
    BY <1>3, <2>5 DEF CaptureType
  <2> QED BY <1>1, <1>4, <1>16, <2>6, <2>7 DEF ChangeCamera
<1>17. CASE CameraRemoved
  <2>1. PICK s \in Captures :
          captures' = [captures EXCEPT ![s] = [Stopped(captures[s]) EXCEPT !.state = "idle",
                         !.sent = IF captures[s].sent = session.client THEN None ELSE captures[s].sent]]
    BY <1>17 DEF CameraRemoved
  <2>2. Stopped(captures[s]) \in CaptureType /\ captures[s].sent \in Names
    BY <1>3, <1>5 DEF CaptureType
  <2>3. \A y \in CaptureType, c \in Names : [y EXCEPT !.state = "idle", !.sent = c] \in CaptureType
    BY DEF CaptureType
  <2> QED BY <1>1, <1>4, <1>17, <2>1, <2>2, <2>3 DEF CameraRemoved, Names
<1> QED BY <1>6, <1>7, <1>8, <1>9, <1>10, <1>11, <1>12, <1>13, <1>14, <1>15, <1>16, <1>17

LEMMA HookTypeStep ==
  ASSUME HookNoneApart, HookTypeOK, [Next]_vars
  PROVE  HookTypeOK'
<1>1. CASE UNCHANGED vars
  BY <1>1 DEF vars, clients, server, HookTypeOK
<1>2. CASE Next
  BY <1>1, <1>2, UserTyped, AnswersTyped, StartsTyped, RecoveriesTyped, RestoresTyped, CapturesTyped
     DEF Next, Waiting, UserActs, AnswersAct
<1> QED BY <1>1, <1>2

-----------------------------------------------------------------------------
(* What the actions do, field by field.                                     *)
Rest(p) == \A q \in Operations : q # p => operations'[q] = operations[q]
Current(p) == operations[p] # None /\ ~Stale(p)
Aside(p) == operations[p] # None /\ Stale(p)

(* The refs and the status are as before, but for the room shown.           *)
HookStays ==
  /\ session'.status = session.status /\ session'.generation = session.generation
  /\ session'.requested = session.requested /\ session'.client = session.client
  /\ session'.microphone = session.microphone /\ session'.recovery = session.recovery

LEMMA JoinDoes ==
  ASSUME HookNoneApart, HookTypeOK, NEW p \in Operations, NEW r \in Rooms, Join(p, r)
  PROVE  /\ operations[p] = None /\ peers[p] = "none" /\ p \notin microphones
         /\ session.status = "idle" /\ Rest(p)
         /\ operations'[p] # None /\ operations'[p].kind = "join" /\ operations'[p].at = "joining"
         /\ operations'[p].generation = session'.generation /\ operations'[p].room = r
         /\ operations'[p].microphone = None
         /\ session'.status = "joining" /\ session'.generation = session.generation + 1
         /\ ~session'.requested /\ session'.client = session.client
         /\ session'.microphone = session.microphone /\ session'.recovery = session.recovery
         /\ session'.shown = r
         /\ commands' = Append(commands, [what |-> "join", by |-> p, room |-> r])
         /\ UNCHANGED <<peers, published, microphones, captures, lease, astray>>
<1>1. session'.generation \in Nat
  <2>1. session' \in HookType
    BY JoinBeginsTyped DEF Join
  <2> QED BY <2>1 DEF HookType
<1>2. operations' = [operations EXCEPT ![p] =
       [kind |-> "join", at |-> "joining", generation |-> session'.generation, room |-> r,
        microphone |-> None, from |-> None]]
  BY DEF Join
<1>3. [kind |-> "join", at |-> "joining", generation |-> session'.generation, room |-> r,
        microphone |-> None, from |-> None] \in OperationType
  BY <1>1 DEF OperationType, Stages, Names
<1>4. /\ Rest(p) /\ operations'[p] # None /\ operations'[p].kind = "join" /\ operations'[p].at = "joining"
      /\ operations'[p].generation = session'.generation /\ operations'[p].room = r
      /\ operations'[p].microphone = None
  BY <1>2, <1>3 DEF HookTypeOK, Rest, HookNoneApart
<1>5. /\ session'.status = "joining" /\ session'.generation = session.generation + 1
      /\ ~session'.requested /\ session'.client = session.client
      /\ session'.microphone = session.microphone /\ session'.recovery = session.recovery
      /\ session'.shown = r
  BY DEF Join, JoinBegins, HookTypeOK, HookType
<1> QED BY <1>4, <1>5 DEF Join, Fresh, Command

LEMMA LeaveWithDoes ==
  ASSUME HookNoneApart, HookTypeOK, NEW p, LeaveWith(p)
  PROVE  /\ session'.status = "idle" /\ session'.generation = session.generation + 1
         /\ session'.requested /\ session'.client = None /\ session'.microphone = None
         /\ session'.recovery = None /\ session'.shown = session.shown
         /\ \A q \in Operations :
              peers'[q] = IF q = session.client /\ peers[q] = "open" THEN "closed" ELSE peers[q]
         /\ session.client # None =>
              microphones' = microphones \ {published[session.client]}
         /\ session.client = None => microphones' = microphones
         /\ commands' = Append(commands, [what |-> "leave", by |-> p, room |-> None])
         /\ \A s \in Captures : captures'[s] =
              [Stopped(captures[s]) EXCEPT !.state = "idle", !.wanted = FALSE,
                 !.sent = IF @ = session.client THEN None ELSE @]
<1>1. /\ session'.status = "idle" /\ session'.generation = session.generation + 1
      /\ session'.requested /\ session'.client = None /\ session'.microphone = None
      /\ session'.recovery = None /\ session'.shown = session.shown
  BY DEF LeaveWith, HookTypeOK, HookType
<1>2. \A q \in Operations :
        peers'[q] = IF q = session.client /\ peers[q] = "open" THEN "closed" ELSE peers[q]
  BY DEF LeaveWith, PeerClosed
<1>3. session.client # None => session.client \in Operations
  BY DEF HookTypeOK, HookType, Names
<1>4. /\ session.client # None => microphones' = microphones \ {published[session.client]}
      /\ session.client = None => microphones' = microphones
  <2>1. microphones' = Silenced(session.client)
    BY DEF LeaveWith
  <2>2. CASE session.client = None
    <3>1. {published[q] : q \in {session.client} \cap Operations} = {}
      BY <2>2 DEF HookNoneApart
    <3> QED BY <2>1, <2>2, <3>1 DEF Silenced
  <2>3. CASE session.client # None
    <3>1. {session.client} \cap Operations = {session.client}
      BY <1>3, <2>3
    <3>2. {published[q] : q \in {session.client} \cap Operations} = {published[session.client]}
      BY <3>1
    <3> QED BY <2>1, <2>3, <3>2 DEF Silenced
  <2> QED BY <2>2, <2>3
<1>5. /\ commands' = Append(commands, [what |-> "leave", by |-> p, room |-> None])
      /\ captures' = [s \in Captures |->
           [Stopped(captures[s]) EXCEPT !.state = "idle", !.wanted = FALSE,
              !.sent = IF @ = session.client THEN None ELSE @]]
  BY DEF LeaveWith, Command
<1> QED BY <1>1, <1>2, <1>4, <1>5

LEMMA SwitchDoes ==
  ASSUME HookNoneApart, HookTypeOK, NEW p \in Operations, NEW r \in Rooms, SwitchCall(p, r)
  PROVE  /\ operations[p] = None /\ peers[p] = "none" /\ p \notin microphones
         /\ session.status # "idle" /\ Rest(p) /\ LeaveWith(p)
         /\ operations'[p] # None /\ operations'[p].kind = "switch" /\ operations'[p].at = "leaving"
         /\ operations'[p].generation = 0 /\ operations'[p].room = r
         /\ operations'[p].microphone = None
         /\ UNCHANGED <<lease, astray>>
<1>1. operations' = [operations EXCEPT ![p] =
       [kind |-> "switch", at |-> "leaving", generation |-> 0, room |-> r, microphone |-> None,
        from |-> None]]
  BY DEF SwitchCall
<1>2. [kind |-> "switch", at |-> "leaving", generation |-> 0, room |-> r, microphone |-> None,
        from |-> None] \in OperationType
  BY DEF OperationType, Stages, Names
<1>3. /\ Rest(p) /\ operations'[p] # None /\ operations'[p].kind = "switch"
      /\ operations'[p].at = "leaving" /\ operations'[p].generation = 0 /\ operations'[p].room = r
      /\ operations'[p].microphone = None
  BY <1>1, <1>2 DEF HookTypeOK, Rest, HookNoneApart
<1> QED BY <1>3 DEF SwitchCall, Fresh

(* The operation that waits for the first command. *)
LEMMA WaitsDoes ==
  ASSUME HookTypeOK, commands # <<>>, NEW at, Waits(at)
  PROVE  /\ Head1.by \in Operations /\ operations[Head1.by] \in OperationType
         /\ operations[Head1.by] # None /\ operations[Head1.by].at = at
<1>1. Head1 \in CommandType
  BY CommandsTyped DEF HookTypeOK
<1>2. Head1.by \in Operations
  BY <1>1 DEF CommandType, Names, Waits
<1> QED BY <1>2 DEF Waits, Doing, HookTypeOK

LEMMA GrantedDoes ==
  ASSUME HookNoneApart, HookTypeOK, JoinGranted, Waits("joining"), NEW p, p = Head1.by
  PROVE  /\ p \in Operations /\ operations[p] # None /\ operations[p].at = "joining" /\ Rest(p)
         /\ operations'[p] # None /\ operations'[p].kind = operations[p].kind
         /\ operations'[p].at = "microphone" /\ operations'[p].generation = session.generation
         /\ operations'[p].room = operations[p].room
         /\ operations'[p].microphone = operations[p].microphone
         /\ session'.status = "joining" /\ session'.generation = session.generation
         /\ session'.requested = session.requested /\ session'.client = p
         /\ session'.microphone = session.microphone /\ session'.recovery = session.recovery
         /\ session'.shown = session.shown
         /\ astray' = astray \cup (IF Stale(p) THEN {"revived"} ELSE {})
<1>1. p \in Operations /\ operations[p] \in OperationType /\ operations[p].at = "joining"
  BY WaitsDoes DEF JoinGranted
<1>2. operations' = [operations EXCEPT ![p].at = "microphone", ![p].generation = session.generation]
  BY DEF JoinGranted
<1>3. operations'[p] = [operations[p] EXCEPT !.at = "microphone", !.generation = session.generation]
      /\ Rest(p)
  BY <1>1, <1>2 DEF HookTypeOK, Rest
<1>4. operations'[p] # None
  <2>1. session.generation \in Nat
    BY DEF HookTypeOK, HookType
  <2>2. [operations[p] EXCEPT !.at = "microphone", !.generation = session.generation] \in OperationType
    BY <1>1, <2>1 DEF OperationType, Stages
  <2> QED BY <1>3, <2>2 DEF HookNoneApart
<1>5. session' = StartClient(p, session, FALSE) /\ Because("revived", Stale(p))
  BY DEF JoinGranted
<1>6. /\ session'.status = "joining" /\ session'.generation = session.generation
      /\ session'.requested = session.requested /\ session'.client = p
      /\ session'.microphone = session.microphone /\ session'.recovery = session.recovery
      /\ session'.shown = session.shown
  BY <1>5 DEF StartClient, HookTypeOK, HookType
<1> QED BY <1>1, <1>3, <1>4, <1>5, <1>6 DEF OperationType, Because, HookNoneApart

LEMMA RejectedDoes ==
  ASSUME HookNoneApart, HookTypeOK, NEW p \in Operations, operations[p] # None, JoinRejected(p)
  PROVE  /\ Rest(p) /\ operations'[p] = None
         /\ session'.status = "idle" /\ session'.generation = session.generation
         /\ session'.requested = session.requested /\ session'.client = session.client
         /\ session'.microphone = session.microphone /\ session'.recovery = session.recovery
BY DEF JoinRejected, Ends, HookTypeOK, HookType, Rest

LEMMA LeaveEndsDoes ==
  ASSUME HookNoneApart, HookTypeOK, NEW p \in Operations, Doing(p, "leaving"), NEW queue,
         LeaveEnds(p, queue)
  PROVE  /\ p \in Operations /\ operations[p] # None /\ operations[p].at = "leaving" /\ Rest(p)
         /\ \/ /\ session.status = "idle" /\ UNCHANGED astray
               /\ operations'[p] # None /\ operations'[p].kind = operations[p].kind
               /\ operations'[p].at = "joining" /\ operations'[p].generation = session'.generation
               /\ operations'[p].room = operations[p].room
               /\ operations'[p].microphone = operations[p].microphone
               /\ session'.status = "joining" /\ session'.generation = session.generation + 1
               /\ ~session'.requested /\ session'.client = session.client
               /\ session'.microphone = session.microphone /\ session'.recovery = session.recovery
               /\ session'.shown = session.shown
               /\ commands' = Append(queue,
                                     [what |-> "join", by |-> p, room |-> operations[p].room])
            \/ /\ operations'[p] = None /\ HookStays
               /\ commands' = queue /\ astray' = astray \cup {"misplaced"}
<1>1. p \in Operations /\ operations[p] \in OperationType /\ operations[p].at = "leaving"
  BY DEF Doing, HookTypeOK
<1>2. CASE session.status = "idle" /\ ~session.inFlight
  <2>1. operations' = [operations EXCEPT ![p].at = "joining", ![p].generation = session'.generation]
        /\ session' = JoinBegins(session) /\ UNCHANGED astray
        /\ commands' = Append(queue,
                              [what |-> "join", by |-> p, room |-> operations[p].room])
    BY <1>2 DEF LeaveEnds
  <2>2. operations'[p] = [operations[p] EXCEPT !.at = "joining", !.generation = session'.generation]
        /\ Rest(p)
    BY <1>1, <2>1 DEF HookTypeOK, Rest
  <2>3. session' \in HookType
    BY <2>1, JoinBeginsTyped
  <2>4. operations'[p] # None
    <3>1. session'.generation \in Nat
      BY <2>3 DEF HookType
    <3>2. [operations[p] EXCEPT !.at = "joining", !.generation = session'.generation] \in OperationType
      BY <1>1, <3>1 DEF OperationType, Stages
    <3> QED BY <2>2, <3>2 DEF HookNoneApart
  <2>5. /\ session'.status = "joining" /\ session'.generation = session.generation + 1
        /\ ~session'.requested /\ session'.client = session.client
        /\ session'.microphone = session.microphone /\ session'.recovery = session.recovery
        /\ session'.shown = session.shown
    BY <2>1 DEF JoinBegins, HookTypeOK, HookType
  <2>6. /\ operations'[p].kind = operations[p].kind
        /\ operations'[p].at = "joining" /\ operations'[p].generation = session'.generation
        /\ operations'[p].room = operations[p].room
        /\ operations'[p].microphone = operations[p].microphone
    BY <1>1, <2>2 DEF OperationType
  <2>7. operations[p] # None
    BY <1>1 DEF HookNoneApart
  <2> QED BY <1>1, <1>2, <2>1, <2>2, <2>4, <2>5, <2>6, <2>7
<1>3. CASE ~(session.status = "idle" /\ ~session.inFlight)
  <2>1. session' = [session EXCEPT !.shown = operations[p].room] /\ operations' = Ends(p)
        /\ commands' = queue /\ Because("misplaced", TRUE)
    BY <1>3 DEF LeaveEnds
  <2>2. HookStays
    BY <2>1 DEF HookStays, HookTypeOK, HookType
  <2> QED BY <1>1, <2>1, <2>2 DEF Ends, HookTypeOK, Rest, Because, HookNoneApart
<1> QED BY <1>2, <1>3

MovesTo(p, at) ==
  /\ Rest(p) /\ operations[p] # None /\ operations'[p] # None /\ operations'[p].at = at
  /\ operations'[p].kind = operations[p].kind
  /\ operations'[p].generation = operations[p].generation
  /\ operations'[p].room = operations[p].room /\ operations'[p].from = operations[p].from
  /\ operations'[p].microphone = operations[p].microphone
IsOver(p) == Rest(p) /\ operations[p] # None /\ operations'[p] = None

LEMMA GoesDoes ==
  ASSUME HookNoneApart, HookTypeOK, NEW p \in Operations, operations[p] # None, NEW at \in Stages,
         operations' = Goes(p, at)
  PROVE  MovesTo(p, at)
<1>1. operations[p] \in OperationType
  BY DEF HookTypeOK
<1>2. operations'[p] = [operations[p] EXCEPT !.at = at] /\ Rest(p)
  BY DEF Goes, HookTypeOK, Rest
<1>3. [operations[p] EXCEPT !.at = at] \in OperationType
  BY <1>1 DEF OperationType
<1> QED BY <1>1, <1>2, <1>3 DEF MovesTo, HookNoneApart, OperationType

LEMMA EndsDoes ==
  ASSUME HookTypeOK, NEW p \in Operations, operations[p] # None, operations' = Ends(p)
  PROVE  IsOver(p)
BY DEF Ends, HookTypeOK, Rest, IsOver

LEMMA ReturnsDoes ==
  ASSUME NEW p \in Operations, NEW before \in HookType, NEW after, after = Returns(p, before)
  PROVE  /\ after.status = before.status /\ after.generation = before.generation
         /\ after.requested = before.requested /\ after.client = before.client
         /\ after.microphone = before.microphone
         /\ after.recovery = IF before.recovery = p THEN None ELSE before.recovery
         /\ after.shown = IF operations[p].kind = "switch" THEN operations[p].room ELSE before.shown
BY DEF Returns, HookType

LEMMA PeerClosedDoes ==
  ASSUME NEW c, NEW q \in Operations
  PROVE  PeerClosed(c)[q] = IF q = c /\ peers[q] = "open" THEN "closed" ELSE peers[q]
BY DEF PeerClosed

LEMMA MicrophoneGrantedDoes ==
  ASSUME HookNoneApart, HookTypeOK, NEW p \in Operations, MicrophoneGranted(p)
  PROVE  /\ operations[p] # None /\ operations[p].at = "microphone"
         /\ Rest(p) /\ operations'[p] # None /\ operations'[p].at = "session"
         /\ operations'[p].kind = operations[p].kind
         /\ operations'[p].generation = operations[p].generation
         /\ operations'[p].room = operations[p].room
         /\ operations'[p].microphone = p
         /\ microphones' = microphones \cup {p}
         /\ UNCHANGED <<session, peers, published, captures, commands, lease, astray>>
<1>1. operations[p] # None /\ operations[p].at = "microphone" /\ operations[p] \in OperationType
  BY DEF MicrophoneGranted, Doing, HookTypeOK
<1>2. operations'[p] = [operations[p] EXCEPT !.at = "session", !.microphone = p] /\ Rest(p)
  BY DEF MicrophoneGranted, HookTypeOK, Rest
<1>3. [operations[p] EXCEPT !.at = "session", !.microphone = p] \in OperationType
  BY <1>1 DEF OperationType, Stages, Names
<1>4. /\ operations'[p] # None /\ operations'[p].at = "session"
      /\ operations'[p].kind = operations[p].kind
      /\ operations'[p].generation = operations[p].generation
      /\ operations'[p].room = operations[p].room
      /\ operations'[p].microphone = p
  BY <1>1, <1>2, <1>3 DEF HookNoneApart, OperationType
<1> QED BY <1>1, <1>2, <1>4 DEF MicrophoneGranted, server

LEMMA SessionCreatedDoes ==
  ASSUME HookNoneApart, HookTypeOK, NEW p \in Operations, SessionCreated(p)
  PROVE  /\ MovesTo(p, "publish") /\ operations[p].at = "session"
         /\ peers' = [peers EXCEPT ![p] = "open"]
         /\ UNCHANGED <<session, published, microphones, captures, commands, lease, astray>>
<1>1. MovesTo(p, "publish")
  BY GoesDoes DEF SessionCreated, Doing, Stages
<1> QED BY <1>1 DEF SessionCreated, Doing, server

LEMMA PublishedTooLateDoes ==
  ASSUME HookNoneApart, HookTypeOK, NEW p \in Operations, PublishedTooLate(p)
  PROVE  /\ IsOver(p) /\ operations[p].at = "publish" /\ (Stale(p) \/ session.requested)
         /\ \A q \in Operations : q # p => peers'[q] = peers[q]
         /\ peers'[p] = "closed"
         /\ session'.status = session.status /\ session'.generation = session.generation
         /\ session'.requested = session.requested /\ session'.client = session.client
         /\ session'.microphone = session.microphone
         /\ session'.recovery = (IF session.recovery = p THEN None ELSE session.recovery)
         /\ "microphone" \in astray' /\ astray \subseteq astray'
         /\ session.status # "idle" => "undercut" \in astray'
         /\ commands' = commands \/ commands' = Append(commands, [what |-> "leave", by |-> None, room |-> None])
         /\ UNCHANGED <<published, microphones, captures, lease>>
<1>1. IsOver(p)
  BY EndsDoes DEF PublishedTooLate, Doing
<1>2. PICK before \in {session, [session EXCEPT !.inFlight = FALSE]} : session' = Returns(p, before)
  BY DEF PublishedTooLate
<1>3. before \in HookType /\ before.status = session.status /\ before.generation = session.generation
      /\ before.requested = session.requested /\ before.client = session.client
      /\ before.microphone = session.microphone /\ before.recovery = session.recovery
  BY <1>2 DEF HookTypeOK, HookType
<1>4. /\ session'.status = session.status /\ session'.generation = session.generation
      /\ session'.requested = session.requested /\ session'.client = session.client
      /\ session'.microphone = session.microphone
      /\ session'.recovery = (IF session.recovery = p THEN None ELSE session.recovery)
  BY <1>2, <1>3, ReturnsDoes
<1>5. /\ \A q \in Operations : q # p => peers'[q] = peers[q]
      /\ peers'[p] = "closed"
  BY PeerClosedDoes DEF PublishedTooLate
<1> QED BY <1>1, <1>4, <1>5 DEF PublishedTooLate, Doing, LeavesUnlessRecovery, Command

LEMMA PublishedDoes ==
  ASSUME HookNoneApart, HookTypeOK, NEW p \in Operations, Published(p)
  PROVE  /\ MovesTo(p, "devices") /\ operations[p].at = "publish" /\ peers[p] = "open" /\ ~Stale(p)
         /\ \A q \in Operations : q # p => published'[q] = published[q]
         /\ published'[p] = operations[p].microphone
         /\ session'.status = session.status /\ session'.generation = session.generation
         /\ session'.requested = session.requested /\ session'.client = session.client
         /\ session'.microphone = operations[p].microphone /\ session'.recovery = session.recovery
         /\ session'.shown = session.shown
         /\ UNCHANGED <<peers, microphones, captures, commands, lease, astray>>
<1>1. MovesTo(p, "devices")
  BY GoesDoes DEF Published, Doing, Stages
<1>2. /\ \A q \in Operations : q # p => published'[q] = published[q]
      /\ published'[p] = operations[p].microphone
  BY DEF Published, HookTypeOK
<1>3. /\ session'.status = session.status /\ session'.generation = session.generation
      /\ session'.requested = session.requested /\ session'.client = session.client
      /\ session'.microphone = operations[p].microphone /\ session'.recovery = session.recovery
      /\ session'.shown = session.shown
  BY DEF Published, HookTypeOK, HookType
<1> QED BY <1>1, <1>2, <1>3 DEF Published, Doing, server

LEMMA StartFailsDoes ==
  ASSUME HookNoneApart, HookTypeOK, NEW p \in Operations, StartFails(p),
         NEW to, to = IF operations[p].kind = "recover" THEN "reconnecting" ELSE "idle"
  PROVE  /\ IsOver(p) /\ operations[p].at \in {"microphone", "session", "publish"}
         /\ \A q \in Operations : q # p => peers'[q] = peers[q]
         /\ peers'[p] # "open"
         /\ microphones' = microphones \ {operations[p].microphone}
         /\ session'.status = to /\ session'.generation = session.generation
         /\ session'.requested = session.requested
         /\ session'.client = (IF session.client = p THEN None ELSE session.client)
         /\ session'.microphone = session.microphone
         /\ session'.recovery = (IF session.recovery = p THEN None ELSE session.recovery)
         /\ session'.shown = IF operations[p].kind = "switch" THEN operations[p].room ELSE session.shown
         /\ (Stale(p) \/ session.requested) /\ session.status # to =>
              astray' \cap {"revived", "undercut"} # {}
         /\ astray \subseteq astray' /\ astray' \subseteq astray \cup {"revived", "undercut"}
         /\ commands' = IF operations[p].kind = "recover" THEN commands
                        ELSE Append(commands, [what |-> "leave", by |-> None, room |-> None])
         /\ UNCHANGED <<published, captures, lease>>
<1>1. IsOver(p) /\ operations[p].at \in {"microphone", "session", "publish"}
  BY EndsDoes DEF StartFails, Doing
<1> DEFINE after == [session EXCEPT
                       !.client = IF @ = p THEN None ELSE @,
                       !.status = to,
                       !.inFlight = IF operations[p].kind = "recover" THEN @ ELSE FALSE]
<1>2. session' = Returns(p, after)
  BY DEF StartFails
<1>3. after \in HookType /\ after.status = to /\ after.generation = session.generation
      /\ after.requested = session.requested /\ after.shown = session.shown
      /\ after.client = (IF session.client = p THEN None ELSE session.client)
      /\ after.microphone = session.microphone /\ after.recovery = session.recovery
  BY DEF HookTypeOK, HookType, Names
<1>8. (Stale(p) \/ session.requested) /\ session.status # to =>
        astray' \cap {"revived", "undercut"} # {}
  BY <1>3 DEF StartFails
<1> HIDE DEF after
<1>4. /\ session'.status = to /\ session'.generation = session.generation
      /\ session'.requested = session.requested
      /\ session'.client = (IF session.client = p THEN None ELSE session.client)
      /\ session'.microphone = session.microphone
      /\ session'.recovery = (IF session.recovery = p THEN None ELSE session.recovery)
      /\ session'.shown = IF operations[p].kind = "switch" THEN operations[p].room ELSE session.shown
  BY <1>2, <1>3, ReturnsDoes
<1>5. /\ \A q \in Operations : q # p => peers'[q] = peers[q]
      /\ peers'[p] # "open"
  BY PeerClosedDoes DEF StartFails
<1>6. astray \subseteq astray' /\ astray' \subseteq astray \cup {"revived", "undercut"}
  BY DEF StartFails
<1>7. commands' = IF operations[p].kind = "recover" THEN commands
                  ELSE Append(commands, [what |-> "leave", by |-> None, room |-> None])
  BY DEF StartFails, LeavesUnlessRecovery, Command
<1> QED BY <1>1, <1>4, <1>5, <1>6, <1>7, <1>8 DEF StartFails

LEMMA DevicesListedDoes ==
  ASSUME HookNoneApart, HookTypeOK, NEW p \in Operations, DevicesListed(p)
  PROVE  /\ operations[p] # None /\ operations[p].at = "devices"
         /\ session'.status = "connected" /\ session'.generation = session.generation
         /\ session'.requested = session.requested /\ session'.client = session.client
         /\ session'.microphone = session.microphone
         /\ \/ /\ operations[p].kind = "recover" /\ ~Stale(p) /\ MovesTo(p, "camera")
               /\ session'.recovery = session.recovery /\ session'.shown = session.shown
            \/ /\ ~(operations[p].kind = "recover" /\ ~Stale(p)) /\ IsOver(p)
               /\ session'.recovery = (IF session.recovery = p THEN None ELSE session.recovery)
               /\ session'.shown = IF operations[p].kind = "switch" THEN operations[p].room
                                   ELSE session.shown
         /\ astray' = astray \cup (IF Stale(p) THEN {"revived"} ELSE {})
         /\ UNCHANGED <<peers, published, microphones, captures, commands, lease>>
<1>1. operations[p] # None /\ operations[p].at = "devices"
      /\ astray' = astray \cup (IF Stale(p) THEN {"revived"} ELSE {})
      /\ UNCHANGED <<peers, published, microphones, captures, commands, lease>>
  BY DEF DevicesListed, Doing, Because, server
<1> DEFINE now == [session EXCEPT !.status = "connected"]
<1>2. now \in HookType /\ now.status = "connected" /\ now.generation = session.generation
      /\ now.requested = session.requested /\ now.client = session.client
      /\ now.microphone = session.microphone /\ now.recovery = session.recovery
      /\ now.shown = session.shown
  BY DEF HookTypeOK, HookType
<1>3. CASE operations[p].kind = "recover" /\ ~Stale(p)
  <2>1. session' = now /\ MovesTo(p, "camera")
    BY <1>1, <1>3, GoesDoes DEF DevicesListed, Stages
  <2> QED BY <1>1, <1>2, <1>3, <2>1
<1>4. CASE ~(operations[p].kind = "recover" /\ ~Stale(p))
  <2>1. session' = Returns(p, now) /\ IsOver(p)
    BY <1>1, <1>4, EndsDoes DEF DevicesListed
  <2> HIDE DEF now
  <2> QED BY <1>1, <1>2, <1>4, <2>1, ReturnsDoes
<1> QED BY <1>3, <1>4

(* The peer of c is open still, or closed; what it sent is sent until then.  *)
LetsGo(c) ==
  /\ \A q \in Operations :
       peers'[q] = peers[q] \/ (q = c /\ peers[q] = "open" /\ peers'[q] = "closed")
  /\ \A s \in Captures :
       captures'[s] = captures[s] \/ captures'[s] = [captures[s] EXCEPT !.sent = IF @ = c THEN None ELSE @]

LEMMA ClosedDoes ==
  ASSUME NEW c, Closed(c)
  PROVE  /\ \A q \in Operations :
              peers'[q] = IF q = c /\ peers[q] = "open" THEN "closed" ELSE peers[q]
         /\ LetsGo(c)
<1>1. \A q \in Operations : peers'[q] = IF q = c /\ peers[q] = "open" THEN "closed" ELSE peers[q]
  BY PeerClosedDoes DEF Closed
<1>2. \A s \in Captures : captures'[s] = [captures[s] EXCEPT !.sent = IF @ = c THEN None ELSE @]
  BY DEF Closed
<1> QED BY <1>1, <1>2 DEF LetsGo

LEMMA DetachDoes ==
  ASSUME HookTypeOK, NEW c \in Names, NEW p \in Names, Detach(c, p)
  PROVE  /\ session'.status = "recovering" /\ session'.generation = session.generation + 1
         /\ session'.requested = session.requested /\ session'.client = session.client
         /\ session'.microphone = session.microphone /\ session'.recovery = p
         /\ session'.shown = session.shown
         /\ LetsGo(c)
<1>1. /\ session'.status = "recovering" /\ session'.generation = session.generation + 1
      /\ session'.requested = session.requested /\ session'.client = session.client
      /\ session'.microphone = session.microphone /\ session'.recovery = p
      /\ session'.shown = session.shown
  BY DEF Detach, HookTypeOK, HookType
<1>2. CASE Closed(c)
  BY <1>1, <1>2, ClosedDoes
<1>3. CASE UNCHANGED <<peers, published, captures>>
  BY <1>1, <1>3 DEF LetsGo
<1> QED BY <1>2, <1>3 DEF Detach

Recovers(p, at) ==
  /\ operations[p] = None /\ peers[p] = "none" /\ p \notin microphones
  /\ ~session.requested /\ session.status # "idle"
  /\ session.recovery = None
  /\ Rest(p) /\ operations'[p] # None /\ operations'[p].kind = "recover"
  /\ operations'[p].at = at /\ operations'[p].generation = session'.generation
  /\ operations'[p].room = session.shown /\ operations'[p].microphone = session.microphone
  /\ operations'[p].from = session.client

LEMMA RecoversDoes ==
  ASSUME HookNoneApart, HookTypeOK, HookTypeOK', NEW p \in Operations,
         NEW at \in {"detaching", "repair"}, MayReconcile(p),
         operations' = [operations EXCEPT ![p] = Recovery(p, at)]
  PROVE  Recovers(p, at)
<1>1. Recovery(p, at) \in OperationType
  BY DEF Recovery, OperationType, HookTypeOK, HookType, Stages
<1>2. operations'[p] = Recovery(p, at) /\ Rest(p)
  BY DEF HookTypeOK, Rest
<1>3. /\ operations'[p] # None /\ operations'[p].kind = "recover"
      /\ operations'[p].at = at /\ operations'[p].generation = session'.generation
      /\ operations'[p].room = session.shown /\ operations'[p].microphone = session.microphone
      /\ operations'[p].from = session.client
  BY <1>1, <1>2 DEF Recovery, HookNoneApart
<1> QED BY <1>2, <1>3 DEF MayReconcile, Fresh, Recovers

LEMMA RebuildingDoes ==
  ASSUME HookNoneApart, HookTypeOK, HookTypeOK', NEW p \in Operations, ReconcileRebuilding(p)
  PROVE  /\ Recovers(p, "detaching") /\ Detach(session.client, p)
         /\ UNCHANGED <<microphones, commands, lease, astray>>
BY RecoversDoes DEF ReconcileRebuilding, server

LEMMA RepairingDoes ==
  ASSUME HookNoneApart, HookTypeOK, HookTypeOK', NEW p \in Operations, ReconcileRepairing(p)
  PROVE  /\ Recovers(p, "repair") /\ session.client # None
         /\ session.status \in {"connected", "reconnecting"}
         /\ session'.status = session.status /\ session'.generation = session.generation
         /\ session'.requested = session.requested /\ session'.client = session.client
         /\ session'.microphone = session.microphone /\ session'.recovery = p
         /\ session'.shown = session.shown
         /\ UNCHANGED <<peers, published, microphones, captures, commands, lease, astray>>
<1>1. /\ session'.status = session.status /\ session'.generation = session.generation
      /\ session'.requested = session.requested /\ session'.client = session.client
      /\ session'.microphone = session.microphone /\ session'.recovery = p
      /\ session'.shown = session.shown
  BY DEF ReconcileRepairing, HookTypeOK, HookType
<1> QED BY <1>1, RecoversDoes DEF ReconcileRepairing, server

LEMMA RepairedDoes ==
  ASSUME HookNoneApart, HookTypeOK, NEW p \in Operations, Repaired(p)
  PROVE  /\ IsOver(p) /\ operations[p].at = "repair" /\ ~Stale(p)
         /\ session'.status = "connected" /\ session'.generation = session.generation
         /\ session'.requested = session.requested /\ session'.client = session.client
         /\ session'.microphone = session.microphone
         /\ session'.recovery = (IF session.recovery = p THEN None ELSE session.recovery)
         /\ session'.shown = IF operations[p].kind = "switch" THEN operations[p].room ELSE session.shown
         /\ UNCHANGED <<peers, published, microphones, captures, commands, lease, astray>>
<1>1. IsOver(p)
  BY EndsDoes DEF Repaired, Doing
<1> DEFINE now == [session EXCEPT !.status = "connected"]
<1>2. now \in HookType /\ now.status = "connected" /\ now.generation = session.generation
      /\ now.requested = session.requested /\ now.client = session.client
      /\ now.microphone = session.microphone /\ now.recovery = session.recovery
      /\ now.shown = session.shown
  BY DEF HookTypeOK, HookType
<1>3. session' = Returns(p, now)
  BY DEF Repaired
<1>4. UNCHANGED <<peers, published, microphones, captures, commands, lease, astray>>
      /\ operations[p].at = "repair" /\ ~Stale(p)
  BY DEF Repaired, Doing, server
<1> HIDE DEF now
<1> QED BY <1>1, <1>2, <1>3, <1>4, ReturnsDoes

LEMMA RepairFailsDoes ==
  ASSUME HookNoneApart, HookTypeOK, HookTypeOK', NEW p \in Operations, RepairFails(p)
  PROVE  /\ operations[p] # None /\ operations[p].at = "repair" /\ operations[p].from \in Names
         /\ Rest(p) /\ operations'[p] # None /\ operations'[p].kind = operations[p].kind
         /\ operations'[p].at = "detaching" /\ operations'[p].generation = session'.generation
         /\ operations'[p].room = operations[p].room /\ operations'[p].from = operations[p].from
         /\ operations'[p].microphone = operations[p].microphone
         /\ Detach(operations[p].from, session.recovery) /\ session.recovery \in Names
         /\ astray' = astray \cup (IF Stale(p) THEN {"revived"} ELSE {})
         /\ UNCHANGED <<microphones, commands, lease>>
<1>1. operations[p] # None /\ operations[p] \in OperationType /\ operations[p].at = "repair"
      /\ operations[p].from \in Names /\ session.recovery \in Names
  BY DEF RepairFails, Doing, HookTypeOK, OperationType, HookType
<1>2. operations' = [operations EXCEPT ![p].at = "detaching", ![p].generation = session'.generation]
  BY DEF RepairFails
<1>3. /\ operations'[p] = [operations[p] EXCEPT !.at = "detaching", !.generation = session'.generation]
      /\ Rest(p)
  BY <1>1, <1>2 DEF HookTypeOK, Rest
<1>4. session'.generation \in Nat
  BY DEF HookTypeOK, HookType
<1>5. [operations[p] EXCEPT !.at = "detaching", !.generation = session'.generation] \in OperationType
  BY <1>1, <1>4 DEF OperationType, Stages
<1>6. /\ operations'[p] # None /\ operations'[p].kind = operations[p].kind
      /\ operations'[p].at = "detaching" /\ operations'[p].generation = session'.generation
      /\ operations'[p].room = operations[p].room /\ operations'[p].from = operations[p].from
      /\ operations'[p].microphone = operations[p].microphone
  BY <1>1, <1>3, <1>5 DEF OperationType, HookNoneApart
<1> QED BY <1>1, <1>3, <1>6 DEF RepairFails, Because, server

LEMMA RecoveryStartsDoes ==
  ASSUME HookNoneApart, HookTypeOK, NEW p \in Operations, RecoveryStarts(p),
         NEW kept, kept <=> operations[p].microphone \in microphones
  PROVE  /\ operations[p] # None /\ operations[p].at = "detaching"
         /\ Rest(p) /\ operations'[p] # None /\ operations'[p].kind = operations[p].kind
         /\ operations'[p].generation = operations[p].generation
         /\ operations'[p].room = session.shown
         /\ Closed(operations[p].from)
         /\ kept => operations'[p].at = "session" /\ operations'[p].microphone = operations[p].microphone
         /\ ~kept => operations'[p].at = "microphone" /\ operations'[p].microphone = None
         /\ session'.status = "recovering" /\ session'.generation = session.generation
         /\ session'.requested = session.requested /\ session'.client = p
         /\ session'.microphone = session.microphone /\ session'.recovery = session.recovery
         /\ session'.shown = session.shown
         /\ astray' = astray \cup (IF Stale(p) THEN {"revived"} ELSE {})
         /\ UNCHANGED <<microphones, commands, lease>>
<1>1. operations[p] # None /\ operations[p] \in OperationType /\ operations[p].at = "detaching"
  BY DEF RecoveryStarts, Doing, HookTypeOK
<1>2. PICK at, m : /\ at = IF kept THEN "session" ELSE "microphone"
                   /\ m = IF kept THEN operations[p].microphone ELSE None
  OBVIOUS
<1>3. operations' = [operations EXCEPT ![p].at = at, ![p].microphone = m, ![p].room = session.shown]
  BY <1>2 DEF RecoveryStarts
<1>4. operations'[p] = [operations[p] EXCEPT !.at = at, !.microphone = m, !.room = session.shown]
      /\ Rest(p)
  BY <1>1, <1>3 DEF HookTypeOK, Rest
<1>5. [operations[p] EXCEPT !.at = at, !.microphone = m, !.room = session.shown] \in OperationType
  <2>1. at \in Stages /\ m \in Names /\ session.shown \in Rooms \cup {None}
    BY <1>1, <1>2 DEF Stages, Names, OperationType, HookTypeOK, HookType
  <2> QED BY <1>1, <2>1 DEF OperationType
<1>6. /\ operations'[p] # None /\ operations'[p].kind = operations[p].kind
      /\ operations'[p].generation = operations[p].generation
      /\ operations'[p].room = session.shown
      /\ operations'[p].at = at /\ operations'[p].microphone = m
  BY <1>1, <1>4, <1>5 DEF OperationType, HookNoneApart
<1>7. /\ session'.status = "recovering" /\ session'.generation = session.generation
      /\ session'.requested = session.requested /\ session'.client = p
      /\ session'.microphone = session.microphone /\ session'.recovery = session.recovery
      /\ session'.shown = session.shown
  BY DEF RecoveryStarts, StartClient, HookTypeOK, HookType
<1> QED BY <1>1, <1>2, <1>4, <1>6, <1>7 DEF RecoveryStarts, Because, server

LEMMA AfterCaptureDoes ==
  ASSUME HookNoneApart, HookTypeOK, NEW p \in Operations, NEW s \in Captures,
         CaptureRestored(p, s) \/ CaptureLost(p, s) \/ CaptureUnwanted(p, s)
  PROVE  /\ operations[p] # None /\ operations[p].at = s
         /\ UNCHANGED <<peers, published, microphones, commands, lease>>
         /\ \/ s = "camera" /\ MovesTo(p, "screen") /\ UNCHANGED <<session, astray>>
            \/ /\ s # "camera" /\ IsOver(p)
               /\ session'.status = "connected" /\ session'.generation = session.generation
               /\ session'.requested = session.requested /\ session'.client = session.client
               /\ session'.microphone = session.microphone
               /\ session'.recovery = (IF session.recovery = p THEN None ELSE session.recovery)
               /\ session'.shown = IF operations[p].kind = "switch" THEN operations[p].room
                                   ELSE session.shown
               /\ astray' = astray \cup (IF Stale(p) THEN {"revived"} ELSE {})
<1>1. /\ operations[p] # None /\ operations[p].at = s /\ AfterCapture(p, s)
      /\ UNCHANGED <<peers, published, microphones, commands, lease>>
  BY DEF CaptureRestored, CaptureLost, CaptureUnwanted, Doing, server
<1>2. CASE s = "camera"
  BY <1>1, <1>2, GoesDoes DEF AfterCapture, Stages
<1>3. CASE s # "camera"
  <2> DEFINE now == [session EXCEPT !.status = "connected"]
  <2>1. now \in HookType /\ now.status = "connected" /\ now.generation = session.generation
        /\ now.requested = session.requested /\ now.client = session.client
        /\ now.microphone = session.microphone /\ now.recovery = session.recovery
        /\ now.shown = session.shown
    BY DEF HookTypeOK, HookType
  <2>2. session' = Returns(p, now) /\ IsOver(p)
        /\ astray' = astray \cup (IF Stale(p) THEN {"revived"} ELSE {})
    BY <1>1, <1>3, EndsDoes DEF AfterCapture, Because
  <2> HIDE DEF now
  <2> QED BY <1>1, <1>3, <2>1, <2>2, ReturnsDoes
<1> QED BY <1>2, <1>3

-----------------------------------------------------------------------------
(* An operation has a peer from the creation of its session on; a microphone *)
(* it did not open itself, and the one of the session, are of clients that    *)
(* have published, so that nobody opens one by that name again.              *)
Before == {"leaving", "joining", "detaching", "repair", "microphone", "session"}
GroundedAt(p) ==
  LET o == operations[p]
  IN /\ o.generation <= session.generation
     /\ o.at = "leaving" => o.kind = "switch" /\ o.generation < session.generation
     /\ peers[p] = "none" <=> o.at \in Before
     /\ o.at \in {"leaving", "joining", "microphone"} => o.microphone = None
     /\ o.at \in {"session", "publish"} => o.microphone # None
     /\ o.microphone \notin {None, p} => peers[o.microphone] # "none"
     /\ IF o.kind = "recover" THEN o.at \notin {"leaving", "joining"}
        ELSE o.at \in {"leaving", "joining", "microphone", "session", "publish", "devices"}
Grounded ==
  /\ session.microphone # None => peers[session.microphone] # "none"
  /\ \A p \in Operations : operations[p] # None => GroundedAt(p)

LEMMA GroundedKeeps ==
  ASSUME HookTypeOK, HookTypeOK', Grounded, session'.generation >= session.generation,
         \A q \in Operations : peers[q] # "none" => peers'[q] # "none",
         session'.microphone # None => peers'[session'.microphone] # "none",
         \A q \in Operations : operations'[q] # None =>
           \/ GroundedAt(q)'
           \/ operations'[q] = operations[q] /\ (peers'[q] = "none" <=> peers[q] = "none")
  PROVE  Grounded'
<1> SUFFICES ASSUME NEW q \in Operations, operations'[q] # None PROVE GroundedAt(q)'
  BY DEF Grounded
<1>1. CASE operations'[q] = operations[q] /\ (peers'[q] = "none" <=> peers[q] = "none")
  <2>1. GroundedAt(q)
    BY <1>1 DEF Grounded
  <2>2. operations[q] \in OperationType
    BY <1>1 DEF HookTypeOK
  <2>3. operations[q].microphone \in Names /\ operations[q].generation \in Nat
        /\ session.generation \in Nat /\ session'.generation \in Nat
    BY <2>2 DEF OperationType, HookTypeOK, HookType
  <2>4. operations[q].microphone \notin {None, q} => peers'[operations[q].microphone] # "none"
    BY <2>1, <2>3 DEF GroundedAt, Names
  <2>5. operations[q].generation <= session'.generation
        /\ (operations[q].at = "leaving" => operations[q].generation < session'.generation)
    BY <2>1, <2>3 DEF GroundedAt
  <2> QED BY <1>1, <2>1, <2>4, <2>5 DEF GroundedAt
<1> QED BY <1>1

LEMMA GroundedInit == ASSUME Init PROVE Grounded
BY DEF Init, Grounded

LEMMA UserGrounded ==
  ASSUME HookNoneApart, HookTypeOK, HookTypeOK', Grounded, UserActs
  PROVE  Grounded'
<1>0. session.generation \in Nat /\ session'.generation \in Nat
      /\ session.microphone \in Names
  BY DEF HookTypeOK, HookType
<1>1. ASSUME NEW p \in Operations, NEW r \in Rooms, Join(p, r) PROVE Grounded'
  <2>1. /\ peers[p] = "none" /\ peers' = peers /\ Rest(p)
        /\ operations'[p].kind = "join" /\ operations'[p].at = "joining"
        /\ operations'[p].generation = session'.generation /\ operations'[p].microphone = None
        /\ session'.microphone = session.microphone
    BY <1>1, JoinDoes
  <2>2. session'.generation = session.generation + 1
    BY <1>1, JoinDoes
  <2>3. session'.generation >= session.generation
    BY <1>0, <2>2
  <2>4. GroundedAt(p)'
    BY <1>0, <2>1 DEF GroundedAt, Before
  <2> QED BY <2>1, <2>3, <2>4, GroundedKeeps DEF Rest, Grounded
<1>2. ASSUME NEW p \in Operations, NEW r \in Rooms, SwitchCall(p, r) PROVE Grounded'
  <2>1. LeaveWith(p)
    BY <1>2, SwitchDoes
  <2>2. \A q \in Operations : peers'[q] = "none" <=> peers[q] = "none"
    BY <2>1, LeaveWithDoes
  <2>3. session'.generation = session.generation + 1 /\ session'.microphone = None
    BY <2>1, LeaveWithDoes
  <2>4. GroundedAt(p)'
    BY <1>0, <1>2, <2>2, <2>3, SwitchDoes DEF GroundedAt, Before
  <2> QED BY <1>0, <1>2, <2>2, <2>3, <2>4, SwitchDoes, GroundedKeeps DEF Rest, Grounded
<1>3. CASE Leave
  <2>1. LeaveWith(None) /\ operations' = operations
    BY <1>3 DEF Leave
  <2>2. \A q \in Operations : peers'[q] = "none" <=> peers[q] = "none"
    BY <2>1, LeaveWithDoes
  <2>3. session'.generation = session.generation + 1 /\ session'.microphone = None
    BY <2>1, LeaveWithDoes
  <2> QED BY <1>0, <2>1, <2>2, <2>3, GroundedKeeps DEF Grounded
<1>4. CASE PeerFails \/ PeerComesBack
  <2>1. UNCHANGED <<operations, peers>> /\ session'.generation = session.generation
        /\ session'.microphone = session.microphone
    BY <1>4 DEF PeerFails, PeerComesBack, clients, HookTypeOK, HookType
  <2> QED BY <1>0, <2>1, GroundedKeeps DEF Grounded
<1> QED BY <1>1, <1>2, <1>3, <1>4 DEF UserActs

LEMMA AnswersGrounded ==
  ASSUME HookNoneApart, HookTypeOK, HookTypeOK', Grounded, AnswersAct
  PROVE  Grounded'
<1>0. session.generation \in Nat /\ session'.generation \in Nat
      /\ session.microphone \in Names
  BY DEF HookTypeOK, HookType
<1>1. UNCHANGED peers
  BY DEF AnswersAct, JoinGranted, JoinRefused, LeaveHandled, LeaveLost, JoinTimesOut, LeaveTimesOut, clients
<1>2. ASSUME NEW p \in Operations, operations[p] # None, JoinRejected(p) PROVE Grounded'
  BY <1>0, <1>1, <1>2, RejectedDoes, GroundedKeeps DEF Rest, Grounded
<1>3. ASSUME UNCHANGED <<session, operations>> PROVE Grounded'
  BY <1>0, <1>1, <1>3, GroundedKeeps DEF Grounded
<1>4. CASE JoinGranted
  <2>1. CASE Waits("joining")
    <3>1. PICK p \in Operations : p = Head1.by
      BY <1>4, <2>1, GrantedDoes
    <3>2. GroundedAt(p)
      BY <1>4, <2>1, <3>1, GrantedDoes DEF Grounded
    <3>3. GroundedAt(p)'
      BY <1>0, <1>1, <1>4, <2>1, <3>1, <3>2, GrantedDoes DEF GroundedAt, Before
    <3> QED BY <1>0, <1>1, <1>4, <2>1, <3>1, <3>3, GrantedDoes, GroundedKeeps DEF Rest, Grounded
  <2>2. CASE ~Waits("joining")
    BY <1>3, <1>4, <2>2 DEF JoinGranted
  <2> QED BY <2>1, <2>2
<1>5. CASE JoinRefused
  <2>1. CASE Waits("joining")
    <3>1. commands # <<>> /\ JoinRejected(Head1.by)
      BY <1>5, <2>1 DEF JoinRefused
    <3>2. Head1.by \in Operations /\ operations[Head1.by] # None
      BY <2>1, <3>1, WaitsDoes
    <3> QED BY <1>2, <3>1, <3>2
  <2>2. CASE ~Waits("joining")
    BY <1>3, <1>5, <2>2 DEF JoinRefused
  <2> QED BY <2>1, <2>2
<1>8. ASSUME NEW p \in Operations, Doing(p, "leaving"), NEW queue, LeaveEnds(p, queue)
      PROVE  Grounded'
  <2>1. GroundedAt(p)
    BY <1>8 DEF Grounded, Doing
  <2>2. Rest(p) /\ operations[p].at = "leaving" /\ session'.microphone = session.microphone
    BY <1>8, LeaveEndsDoes DEF HookStays
  <2>3. \/ operations'[p] = None /\ session'.generation = session.generation
        \/ /\ operations'[p].kind = operations[p].kind
           /\ operations'[p].at = "joining" /\ operations'[p].generation = session'.generation
           /\ operations'[p].microphone = operations[p].microphone
           /\ session'.generation = session.generation + 1
    BY <1>8, LeaveEndsDoes DEF HookStays
  <2>4. session'.generation >= session.generation
    BY <1>0, <2>3
  <2>5. operations'[p] # None => GroundedAt(p)'
    BY <1>0, <1>1, <2>1, <2>2, <2>3 DEF GroundedAt, Before
  <2> QED BY <1>1, <2>2, <2>4, <2>5, GroundedKeeps DEF Rest, Grounded
<1>6. CASE LeaveHandled
  <2>1. CASE Waits("leaving")
    <3>1. Head1.by \in Operations /\ Doing(Head1.by, "leaving") /\ LeaveEnds(Head1.by, Tail(commands))
      BY <1>6, <2>1, WaitsDoes DEF LeaveHandled, Waits
    <3> QED BY <1>8, <3>1
  <2>2. CASE ~Waits("leaving")
    BY <1>3, <1>6, <2>2 DEF LeaveHandled
  <2> QED BY <2>1, <2>2
<1>9. CASE LeaveLost
  BY <1>3, <1>9 DEF LeaveLost, clients
<1>10. ASSUME NEW p \in Operations, LeaveTimesOut(p) PROVE Grounded'
  BY <1>8, <1>10 DEF LeaveTimesOut
<1>7. ASSUME NEW p \in Operations, JoinTimesOut(p) PROVE Grounded'
  BY <1>2, <1>7 DEF JoinTimesOut, Doing
<1> QED BY <1>4, <1>5, <1>6, <1>7, <1>9, <1>10 DEF AnswersAct

LEMMA StartsGrounded ==
  ASSUME HookNoneApart, HookTypeOK, HookTypeOK', Grounded, NEW p \in Operations,
         \/ MicrophoneGranted(p) \/ SessionCreated(p) \/ Published(p)
         \/ PublishedTooLate(p) \/ StartFails(p) \/ DevicesListed(p)
  PROVE  Grounded'
<1>0. session.generation \in Nat /\ session'.generation \in Nat
      /\ session.microphone \in Names /\ session'.microphone \in Names
  BY DEF HookTypeOK, HookType
<1>1. GroundedAt(p) /\ operations[p] \in OperationType /\ operations[p].microphone \in Names
  <2>1. operations[p] # None
    BY DEF MicrophoneGranted, SessionCreated, Published, PublishedTooLate, StartFails, DevicesListed, Doing
  <2>2. operations[p] \in OperationType
    BY <2>1 DEF HookTypeOK
  <2> QED BY <2>1, <2>2 DEF Grounded, OperationType
<1>2. ASSUME IsOver(p), session'.generation = session.generation,
             session'.microphone = session.microphone,
             \A q \in Operations : q # p => peers'[q] = peers[q],
             peers[p] # "none" => peers'[p] # "none"
      PROVE  Grounded'
  <2>1. \A q \in Operations : peers[q] # "none" => peers'[q] # "none"
    BY <1>2
  <2> QED BY <1>0, <1>2, <2>1, GroundedKeeps DEF IsOver, Rest, Grounded, Names
<1>3. ASSUME peers' = peers, session' = session, Rest(p), GroundedAt(p)' PROVE Grounded'
  BY <1>0, <1>3, GroundedKeeps DEF Rest, Grounded
<1>4. CASE MicrophoneGranted(p)
  <2>1. GroundedAt(p)'
    <3>1. /\ operations[p].at = "microphone" /\ operations'[p].at = "session"
          /\ operations'[p].kind = operations[p].kind
          /\ operations'[p].generation = operations[p].generation
          /\ operations'[p].microphone = p /\ UNCHANGED <<session, peers>>
      BY <1>4, MicrophoneGrantedDoes
    <3> QED BY <1>1, <3>1 DEF GroundedAt, Before, HookNoneApart
  <2> QED BY <1>3, <1>4, <2>1, MicrophoneGrantedDoes
<1>5. CASE SessionCreated(p)
  <2>1. MovesTo(p, "publish") /\ operations[p].at = "session" /\ session' = session
        /\ peers' = [peers EXCEPT ![p] = "open"]
    BY <1>5, SessionCreatedDoes
  <2>2. (\A q \in Operations : q # p => peers'[q] = peers[q]) /\ peers'[p] = "open"
    BY <2>1 DEF HookTypeOK
  <2>3. operations[p].microphone \notin {None, p} => peers'[operations[p].microphone] # "none"
    BY <1>1, <2>2 DEF GroundedAt, Names
  <2>4. GroundedAt(p)'
    BY <1>1, <2>1, <2>2, <2>3 DEF GroundedAt, Before, MovesTo
  <2>5. session'.microphone # None => peers'[session'.microphone] # "none"
    BY <1>0, <2>1, <2>2 DEF Grounded, Names
  <2>6. session'.generation >= session.generation
    BY <1>0, <2>1
  <2> QED BY <2>1, <2>2, <2>4, <2>5, <2>6, GroundedKeeps DEF MovesTo, Rest
<1>6. CASE Published(p)
  <2>1. MovesTo(p, "devices") /\ operations[p].at = "publish" /\ peers[p] = "open" /\ peers' = peers
        /\ session'.generation = session.generation /\ session'.microphone = operations[p].microphone
    BY <1>6, PublishedDoes
  <2>2. GroundedAt(p)'
    BY <1>1, <2>1 DEF GroundedAt, Before, MovesTo
  <2>3. session'.microphone # None => peers'[session'.microphone] # "none"
    BY <1>1, <2>1 DEF GroundedAt, Names
  <2>4. session'.generation >= session.generation
    BY <1>0, <2>1
  <2> QED BY <2>1, <2>2, <2>3, <2>4, GroundedKeeps DEF MovesTo, Rest
<1>7. CASE PublishedTooLate(p)
  BY <1>2, <1>7, PublishedTooLateDoes
<1>8. CASE StartFails(p)
  <2>1. peers[p] # "none" => peers'[p] # "none"
    BY <1>8, PeerClosedDoes DEF StartFails
  <2> QED BY <1>2, <1>8, <2>1, StartFailsDoes
<1>9. CASE DevicesListed(p)
  <2>1. /\ operations[p].at = "devices" /\ peers' = peers
        /\ session'.generation = session.generation /\ session'.microphone = session.microphone
        /\ \/ operations[p].kind = "recover" /\ MovesTo(p, "camera")
           \/ IsOver(p)
    BY <1>9, DevicesListedDoes
  <2>2. CASE IsOver(p)
    BY <1>2, <2>1, <2>2
  <2>3. CASE operations[p].kind = "recover" /\ MovesTo(p, "camera")
    <3>1. GroundedAt(p)'
      BY <1>1, <2>1, <2>3 DEF GroundedAt, Before, MovesTo
    <3> QED BY <1>0, <2>1, <2>3, <3>1, GroundedKeeps DEF MovesTo, Rest, Grounded
  <2> QED BY <2>1, <2>2, <2>3
<1> QED BY <1>4, <1>5, <1>6, <1>7, <1>8, <1>9

LEMMA RecoveriesGrounded ==
  ASSUME HookNoneApart, HookTypeOK, HookTypeOK', Grounded, NEW p \in Operations,
         \/ ReconcileRebuilding(p) \/ ReconcileRepairing(p) \/ Repaired(p) \/ RepairFails(p)
         \/ RecoveryStarts(p)
  PROVE  Grounded'
<1>0. session.generation \in Nat /\ session'.generation \in Nat
      /\ session.microphone \in Names /\ session.client \in Names
  BY DEF HookTypeOK, HookType
<1>1. operations[p] # None => GroundedAt(p)
  BY DEF Grounded
<1>2. ASSUME NEW c \in Names, NEW r \in Names, Detach(c, r)
      PROVE  /\ session'.generation = session.generation + 1
             /\ session'.generation >= session.generation
             /\ session'.microphone = session.microphone
             /\ \A q \in Operations : peers'[q] = "none" <=> peers[q] = "none"
             /\ session'.microphone # None => peers'[session'.microphone] # "none"
  <2>1. /\ session'.generation = session.generation + 1
        /\ session'.microphone = session.microphone
        /\ LetsGo(c)
    BY <1>2, DetachDoes
  <2>2. \A q \in Operations : peers'[q] = "none" <=> peers[q] = "none"
    BY <2>1 DEF LetsGo
  <2>3. session'.generation >= session.generation
    BY <1>0, <2>1
  <2> QED BY <1>0, <2>1, <2>2, <2>3 DEF Grounded, Names
<1>3. CASE ReconcileRebuilding(p)
  <2>1. Recovers(p, "detaching") /\ Detach(session.client, p)
    BY <1>3, RebuildingDoes
  <2>2. /\ session'.generation = session.generation + 1
        /\ session'.generation >= session.generation
        /\ session'.microphone = session.microphone
        /\ \A q \in Operations : peers'[q] = "none" <=> peers[q] = "none"
        /\ session'.microphone # None => peers'[session'.microphone] # "none"
    BY <1>0, <1>2, <2>1 DEF Names
  <2>3. GroundedAt(p)'
    BY <1>0, <2>1, <2>2 DEF GroundedAt, Before, Recovers
  <2> QED BY <2>1, <2>2, <2>3, GroundedKeeps DEF Recovers, Rest
<1>4. CASE ReconcileRepairing(p)
  <2>1. Recovers(p, "repair") /\ session'.generation = session.generation
        /\ session'.microphone = session.microphone /\ peers' = peers
    BY <1>4, RepairingDoes
  <2>2. GroundedAt(p)'
    BY <1>0, <2>1 DEF GroundedAt, Before, Recovers, Grounded
  <2>3. session'.generation >= session.generation
    BY <1>0, <2>1
  <2> QED BY <2>1, <2>2, <2>3, GroundedKeeps DEF Recovers, Rest, Grounded
<1>5. CASE Repaired(p)
  <2>1. IsOver(p) /\ session'.generation = session.generation
        /\ session'.microphone = session.microphone /\ peers' = peers
    BY <1>5, RepairedDoes
  <2>2. session'.generation >= session.generation
    BY <1>0, <2>1
  <2> QED BY <2>1, <2>2, GroundedKeeps DEF IsOver, Rest, Grounded
<1>6. CASE RepairFails(p)
  <2>1. /\ operations[p] # None /\ operations[p].at = "repair" /\ operations[p].from \in Names
        /\ Rest(p) /\ operations'[p].kind = operations[p].kind
        /\ operations'[p].at = "detaching" /\ operations'[p].generation = session'.generation
        /\ operations'[p].microphone = operations[p].microphone
        /\ Detach(operations[p].from, session.recovery) /\ session.recovery \in Names
    BY <1>6, RepairFailsDoes
  <2>2. /\ session'.generation = session.generation + 1
        /\ session'.generation >= session.generation
        /\ session'.microphone = session.microphone
        /\ \A q \in Operations : peers'[q] = "none" <=> peers[q] = "none"
        /\ session'.microphone # None => peers'[session'.microphone] # "none"
    BY <1>2, <2>1
  <2>3. operations[p].microphone \in Names
    BY <2>1 DEF HookTypeOK, OperationType
  <2>4. GroundedAt(p)'
    BY <1>0, <1>1, <2>1, <2>2, <2>3 DEF GroundedAt, Before, Names
  <2> QED BY <2>1, <2>2, <2>4, GroundedKeeps DEF Rest
<1>7. CASE RecoveryStarts(p)
  <2>1. PICK kept : kept <=> operations[p].microphone \in microphones
    OBVIOUS
  <2>2. /\ operations[p] # None /\ operations[p].at = "detaching"
        /\ Rest(p) /\ operations'[p].kind = operations[p].kind
        /\ operations'[p].generation = operations[p].generation
        /\ \/ /\ operations[p].microphone \in microphones /\ operations'[p].at = "session"
              /\ operations'[p].microphone = operations[p].microphone
           \/ operations'[p].at = "microphone" /\ operations'[p].microphone = None
        /\ session'.generation = session.generation
        /\ session'.microphone = session.microphone /\ Closed(operations[p].from)
    BY <1>7, <2>1, RecoveryStartsDoes
  <2>6. \A q \in Operations : peers'[q] = "none" <=> peers[q] = "none"
    BY <2>2, ClosedDoes DEF LetsGo
  <2>7. operations[p].microphone \in Names
    BY <2>2 DEF HookTypeOK, OperationType
  <2>3. None \notin microphones
    BY DEF HookTypeOK, HookNoneApart
  <2>4. GroundedAt(p)'
    BY <1>1, <2>2, <2>3, <2>6, <2>7 DEF GroundedAt, Before, Names
  <2>5. session'.generation >= session.generation
    BY <1>0, <2>2
  <2>8. session'.microphone # None => peers'[session'.microphone] # "none"
    BY <1>0, <2>2, <2>6 DEF Grounded, Names
  <2> QED BY <2>2, <2>4, <2>5, <2>6, <2>8, GroundedKeeps DEF Rest
<1> QED BY <1>3, <1>4, <1>5, <1>6, <1>7

LEMMA RestoresGrounded ==
  ASSUME HookNoneApart, HookTypeOK, HookTypeOK', Grounded, NEW p \in Operations, NEW s \in Captures,
         CaptureRestored(p, s) \/ CaptureLost(p, s) \/ CaptureUnwanted(p, s)
  PROVE  Grounded'
<1>0. session.generation \in Nat /\ session'.generation \in Nat
  BY DEF HookTypeOK, HookType
<1>1. /\ operations[p] # None /\ operations[p].at = s /\ peers' = peers
      /\ session'.generation = session.generation /\ session'.microphone = session.microphone
      /\ IsOver(p) \/ (s = "camera" /\ MovesTo(p, "screen"))
  BY AfterCaptureDoes
<1>2. session'.generation >= session.generation
  BY <1>0, <1>1
<1>3. CASE IsOver(p)
  BY <1>1, <1>2, <1>3, GroundedKeeps DEF IsOver, Rest, Grounded
<1>4. CASE s = "camera" /\ MovesTo(p, "screen")
  <2>1. GroundedAt(p)'
    BY <1>1, <1>4 DEF GroundedAt, Grounded, Before, MovesTo
  <2> QED BY <1>1, <1>2, <1>4, <2>1, GroundedKeeps DEF MovesTo, Rest, Grounded
<1> QED BY <1>1, <1>3, <1>4

(* The actions of the captures leave the session and its operations alone.   *)
CapturesAct ==
  \/ ScreenEnds \/ ChangeCamera \/ CameraRemoved
  \/ \E s \in Captures :
       \/ StartCapture(s) \/ CaptureGranted(s) \/ CaptureDenied(s) \/ CapturePublished(s)
       \/ CapturePublishFails(s) \/ CameraChanged(s) \/ CameraNotChanged(s)
       \/ StopCapture(s) \/ CaptureClosed(s)

LEMMA CapturesDo ==
  ASSUME CapturesAct
  PROVE  /\ UNCHANGED <<session, operations, peers, published, microphones, commands, lease>>
         /\ astray \subseteq astray' /\ astray' \subseteq astray \cup {"kept", "removed", "mislaid"}
BY DEF CapturesAct, ScreenEnds, ChangeCamera, CameraRemoved, StartCapture, CaptureGranted,
       CaptureDenied, CapturePublished, CapturePublishFails, CameraChanged, CameraNotChanged,
       StopCapture, CaptureClosed, Because, clients, server

LEMMA GroundedStep ==
  ASSUME HookNoneApart, HookTypeOK, HookTypeOK', Grounded, [Next]_vars
  PROVE  Grounded'
<1>0. session.generation >= session.generation
  BY DEF HookTypeOK, HookType
<1>1. ASSUME UNCHANGED <<session, operations, peers>> PROVE Grounded'
  BY <1>0, <1>1, GroundedKeeps DEF Grounded
<1>2. CASE UNCHANGED vars
  BY <1>1, <1>2 DEF vars, clients
<1>3. CASE CapturesAct
  BY <1>1, <1>3, CapturesDo
<1>4. CASE Next
  BY <1>1, <1>3, <1>4, UserGrounded, AnswersGrounded, StartsGrounded, RecoveriesGrounded,
     RestoresGrounded DEF Next, Waiting, UserActs, AnswersAct, vars, clients, CapturesAct
<1> QED BY <1>2, <1>4

-----------------------------------------------------------------------------
(* As long as no operation wrote over a later one: at most one operation is of *)
(* the generation of now, the refs and the status are what it made them, and  *)
(* those an earlier generation left behind have nothing of the session.       *)
Sound == astray \cap {"revived", "undercut"} = {}

Held ==
  /\ session.client # None /\ peers[session.client] = "open"
  /\ published[session.client] = session.microphone
  /\ session.microphone \in microphones

CurrentIs(p) ==
  LET o == operations[p]
  IN /\ ~session.requested
     /\ o.kind = "recover" =>
          /\ session.recovery = p
          /\ IF o.at \in {"repair", "camera", "screen"}
             THEN session.status \in {"connected", "reconnecting"}
             ELSE session.status = "recovering"
     /\ o.kind # "recover" => session.status = "joining" /\ session.recovery = None
     /\ o.at \in {"microphone", "session", "publish", "devices", "camera", "screen"} =>
          session.client = p
     /\ o.at = "joining" => session.client = None
     /\ o.at \in {"repair", "detaching"} => session.client = o.from
     /\ o.at = "repair" => session.client # None
     /\ o.at \in {"repair", "detaching"} => o.microphone = session.microphone
     /\ o.at = "microphone" => session.microphone \notin microphones
     /\ o.at \in {"session", "publish"} =>
          /\ o.microphone \in microphones
          /\ o.microphone = session.microphone \/ session.microphone \notin microphones
     /\ o.at = "devices" => Held
     /\ o.kind # "recover" /\ o.at # "devices" => session.microphone = None

StaleIs(p) ==
  LET o == operations[p]
  IN /\ o.at \in {"camera", "screen"} => peers[p] # "open"
     /\ o.at \in {"session", "publish"} =>
          /\ o.microphone # session.microphone
          /\ \A q \in Operations : Current(q) => operations[q].microphone # o.microphone

OneCurrent == \A p, q \in Operations : Current(p) /\ Current(q) => p = q
EachFits == \A p \in Operations : /\ Current(p) => CurrentIs(p)
                                  /\ Aside(p) => StaleIs(p)
StatusFits ==
  /\ session.status = "idle" => session.client = None /\ session.microphone = None
  /\ session.status = "joining" => \E p \in Operations : Current(p) /\ operations[p].kind # "recover"
  /\ session.status = "recovering" => \E p \in Operations : Current(p) /\ operations[p].kind = "recover"
  /\ session.status = "connected" => session.client # None
  /\ session.status \in {"connected", "reconnecting"} =>
       IF session.client # None THEN Held ELSE session.microphone \notin microphones
Owns(p, m) ==
  /\ operations[p] # None /\ operations[p].microphone = m
  /\ operations[p].at \in {"detaching", "session", "publish"}
MicrophonesFit ==
  \A m \in microphones : \/ m = session.microphone \/ "microphone" \in astray
                         \/ \E p \in Operations : Owns(p, m)
RecoveryFits ==
  session.recovery # None => /\ Current(session.recovery)
                             /\ operations[session.recovery].kind = "recover"
ClientFits ==
  session.client # None => \/ Current(session.client)
                           \/ operations[session.client] = None /\ peers[session.client] # "none"
                           \/ /\ operations[session.client] # None
                              /\ operations[session.client].at \notin {"leaving", "joining"}
                              /\ \E p \in Operations : Current(p) /\ operations[p].at = "detaching"
Core == OneCurrent /\ EachFits /\ StatusFits /\ MicrophonesFit /\ RecoveryFits /\ ClientFits

(* What an earlier generation left behind stays behind.                      *)
LEMMA AsideStays ==
  ASSUME HookTypeOK, HookTypeOK', Grounded, NEW q \in Operations, operations[q] # None,
         operations'[q] = operations[q], session'.generation >= session.generation
  PROVE  /\ Aside(q) => Aside(q)'
         /\ session'.generation # session.generation => Aside(q)'
<1>1. operations[q].generation \in Nat /\ session.generation \in Nat /\ session'.generation \in Nat
  BY DEF HookTypeOK, HookType, OperationType
<1>2. operations[q].generation <= session.generation
  BY DEF Grounded, GroundedAt
<1>3. operations[q].generation # session.generation => operations[q].generation # session'.generation
  BY <1>1, <1>2
<1>4. session'.generation # session.generation => operations[q].generation # session'.generation
  BY <1>1, <1>2
<1> QED BY <1>3, <1>4 DEF Aside, Stale

(* What an action with p has to show of the operations for all to fit again. *)
LEMMA Alone ==
  ASSUME Core, NEW p \in Operations,
         \A q \in Operations : q # p /\ operations'[q] # None =>
           /\ operations'[q] = operations[q] /\ Aside(q) /\ Aside(q)'
           /\ peers'[q] = "open" => peers[q] = "open"
           /\ operations[q].at \in {"session", "publish"} =>
                /\ operations[q].microphone # session'.microphone
                /\ Current(p)' => operations'[p].microphone # operations[q].microphone,
         Current(p)' => CurrentIs(p)',
         Aside(p)' => StaleIs(p)'
  PROVE  OneCurrent' /\ EachFits'
<1>1. ASSUME NEW q \in Operations, q # p, operations'[q] # None
      PROVE  ~Current(q)' /\ StaleIs(q)'
  <2>1. ~Current(q)'
    BY <1>1 DEF Current, Aside
  <2>2. StaleIs(q)
    BY <1>1 DEF Core, EachFits
  <2>3. \A o \in Operations : Current(o)' => o = p
    BY <1>1 DEF Current, Aside
  <2> QED BY <1>1, <2>1, <2>2, <2>3 DEF StaleIs
<1>2. \A q \in Operations : Current(q)' => q = p
  BY <1>1 DEF Current
<1>3. OneCurrent'
  BY <1>2 DEF OneCurrent
<1>4. EachFits'
  BY <1>1, <1>2 DEF EachFits, Aside
<1> QED BY <1>3, <1>4

(* Only a rebuild that has not begun to start its client is beside the client   *)
(* of an operation that it left behind.                                      *)
LEMMA ClientOver ==
  ASSUME HookTypeOK, Grounded, Core, session.client # None
  PROVE  /\ session.client \in Operations
         /\ \/ Current(session.client)
            \/ operations[session.client] = None /\ peers[session.client] # "none"
            \/ /\ operations[session.client] # None
               /\ operations[session.client].at \notin {"leaving", "joining"}
               /\ session.status = "recovering"
               /\ \A q \in Operations : Current(q) => operations[q].at = "detaching"
<1>1. session.client \in Operations
  BY DEF HookTypeOK, HookType, Names
<1>2. ASSUME NEW p \in Operations, Current(p), operations[p].at = "detaching"
      PROVE  /\ session.status = "recovering"
             /\ \A q \in Operations : Current(q) => operations[q].at = "detaching"
  <2>1. operations[p].kind = "recover"
    BY <1>2 DEF Grounded, GroundedAt, Current
  <2>2. session.status = "recovering"
    BY <1>2, <2>1 DEF Core, EachFits, CurrentIs
  <2> QED BY <1>2, <2>2 DEF Core, OneCurrent
<1> QED BY <1>1, <1>2 DEF Core, ClientFits

(* Nothing of the session has changed, but what an operation that was left     *)
(* behind does on its own.                                                   *)
LEMMA Behind ==
  ASSUME HookNoneApart, HookTypeOK, Core, HookStays, NEW p \in Operations, Aside(p), Rest(p),
         Aside(p)' => StaleIs(p)', ~Current(p)',
         \A q \in Operations : q # p => peers'[q] = peers[q] /\ published'[q] = published[q],
         session.microphone \in microphones <=> session.microphone \in microphones',
         \A q \in Operations : Current(q) =>
           (operations[q].microphone \in microphones => operations[q].microphone \in microphones'),
         operations'[p] = None => session.client # p,
         operations'[p] # None => operations'[p].at \notin {"leaving", "joining"},
         Grounded, MicrophonesFit'
  PROVE  Core'
<1>1. /\ session.client = p => /\ session.status = "recovering"
                              /\ \A q \in Operations : Current(q) => operations[q].at = "detaching"
      /\ session.recovery # p
  <2>1. session.recovery # p
    BY DEF Core, RecoveryFits, Current, Aside, HookNoneApart
  <2>2. p # None
    BY DEF HookNoneApart
  <2> QED BY <2>1, <2>2, ClientOver DEF Current, Aside
<1>2. session.client \in Names /\ session.recovery \in Names
  BY DEF HookTypeOK, HookType
<1>3. session.client # p => (Held <=> Held')
  BY <1>1, <1>2 DEF Held, HookStays, Names
<1>4. \A q \in Operations : /\ Current(q)' <=> Current(q)
                            /\ Current(q) => operations'[q] = operations[q]
  BY DEF Current, Aside, Stale, Rest, HookStays
<1>5. \A q \in Operations : Current(q)' => CurrentIs(q)'
  <2> SUFFICES ASSUME NEW q \in Operations, Current(q)' PROVE CurrentIs(q)'
    OBVIOUS
  <2>1. CurrentIs(q) /\ Current(q) /\ operations'[q] = operations[q]
    BY <1>4 DEF Core, EachFits
  <2>2. operations[q].at # "detaching" => (Held <=> Held')
    BY <1>1, <1>3, <2>1
  <2> QED BY <2>1, <2>2 DEF CurrentIs, HookStays
<1>6. \A q \in Operations : Aside(q)' => StaleIs(q)'
  <2> SUFFICES ASSUME NEW q \in Operations, q # p, Aside(q)' PROVE StaleIs(q)'
    OBVIOUS
  <2>1. operations'[q] = operations[q] /\ Aside(q) /\ peers'[q] = peers[q]
    BY DEF Rest, Aside, Stale, HookStays
  <2>2. StaleIs(q)
    BY <2>1 DEF Core, EachFits
  <2> QED BY <1>4, <2>1, <2>2 DEF StaleIs, HookStays
<1>7. OneCurrent'
  BY <1>4 DEF Core, OneCurrent
<1>8. StatusFits'
  BY <1>1, <1>3, <1>4 DEF Core, StatusFits, HookStays
<1>9. RecoveryFits'
  BY <1>2, <1>4 DEF Core, RecoveryFits, HookStays, Names
<1>10. ClientFits'
  <2>1. session.client # None => session.client \in Operations
    BY <1>2 DEF Names
  <2>2. session.client \notin {None, p} => /\ operations'[session.client] = operations[session.client]
                                          /\ peers'[session.client] = peers[session.client]
    BY <2>1 DEF Rest
  <2>3. ASSUME session.client = p
        PROVE  \E q \in Operations : Current(q) /\ operations[q].at = "detaching"
    <3>1. p # None
      BY DEF HookNoneApart
    <3> QED BY <2>3, <3>1 DEF Core, ClientFits, Current, Aside
  <2>4. (\E q \in Operations : Current(q) /\ operations[q].at = "detaching")
          => \E q \in Operations : Current(q)' /\ operations'[q].at = "detaching"
    BY <1>4
  <2>5. CASE session.client = p
    BY <2>3, <2>4, <2>5 DEF ClientFits, HookStays
  <2>6. CASE session.client # p
    BY <1>4, <2>1, <2>2, <2>4, <2>6 DEF Core, ClientFits, HookStays
  <2> QED BY <2>5, <2>6
<1> QED BY <1>5, <1>6, <1>7, <1>8, <1>9, <1>10 DEF Core, EachFits

LEMMA CoreInit == ASSUME HookNoneApart, Init PROVE Core
BY DEF Init, Core, OneCurrent, EachFits, StatusFits, MicrophonesFit, RecoveryFits, ClientFits,
       Current, Aside

LEMMA CoreUnchanged ==
  ASSUME Core, UNCHANGED <<session, operations, peers, published, microphones>>,
         astray \subseteq astray'
  PROVE  Core'
BY DEF Core, OneCurrent, EachFits, CurrentIs, StaleIs, Held, StatusFits, MicrophonesFit, Owns,
       RecoveryFits, ClientFits, Current, Aside, Stale

(* What holds of the statuses in which nothing of now is under way.          *)
LEMMA IdleCore ==
  ASSUME Core, session.status = "idle"
  PROVE  /\ \A p \in Operations : ~Current(p)
         /\ session.client = None /\ session.microphone = None
         /\ session.recovery \in Operations => session.recovery = None
BY DEF Core, EachFits, CurrentIs, StatusFits, RecoveryFits

LEMMA RecoveryNone ==
  ASSUME HookTypeOK, Core, \A p \in Operations : ~Current(p)
  PROVE  session.recovery = None
BY DEF HookTypeOK, HookType, Names, Core, RecoveryFits

(* When an operation of now moves on, the others are left behind.            *)
LEMMA OthersBehind ==
  ASSUME HookTypeOK, HookTypeOK', Grounded, Core, NEW p \in Operations, Rest(p),
         session'.generation >= session.generation,
         Current(p) \/ \A q \in Operations : ~Current(q)
  PROVE  \A q \in Operations : q # p /\ operations'[q] # None =>
           /\ operations'[q] = operations[q] /\ Aside(q) /\ Aside(q)'
           /\ operations[q].at \in {"session", "publish"} =>
                /\ operations[q].microphone # session.microphone
                /\ Current(p) => operations[p].microphone # operations[q].microphone
<1> SUFFICES ASSUME NEW q \in Operations, q # p, operations'[q] # None
             PROVE  /\ operations'[q] = operations[q] /\ Aside(q) /\ Aside(q)'
                    /\ operations[q].at \in {"session", "publish"} =>
                         /\ operations[q].microphone # session.microphone
                         /\ Current(p) => operations[p].microphone # operations[q].microphone
  OBVIOUS
<1>1. operations'[q] = operations[q]
  BY DEF Rest
<1>2. ~Current(q)
  BY DEF Core, OneCurrent
<1>3. Aside(q)
  BY <1>1, <1>2 DEF Current, Aside
<1>4. Aside(q)'
  BY <1>1, <1>3, AsideStays DEF Aside
<1>5. StaleIs(q)
  BY <1>3 DEF Core, EachFits
<1> QED BY <1>1, <1>3, <1>4, <1>5 DEF StaleIs

LEMMA OwnersStay ==
  ASSUME MicrophonesFit, NEW p \in Operations, Rest(p), astray \subseteq astray',
         \A m \in microphones' : /\ m \in microphones
                                 /\ m = session.microphone \/ Owns(p, m) =>
                                      m = session'.microphone \/ \E q \in Operations : Owns(q, m)'
  PROVE  MicrophonesFit'
<1> SUFFICES ASSUME NEW m \in microphones', m # session'.microphone, "microphone" \notin astray'
             PROVE  \E q \in Operations : Owns(q, m)'
  BY DEF MicrophonesFit
<1>1. CASE m = session.microphone \/ Owns(p, m)
  BY <1>1
<1>2. CASE ~(m = session.microphone \/ Owns(p, m))
  <2>1. PICK q \in Operations : Owns(q, m)
    BY <1>2 DEF MicrophonesFit
  <2> QED BY <1>2, <2>1 DEF Owns, Rest
<1> QED BY <1>1, <1>2

LEMMA JoinCore ==
  ASSUME HookNoneApart, HookTypeOK, HookTypeOK', Grounded, Core, NEW p \in Operations, NEW r \in Rooms,
         Join(p, r)
  PROVE  Core'
<1>1. /\ session.status = "idle" /\ Rest(p) /\ operations[p] = None
      /\ operations'[p] # None /\ operations'[p].kind = "join" /\ operations'[p].at = "joining"
      /\ operations'[p].generation = session'.generation
      /\ operations'[p].microphone = None
      /\ session'.status = "joining" /\ session'.generation = session.generation + 1
      /\ ~session'.requested /\ session'.client = session.client
      /\ session'.microphone = session.microphone /\ session'.recovery = session.recovery
      /\ UNCHANGED <<peers, published, microphones, astray>>
  BY JoinDoes
<1>2. (\A q \in Operations : ~Current(q)) /\ session.client = None /\ session.microphone = None
  BY <1>1, IdleCore
<1>3. session.recovery = None
  BY <1>2, RecoveryNone
<1>4. session'.generation >= session.generation
  BY <1>1 DEF HookTypeOK, HookType
<1>5. Current(p)'
  BY <1>1 DEF Current, Stale
<1>6. CurrentIs(p)'
  BY <1>1, <1>2, <1>3 DEF CurrentIs
<1>7. OneCurrent' /\ EachFits'
  <2>1. \A q \in Operations : q # p /\ operations'[q] # None =>
          /\ operations'[q] = operations[q] /\ Aside(q) /\ Aside(q)'
    BY <1>1, <1>2, <1>4, OthersBehind
  <2>2. ~Aside(p)'
    BY <1>5 DEF Aside, Current
  <2>3. \A q \in Operations : q # p /\ operations'[q] # None /\ operations[q].at \in {"session", "publish"} =>
          operations[q].microphone # None
    BY <1>1 DEF Grounded, GroundedAt, Rest
  <2>4. \A q \in Operations : q # p /\ operations'[q] # None =>
          /\ operations'[q] = operations[q] /\ Aside(q) /\ Aside(q)'
          /\ peers'[q] = "open" => peers[q] = "open"
          /\ operations[q].at \in {"session", "publish"} =>
               /\ operations[q].microphone # session'.microphone
               /\ Current(p)' => operations'[p].microphone # operations[q].microphone
    BY <1>1, <1>2, <2>1, <2>3
  <2> QED BY <1>6, <2>2, <2>4, Alone
<1>8. StatusFits'
  BY <1>1, <1>5 DEF StatusFits
<1>9. MicrophonesFit'
  <2>1. \A m : ~Owns(p, m)
    BY <1>1 DEF Owns
  <2> QED BY <1>1, <2>1, OwnersStay DEF Core
<1>10. RecoveryFits' /\ ClientFits'
  BY <1>1, <1>2, <1>3 DEF RecoveryFits, ClientFits
<1> QED BY <1>7, <1>8, <1>9, <1>10 DEF Core

(* A leave leaves nothing of now; p is the switch that asked for it.         *)
LEMMA LeaveCore ==
  ASSUME HookNoneApart, HookTypeOK, HookTypeOK', Grounded, Core, NEW by, LeaveWith(by), UNCHANGED astray,
         \A q \in Operations : operations'[q] # operations[q] =>
           /\ operations[q] = None /\ operations'[q].microphone = None
           /\ operations'[q].generation # session'.generation /\ operations'[q].at = "leaving"
  PROVE  Core'
<1>1. /\ session'.status = "idle" /\ session'.generation = session.generation + 1
      /\ session'.client = None /\ session'.microphone = None
      /\ session'.recovery = None
      /\ \A q \in Operations :
           peers'[q] = IF q = session.client /\ peers[q] = "open" THEN "closed" ELSE peers[q]
      /\ session.client # None =>
           microphones' = microphones \ {published[session.client]}
      /\ session.client = None => microphones' = microphones
  BY LeaveWithDoes
<1>2. session'.generation >= session.generation /\ session'.generation # session.generation
  BY <1>1 DEF HookTypeOK, HookType
<1>3. \A q \in Operations : ~Current(q)'
  <2> SUFFICES ASSUME NEW q \in Operations, operations'[q] # None PROVE Stale(q)'
    BY DEF Current
  <2>1. CASE operations'[q] = operations[q]
    BY <1>2, <2>1, AsideStays DEF Aside
  <2> QED BY <2>1 DEF Stale
<1>4. \A q \in Operations : Aside(q)' => StaleIs(q)'
  <2> SUFFICES ASSUME NEW q \in Operations, operations'[q] # None PROVE StaleIs(q)'
    BY DEF Aside
  <2>1. operations'[q].at \in {"camera", "screen"} => peers'[q] # "open"
    <3> SUFFICES ASSUME operations'[q].at \in {"camera", "screen"}, peers[q] = "open"
                 PROVE  q = session.client
      BY <1>1
    <3>1. operations'[q] = operations[q] /\ operations[q] # None
      OBVIOUS
    <3>2. CASE Current(q)
      BY <3>1, <3>2 DEF Core, EachFits, CurrentIs
    <3>3. CASE Aside(q)
      BY <3>1, <3>3 DEF Core, EachFits, StaleIs
    <3> QED BY <3>1, <3>2, <3>3 DEF Current, Aside
  <2>2. operations'[q].at \in {"session", "publish"} => operations'[q].microphone # None
    BY DEF Grounded, GroundedAt
  <2> QED BY <1>1, <1>3, <2>1, <2>2 DEF StaleIs
<1>5. MicrophonesFit'
  <2> SUFFICES ASSUME NEW m \in microphones', "microphone" \notin astray'
               PROVE  \E q \in Operations : Owns(q, m)'
    BY DEF MicrophonesFit
  <2>1. m \in microphones /\ m # None
    BY <1>1 DEF HookTypeOK, HookNoneApart
  <2>2. \A q \in Operations : Owns(q, m) => Owns(q, m)'
    BY DEF Owns
  <2>3. CASE m = session.microphone
    <3>1. ~Held
      BY <1>1, <2>3 DEF Held
    <3>2. session.status \notin {"idle", "connected", "reconnecting"}
      BY <2>1, <2>3, <3>1 DEF Core, StatusFits
    <3>3. PICK q \in Operations : Current(q)
      BY <3>2 DEF Core, StatusFits, HookTypeOK, HookType
    <3>4. CurrentIs(q) /\ operations[q] # None
      BY <3>3 DEF Core, EachFits, Current
    <3>5. operations[q].kind = "recover"
      BY <2>1, <2>3, <3>1, <3>4 DEF CurrentIs
    <3>6. operations[q].at \in {"detaching", "session", "publish"}
      <4>1. operations[q].at \in Stages
        BY <3>4 DEF HookTypeOK, OperationType
      <4>2. operations[q].at \notin {"leaving", "joining"}
        BY <3>4, <3>5 DEF Grounded, GroundedAt
      <4>3. operations[q].at \notin {"repair", "camera", "screen"}
        BY <3>2, <3>4, <3>5 DEF CurrentIs
      <4>4. operations[q].at \notin {"microphone", "devices"}
        BY <2>1, <2>3, <3>1, <3>4 DEF CurrentIs
      <4> QED BY <4>1, <4>2, <4>3, <4>4 DEF Stages
    <3>7. operations[q].microphone = m
      BY <2>1, <2>3, <3>4, <3>6 DEF CurrentIs
    <3> QED BY <2>2, <3>4, <3>6, <3>7 DEF Owns
  <2>4. CASE m # session.microphone
    BY <2>1, <2>2, <2>4 DEF Core, MicrophonesFit
  <2> QED BY <2>3, <2>4
<1>6. OneCurrent' /\ EachFits'
  BY <1>3, <1>4 DEF OneCurrent, EachFits
<1>7. StatusFits' /\ RecoveryFits' /\ ClientFits'
  BY <1>1 DEF StatusFits, RecoveryFits, ClientFits
<1> QED BY <1>5, <1>6, <1>7 DEF Core

LEMMA UserCore ==
  ASSUME HookNoneApart, HookTypeOK, HookTypeOK', Grounded, Core, UserActs
  PROVE  Core'
<1>1. ASSUME NEW p \in Operations, NEW r \in Rooms, SwitchCall(p, r) PROVE Core'
  <2>1. /\ operations[p] = None /\ Rest(p) /\ LeaveWith(p) /\ UNCHANGED astray
        /\ operations'[p].at = "leaving" /\ operations'[p].generation = 0
        /\ operations'[p].microphone = None
    BY <1>1, SwitchDoes
  <2>2. session'.generation # 0
    <3>1. session'.generation = session.generation + 1
      BY <2>1, LeaveWithDoes
    <3> QED BY <3>1 DEF HookTypeOK, HookType
  <2> QED BY <2>1, <2>2, LeaveCore DEF Rest
<1>2. CASE Leave
  BY <1>2, LeaveCore DEF Leave
<1>3. CASE PeerFails \/ PeerComesBack
  <2>1. /\ UNCHANGED <<operations, peers, published, microphones, astray>>
        /\ session' \in {[session EXCEPT !.status = "reconnecting"], [session EXCEPT !.status = "connected"]}
        /\ session.status \in {"connected", "reconnecting"} /\ session.client # None
    BY <1>3 DEF PeerFails, PeerComesBack, clients
  <2>2. /\ session'.generation = session.generation
        /\ session'.requested = session.requested /\ session'.client = session.client
        /\ session'.microphone = session.microphone /\ session'.recovery = session.recovery
        /\ session'.status \in {"connected", "reconnecting"}
    BY <2>1 DEF HookTypeOK, HookType
  <2>3. \A q \in Operations : (Current(q)' <=> Current(q)) /\ (Aside(q)' <=> Aside(q))
    BY <2>1, <2>2 DEF Current, Aside, Stale
  <2>4. Held <=> Held'
    BY <2>1, <2>2 DEF Held
  <2>5. ASSUME NEW q \in Operations PROVE (Current(q) => CurrentIs(q)') /\ (Aside(q) => StaleIs(q)')
    <3>1. Current(q) => CurrentIs(q)'
      BY <2>1, <2>2, <2>4 DEF Core, EachFits, CurrentIs
    <3>2. Aside(q) => StaleIs(q)'
      BY <2>1, <2>2, <2>3 DEF Core, EachFits, StaleIs
    <3> QED BY <3>1, <3>2
  <2>6. StatusFits'
    BY <2>1, <2>2, <2>4 DEF Core, StatusFits
  <2>7. MicrophonesFit' /\ RecoveryFits' /\ ClientFits'
    <3>1. MicrophonesFit'
      BY <2>1, <2>2 DEF Core, MicrophonesFit, Owns
    <3>2. RecoveryFits' /\ ClientFits'
      BY <2>1, <2>2 DEF Core, RecoveryFits, ClientFits, Current, Stale
    <3> QED BY <3>1, <3>2
  <2>8. OneCurrent' /\ EachFits'
    BY <2>3, <2>5 DEF Core, OneCurrent, EachFits
  <2> QED BY <2>6, <2>7, <2>8 DEF Core
<1> QED BY <1>1, <1>2, <1>3, JoinCore DEF UserActs

(* The operation of now moves on, and the session with it.                   *)
(* Who has a microphone to publish has one. *)
LEMMA OthersHold ==
  ASSUME Grounded, NEW p \in Operations, Rest(p)
  PROVE  \A q \in Operations : q # p /\ operations'[q] # None /\ operations[q].at \in {"session", "publish"} =>
           operations[q].microphone # None
<1> SUFFICES ASSUME NEW q \in Operations, q # p, operations'[q] # None,
                    operations[q].at \in {"session", "publish"}
             PROVE  operations[q].microphone # None
  OBVIOUS
<1>1. operations[q] # None
  BY DEF Rest
<1> QED BY <1>1 DEF Grounded, GroundedAt

LEMMA MovesOn ==
  ASSUME HookTypeOK, HookTypeOK', Grounded, Core, NEW p \in Operations, Rest(p),
         session'.generation >= session.generation,
         Current(p) \/ \A q \in Operations : ~Current(q),
         \A q \in Operations : q # p /\ peers'[q] = "open" => peers[q] = "open",
         \A q \in Operations : q # p /\ operations'[q] # None /\ operations[q].at \in {"session", "publish"} =>
           /\ operations[q].microphone = session'.microphone => session'.microphone = session.microphone
           /\ Current(p)' => operations'[p].microphone # operations[q].microphone,
         Current(p)' => CurrentIs(p)', ~Aside(p)'
  PROVE  OneCurrent' /\ EachFits'
<1>1. \A q \in Operations : q # p /\ operations'[q] # None =>
        /\ operations'[q] = operations[q] /\ Aside(q) /\ Aside(q)'
        /\ operations[q].at \in {"session", "publish"} => operations[q].microphone # session.microphone
  BY OthersBehind
<1>2. \A q \in Operations : q # p /\ operations'[q] # None =>
        /\ operations'[q] = operations[q] /\ Aside(q) /\ Aside(q)'
        /\ peers'[q] = "open" => peers[q] = "open"
        /\ operations[q].at \in {"session", "publish"} =>
             /\ operations[q].microphone # session'.microphone
             /\ Current(p)' => operations'[p].microphone # operations[q].microphone
  BY <1>1
<1> QED BY <1>2, Alone

LEMMA GrantedCore ==
  ASSUME HookNoneApart, HookTypeOK, HookTypeOK', Grounded, Core, JoinGranted, Waits("joining"), Sound'
  PROVE  Core'
<1>1. PICK p : p = Head1.by
  OBVIOUS
<1>2. /\ p \in Operations /\ operations[p] # None /\ operations[p].at = "joining" /\ Rest(p)
      /\ operations'[p] # None /\ operations'[p].kind = operations[p].kind
      /\ operations'[p].at = "microphone" /\ operations'[p].generation = session.generation
      /\ operations'[p].microphone = operations[p].microphone
      /\ session'.status = "joining" /\ session'.generation = session.generation
      /\ session'.requested = session.requested /\ session'.client = p
      /\ session'.microphone = session.microphone /\ session'.recovery = session.recovery
      /\ astray' = astray \cup (IF Stale(p) THEN {"revived"} ELSE {})
  BY <1>1, GrantedDoes
<1>3. Current(p)
  BY <1>2 DEF Sound, Current
<1>4. CurrentIs(p) /\ GroundedAt(p)
  BY <1>2, <1>3 DEF Core, EachFits, Grounded
<1>5. operations[p].kind # "recover" /\ operations[p].microphone = None
  BY <1>2, <1>4 DEF GroundedAt
<1>6. session.microphone = None /\ session.recovery = None /\ ~session.requested
  BY <1>2, <1>4, <1>5 DEF CurrentIs
<1>7. UNCHANGED <<peers, published, microphones>> /\ None \notin microphones
  BY DEF JoinGranted, HookTypeOK, HookNoneApart
<1>8. Current(p)' /\ CurrentIs(p)'
  BY <1>2, <1>5, <1>6, <1>7 DEF Current, Stale, CurrentIs
<1>9. session'.generation >= session.generation
  BY <1>2 DEF HookTypeOK, HookType
<1>10. OneCurrent' /\ EachFits'
  <2>1. \A q \in Operations : q # p /\ operations'[q] # None /\ operations[q].at \in {"session", "publish"} =>
          operations[q].microphone # None
    BY <1>2, OthersHold
  <2>2. ~Aside(p)' /\ \A q \in Operations : q # p /\ peers'[q] = "open" => peers[q] = "open"
    BY <1>7, <1>8 DEF Current, Aside
  <2> QED BY <1>2, <1>3, <1>5, <1>8, <1>9, <2>1, <2>2, MovesOn
<1>11. StatusFits'
  BY <1>2, <1>5, <1>8 DEF StatusFits
<1>12. MicrophonesFit'
  <2>1. \A m : ~Owns(p, m)
    BY <1>2 DEF Owns
  <2> QED BY <1>2, <1>7, <2>1, OwnersStay DEF Core
<1>13. RecoveryFits' /\ ClientFits'
  BY <1>2, <1>6, <1>8 DEF RecoveryFits, ClientFits
<1> QED BY <1>10, <1>11, <1>12, <1>13 DEF Core

(* An operation left behind that only ends.                                  *)
LEMMA EndsBehind ==
  ASSUME HookNoneApart, HookTypeOK, Core, HookStays, NEW p \in Operations, Aside(p), IsOver(p),
         \A q \in Operations : q # p => peers'[q] = peers[q], UNCHANGED <<published, microphones>>,
         operations[p].at \in {"leaving", "joining"}, Grounded, astray \subseteq astray'
  PROVE  Core'
<1>1. MicrophonesFit'
  <2>1. \A m : ~Owns(p, m)
    BY DEF Owns
  <2> QED BY <2>1, OwnersStay DEF Core, IsOver, HookStays
<1>2. session.client # p
  BY DEF Core, ClientFits, Current, Aside, HookNoneApart
<1> QED BY <1>1, <1>2, Behind DEF IsOver, Current, Aside

LEMMA RejectedCore ==
  ASSUME HookNoneApart, HookTypeOK, HookTypeOK', Grounded, Core, NEW p \in Operations,
         operations[p] # None, operations[p].at = "joining", JoinRejected(p),
         UNCHANGED <<peers, published, microphones>>, astray \subseteq astray',
         Stale(p) => session.status = "idle"
  PROVE  Core'
<1>1. /\ IsOver(p)
      /\ session'.status = "idle" /\ session'.generation = session.generation
      /\ session'.requested = session.requested /\ session'.client = session.client
      /\ session'.microphone = session.microphone /\ session'.recovery = session.recovery
  BY RejectedDoes DEF IsOver
<1>2. \A m : ~Owns(p, m)
  BY DEF Owns
<1>3. CASE Stale(p)
  BY <1>1, <1>3, EndsBehind DEF Aside, HookStays
<1>4. CASE Current(p)
  <2>1. CurrentIs(p) /\ GroundedAt(p)
    BY <1>4 DEF Core, EachFits, Grounded
  <2>2. session.microphone = None /\ session.recovery = None /\ session.client = None
    BY <2>1 DEF CurrentIs, GroundedAt
  <2>3. session'.generation >= session.generation
    BY <1>1 DEF HookTypeOK, HookType
  <2>4. ~Current(p)' /\ ~Aside(p)'
    BY <1>1 DEF IsOver, Current, Aside
  <2>5. OneCurrent' /\ EachFits'
    BY <1>1, <1>4, <2>3, <2>4, MovesOn DEF IsOver
  <2>6. StatusFits' /\ RecoveryFits' /\ ClientFits'
    BY <1>1, <2>2 DEF StatusFits, RecoveryFits, ClientFits
  <2>7. MicrophonesFit'
    BY <1>1, <1>2, OwnersStay DEF Core, IsOver
  <2> QED BY <2>5, <2>6, <2>7 DEF Core
<1> QED BY <1>3, <1>4 DEF Current

LEMMA LeaveEndsCore ==
  ASSUME HookNoneApart, HookTypeOK, HookTypeOK', Grounded, Core, NEW p \in Operations,
         Doing(p, "leaving"), NEW queue, LeaveEnds(p, queue),
         UNCHANGED <<peers, published, microphones>>
  PROVE  Core'
<1>2. /\ operations[p] # None /\ operations[p].at = "leaving" /\ Rest(p)
      /\ \/ /\ session.status = "idle" /\ UNCHANGED astray
            /\ operations'[p] # None /\ operations'[p].kind = operations[p].kind
            /\ operations'[p].at = "joining" /\ operations'[p].generation = session'.generation
            /\ operations'[p].microphone = operations[p].microphone
            /\ session'.status = "joining" /\ session'.generation = session.generation + 1
            /\ ~session'.requested /\ session'.client = session.client
            /\ session'.microphone = session.microphone /\ session'.recovery = session.recovery
         \/ /\ operations'[p] = None /\ HookStays
            /\ astray' = astray \cup {"misplaced"}
  BY LeaveEndsDoes
<1>3. UNCHANGED <<peers, published, microphones>>
  OBVIOUS
<1>4. GroundedAt(p)
  BY <1>2 DEF Grounded
<1>5. Aside(p)
  <2>1. operations[p].generation < session.generation
    BY <1>2, <1>4 DEF GroundedAt
  <2>2. operations[p].generation \in Nat /\ session.generation \in Nat
    BY <1>2 DEF HookTypeOK, OperationType, HookType
  <2> QED BY <1>2, <2>1, <2>2 DEF Aside, Stale
<1>6. (\A m : ~Owns(p, m)) /\ operations[p].kind # "recover" /\ operations[p].microphone = None
  BY <1>2, <1>4 DEF Owns, GroundedAt
<1>7. CASE operations'[p] = None /\ HookStays /\ astray' = astray \cup {"misplaced"}
  BY <1>2, <1>3, <1>5, <1>7, EndsBehind DEF IsOver
<1>8. CASE /\ session.status = "idle" /\ UNCHANGED astray
           /\ operations'[p] # None /\ operations'[p].kind = operations[p].kind
           /\ operations'[p].at = "joining" /\ operations'[p].generation = session'.generation
           /\ operations'[p].microphone = operations[p].microphone
           /\ session'.status = "joining" /\ session'.generation = session.generation + 1
           /\ ~session'.requested /\ session'.client = session.client
           /\ session'.microphone = session.microphone /\ session'.recovery = session.recovery
  <2>1. (\A q \in Operations : ~Current(q)) /\ session.client = None /\ session.microphone = None
    BY <1>8, IdleCore
  <2>2. session.recovery = None
    BY <2>1, RecoveryNone
  <2>3. session'.generation >= session.generation
    BY <1>8 DEF HookTypeOK, HookType
  <2>4. Current(p)' /\ ~Aside(p)'
    BY <1>8 DEF Current, Aside, Stale
  <2>5. CurrentIs(p)'
    BY <1>6, <1>8, <2>1, <2>2 DEF CurrentIs
  <2>6. OneCurrent' /\ EachFits'
    <3>1. \A q \in Operations : q # p /\ operations'[q] # None /\ operations[q].at \in {"session", "publish"} =>
            operations[q].microphone # None
      BY <1>2, OthersHold
    <3> QED BY <1>2, <1>3, <1>6, <1>8, <2>1, <2>3, <2>4, <2>5, <3>1, MovesOn
  <2>7. StatusFits'
    BY <1>2, <1>6, <1>8, <2>4 DEF StatusFits
  <2>8. MicrophonesFit'
    BY <1>2, <1>3, <1>6, <1>8, OwnersStay DEF Core
  <2>9. RecoveryFits' /\ ClientFits'
    BY <1>8, <2>1, <2>2 DEF RecoveryFits, ClientFits
  <2> QED BY <2>6, <2>7, <2>8, <2>9 DEF Core
<1> QED BY <1>2, <1>7, <1>8

LEMMA AnswersCore ==
  ASSUME HookNoneApart, HookTypeOK, HookTypeOK', Grounded, Core, Sound', AnswersAct
  PROVE  Core'
<1>1. CASE JoinGranted
  <2>1. CASE ~Waits("joining")
    BY <1>1, <2>1, CoreUnchanged DEF JoinGranted
  <2> QED BY <1>1, <2>1, GrantedCore
<1>2. CASE JoinRefused
  <2>1. CASE ~Waits("joining")
    BY <1>2, <2>1, CoreUnchanged DEF JoinRefused
  <2>2. CASE Waits("joining")
    <3>1. /\ commands # <<>> /\ JoinRejected(Head1.by)
          /\ astray' = astray \cup (IF Stale(Head1.by) /\ session.status # "idle" THEN {"undercut"} ELSE {})
          /\ UNCHANGED <<peers, published, microphones>>
      BY <1>2, <2>2 DEF JoinRefused, Because
    <3>2. Head1.by \in Operations /\ operations[Head1.by] # None
          /\ operations[Head1.by].at = "joining"
      BY <2>2, <3>1, WaitsDoes
    <3>3. Stale(Head1.by) => session.status = "idle"
      BY <3>1 DEF Sound
    <3> QED BY <3>1, <3>2, <3>3, RejectedCore
  <2> QED BY <2>1, <2>2
<1>3. CASE LeaveHandled
  <2>1. CASE ~Waits("leaving")
    BY <1>3, <2>1, CoreUnchanged DEF LeaveHandled
  <2>2. CASE Waits("leaving")
    <3>1. Head1.by \in Operations /\ Doing(Head1.by, "leaving") /\ LeaveEnds(Head1.by, Tail(commands))
          /\ UNCHANGED <<peers, published, microphones>>
      BY <1>3, <2>2, WaitsDoes DEF LeaveHandled, Waits
    <3> QED BY <3>1, LeaveEndsCore
  <2> QED BY <2>1, <2>2
<1>4. ASSUME NEW p \in Operations, JoinTimesOut(p) PROVE Core'
  <2>1. /\ operations[p] # None /\ operations[p].at = "joining" /\ JoinRejected(p)
        /\ UNCHANGED <<peers, published, microphones>> /\ astray \subseteq astray'
    BY <1>4 DEF JoinTimesOut, Doing
  <2>2. Stale(p) => session.status = "idle"
    BY <1>4 DEF JoinTimesOut, Sound
  <2> QED BY <2>1, <2>2, RejectedCore
<1>5. CASE LeaveLost
  BY <1>5, CoreUnchanged DEF LeaveLost, Because, clients
<1>6. ASSUME NEW p \in Operations, LeaveTimesOut(p) PROVE Core'
  BY <1>6, LeaveEndsCore DEF LeaveTimesOut
<1> QED BY <1>1, <1>2, <1>3, <1>4, <1>5, <1>6 DEF AnswersAct

LEMMA MicrophoneGrantedCore ==
  ASSUME HookNoneApart, HookTypeOK, HookTypeOK', Grounded, Core, NEW p \in Operations,
         MicrophoneGranted(p)
  PROVE  Core'
<1>1. /\ operations[p] # None /\ operations[p].at = "microphone"
      /\ Rest(p) /\ operations'[p] # None /\ operations'[p].at = "session"
      /\ operations'[p].kind = operations[p].kind
      /\ operations'[p].generation = operations[p].generation
      /\ operations'[p].microphone = p
      /\ microphones' = microphones \cup {p}
      /\ UNCHANGED <<session, peers, published, astray>>
  BY MicrophoneGrantedDoes
<1>2. GroundedAt(p) /\ peers[p] = "none"
  BY <1>1 DEF Grounded, GroundedAt, Before
<1>3. session.microphone # p
  BY <1>2 DEF Grounded, HookNoneApart
<1>4. \A q \in Operations : q # p /\ operations[q] # None => operations[q].microphone # p
  BY <1>2 DEF Grounded, GroundedAt, HookNoneApart
<1>5. MicrophonesFit'
  <2> SUFFICES ASSUME NEW m \in microphones', m # session.microphone, "microphone" \notin astray
               PROVE  \E q \in Operations : Owns(q, m)'
    BY <1>1 DEF MicrophonesFit
  <2>1. CASE m = p
    BY <1>1, <2>1 DEF Owns
  <2>2. CASE m # p
    <3>1. PICK q \in Operations : Owns(q, m)
      BY <1>1, <2>2 DEF Core, MicrophonesFit
    <3>2. q # p
      BY <1>1, <3>1 DEF Owns
    <3> QED BY <1>1, <3>1, <3>2 DEF Owns, Rest
  <2> QED BY <2>1, <2>2
<1>6. CASE Aside(p)
  <2>1. StaleIs(p)'
    <3>1. \A q \in Operations : Current(q)' => q # p /\ Current(q) /\ operations'[q] = operations[q]
      BY <1>1, <1>6 DEF Current, Aside, Stale, Rest
    <3>2. \A q \in Operations : Current(q)' => operations'[q].microphone # p
      BY <1>4, <3>1 DEF Current
    <3> QED BY <1>1, <1>3, <3>2 DEF StaleIs
  <2>2. ~Current(p)'
    BY <1>1, <1>6 DEF Current, Aside, Stale
  <2> QED BY <1>1, <1>3, <1>5, <1>6, <2>1, <2>2, Behind DEF HookStays
<1>7. CASE Current(p)
  <2>1. CurrentIs(p)
    BY <1>7 DEF Core, EachFits
  <2>2. Current(p)' /\ ~Aside(p)'
    BY <1>1, <1>7 DEF Current, Aside, Stale
  <2>3. CurrentIs(p)'
    BY <1>1, <1>3, <2>1 DEF CurrentIs
  <2>4. session'.generation >= session.generation
    BY <1>1 DEF HookTypeOK, HookType
  <2>5. OneCurrent' /\ EachFits'
    BY <1>1, <1>4, <1>7, <2>2, <2>3, <2>4, MovesOn DEF Rest
  <2>6. session.status \in {"joining", "recovering"}
    BY <1>1, <2>1 DEF CurrentIs
  <2>7. StatusFits'
    BY <1>1, <1>7, <2>1, <2>2, <2>6 DEF StatusFits, CurrentIs
  <2>8. RecoveryFits' /\ ClientFits'
    BY <1>1, <2>1, <2>2 DEF RecoveryFits, ClientFits, CurrentIs
  <2> QED BY <1>5, <2>5, <2>7, <2>8 DEF Core
<1> QED BY <1>1, <1>6, <1>7 DEF Current, Aside

LEMMA SessionCreatedCore ==
  ASSUME HookNoneApart, HookTypeOK, HookTypeOK', Grounded, Core, NEW p \in Operations,
         SessionCreated(p)
  PROVE  Core'
<1>1. /\ MovesTo(p, "publish") /\ operations[p].at = "session"
      /\ peers' = [peers EXCEPT ![p] = "open"]
      /\ UNCHANGED <<session, published, microphones, astray>>
  BY SessionCreatedDoes
<1>2. (\A q \in Operations : q # p => peers'[q] = peers[q]) /\ peers'[p] = "open"
  BY <1>1 DEF HookTypeOK
<1>3. MicrophonesFit'
  <2>1. \A m : \A q \in Operations : Owns(q, m) => Owns(q, m)'
    BY <1>1 DEF Owns, MovesTo, Rest
  <2> QED BY <1>1, <2>1 DEF Core, MicrophonesFit
<1>4. CASE Aside(p)
  <2>1. StaleIs(p)'
    <3>1. \A q \in Operations : Current(q)' => Current(q) /\ operations'[q] = operations[q]
      BY <1>1, <1>4 DEF Current, Aside, Stale, MovesTo, Rest
    <3> QED BY <1>1, <1>4, <3>1 DEF Core, EachFits, StaleIs, MovesTo
  <2>2. ~Current(p)'
    BY <1>1, <1>4 DEF Current, Aside, Stale, MovesTo
  <2> QED BY <1>1, <1>2, <1>3, <1>4, <2>1, <2>2, Behind DEF HookStays, MovesTo
<1>5. CASE Current(p)
  <2>1. CurrentIs(p)
    BY <1>5 DEF Core, EachFits
  <2>2. Current(p)' /\ ~Aside(p)'
    BY <1>1, <1>5 DEF Current, Aside, Stale, MovesTo
  <2>3. CurrentIs(p)'
    BY <1>1, <2>1 DEF CurrentIs, MovesTo
  <2>4. session'.generation >= session.generation
    BY <1>1 DEF HookTypeOK, HookType
  <2>5. \A q \in Operations : q # p /\ operations'[q] # None /\ operations[q].at \in {"session", "publish"} =>
          operations'[p].microphone # operations[q].microphone
    BY <1>1, <1>5, <2>4, OthersBehind DEF MovesTo
  <2>6. OneCurrent' /\ EachFits'
    BY <1>1, <1>2, <1>5, <2>2, <2>3, <2>4, <2>5, MovesOn DEF MovesTo
  <2>7. session.status \in {"joining", "recovering"} /\ session.client = p
    BY <1>1, <2>1 DEF CurrentIs
  <2>8. StatusFits'
    BY <1>1, <2>1, <2>2, <2>7 DEF StatusFits, CurrentIs, MovesTo
  <2>9. RecoveryFits' /\ ClientFits'
    BY <1>1, <2>1, <2>2, <2>7 DEF RecoveryFits, ClientFits, CurrentIs, MovesTo
  <2> QED BY <1>3, <2>6, <2>8, <2>9 DEF Core
<1> QED BY <1>1, <1>4, <1>5 DEF Current, Aside, MovesTo

LEMMA PublishedCore ==
  ASSUME HookNoneApart, HookTypeOK, HookTypeOK', Grounded, Core, NEW p \in Operations, Published(p)
  PROVE  Core'
<1>1. /\ MovesTo(p, "devices") /\ operations[p].at = "publish" /\ peers[p] = "open" /\ ~Stale(p)
      /\ published'[p] = operations[p].microphone
      /\ session'.status = session.status /\ session'.generation = session.generation
      /\ session'.requested = session.requested /\ session'.client = session.client
      /\ session'.microphone = operations[p].microphone /\ session'.recovery = session.recovery
      /\ UNCHANGED <<peers, microphones, astray>>
  BY PublishedDoes
<1>2. Current(p) /\ Current(p)' /\ ~Aside(p)'
  BY <1>1 DEF Current, Aside, Stale, MovesTo
<1>3. CurrentIs(p) /\ p # None
  BY <1>2 DEF Core, EachFits, HookNoneApart
<1>4. /\ session.client = p /\ operations[p].microphone \in microphones
      /\ operations[p].microphone = session.microphone \/ session.microphone \notin microphones
      /\ session.status \in {"joining", "recovering"}
  BY <1>1, <1>3 DEF CurrentIs
<1>5. Held'
  BY <1>1, <1>3, <1>4 DEF Held
<1>6. CurrentIs(p)'
  BY <1>1, <1>3, <1>4, <1>5 DEF CurrentIs, MovesTo
<1>7. session'.generation >= session.generation
  BY <1>1 DEF HookTypeOK, HookType
<1>8. \A q \in Operations : q # p /\ operations'[q] # None /\ operations[q].at \in {"session", "publish"} =>
        operations[p].microphone # operations[q].microphone
  BY <1>1, <1>2, <1>7, OthersBehind DEF MovesTo
<1>9. OneCurrent' /\ EachFits'
  BY <1>1, <1>2, <1>6, <1>7, <1>8, MovesOn DEF MovesTo
<1>10. StatusFits'
  BY <1>1, <1>2, <1>3, <1>4 DEF StatusFits, CurrentIs, MovesTo
<1>11. MicrophonesFit'
  BY <1>1, <1>4, OwnersStay DEF Core, MovesTo, Owns
<1>12. RecoveryFits' /\ ClientFits'
  BY <1>1, <1>2, <1>3, <1>4 DEF RecoveryFits, ClientFits, CurrentIs, MovesTo
<1> QED BY <1>9, <1>10, <1>11, <1>12 DEF Core

LEMMA PublishedTooLateCore ==
  ASSUME HookNoneApart, HookTypeOK, HookTypeOK', Grounded, Core, NEW p \in Operations,
         PublishedTooLate(p), Sound'
  PROVE  Core'
<1>1. /\ IsOver(p)
      /\ \A q \in Operations : q # p => peers'[q] = peers[q]
      /\ session'.status = session.status /\ session'.generation = session.generation
      /\ session'.requested = session.requested /\ session'.client = session.client
      /\ session'.microphone = session.microphone
      /\ session'.recovery = (IF session.recovery = p THEN None ELSE session.recovery)
      /\ "microphone" \in astray'
      /\ session.status # "idle" => "undercut" \in astray'
      /\ UNCHANGED <<published, microphones>>
  BY PublishedTooLateDoes
<1>2. session.status = "idle"
  BY <1>1 DEF Sound
<1>3. \A q \in Operations : ~Current(q)
  BY <1>2, IdleCore
<1>4. session.recovery = None
  BY <1>3, RecoveryNone
<1>5. HookStays
  BY <1>1, <1>4 DEF HookStays
<1>6. Aside(p)
  BY <1>1, <1>3 DEF IsOver, Aside, Current
<1>7. MicrophonesFit'
  BY <1>1 DEF MicrophonesFit
<1>8. session.client # p
  BY <1>2, IdleCore DEF HookNoneApart
<1> QED BY <1>1, <1>5, <1>6, <1>7, <1>8, Behind DEF IsOver, Current, Aside

LEMMA StartFailsCore ==
  ASSUME HookNoneApart, HookTypeOK, HookTypeOK', Grounded, Core, NEW p \in Operations,
         StartFails(p), Sound'
  PROVE  Core'
<1>1. PICK to : to = IF operations[p].kind = "recover" THEN "reconnecting" ELSE "idle"
  OBVIOUS
<1>2. /\ IsOver(p) /\ operations[p].at \in {"microphone", "session", "publish"}
      /\ \A q \in Operations : q # p => peers'[q] = peers[q]
      /\ microphones' = microphones \ {operations[p].microphone}
      /\ session'.status = to /\ session'.generation = session.generation
      /\ session'.requested = session.requested
      /\ session'.client = (IF session.client = p THEN None ELSE session.client)
      /\ session'.microphone = session.microphone
      /\ session'.recovery = (IF session.recovery = p THEN None ELSE session.recovery)
      /\ (Stale(p) \/ session.requested) /\ session.status # to =>
           astray' \cap {"revived", "undercut"} # {}
      /\ astray \subseteq astray'
      /\ UNCHANGED published
  BY <1>1, StartFailsDoes
<1>3. Stale(p) => session.status = to
  BY <1>2 DEF Sound
<1>4. None \notin microphones
  BY DEF HookTypeOK, HookNoneApart
<1>5. MicrophonesFit'
  <2>1. \A m \in microphones' : m \in microphones /\ m # operations[p].microphone
    BY <1>2
  <2>2. \A m \in microphones' : ~Owns(p, m)
    BY <2>1 DEF Owns
  <2> QED BY <1>2, <2>1, <2>2, OwnersStay DEF Core, IsOver
<1>6. CASE Aside(p)
  <2>7. p # None /\ session.status # "recovering"
    BY <1>1, <1>3, <1>6 DEF HookNoneApart, Aside
  <2>1. session.client # p /\ session.recovery # p
    BY <1>6, <2>7, ClientOver DEF Core, RecoveryFits, Current, Aside
  <2>2. HookStays
    BY <1>2, <1>3, <1>6, <2>1 DEF HookStays, Aside
  <2>3. StaleIs(p)
    BY <1>6 DEF Core, EachFits
  <2>8. operations[p].at = "microphone" => operations[p].microphone = None
    BY <1>6 DEF Grounded, GroundedAt, Aside
  <2>4. session.microphone \in microphones <=> session.microphone \in microphones'
    BY <1>2, <1>4, <2>3, <2>8 DEF StaleIs
  <2>5. \A q \in Operations : Current(q) =>
          (operations[q].microphone \in microphones => operations[q].microphone \in microphones')
    BY <1>2, <1>4, <2>3, <2>8 DEF StaleIs
  <2>6. ~Aside(p)' /\ ~Current(p)'
    BY <1>2 DEF IsOver, Current, Aside
  <2> QED BY <1>2, <1>5, <1>6, <2>1, <2>2, <2>4, <2>5, <2>6, Behind DEF IsOver
<1>7. CASE Current(p)
  <2>1. CurrentIs(p) /\ p # None
    BY <1>7 DEF Core, EachFits, HookNoneApart
  <2>2. session'.client = None /\ session'.recovery = None
    BY <1>2, <2>1 DEF CurrentIs
  <2>3. session'.generation >= session.generation
    BY <1>2 DEF HookTypeOK, HookType
  <2>4. ~Current(p)' /\ ~Aside(p)'
    BY <1>2 DEF IsOver, Current, Aside
  <2>5. OneCurrent' /\ EachFits'
    BY <1>2, <1>7, <2>3, <2>4, MovesOn DEF IsOver
  <2>6. session.microphone \notin microphones'
    BY <1>2, <2>1 DEF CurrentIs
  <2>7. to = "idle" => session.microphone = None
    BY <1>1, <1>2, <2>1 DEF CurrentIs
  <2>8. StatusFits'
    BY <1>1, <1>2, <2>2, <2>6, <2>7 DEF StatusFits
  <2>9. RecoveryFits' /\ ClientFits'
    BY <2>2 DEF RecoveryFits, ClientFits
  <2> QED BY <1>5, <2>5, <2>8, <2>9 DEF Core
<1> QED BY <1>2, <1>6, <1>7 DEF Current, Aside, IsOver

LEMMA DevicesListedCore ==
  ASSUME HookNoneApart, HookTypeOK, HookTypeOK', Grounded, Core, NEW p \in Operations,
         DevicesListed(p), Sound'
  PROVE  Core'
<1>1. /\ operations[p] # None /\ operations[p].at = "devices"
      /\ session'.status = "connected" /\ session'.generation = session.generation
      /\ session'.requested = session.requested /\ session'.client = session.client
      /\ session'.microphone = session.microphone
      /\ \/ /\ operations[p].kind = "recover" /\ ~Stale(p) /\ MovesTo(p, "camera")
            /\ session'.recovery = session.recovery
         \/ /\ ~(operations[p].kind = "recover" /\ ~Stale(p)) /\ IsOver(p)
            /\ session'.recovery = (IF session.recovery = p THEN None ELSE session.recovery)
      /\ astray' = astray \cup (IF Stale(p) THEN {"revived"} ELSE {})
      /\ UNCHANGED <<peers, published, microphones>>
  BY DevicesListedDoes
<1>2. Current(p) /\ ~Stale(p)
  BY <1>1 DEF Sound, Current
<1>3. CurrentIs(p) /\ p # None
  BY <1>2 DEF Core, EachFits, HookNoneApart
<1>4. Held /\ session.client = p
  BY <1>1, <1>3 DEF CurrentIs
<1>5. Held' /\ Rest(p)
  BY <1>1, <1>4 DEF Held, MovesTo, IsOver
<1>6. session'.generation >= session.generation
  BY <1>1 DEF HookTypeOK, HookType
<1>7. StatusFits'
  BY <1>1, <1>5 DEF StatusFits, Held
<1>8. MicrophonesFit'
  <2>1. \A m : ~Owns(p, m)
    BY <1>1 DEF Owns
  <2> QED BY <1>1, <1>5, <2>1, OwnersStay DEF Core
<1>9. CASE operations[p].kind = "recover" /\ MovesTo(p, "camera")
           /\ session'.recovery = session.recovery
  <2>1. Current(p)' /\ ~Aside(p)'
    BY <1>1, <1>2, <1>9 DEF Current, Aside, Stale, MovesTo
  <2>2. CurrentIs(p)'
    BY <1>1, <1>3, <1>4, <1>9 DEF CurrentIs, MovesTo
  <2>3. \A q \in Operations : q # p /\ operations'[q] # None /\ operations[q].at \in {"session", "publish"} =>
          operations'[p].microphone # operations[q].microphone
    BY <1>2, <1>5, <1>6, <1>9, OthersBehind DEF MovesTo
  <2>4. OneCurrent' /\ EachFits'
    BY <1>1, <1>2, <1>5, <1>6, <2>1, <2>2, <2>3, MovesOn
  <2>5. RecoveryFits' /\ ClientFits'
    BY <1>1, <1>3, <1>4, <1>9, <2>1 DEF RecoveryFits, ClientFits, CurrentIs, MovesTo
  <2> QED BY <1>7, <1>8, <2>4, <2>5 DEF Core
<1>10. CASE /\ IsOver(p) /\ operations[p].kind # "recover"
            /\ session'.recovery = (IF session.recovery = p THEN None ELSE session.recovery)
  <2>1. ~Current(p)' /\ ~Aside(p)'
    BY <1>10 DEF IsOver, Current, Aside
  <2>2. OneCurrent' /\ EachFits'
    BY <1>1, <1>2, <1>5, <1>6, <2>1, MovesOn
  <2>3. session'.recovery = None
    BY <1>3, <1>10 DEF CurrentIs
  <2>4. RecoveryFits' /\ ClientFits'
    BY <1>1, <1>4, <1>10, <2>3 DEF RecoveryFits, ClientFits, Held, IsOver
  <2> QED BY <1>7, <1>8, <2>2, <2>4 DEF Core
<1> QED BY <1>1, <1>2, <1>9, <1>10

(* No operation of now is under way in a session that may be reconciled, unless *)
(* it is a join.                                                             *)
LEMMA MayRecover ==
  ASSUME HookNoneApart, HookTypeOK, Core, NEW p \in Operations, NEW at, Recovers(p, at),
         session.status \in {"connected", "reconnecting"}
  PROVE  /\ \A q \in Operations : ~Current(q)
         /\ session.client # None => Held /\ operations[session.client] = None
         /\ session.client = None => session.microphone \notin microphones
<1>1. \A q \in Operations : ~Current(q)
  <2> SUFFICES ASSUME NEW q \in Operations, Current(q) PROVE FALSE
    OBVIOUS
  <2>1. CurrentIs(q) /\ q # None
    BY DEF Core, EachFits, HookNoneApart
  <2>2. operations[q].kind = "recover"
    BY <2>1 DEF CurrentIs, Recovers
  <2> QED BY <2>1, <2>2 DEF CurrentIs, Recovers
<1>2. session.client # None => session.client \in Operations
  BY DEF HookTypeOK, HookType, Names
<1> QED BY <1>1, <1>2 DEF Core, StatusFits, ClientFits

LEMMA RecoversBehind ==
  ASSUME HookNoneApart, HookTypeOK, HookTypeOK', Grounded, Core, NEW p \in Operations, NEW at,
         Recovers(p, at), session.status \in {"connected", "reconnecting"},
         session'.microphone = session.microphone, session'.generation >= session.generation,
         \A q \in Operations : peers'[q] = "open" => peers[q] = "open",
         CurrentIs(p)'
  PROVE  OneCurrent' /\ EachFits' /\ Current(p)'
<1>1. /\ Rest(p) /\ operations'[p] # None /\ operations'[p].generation = session'.generation
      /\ operations'[p].microphone = session.microphone /\ operations[p] = None
  BY DEF Recovers
<1>2. Current(p)' /\ ~Aside(p)'
  BY <1>1 DEF Current, Aside, Stale
<1>3. \A q \in Operations : ~Current(q)
  BY MayRecover
<1>4. \A q \in Operations : q # p /\ operations'[q] # None /\ operations[q].at \in {"session", "publish"} =>
        operations[q].microphone # session.microphone
  BY <1>1, <1>3, OthersBehind
<1> QED BY <1>1, <1>2, <1>3, <1>4, MovesOn

LEMMA RebuildingCore ==
  ASSUME HookNoneApart, HookTypeOK, HookTypeOK', Grounded, Core, NEW p \in Operations,
         ReconcileRebuilding(p)
  PROVE  Core'
<1>1. /\ Recovers(p, "detaching") /\ Detach(session.client, p)
      /\ UNCHANGED <<microphones, astray>>
  BY RebuildingDoes
<1>2. session.client \in Names /\ p \in Names
  BY DEF HookTypeOK, HookType, Names
<1>3. /\ session'.status = "recovering" /\ session'.generation = session.generation + 1
      /\ session'.requested = session.requested /\ session'.client = session.client
      /\ session'.microphone = session.microphone /\ session'.recovery = p
      /\ \A q \in Operations : /\ peers'[q] = "open" => peers[q] = "open"
                               /\ peers'[q] = "none" <=> peers[q] = "none"
  BY <1>1, <1>2, DetachDoes DEF LetsGo
<1>4. CurrentIs(p)'
  BY <1>1, <1>3 DEF CurrentIs, Recovers
<1>5. session'.generation >= session.generation /\ session'.generation # session.generation
  BY <1>3 DEF HookTypeOK, HookType
<1>11. Rest(p) /\ Current(p)' /\ ~Aside(p)' /\ operations'[p].microphone = session.microphone
       /\ operations'[p].at = "detaching" /\ operations[p] = None
  BY <1>1 DEF Recovers, Current, Aside, Stale
<1>12. ASSUME NEW q \in Operations, Current(q)
       PROVE  /\ CurrentIs(q) /\ GroundedAt(q) /\ q # None /\ operations[q].kind # "recover"
              /\ operations[q].at # "devices" => session.microphone = None
              /\ operations[q].at # "detaching"
  <2>1. CurrentIs(q) /\ GroundedAt(q) /\ q # None
    BY <1>12 DEF Core, EachFits, Grounded, Current, HookNoneApart
  <2>2. operations[q].kind # "recover"
    BY <1>1, <2>1 DEF CurrentIs, Recovers
  <2> QED BY <2>1, <2>2 DEF CurrentIs, GroundedAt
<1>13. ASSUME NEW q \in Operations, q # p, operations'[q] # None
       PROVE  ~Current(q)' /\ StaleIs(q)'
  <2>1. operations'[q] = operations[q] /\ Aside(q)'
    BY <1>5, <1>11, <1>13, AsideStays DEF Rest
  <2>2. \A o \in Operations : Current(o)' => operations'[o].microphone = session.microphone
    <3> SUFFICES ASSUME NEW o \in Operations, Current(o)', o # p PROVE FALSE
      BY <1>11
    <3>1. operations'[o] = operations[o] /\ operations[o] # None
      BY <1>11 DEF Rest, Current
    <3> QED BY <1>5, <3>1, AsideStays DEF Aside, Current
  <2>3. operations[q].at \in {"camera", "screen"} => peers[q] # "open"
    <3>1. CASE Current(q)
      BY <1>12, <3>1 DEF GroundedAt
    <3>2. CASE Aside(q)
      BY <3>2 DEF Core, EachFits, StaleIs
    <3> QED BY <1>13, <2>1, <3>1, <3>2 DEF Current, Aside
  <2>4. operations[q].at \in {"session", "publish"} => operations[q].microphone # session.microphone
    <3>1. CASE Current(q)
      BY <1>12, <3>1 DEF GroundedAt
    <3>2. CASE Aside(q)
      BY <3>2 DEF Core, EachFits, StaleIs
    <3> QED BY <1>13, <2>1, <3>1, <3>2 DEF Current, Aside
  <2> QED BY <1>3, <2>1, <2>2, <2>3, <2>4 DEF StaleIs, Current, Aside
<1>6. OneCurrent' /\ EachFits' /\ Current(p)'
  <2>1. \A q \in Operations : Current(q)' => q = p
    BY <1>13 DEF Current
  <2>2. \A q \in Operations : Aside(q)' => StaleIs(q)'
    BY <1>11, <1>13 DEF Aside
  <2> QED BY <1>4, <1>11, <2>1, <2>2 DEF OneCurrent, EachFits
<1>7. StatusFits'
  BY <1>1, <1>3, <1>6 DEF StatusFits, Recovers
<1>8. MicrophonesFit'
  BY <1>1, <1>3, OwnersStay DEF Core, Recovers, Owns
<1>9. RecoveryFits'
  BY <1>1, <1>3, <1>6 DEF RecoveryFits, Recovers
<1>10. ClientFits'
  <2> SUFFICES ASSUME session.client # None
               PROVE  \/ operations'[session.client] = None /\ peers'[session.client] # "none"
                      \/ Current(session.client)'
                      \/ /\ operations'[session.client] # None
                         /\ operations'[session.client].at \notin {"leaving", "joining"}
    BY <1>3, <1>11 DEF ClientFits
  <2>1. session.client \in Operations
    BY <1>2 DEF Names
  <2>2. session.client # p => operations'[session.client] = operations[session.client]
    BY <1>11, <2>1 DEF Rest
  <2>3. Current(session.client) => operations[session.client].at \notin {"leaving", "joining"}
    <3> SUFFICES ASSUME Current(session.client) PROVE operations[session.client].at \notin {"leaving", "joining"}
      OBVIOUS
    <3>1. CurrentIs(session.client) /\ GroundedAt(session.client)
      BY <1>12, <2>1
    <3>2. operations[session.client].at # "leaving"
      <4>1. session.generation \in Nat /\ operations[session.client].generation = session.generation
        BY DEF Current, Stale, HookTypeOK, HookType
      <4> QED BY <3>1, <4>1 DEF GroundedAt
    <3> QED BY <3>1, <3>2 DEF CurrentIs
  <2>4. peers'[session.client] = "none" <=> peers[session.client] = "none"
    BY <1>3, <2>1
  <2> QED BY <1>11, <2>1, <2>2, <2>3, <2>4 DEF Core, ClientFits, Current
<1> QED BY <1>6, <1>7, <1>8, <1>9, <1>10 DEF Core

LEMMA RepairingCore ==
  ASSUME HookNoneApart, HookTypeOK, HookTypeOK', Grounded, Core, NEW p \in Operations,
         ReconcileRepairing(p)
  PROVE  Core'
<1>1. /\ Recovers(p, "repair") /\ session.client # None
      /\ session'.status = session.status /\ session'.generation = session.generation
      /\ session'.requested = session.requested /\ session'.client = session.client
      /\ session'.microphone = session.microphone /\ session'.recovery = p
      /\ session.status \in {"connected", "reconnecting"}
      /\ UNCHANGED <<peers, published, microphones, astray>>
  BY RepairingDoes
<1>2. Held /\ operations[session.client] = None
  BY <1>1, MayRecover
<1>3. CurrentIs(p)'
  BY <1>1, <1>2 DEF CurrentIs, Recovers
<1>4. session'.generation >= session.generation
  BY <1>1 DEF HookTypeOK, HookType
<1>5. OneCurrent' /\ EachFits' /\ Current(p)'
  BY <1>1, <1>3, <1>4, RecoversBehind
<1>6. StatusFits'
  BY <1>1, <1>2 DEF StatusFits, Held
<1>7. MicrophonesFit'
  BY <1>1, OwnersStay DEF Core, Recovers, Owns
<1>8. RecoveryFits'
  BY <1>1, <1>5 DEF RecoveryFits, Recovers
<1>9. ClientFits'
  BY <1>1, <1>2, <1>5 DEF ClientFits, Core, Recovers, Rest, HookTypeOK, HookType, Names, Held
<1> QED BY <1>5, <1>6, <1>7, <1>8, <1>9 DEF Core

(* In a repair the session has a client whose own operation is over.         *)
LEMMA InRepair ==
  ASSUME HookNoneApart, HookTypeOK, Grounded, Core, NEW p \in Operations, Current(p),
         operations[p].at = "repair"
  PROVE  /\ CurrentIs(p) /\ operations[p].kind = "recover" /\ session.recovery = p
         /\ session.client \in Operations \ {p} /\ operations[session.client] = None
         /\ Held /\ session.client = operations[p].from /\ session.client # None
<1>1. CurrentIs(p)
  BY DEF Core, EachFits
<1>2. GroundedAt(p)
  BY DEF Grounded, Current
<1>3. operations[p].kind = "recover"
  BY <1>2 DEF GroundedAt
<1>4. /\ session.recovery = p /\ session.status \in {"connected", "reconnecting"}
      /\ session.client = operations[p].from /\ session.client # None
  BY <1>1, <1>3 DEF CurrentIs
<1>5. Held
  BY <1>4 DEF Core, StatusFits
<1>6. session.client \in Operations
  BY <1>4 DEF HookTypeOK, HookType, Names
<1>7. session.client # p
  BY <1>2, <1>5 DEF GroundedAt, Before, Held
<1>8. operations[session.client] = None
  <2>1. ~Current(session.client)
    BY <1>6, <1>7 DEF Core, OneCurrent
  <2> QED BY <1>4, <2>1, ClientOver
<1> QED BY <1>1, <1>3, <1>4, <1>5, <1>6, <1>7, <1>8

LEMMA RepairedCore ==
  ASSUME HookNoneApart, HookTypeOK, HookTypeOK', Grounded, Core, NEW p \in Operations, Repaired(p)
  PROVE  Core'
<1>1. /\ IsOver(p) /\ operations[p].at = "repair" /\ ~Stale(p)
      /\ session'.status = "connected" /\ session'.generation = session.generation
      /\ session'.requested = session.requested /\ session'.client = session.client
      /\ session'.microphone = session.microphone
      /\ session'.recovery = (IF session.recovery = p THEN None ELSE session.recovery)
      /\ UNCHANGED <<peers, published, microphones, astray>>
  BY RepairedDoes
<1>2. Current(p)
  BY <1>1 DEF Current, IsOver
<1>3. /\ CurrentIs(p) /\ session.recovery = p
      /\ session.client \in Operations \ {p} /\ operations[session.client] = None
      /\ Held /\ session.client # None
  BY <1>1, <1>2, InRepair
<1>4. session'.generation >= session.generation
  BY <1>1 DEF HookTypeOK, HookType
<1>5. OneCurrent' /\ EachFits'
  BY <1>1, <1>2, <1>4, MovesOn DEF IsOver, Current, Aside
<1>6. StatusFits'
  BY <1>1, <1>3 DEF StatusFits, Held
<1>7. MicrophonesFit'
  BY <1>1, OwnersStay DEF Core, IsOver, Owns
<1>8. RecoveryFits' /\ ClientFits'
  BY <1>1, <1>3 DEF RecoveryFits, ClientFits, IsOver, Rest, Held
<1> QED BY <1>5, <1>6, <1>7, <1>8 DEF Core

LEMMA RepairFailsCore ==
  ASSUME HookNoneApart, HookTypeOK, HookTypeOK', Grounded, Core, NEW p \in Operations,
         RepairFails(p), Sound'
  PROVE  Core'
<1>1. /\ operations[p] # None /\ operations[p].at = "repair" /\ operations[p].from \in Names
      /\ Rest(p) /\ operations'[p] # None /\ operations'[p].kind = operations[p].kind
      /\ operations'[p].at = "detaching" /\ operations'[p].generation = session'.generation
      /\ operations'[p].microphone = operations[p].microphone
      /\ operations'[p].from = operations[p].from
      /\ Detach(operations[p].from, session.recovery) /\ session.recovery \in Names
      /\ astray' = astray \cup (IF Stale(p) THEN {"revived"} ELSE {})
      /\ UNCHANGED microphones
  BY RepairFailsDoes
<1>2. Current(p)
  BY <1>1 DEF Current, Sound
<1>3. /\ CurrentIs(p) /\ operations[p].kind = "recover" /\ session.recovery = p
      /\ session.client \in Operations \ {p} /\ operations[session.client] = None
      /\ Held /\ session.client = operations[p].from
  BY <1>1, <1>2, InRepair
<1>4. /\ session'.status = "recovering" /\ session'.generation = session.generation + 1
      /\ session'.requested = session.requested /\ session'.client = session.client
      /\ session'.microphone = session.microphone /\ session'.recovery = p
      /\ \A q \in Operations : /\ peers'[q] = "open" => peers[q] = "open"
                               /\ peers'[q] = "none" <=> peers[q] = "none"
  BY <1>1, <1>3, DetachDoes DEF LetsGo
<1>5. Current(p)' /\ ~Aside(p)'
  BY <1>1 DEF Current, Aside, Stale
<1>6. CurrentIs(p)'
  BY <1>1, <1>3, <1>4 DEF CurrentIs
<1>7. session'.generation >= session.generation
  BY <1>4 DEF HookTypeOK, HookType
<1>8. \A q \in Operations : q # p /\ operations'[q] # None /\ operations[q].at \in {"session", "publish"} =>
        operations'[p].microphone # operations[q].microphone
  BY <1>1, <1>2, <1>7, OthersBehind
<1>9. OneCurrent' /\ EachFits'
  BY <1>1, <1>2, <1>4, <1>5, <1>6, <1>7, <1>8, MovesOn
<1>10. StatusFits'
  BY <1>1, <1>3, <1>4, <1>5 DEF StatusFits
<1>11. MicrophonesFit'
  <2>1. \A m : ~Owns(p, m)
    BY <1>1 DEF Owns
  <2> QED BY <1>1, <1>4, <2>1, OwnersStay DEF Core
<1>12. RecoveryFits' /\ ClientFits'
  BY <1>1, <1>3, <1>4, <1>5 DEF RecoveryFits, ClientFits, Rest, Held
<1> QED BY <1>9, <1>10, <1>11, <1>12 DEF Core

LEMMA RecoveryStartsCore ==
  ASSUME HookNoneApart, HookTypeOK, HookTypeOK', Grounded, Core, NEW p \in Operations,
         RecoveryStarts(p), Sound'
  PROVE  Core'
<1>1. PICK kept : kept <=> operations[p].microphone \in microphones
  OBVIOUS
<1>2. /\ operations[p] # None /\ operations[p].at = "detaching"
      /\ Rest(p) /\ operations'[p] # None /\ operations'[p].kind = operations[p].kind
      /\ operations'[p].generation = operations[p].generation
      /\ kept => operations'[p].at = "session" /\ operations'[p].microphone = operations[p].microphone
      /\ ~kept => operations'[p].at = "microphone" /\ operations'[p].microphone = None
      /\ session'.status = "recovering" /\ session'.generation = session.generation
      /\ session'.requested = session.requested /\ session'.client = p
      /\ session'.microphone = session.microphone /\ session'.recovery = session.recovery
      /\ astray' = astray \cup (IF Stale(p) THEN {"revived"} ELSE {})
      /\ \A q \in Operations : peers'[q] = "open" => peers[q] = "open"
      /\ UNCHANGED microphones
  BY <1>1, RecoveryStartsDoes, ClosedDoes
<1>3. Current(p) /\ ~Stale(p)
  BY <1>2 DEF Current, Sound
<1>4. CurrentIs(p) /\ GroundedAt(p)
  BY <1>3 DEF Core, EachFits, Grounded, Current
<1>5. /\ operations[p].kind = "recover" /\ operations[p].microphone = session.microphone
      /\ session.recovery = p /\ ~session.requested
  BY <1>2, <1>4 DEF GroundedAt, CurrentIs
<1>6. Current(p)' /\ ~Aside(p)'
  BY <1>2, <1>3 DEF Current, Aside, Stale
<1>7. CurrentIs(p)'
  BY <1>1, <1>2, <1>5 DEF CurrentIs
<1>8. session'.generation >= session.generation
  BY <1>2 DEF HookTypeOK, HookType
<1>9. \A q \in Operations : q # p /\ operations'[q] # None /\ operations[q].at \in {"session", "publish"} =>
        operations'[p].microphone # operations[q].microphone
  <2>1. \A q \in Operations : q # p /\ operations'[q] # None /\ operations[q].at \in {"session", "publish"} =>
          operations[p].microphone # operations[q].microphone
    BY <1>2, <1>3, <1>8, OthersBehind
  <2>2. \A q \in Operations : q # p /\ operations'[q] # None /\ operations[q].at \in {"session", "publish"} =>
          operations[q].microphone # None
    BY <1>2, OthersHold
  <2> QED BY <1>2, <2>1, <2>2
<1>10. OneCurrent' /\ EachFits'
  BY <1>2, <1>3, <1>6, <1>7, <1>8, <1>9, MovesOn
<1>11. StatusFits'
  BY <1>2, <1>5, <1>6 DEF StatusFits
<1>12. MicrophonesFit'
  BY <1>1, <1>2, <1>5, OwnersStay DEF Core, Owns
<1>13. RecoveryFits' /\ ClientFits'
  BY <1>2, <1>5, <1>6 DEF RecoveryFits, ClientFits
<1> QED BY <1>10, <1>11, <1>12, <1>13 DEF Core

LEMMA RestoresCore ==
  ASSUME HookNoneApart, HookTypeOK, HookTypeOK', Grounded, Core, NEW p \in Operations, NEW s \in Captures,
         CaptureRestored(p, s) \/ CaptureLost(p, s) \/ CaptureUnwanted(p, s), Sound'
  PROVE  Core'
<1>1. /\ operations[p] # None /\ operations[p].at = s
      /\ UNCHANGED <<peers, published, microphones>>
      /\ \/ s = "camera" /\ MovesTo(p, "screen") /\ UNCHANGED <<session, astray>>
         \/ /\ s # "camera" /\ IsOver(p)
            /\ session'.status = "connected" /\ session'.generation = session.generation
            /\ session'.requested = session.requested /\ session'.client = session.client
            /\ session'.microphone = session.microphone
            /\ session'.recovery = (IF session.recovery = p THEN None ELSE session.recovery)
            /\ astray' = astray \cup (IF Stale(p) THEN {"revived"} ELSE {})
  BY AfterCaptureDoes
<1>2. s \in {"camera", "screen"} => \A m : ~Owns(p, m)
  BY <1>1 DEF Owns
<1>3. CASE s = "camera" /\ MovesTo(p, "screen") /\ UNCHANGED <<session, astray>>
  <2>1. MicrophonesFit'
    BY <1>1, <1>2, <1>3, OwnersStay DEF Core, MovesTo
  <2>2. CASE Aside(p)
    <3>1. ~Current(p)'
      BY <1>3, <2>2 DEF Current, Aside, Stale, MovesTo
    <3>2. StaleIs(p)'
      <4>1. \A q \in Operations : Current(q)' => Current(q) /\ operations'[q] = operations[q]
        BY <1>3, <2>2 DEF Current, Aside, Stale, MovesTo, Rest
      <4> QED BY <1>1, <1>3, <2>2, <4>1 DEF Core, EachFits, StaleIs, MovesTo
    <3> QED BY <1>1, <1>3, <2>1, <2>2, <3>1, <3>2, Behind DEF HookStays, MovesTo
  <2>3. CASE Current(p)
    <3>1. CurrentIs(p) /\ GroundedAt(p) /\ p # None
      BY <2>3 DEF Core, EachFits, Grounded, Current, HookNoneApart
    <3>2. operations[p].kind = "recover" /\ session.client = p /\ session.recovery = p
          /\ session.status \in {"connected", "reconnecting"}
      BY <1>1, <1>3, <3>1 DEF CurrentIs, GroundedAt
    <3>3. Current(p)' /\ ~Aside(p)'
      BY <1>3, <2>3 DEF Current, Aside, Stale, MovesTo
    <3>4. CurrentIs(p)'
      BY <1>1, <1>3, <3>1, <3>2 DEF CurrentIs, MovesTo
    <3>5. session'.generation >= session.generation
      BY <1>3 DEF HookTypeOK, HookType
    <3>6. \A q \in Operations : q # p /\ operations'[q] # None /\ operations[q].at \in {"session", "publish"} =>
            operations'[p].microphone # operations[q].microphone
      BY <1>3, <2>3, <3>5, OthersBehind DEF MovesTo
    <3>7. OneCurrent' /\ EachFits'
      BY <1>1, <1>3, <2>3, <3>3, <3>4, <3>5, <3>6, MovesOn DEF MovesTo
    <3>8. StatusFits'
      BY <1>1, <1>3, <3>2 DEF Core, StatusFits, Held
    <3>9. RecoveryFits' /\ ClientFits'
      BY <1>3, <3>2, <3>3 DEF RecoveryFits, ClientFits, MovesTo
    <3> QED BY <2>1, <3>7, <3>8, <3>9 DEF Core
  <2> QED BY <1>1, <2>2, <2>3 DEF Current, Aside
<1>4. CASE /\ s # "camera" /\ IsOver(p)
           /\ session'.status = "connected" /\ session'.generation = session.generation
           /\ session'.requested = session.requested /\ session'.client = session.client
           /\ session'.microphone = session.microphone
           /\ session'.recovery = (IF session.recovery = p THEN None ELSE session.recovery)
           /\ astray' = astray \cup (IF Stale(p) THEN {"revived"} ELSE {})
  <2>1. Current(p)
    BY <1>1, <1>4 DEF Current, Sound
  <2>2. CurrentIs(p) /\ GroundedAt(p) /\ p # None
    BY <2>1 DEF Core, EachFits, Grounded, Current, HookNoneApart
  <2>3. s = "screen"
    BY <1>4, CapturesAreTwo
  <2>4. operations[p].kind = "recover" /\ session.client = p /\ session.recovery = p
        /\ session.status \in {"connected", "reconnecting"}
    BY <1>1, <2>2, <2>3 DEF CurrentIs, GroundedAt
  <2>5. Held
    BY <2>2, <2>4 DEF Core, StatusFits
  <2>6. ~Current(p)' /\ ~Aside(p)'
    BY <1>4 DEF IsOver, Current, Aside
  <2>7. session'.generation >= session.generation
    BY <1>4 DEF HookTypeOK, HookType
  <2>8. OneCurrent' /\ EachFits'
    BY <1>1, <1>4, <2>1, <2>6, <2>7, MovesOn DEF IsOver
  <2>9. StatusFits'
    BY <1>1, <1>4, <2>5 DEF StatusFits, Held
  <2>10. MicrophonesFit'
    BY <1>1, <1>2, <1>4, <2>3, OwnersStay DEF Core, IsOver
  <2>11. RecoveryFits' /\ ClientFits'
    BY <1>1, <1>4, <2>4, <2>5 DEF RecoveryFits, ClientFits, IsOver, Held
  <2> QED BY <2>8, <2>9, <2>10, <2>11 DEF Core
<1> QED BY <1>1, <1>3, <1>4

LEMMA AstrayGrows == ASSUME [Next]_vars PROVE astray \subseteq astray'
<1>1. CASE \E p \in Operations, r \in Rooms : Join(p, r) \/ SwitchCall(p, r)
  BY <1>1 DEF Join, SwitchCall
<1>2. CASE Leave \/ PeerFails \/ PeerComesBack \/ Waiting \/ UNCHANGED vars
  BY <1>2 DEF Leave, PeerFails, PeerComesBack, Waiting, vars
<1>3. CASE JoinGranted \/ JoinRefused \/ LeaveHandled \/ LeaveLost
  BY <1>3 DEF JoinGranted, JoinRefused, LeaveHandled, LeaveEnds, LeaveLost, Because
<1>4. ASSUME NEW p \in Operations,
             \/ JoinTimesOut(p) \/ LeaveTimesOut(p) \/ MicrophoneGranted(p) \/ SessionCreated(p) \/ Published(p)
             \/ PublishedTooLate(p)
      PROVE  astray \subseteq astray'
  BY <1>4 DEF JoinTimesOut, LeaveTimesOut, LeaveEnds, Because, MicrophoneGranted, SessionCreated, Published, PublishedTooLate
<1>5. ASSUME NEW p \in Operations, StartFails(p) \/ DevicesListed(p) PROVE astray \subseteq astray'
  BY <1>5 DEF StartFails, DevicesListed, Because
<1>6. ASSUME NEW p \in Operations,
             \/ ReconcileRebuilding(p) \/ ReconcileRepairing(p) \/ Repaired(p) \/ RepairFails(p)
             \/ RecoveryStarts(p)
      PROVE  astray \subseteq astray'
  BY <1>6 DEF ReconcileRebuilding, ReconcileRepairing, Repaired, RepairFails, RecoveryStarts, Because
<1>7. ASSUME NEW p \in Operations, NEW s \in Captures,
             CaptureRestored(p, s) \/ CaptureLost(p, s) \/ CaptureUnwanted(p, s)
      PROVE  astray \subseteq astray'
  <2>1. AfterCapture(p, s)
    BY <1>7 DEF CaptureRestored, CaptureLost, CaptureUnwanted
  <2> QED BY <2>1 DEF AfterCapture, Because
<1>8. CASE CapturesAct
  BY <1>8, CapturesDo
<1> QED BY <1>1, <1>2, <1>3, <1>4, <1>5, <1>6, <1>7, <1>8 DEF Next, CapturesAct

LEMMA CoreStep ==
  ASSUME HookNoneApart, HookTypeOK, HookTypeOK', Grounded, Core, [Next]_vars, Sound'
  PROVE  Core'
<1>1. CASE UNCHANGED vars
  BY <1>1, CoreUnchanged DEF vars, clients
<1>2. CASE CapturesAct
  BY <1>2, CapturesDo, CoreUnchanged
<1>3. CASE Next
  BY <1>1, <1>2, <1>3, UserCore, AnswersCore, MicrophoneGrantedCore, SessionCreatedCore,
     PublishedCore, PublishedTooLateCore, StartFailsCore, DevicesListedCore, RebuildingCore,
     RepairingCore, RepairedCore, RepairFailsCore, RecoveryStartsCore, RestoresCore
     DEF Next, Waiting, UserActs, AnswersAct, CapturesAct
<1> QED BY <1>1, <1>3

-----------------------------------------------------------------------------
(* The commands on the socket and the call the server has the connection in:   *)
(* every join is waited for; a session that is idle has left, or its leave is  *)
(* the last command, or that leave was lost; one that joins has its join last  *)
(* and left before; one that has joined has nothing on the way, unless it is   *)
(* the rebuild of a join that was still under way.                           *)
Left == lease = None \/ "unleft" \in astray
ClearedTo(n) == IF n = 0 THEN Left ELSE commands[n].what = "leave"
Misplaced == "misplaced" \in astray
Overtakes(q) == Aside(q) /\ operations[q].kind # "recover" /\ operations[q].at # "leaving"
Overtaken == \E q \in Operations : Overtakes(q)
JoinsIn(queue) ==
  \A i \in 1..Len(queue) : queue[i].what = "join" =>
    /\ queue[i].by \in Operations /\ Doing(queue[i].by, "joining")
    /\ operations[queue[i].by].room = queue[i].room
    /\ \A j \in 1..Len(queue) : queue[j].what = "join" /\ queue[j].by = queue[i].by => i = j
JoinsFit ==
  \A i \in 1..Len(commands) : commands[i].what = "join" =>
    /\ commands[i].by \in Operations /\ Doing(commands[i].by, "joining")
    /\ operations[commands[i].by].room = commands[i].room
    /\ \A j \in 1..Len(commands) :
         commands[j].what = "join" /\ commands[j].by = commands[i].by => i = j
LeaseFits ==
  /\ session.status = "idle" => ClearedTo(Len(commands))
  /\ session.status \in {"connected", "reconnecting", "recovering"} =>
       (commands = <<>> /\ (lease = session.shown \/ Misplaced)) \/ Overtaken
Asked(p) ==
  LET o == operations[p]
      n == Len(commands)
  IN /\ o.at = "joining" =>
          /\ n # 0 /\ commands[n].what = "join" /\ commands[n].by = p
          /\ ClearedTo(n - 1)
     /\ session.status = "joining" /\ o.at # "joining" => commands = <<>> /\ lease = o.room
     /\ o.kind = "join" => session.shown = o.room \/ Misplaced
Leased == JoinsFit /\ LeaseFits /\ \A p \in Operations : Current(p) => Asked(p)

LEMMA LeasedInit == ASSUME Init PROVE Leased
BY DEF Init, Leased, JoinsFit, LeaseFits, Asked, ClearedTo, Left, Current

LEMMA OvertakenStays ==
  ASSUME HookTypeOK, HookTypeOK', Grounded, Overtaken, NEW p \in Operations, Rest(p),
         session'.generation >= session.generation, Overtakes(p) => Overtakes(p)'
  PROVE  Overtaken'
<1>1. PICK q \in Operations : Overtakes(q)
  BY DEF Overtaken
<1>2. CASE q = p
  BY <1>1, <1>2 DEF Overtaken
<1>3. CASE q # p
  <2>1. operations'[q] = operations[q] /\ operations[q] # None
    BY <1>1, <1>3 DEF Rest, Overtakes, Aside
  <2>2. Aside(q)'
    BY <1>1, <2>1, AsideStays DEF Overtakes
  <2> QED BY <1>1, <2>1, <2>2 DEF Overtaken, Overtakes
<1> QED BY <1>2, <1>3

(* What the commands become: one is added, or the first is done.             *)
LEMMA Adds ==
  ASSUME commands \in Seq(CommandType), NEW c \in CommandType, commands' = Append(commands, c)
  PROVE  /\ Len(commands) \in Nat /\ Len(commands') = Len(commands) + 1
         /\ \A i \in 1..Len(commands) : commands'[i] = commands[i]
         /\ commands'[Len(commands) + 1] = c
OBVIOUS

LEMMA Does ==
  ASSUME commands \in Seq(CommandType), commands # <<>>, commands' = Tail(commands)
  PROVE  /\ Len(commands) \in Nat \ {0} /\ Len(commands') = Len(commands) - 1
         /\ Head1 = commands[1]
         /\ \A i \in 1..Len(commands') : commands'[i] = commands[i + 1]
BY DEF Head1

LEMMA LeaveAdds ==
  ASSUME commands \in Seq(CommandType), NEW p \in Names,
         commands' = Append(commands, [what |-> "leave", by |-> p, room |-> None])
  PROVE  /\ ClearedTo(Len(commands))'
         /\ JoinsFit /\ (\A q \in Operations : Doing(q, "joining") => operations'[q] = operations[q])
              => JoinsFit'
<1>1. PICK c : c = [what |-> "leave", by |-> p, room |-> None]
  OBVIOUS
<1>2. c \in CommandType /\ c.what = "leave"
  BY <1>1 DEF CommandType
<1>3. /\ Len(commands) \in Nat /\ Len(commands') = Len(commands) + 1
      /\ \A i \in 1..Len(commands) : commands'[i] = commands[i]
      /\ commands'[Len(commands) + 1] = c
  BY <1>1, <1>2, Adds
<1>4. ClearedTo(Len(commands))'
  BY <1>2, <1>3 DEF ClearedTo
<1>5. ASSUME JoinsFit, \A q \in Operations : Doing(q, "joining") => operations'[q] = operations[q]
      PROVE  JoinsFit'
  <2>1. \A i \in 1..Len(commands') : commands'[i].what = "join" =>
          i \in 1..Len(commands) /\ commands'[i] = commands[i]
    BY <1>2, <1>3
  <2>2. \A q \in Operations : Doing(q, "joining") => Doing(q, "joining")'
    BY <1>5 DEF Doing
  <2> QED BY <1>5, <2>1, <2>2 DEF JoinsFit
<1> QED BY <1>4, <1>5

LEMMA JoinsSame ==
  ASSUME UNCHANGED commands, \A q \in Operations : Doing(q, "joining") => operations'[q] = operations[q]
  PROVE  JoinsFit => JoinsFit'
BY DEF JoinsFit, Doing

LEMMA FirstDone ==
  ASSUME commands \in Seq(CommandType), commands # <<>>, commands' = Tail(commands),
         Head1.what = "leave" => Left'
  PROVE  /\ \A n \in 1..Len(commands) : ClearedTo(n) => ClearedTo(n - 1)'
         /\ JoinsFit /\ (\A q \in Operations :
              Doing(q, "joining") /\ ~(Head1.what = "join" /\ q = Head1.by) => operations'[q] = operations[q])
              => JoinsFit'
<1>1. /\ Len(commands) \in Nat \ {0} /\ Len(commands') = Len(commands) - 1
      /\ Head1 = commands[1]
      /\ \A i \in 1..Len(commands') : commands'[i] = commands[i + 1]
  BY Does
<1>2. ASSUME NEW n \in 1..Len(commands), ClearedTo(n) PROVE ClearedTo(n - 1)'
  <2>1. CASE n = 1
    BY <1>1, <1>2, <2>1 DEF ClearedTo
  <2>2. CASE n # 1
    <3>1. n - 1 \in 1..Len(commands') /\ n - 1 # 0 /\ (n - 1) + 1 = n /\ n # 0
      BY <1>1, <2>2
    <3> QED BY <1>1, <1>2, <3>1 DEF ClearedTo
  <2> QED BY <2>1, <2>2
<1>3. ASSUME JoinsFit,
             \A q \in Operations : Doing(q, "joining") /\ ~(Head1.what = "join" /\ q = Head1.by)
               => operations'[q] = operations[q]
      PROVE  JoinsFit'
  <2> SUFFICES ASSUME NEW i \in 1..Len(commands'), commands'[i].what = "join"
               PROVE  /\ commands'[i].by \in Operations /\ operations'[commands'[i].by] # None
                      /\ operations'[commands'[i].by].at = "joining"
                      /\ operations'[commands'[i].by].room = commands'[i].room
                      /\ \A j \in 1..Len(commands') :
                           commands'[j].what = "join" /\ commands'[j].by = commands'[i].by => i = j
    BY DEF JoinsFit, Doing
  <2>1. \A j \in 1..Len(commands') : j + 1 \in 1..Len(commands) /\ j + 1 # 1
    BY <1>1
  <2>2. 1 \in 1..Len(commands)
    BY <1>1
  <2>3. PICK q : q = commands'[i].by
    OBVIOUS
  <2>4. q \in Operations /\ Doing(q, "joining") /\ operations[q].room = commands'[i].room
    BY <1>1, <1>3, <2>1, <2>3 DEF JoinsFit
  <2>5. ~(Head1.what = "join" /\ q = Head1.by)
    BY <1>1, <1>3, <2>1, <2>2, <2>3 DEF JoinsFit
  <2>6. operations'[q] = operations[q]
    BY <1>3, <2>4, <2>5
  <2>7. \A j \in 1..Len(commands') :
          commands'[j].what = "join" /\ commands'[j].by = q => j + 1 = i + 1
    BY <1>1, <1>3, <2>1, <2>3 DEF JoinsFit
  <2>8. \A j \in 1..Len(commands') :
          commands'[j].what = "join" /\ commands'[j].by = q => i = j
    BY <2>7
  <2> QED BY <2>3, <2>4, <2>6, <2>8 DEF Doing
<1> QED BY <1>2, <1>3

(* A join of p is added to a queue; none of p was on the way. *)
LEMMA JoinAdds ==
  ASSUME NEW queue \in Seq(CommandType), NEW p \in Operations, NEW r \in Rooms \cup {None},
         commands' = Append(queue, [what |-> "join", by |-> p, room |-> r]),
         Rest(p), ~Doing(p, "joining"), operations'[p] # None, operations'[p].at = "joining",
         operations'[p].room = r, JoinsIn(queue),
         IF Len(queue) = 0 THEN Left' ELSE queue[Len(queue)].what = "leave"
  PROVE  /\ JoinsFit' /\ Len(commands') = Len(queue) + 1 /\ Len(commands') # 0
         /\ commands'[Len(commands')].what = "join" /\ commands'[Len(commands')].by = p
         /\ \A n : n = Len(commands') - 1 => ClearedTo(n)'
<1>1. PICK c : c = [what |-> "join", by |-> p, room |-> r]
  OBVIOUS
<1>2. c \in CommandType /\ c.what = "join" /\ c.by = p /\ c.room = r
  BY <1>1 DEF CommandType, Names
<1>3. /\ Len(queue) \in Nat /\ Len(commands') = Len(queue) + 1
      /\ \A i \in 1..Len(queue) : commands'[i] = queue[i]
      /\ commands'[Len(queue) + 1] = c
  BY <1>1, <1>2
<1>4. \A i \in 1..Len(commands') :
        \/ i \in 1..Len(queue) /\ commands'[i] = queue[i] /\ i # Len(commands')
        \/ i = Len(commands') /\ commands'[i] = c
  BY <1>3
<1>5. \A i \in 1..Len(queue) : queue[i].what = "join" => queue[i].by # p
  BY DEF JoinsIn
<1>6. \A q \in Operations : Doing(q, "joining") =>
        q # p /\ operations'[q] = operations[q] /\ Doing(q, "joining")'
  BY DEF Rest, Doing
<1>7. Doing(p, "joining")'
  BY DEF Doing
<1>8. JoinsFit'
  <2> SUFFICES ASSUME NEW i \in 1..Len(commands'), commands'[i].what = "join"
               PROVE  /\ commands'[i].by \in Operations /\ operations'[commands'[i].by] # None
                      /\ operations'[commands'[i].by].at = "joining"
                      /\ operations'[commands'[i].by].room = commands'[i].room
                      /\ \A j \in 1..Len(commands') :
                           commands'[j].what = "join" /\ commands'[j].by = commands'[i].by => i = j
    BY DEF JoinsFit, Doing
  <2>1. CASE i \in 1..Len(queue) /\ commands'[i] = queue[i]
    BY <1>2, <1>4, <1>5, <1>6, <2>1 DEF JoinsIn, Doing
  <2>2. CASE i = Len(commands') /\ commands'[i] = c
    BY <1>2, <1>4, <1>5, <1>7, <2>2 DEF Doing
  <2> QED BY <1>4, <2>1, <2>2
<1>9. ASSUME NEW n, n = Len(commands') - 1
      PROVE  ClearedTo(n)'
  <2>1. n = Len(queue)
    BY <1>3, <1>9
  <2>2. Len(queue) # 0 => commands'[Len(queue)] = queue[Len(queue)]
    BY <1>3
  <2> QED BY <1>9, <2>1, <2>2 DEF ClearedTo
<1> QED BY <1>2, <1>3, <1>8, <1>9

InCall == {"connected", "reconnecting", "recovering"}

LEMMA IdleLeased ==
  ASSUME Core', session'.status = "idle", JoinsFit', ClearedTo(Len(commands))'
  PROVE  Leased'
<1>1. \A q \in Operations : ~Current(q)'
  BY DEF Core, EachFits, CurrentIs
<1> QED BY <1>1 DEF Leased, LeaseFits

LEMMA InCallLeased ==
  ASSUME Grounded', Core', session'.status \in InCall, JoinsFit',
         (commands' = <<>> /\ (lease' = session'.shown \/ Misplaced')) \/ Overtaken'
  PROVE  Leased'
<1>1. JoinsFit' /\ LeaseFits'
  BY DEF LeaseFits, InCall
<1>2. ASSUME NEW q \in Operations, Current(q)' PROVE Asked(q)'
  <2>1. CurrentIs(q)' /\ GroundedAt(q)'
    BY <1>2 DEF Core, EachFits, Grounded, Current
  <2>2. operations'[q].kind = "recover"
    BY <2>1 DEF CurrentIs, InCall
  <2>3. operations'[q].at # "joining"
    BY <2>1, <2>2 DEF GroundedAt
  <2> QED BY <2>2, <2>3 DEF Asked, InCall
<1> QED BY <1>1, <1>2 DEF Leased

LEMMA JoiningLeased ==
  ASSUME Core', session'.status = "joining", JoinsFit', NEW p \in Operations, Current(p)', Asked(p)'
  PROVE  Leased'
BY DEF Core, OneCurrent, Leased, LeaseFits

LEMMA MovesLeased ==
  ASSUME Leased, NEW p \in Operations, Rest(p), operations[p] # None, operations'[p] # None,
         operations'[p].kind = operations[p].kind, operations'[p].room = operations[p].room,
         operations'[p].generation = operations[p].generation,
         operations[p].at # "joining", operations'[p].at \notin {"leaving", "joining"},
         session'.status = session.status, session'.generation = session.generation,
         session'.shown = session.shown, UNCHANGED <<commands, lease>>, astray \subseteq astray'
  PROVE  Leased'
<1>1. JoinsFit'
  BY JoinsSame DEF Leased, Rest, Doing
<1>2. LeaseFits'
  <2>1. Overtaken => Overtaken'
    BY DEF Overtaken, Overtakes, Aside, Stale, Rest
  <2> QED BY <2>1 DEF Leased, LeaseFits, ClearedTo, Left, Misplaced
<1>3. ASSUME NEW q \in Operations, Current(q)' PROVE Asked(q)'
  <2>1. Current(q)
    BY <1>3 DEF Current, Stale, Rest
  <2>2. Asked(q)
    BY <2>1 DEF Leased
  <2> QED BY <2>2 DEF Asked, ClearedTo, Left, Misplaced, Rest
<1> QED BY <1>1, <1>2, <1>3 DEF Leased

LEMMA LeasedUnchanged ==
  ASSUME Leased, UNCHANGED <<session, operations, commands, lease>>, astray \subseteq astray'
  PROVE  Leased'
<1>1. Overtaken => Overtaken'
  BY DEF Overtaken, Overtakes, Aside, Stale
<1> QED BY <1>1 DEF Leased, JoinsFit, LeaseFits, Asked, ClearedTo, Left, Misplaced, Current, Stale, Doing

(* The first command, when it is a join.                                     *)
LEMMA JoinWaits ==
  ASSUME HookNoneApart, HookTypeOK, JoinsFit, commands # <<>>, Head1.what = "join"
  PROVE  /\ Waits("joining") /\ Head1.by \in Operations
         /\ Head1.room = operations[Head1.by].room
<1>1. commands \in Seq(CommandType)
  BY DEF HookTypeOK
<1>2. 1 \in 1..Len(commands) /\ Head1 = commands[1]
  BY <1>1 DEF Head1
<1>3. /\ Head1.by \in Operations /\ Doing(Head1.by, "joining")
      /\ Head1.room = operations[Head1.by].room
  BY <1>2 DEF JoinsFit
<1> QED BY <1>3 DEF Waits, HookNoneApart

LEMMA OnlyJoin ==
  ASSUME HookNoneApart, HookTypeOK, Leased, commands # <<>>, Head1.what = "join",
         NEW p \in Operations, p = Head1.by, Current(p)
  PROVE  Len(commands) = 1 /\ Left /\ Tail(commands) = <<>>
<1>1. commands \in Seq(CommandType) /\ operations[p].at = "joining"
  BY JoinWaits DEF HookTypeOK, Waits, Doing, Leased
<1>2. /\ Len(commands) # 0 /\ commands[Len(commands)].what = "join"
      /\ commands[Len(commands)].by = p /\ ClearedTo(Len(commands) - 1)
  BY <1>1 DEF Leased, Asked
<1>3. /\ Len(commands) \in 1..Len(commands) /\ 1 \in 1..Len(commands) /\ Head1 = commands[1]
  BY <1>1, <1>2 DEF Head1
<1>4. Len(commands) = 1
  BY <1>2, <1>3 DEF Leased, JoinsFit
<1>5. Tail(commands) = <<>>
  <2>1. Tail(commands) \in Seq(CommandType) /\ Len(Tail(commands)) = 0
    BY <1>1, <1>4
  <2> QED BY <2>1, EmptySeq
<1> QED BY <1>2, <1>4, <1>5 DEF ClearedTo

LEMMA UserLeased ==
  ASSUME HookNoneApart, HookTypeOK, HookTypeOK', Grounded', Core, Core', Leased, UserActs
  PROVE  Leased'
<1>0. commands \in Seq(CommandType) /\ None \in Names
  BY DEF HookTypeOK, Names
<1>1. ASSUME NEW p \in Operations, NEW r \in Rooms, Join(p, r) PROVE Leased'
  <2>1. /\ operations[p] = None /\ session.status = "idle" /\ Rest(p)
        /\ operations'[p] # None /\ operations'[p].kind = "join" /\ operations'[p].at = "joining"
        /\ operations'[p].generation = session'.generation /\ operations'[p].room = r
        /\ session'.status = "joining" /\ session'.shown = r
        /\ commands' = Append(commands, [what |-> "join", by |-> p, room |-> r])
        /\ UNCHANGED <<lease, astray>>
    BY <1>1, JoinDoes
  <2>2. JoinsIn(commands) /\ IF Len(commands) = 0 THEN Left' ELSE commands[Len(commands)].what = "leave"
    BY <2>1 DEF Leased, LeaseFits, ClearedTo, Left, JoinsFit, JoinsIn
  <2>3. /\ JoinsFit' /\ Len(commands') # 0
        /\ commands'[Len(commands')].what = "join" /\ commands'[Len(commands')].by = p
        /\ \A n : n = Len(commands') - 1 => ClearedTo(n)'
    BY <1>0, <2>1, <2>2, JoinAdds DEF Doing
  <2>5. Current(p)'
    BY <2>1 DEF Current, Stale
  <2>6. Asked(p)'
    BY <2>1, <2>3 DEF Asked
  <2> QED BY <2>1, <2>3, <2>5, <2>6, JoiningLeased
<1>2. ASSUME NEW p \in Names, LeaveWith(p),
             \A q \in Operations : Doing(q, "joining") => operations'[q] = operations[q]
      PROVE  Leased'
  <2>1. session'.status = "idle" /\ commands' = Append(commands, [what |-> "leave", by |-> p, room |-> None])
    BY <1>2, LeaveWithDoes
  <2>2. ClearedTo(Len(commands))' /\ JoinsFit'
    BY <1>0, <1>2, <2>1, LeaveAdds DEF Leased
  <2> QED BY <2>1, <2>2, IdleLeased
<1>3. ASSUME NEW p \in Operations, NEW r \in Rooms, SwitchCall(p, r) PROVE Leased'
  <2>1. operations[p] = None /\ Rest(p) /\ LeaveWith(p)
    BY <1>3, SwitchDoes
  <2> QED BY <1>2, <2>1 DEF Rest, Doing, Names
<1>4. CASE Leave
  BY <1>0, <1>2, <1>4 DEF Leave
<1>5. CASE PeerFails \/ PeerComesBack
  <2>1. /\ UNCHANGED <<operations, commands, lease, astray>> /\ session.status \in InCall
        /\ session' \in {[session EXCEPT !.status = "reconnecting"], [session EXCEPT !.status = "connected"]}
    BY <1>5 DEF PeerFails, PeerComesBack, clients, server, InCall
  <2>2. session'.status \in InCall /\ session'.shown = session.shown
        /\ session'.generation = session.generation
    BY <2>1 DEF HookTypeOK, HookType, InCall
  <2>3. JoinsFit'
    BY <2>1, JoinsSame DEF Leased
  <2>4. Overtaken => Overtaken'
    BY <2>1, <2>2 DEF Overtaken, Overtakes, Aside, Stale
  <2> QED BY <2>1, <2>2, <2>3, <2>4, InCallLeased DEF Leased, LeaseFits, InCall, Misplaced
<1> QED BY <1>1, <1>3, <1>4, <1>5 DEF UserActs

(* A leave is done or lost, and what waits for it at most ends.              *)
LEMMA LeaveDone ==
  ASSUME HookTypeOK, HookTypeOK', Grounded, Leased, commands # <<>>, Head1.what = "leave",
         commands' = Tail(commands), Left', astray \subseteq astray',
         session'.status = session.status, session'.generation = session.generation,
         session'.shown = session.shown \/ Misplaced',
         \A q \in Operations : operations'[q] = operations[q]
                              \/ (operations'[q] = None /\ Doing(q, "leaving"))
  PROVE  Leased'
<1>0. commands \in Seq(CommandType) /\ JoinsFit
  BY DEF HookTypeOK, Leased
<1>1. \A q \in Operations : Doing(q, "joining") => operations'[q] = operations[q]
  BY DEF Doing
<1>2. \A q \in Operations : operations'[q] # None => operations'[q] = operations[q]
  OBVIOUS
<1>3. JoinsFit'
  BY <1>0, <1>1, FirstDone
<1>4. /\ Len(commands) \in 1..Len(commands) /\ Len(commands') = Len(commands) - 1
      /\ Len(commands) \in Nat
      /\ \A i \in 1..Len(commands') : commands'[i] = commands[i + 1]
  BY <1>0, Does
<1>5. \A n \in 1..Len(commands) : ClearedTo(n) => ClearedTo(n - 1)'
  BY <1>0, FirstDone
<1>6. LeaseFits'
  <2>1. session.status = "idle" => ClearedTo(Len(commands))
    BY DEF Leased, LeaseFits
  <2>2. session.status = "idle" => ClearedTo(Len(commands))'
    BY <1>4, <1>5, <2>1 DEF ClearedTo
  <2>3. session.status \in {"connected", "reconnecting", "recovering"} => Overtaken
    BY DEF Leased, LeaseFits
  <2>4. Overtaken => Overtaken'
    <3> SUFFICES ASSUME NEW q \in Operations, Overtakes(q) PROVE Overtakes(q)'
      BY DEF Overtaken
    <3>1. operations'[q] = operations[q]
      BY DEF Overtakes, Doing
    <3> QED BY <3>1 DEF Overtakes, Aside, Stale
  <2> QED BY <2>2, <2>3, <2>4 DEF LeaseFits
<1>7. ASSUME NEW q \in Operations, Current(q)' PROVE Asked(q)'
  <2>1. Current(q) /\ operations'[q] = operations[q]
    BY <1>2, <1>7 DEF Current, Stale
  <2>2. Asked(q)
    BY <2>1 DEF Leased
  <2>3. CASE operations[q].at = "joining"
    <3>1. /\ Len(commands) # 0 /\ commands[Len(commands)].what = "join"
          /\ commands[Len(commands)].by = q /\ ClearedTo(Len(commands) - 1)
      BY <2>2, <2>3 DEF Asked
    <3>2. Len(commands) # 1
      <4>1. commands[1].what = "leave"
        BY DEF Head1
      <4> QED BY <3>1, <4>1
    <3>3. /\ Len(commands') # 0 /\ Len(commands') \in 1..Len(commands')
          /\ Len(commands') + 1 = Len(commands) /\ Len(commands) - 1 \in 1..Len(commands)
      BY <1>4, <3>2
    <3>4. commands'[Len(commands')] = commands[Len(commands)]
      BY <1>4, <3>3
    <3>5. PICK n : n = Len(commands) - 1
      OBVIOUS
    <3>6. n \in 1..Len(commands) /\ ClearedTo(n) /\ n = Len(commands')
      BY <1>4, <3>1, <3>3, <3>5
    <3>7. ClearedTo(n - 1)'
      BY <1>5, <3>6
    <3>8. IF Len(commands') - 1 = 0 THEN Left' ELSE commands'[Len(commands') - 1].what = "leave"
      BY <3>6, <3>7 DEF ClearedTo
    <3> QED BY <2>1, <2>2, <2>3, <3>1, <3>3, <3>4, <3>8 DEF Asked, ClearedTo, Misplaced
  <2>4. CASE operations[q].at # "joining"
    BY <2>1, <2>2, <2>4 DEF Asked, Misplaced
  <2> QED BY <2>3, <2>4
<1> QED BY <1>3, <1>6, <1>7 DEF Leased

(* What is left of the commands behind the first.                            *)
LEMMA TailJoins ==
  ASSUME commands \in Seq(CommandType), commands # <<>>, JoinsFit
  PROVE  /\ Tail(commands) \in Seq(CommandType) /\ JoinsIn(Tail(commands))
         /\ Len(Tail(commands)) # 0 => Tail(commands)[Len(Tail(commands))] = commands[Len(commands)]
         /\ Len(commands) # 0
<1>1. PICK rest : rest = Tail(commands)
  OBVIOUS
<1>2. /\ Len(commands) \in Nat \ {0} /\ rest \in Seq(CommandType) /\ Len(rest) = Len(commands) - 1
      /\ \A i \in 1..Len(rest) : rest[i] = commands[i + 1]
  BY <1>1
<1>3. \A i \in 1..Len(rest) : i + 1 \in 1..Len(commands)
  BY <1>2
<1>4. JoinsIn(rest)
  <2> SUFFICES ASSUME NEW i \in 1..Len(rest), rest[i].what = "join"
               PROVE  /\ rest[i].by \in Operations /\ Doing(rest[i].by, "joining")
                      /\ operations[rest[i].by].room = rest[i].room
                      /\ \A j \in 1..Len(rest) : rest[j].what = "join" /\ rest[j].by = rest[i].by => i = j
    BY DEF JoinsIn
  <2>1. /\ rest[i].by \in Operations /\ Doing(rest[i].by, "joining")
        /\ operations[rest[i].by].room = rest[i].room
    BY <1>2, <1>3 DEF JoinsFit
  <2>2. \A j \in 1..Len(rest) : rest[j].what = "join" /\ rest[j].by = rest[i].by => i + 1 = j + 1
    BY <1>2, <1>3 DEF JoinsFit
  <2>3. \A j \in 1..Len(rest) : rest[j].what = "join" /\ rest[j].by = rest[i].by => i = j
    BY <2>2
  <2> QED BY <2>1, <2>3
<1>5. Len(rest) # 0 => Len(rest) \in 1..Len(rest) /\ Len(rest) + 1 = Len(commands)
  BY <1>2
<1> QED BY <1>1, <1>2, <1>4, <1>5

(* A switch joins, once its leave is done, or when it waits no longer.       *)
LEMMA SwitchAsks ==
  ASSUME HookNoneApart, HookTypeOK, HookTypeOK', Grounded, Core', Leased, NEW p \in Operations,
         Doing(p, "leaving"), NEW queue \in Seq(CommandType), LeaveEnds(p, queue), JoinsIn(queue),
         session.status = "idle", ~session.inFlight,
         IF Len(queue) = 0 THEN Left' ELSE queue[Len(queue)].what = "leave"
  PROVE  Leased'
<1>1. commands' = Append(queue, [what |-> "join", by |-> p, room |-> operations[p].room])
      /\ operations'[p] # None
  BY LeaveEndsDoes DEF LeaveEnds
<1>2. /\ operations[p] # None /\ operations[p].at = "leaving" /\ Rest(p)
      /\ operations'[p].kind = operations[p].kind
      /\ operations'[p].at = "joining" /\ operations'[p].generation = session'.generation
      /\ operations'[p].room = operations[p].room /\ session'.status = "joining"
  BY <1>1, LeaveEndsDoes
<1>3. operations[p].room \in Rooms \cup {None} /\ ~Doing(p, "joining")
  BY <1>2 DEF HookTypeOK, OperationType, Doing
<1>4. /\ JoinsFit' /\ Len(commands') # 0
      /\ commands'[Len(commands')].what = "join" /\ commands'[Len(commands')].by = p
      /\ \A n : n = Len(commands') - 1 => ClearedTo(n)'
  BY <1>1, <1>2, <1>3, JoinAdds
<1>5. Current(p)'
  BY <1>1, <1>2 DEF Current, Stale
<1>6. operations'[p].kind # "join"
  BY <1>2 DEF Grounded, GroundedAt
<1>7. Asked(p)'
  BY <1>2, <1>4, <1>6 DEF Asked
<1> QED BY <1>2, <1>4, <1>5, <1>7, JoiningLeased

LEMMA AnswersLeased ==
  ASSUME HookNoneApart, HookTypeOK, HookTypeOK', Grounded, Grounded', Core, Core', Leased,
         Sound', "late" \notin astray', AnswersAct
  PROVE  Leased'
<1>0. commands \in Seq(CommandType) /\ JoinsFit
  BY DEF HookTypeOK, Leased
<1>1. CASE JoinGranted
  <2>1. commands # <<>> /\ Head1.what = "join" /\ commands' = Tail(commands) /\ lease' = Head1.room
    BY <1>1 DEF JoinGranted
  <2>2. PICK p : p = Head1.by
    OBVIOUS
  <2>3. Waits("joining") /\ p \in Operations /\ Head1.room = operations[p].room
    BY <1>0, <2>1, <2>2, JoinWaits
  <2>4. /\ operations'[p] # None /\ operations'[p].kind = operations[p].kind
        /\ operations'[p].at = "microphone" /\ operations'[p].generation = session.generation
        /\ operations'[p].room = operations[p].room /\ operations[p] # None
        /\ session'.status = "joining" /\ session'.generation = session.generation
        /\ session'.shown = session.shown
        /\ astray' = astray \cup (IF Stale(p) THEN {"revived"} ELSE {})
    BY <1>1, <2>2, <2>3, GrantedDoes
  <2>5. Current(p) /\ Current(p)'
    BY <2>4 DEF Current, Stale, Sound
  <2>6. commands' = <<>>
    BY <2>1, <2>2, <2>3, <2>5, OnlyJoin
  <2>7. Asked(p)
    BY <2>3, <2>5 DEF Leased
  <2>8. Asked(p)'
    BY <2>1, <2>3, <2>4, <2>6, <2>7 DEF Asked, Misplaced
  <2>9. JoinsFit'
    BY <2>6 DEF JoinsFit
  <2> QED BY <2>3, <2>4, <2>5, <2>8, <2>9, JoiningLeased
<1>2. CASE JoinRefused
  <2>1. commands # <<>> /\ Head1.what = "join" /\ commands' = Tail(commands) /\ lease' = lease
    BY <1>2 DEF JoinRefused
  <2>2. PICK p : p = Head1.by
    OBVIOUS
  <2>3. Waits("joining") /\ p \in Operations
    BY <1>0, <2>1, <2>2, JoinWaits
  <2>4. /\ JoinRejected(p) /\ operations[p] # None
        /\ astray' = astray \cup (IF Stale(p) /\ session.status # "idle" THEN {"undercut"} ELSE {})
    BY <1>2, <2>2, <2>3 DEF JoinRefused, Waits, Doing, Because
  <2>5. Rest(p) /\ session'.status = "idle"
    BY <2>3, <2>4, RejectedDoes
  <2>6. JoinsFit'
    BY <1>0, <2>1, <2>2, <2>5, FirstDone DEF Rest
  <2>7. ClearedTo(Len(commands))'
    <3>1. CASE Current(p)
      <4>1. commands' = <<>> /\ Left'
        BY <2>1, <2>2, <2>3, <2>4, <3>1, OnlyJoin DEF Left
      <4> QED BY <4>1 DEF ClearedTo
    <3>2. CASE Stale(p)
      <4>1. ClearedTo(Len(commands))
        BY <2>4, <3>2 DEF Sound, Leased, LeaseFits
      <4>2. Len(commands) \in 1..Len(commands) /\ Len(commands') = Len(commands) - 1
        BY <1>0, <2>1, Does
      <4>3. \A n \in 1..Len(commands) : ClearedTo(n) => ClearedTo(n - 1)'
        BY <1>0, <2>1, FirstDone
      <4> QED BY <4>1, <4>2, <4>3 DEF ClearedTo
    <3> QED BY <2>4, <3>1, <3>2 DEF Current
  <2> QED BY <2>5, <2>6, <2>7, IdleLeased
<1>3. CASE LeaveHandled
  <2>1. commands # <<>> /\ Head1.what = "leave" /\ lease' = None /\ Left'
    BY <1>3 DEF LeaveHandled, Left
  <2>2. CASE ~Waits("leaving")
    <3>1. UNCHANGED <<session, operations, astray>> /\ commands' = Tail(commands)
      BY <1>3, <2>2 DEF LeaveHandled
    <3> QED BY <2>1, <3>1, LeaveDone
  <2>3. CASE Waits("leaving")
    <3>1. PICK p \in Operations : p = Head1.by /\ Doing(p, "leaving") /\ LeaveEnds(p, Tail(commands))
      BY <1>3, <2>1, <2>3, WaitsDoes DEF LeaveHandled, Waits
    <3>2. CASE session.status = "idle" /\ ~session.inFlight
      <4>1. /\ Tail(commands) \in Seq(CommandType) /\ JoinsIn(Tail(commands))
            /\ Len(Tail(commands)) # 0 => Tail(commands)[Len(Tail(commands))].what = "leave"
        BY <1>0, <2>1, <3>2, TailJoins DEF Leased, LeaseFits, ClearedTo
      <4> QED BY <2>1, <3>1, <3>2, <4>1, SwitchAsks
    <3>3. CASE ~(session.status = "idle" /\ ~session.inFlight)
      <4>0. operations'[p] = None /\ commands' = Tail(commands)
        BY <3>1, <3>3 DEF LeaveEnds, Ends, HookTypeOK
      <4>1. /\ operations'[p] = None /\ Rest(p) /\ HookStays /\ commands' = Tail(commands)
            /\ astray' = astray \cup {"misplaced"}
        BY <3>1, <4>0, LeaveEndsDoes
      <4> QED BY <2>1, <3>1, <4>1, LeaveDone DEF Rest, HookStays, Misplaced
    <3> QED BY <3>2, <3>3
  <2> QED BY <2>2, <2>3
<1>5. CASE LeaveLost
  <2>1. /\ commands # <<>> /\ Head1.what = "leave" /\ commands' = Tail(commands)
        /\ UNCHANGED <<session, operations, lease>>
        /\ astray' = astray \cup (IF lease # None THEN {"unleft"} ELSE {})
    BY <1>5 DEF LeaveLost, Because, clients
  <2>2. Left'
    BY <2>1 DEF Left
  <2> QED BY <2>1, <2>2, LeaveDone
<1>6. ASSUME NEW p \in Operations, LeaveTimesOut(p) PROVE Leased'
  <2>1. Doing(p, "leaving") /\ LeaveEnds(p, commands) /\ UNCHANGED lease
    BY <1>6 DEF LeaveTimesOut
  <2>2. CASE session.status = "idle" /\ ~session.inFlight
    <3>1. UNCHANGED astray
      BY <2>1, <2>2 DEF LeaveEnds
    <3>2. JoinsIn(commands) /\ IF Len(commands) = 0 THEN Left' ELSE commands[Len(commands)].what = "leave"
      BY <2>1, <2>2, <3>1 DEF Leased, LeaseFits, ClearedTo, Left, JoinsFit, JoinsIn
    <3> QED BY <1>0, <2>1, <2>2, <3>2, SwitchAsks
  <2>3. CASE ~(session.status = "idle" /\ ~session.inFlight)
    <3>0. operations'[p] = None /\ commands' = commands
      BY <2>1, <2>3 DEF LeaveEnds, Ends, HookTypeOK
    <3>1. /\ operations'[p] = None /\ Rest(p) /\ HookStays /\ commands' = commands
          /\ astray' = astray \cup {"misplaced"} /\ operations[p].at = "leaving"
      BY <2>1, <3>0, LeaveEndsDoes
    <3>2. JoinsFit'
      BY <1>0, <3>1, JoinsSame DEF Rest, Doing
    <3>3. LeaseFits'
      <4>1. Overtaken => Overtaken'
        <5> SUFFICES ASSUME NEW q \in Operations, Overtakes(q) PROVE Overtakes(q)'
          BY DEF Overtaken
        <5>1. operations'[q] = operations[q]
          BY <3>1 DEF Overtakes, Rest
        <5> QED BY <3>1, <5>1 DEF Overtakes, Aside, Stale, HookStays
      <4> QED BY <2>1, <3>1, <4>1 DEF Leased, LeaseFits, ClearedTo, Left, Misplaced, HookStays
    <3>4. ASSUME NEW q \in Operations, Current(q)' PROVE Asked(q)'
      <4>1. Current(q) /\ operations'[q] = operations[q]
        BY <3>1, <3>4 DEF Current, Stale, Rest, HookStays
      <4>2. Asked(q)
        BY <4>1 DEF Leased
      <4> QED BY <2>1, <3>1, <4>1, <4>2 DEF Asked, ClearedTo, Left, Misplaced, HookStays
    <3> QED BY <3>2, <3>3, <3>4 DEF Leased
  <2> QED BY <2>2, <2>3
<1>4. ASSUME NEW p \in Operations, JoinTimesOut(p) PROVE FALSE
  BY <1>4 DEF JoinTimesOut
<1> QED BY <1>1, <1>2, <1>3, <1>4, <1>5, <1>6 DEF AnswersAct

LEMMA StartsLeased ==
  ASSUME HookNoneApart, HookTypeOK, HookTypeOK', Grounded, Grounded', Core, Core', Leased, Sound',
         NEW p \in Operations,
         \/ MicrophoneGranted(p) \/ SessionCreated(p) \/ Published(p)
         \/ PublishedTooLate(p) \/ StartFails(p) \/ DevicesListed(p)
  PROVE  Leased'
<1>0. commands \in Seq(CommandType) /\ None \in Names
  BY DEF HookTypeOK, Names
<1>10. ASSUME Rest(p), session'.generation = session.generation, ~Overtakes(p), Overtaken
       PROVE  Overtaken'
  <2>1. session'.generation >= session.generation
    BY <1>10 DEF HookTypeOK, HookType
  <2> QED BY <1>10, <2>1, OvertakenStays
<1>1. CASE MicrophoneGranted(p)
  <2>1. /\ operations[p] # None /\ operations[p].at = "microphone"
        /\ Rest(p) /\ operations'[p] # None /\ operations'[p].at = "session"
        /\ operations'[p].kind = operations[p].kind
        /\ operations'[p].generation = operations[p].generation
        /\ operations'[p].room = operations[p].room
        /\ UNCHANGED <<session, commands, lease, astray>>
    BY <1>1, MicrophoneGrantedDoes
  <2> QED BY <2>1, MovesLeased
<1>2. CASE SessionCreated(p)
  <2>1. MovesTo(p, "publish") /\ operations[p].at = "session"
        /\ UNCHANGED <<session, commands, lease, astray>>
    BY <1>2, SessionCreatedDoes
  <2> QED BY <2>1, MovesLeased DEF MovesTo
<1>3. CASE Published(p)
  <2>1. /\ MovesTo(p, "devices") /\ operations[p].at = "publish"
        /\ session'.status = session.status /\ session'.generation = session.generation
        /\ session'.shown = session.shown /\ UNCHANGED <<commands, lease, astray>>
    BY <1>3, PublishedDoes
  <2> QED BY <2>1, MovesLeased DEF MovesTo
<1>4. ASSUME session'.status = "idle", UNCHANGED lease, IsOver(p), operations[p].at # "joining",
             \/ commands' = commands /\ ClearedTo(Len(commands))
             \/ commands' = Append(commands, [what |-> "leave", by |-> None, room |-> None]),
             astray \subseteq astray'
      PROVE  Leased'
  <2>1. \A q \in Operations : Doing(q, "joining") => operations'[q] = operations[q]
    BY <1>4 DEF IsOver, Rest, Doing
  <2>2. CASE commands' = commands /\ ClearedTo(Len(commands))
    BY <1>4, <2>1, <2>2, JoinsSame, IdleLeased DEF Leased, ClearedTo, Left
  <2>3. CASE commands' = Append(commands, [what |-> "leave", by |-> None, room |-> None])
    BY <1>0, <1>4, <2>1, <2>3, LeaveAdds, IdleLeased DEF Leased
  <2> QED BY <1>4, <2>2, <2>3
<1>5. CASE PublishedTooLate(p)
  <2>1. /\ IsOver(p) /\ operations[p].at = "publish" /\ session'.status = session.status
        /\ session.status # "idle" => "undercut" \in astray'
        /\ commands' = commands \/ commands' = Append(commands, [what |-> "leave", by |-> None, room |-> None])
        /\ UNCHANGED lease /\ astray \subseteq astray'
    BY <1>5, PublishedTooLateDoes
  <2>2. session.status = "idle"
    BY <2>1 DEF Sound
  <2> QED BY <1>4, <2>1, <2>2 DEF Leased, LeaseFits
<1>6. CASE StartFails(p)
  <2>1. PICK to : to = IF operations[p].kind = "recover" THEN "reconnecting" ELSE "idle"
    OBVIOUS
  <2>2. /\ IsOver(p) /\ operations[p].at \in {"microphone", "session", "publish"}
        /\ session'.status = to /\ session'.generation = session.generation
        /\ session'.shown = IF operations[p].kind = "switch" THEN operations[p].room ELSE session.shown
        /\ (Stale(p) \/ session.requested) /\ session.status # to =>
             astray' \cap {"revived", "undercut"} # {}
        /\ astray \subseteq astray'
        /\ commands' = IF operations[p].kind = "recover" THEN commands
                       ELSE Append(commands, [what |-> "leave", by |-> None, room |-> None])
        /\ UNCHANGED lease
    BY <1>6, <2>1, StartFailsDoes
  <2>3. CASE operations[p].kind # "recover"
    BY <1>4, <2>1, <2>2, <2>3
  <2>4. CASE operations[p].kind = "recover"
    <3>1. session.status \in InCall
      <4>1. CASE Stale(p)
        BY <2>1, <2>2, <2>4, <4>1 DEF Sound, InCall
      <4>2. CASE Current(p)
        BY <2>2, <2>4, <4>2 DEF Core, EachFits, CurrentIs, InCall
      <4> QED BY <2>2, <4>1, <4>2 DEF Current, IsOver
    <3>2. (commands = <<>> /\ (lease = session.shown \/ Misplaced)) \/ Overtaken
      BY <3>1 DEF Leased, LeaseFits, InCall
    <3>3. Overtaken => Overtaken'
      BY <1>10, <2>2, <2>4 DEF IsOver, Overtakes
    <3>4. JoinsFit'
      BY <2>2, <2>4, JoinsSame DEF Leased, IsOver, Rest, Doing
    <3> QED BY <2>1, <2>2, <2>4, <3>2, <3>3, <3>4, InCallLeased DEF InCall, Misplaced
  <2> QED BY <2>3, <2>4
<1>7. CASE DevicesListed(p)
  <2>1. /\ operations[p] # None /\ operations[p].at = "devices" /\ Rest(p)
        /\ session'.status = "connected" /\ session'.generation = session.generation
        /\ \/ operations[p].kind = "recover" /\ session'.shown = session.shown
           \/ session'.shown = IF operations[p].kind = "switch" THEN operations[p].room ELSE session.shown
        /\ ~(operations[p].kind = "recover" /\ ~Stale(p)) =>
             session'.shown = IF operations[p].kind = "switch" THEN operations[p].room ELSE session.shown
        /\ astray' = astray \cup (IF Stale(p) THEN {"revived"} ELSE {})
        /\ UNCHANGED <<commands, lease>>
    BY <1>7, DevicesListedDoes DEF MovesTo, IsOver
  <2>2. Current(p)
    BY <2>1 DEF Current, Sound
  <2>3. CurrentIs(p) /\ Asked(p)
    BY <2>2 DEF Core, EachFits, Leased
  <2>6. JoinsFit'
    BY <2>1, JoinsSame DEF Leased, Rest, Doing
  <2>4. CASE operations[p].kind = "recover"
    <3>1. session.status \in InCall /\ session'.shown = session.shown
      BY <2>1, <2>3, <2>4 DEF CurrentIs, InCall
    <3>2. Overtaken => Overtaken'
      BY <1>10, <2>1, <2>4 DEF Overtakes
    <3> QED BY <2>1, <2>6, <3>1, <3>2, InCallLeased DEF Leased, LeaseFits, InCall, Misplaced
  <2>5. CASE operations[p].kind # "recover"
    <3>1. session.status = "joining"
      BY <2>3, <2>5 DEF CurrentIs
    <3>2. commands = <<>> /\ lease = operations[p].room
      BY <2>1, <2>3, <3>1 DEF Asked
    <3>3. operations[p].kind \in {"join", "switch"}
      BY <2>1, <2>5 DEF HookTypeOK, OperationType
    <3>4. lease = session'.shown \/ Misplaced
      BY <2>1, <2>3, <2>5, <3>2, <3>3 DEF Asked
    <3> QED BY <2>1, <2>6, <3>2, <3>4, InCallLeased DEF InCall, Misplaced
  <2> QED BY <2>4, <2>5
<1> QED BY <1>1, <1>2, <1>3, <1>5, <1>6, <1>7

LEMMA RecoveriesLeased ==
  ASSUME HookNoneApart, HookTypeOK, HookTypeOK', Grounded, Grounded', Core, Core', Leased, Sound',
         NEW p \in Operations,
         \/ ReconcileRebuilding(p) \/ ReconcileRepairing(p) \/ Repaired(p) \/ RepairFails(p)
         \/ RecoveryStarts(p)
         \/ \E s \in Captures : CaptureRestored(p, s) \/ CaptureLost(p, s) \/ CaptureUnwanted(p, s)
  PROVE  Leased'
<1>0. session.client \in Names /\ p \in Names
  BY DEF HookTypeOK, HookType, Names
<1>10. ASSUME Rest(p), UNCHANGED commands, ~Doing(p, "joining")
       PROVE  JoinsFit'
  BY <1>10, JoinsSame DEF Leased, Rest, Doing
<1>1. ASSUME session.status \in InCall, session'.status \in InCall, session'.shown = session.shown,
             Rest(p), session'.generation >= session.generation, operations[p] = None \/ operations[p].kind = "recover",
             UNCHANGED <<commands, lease>>, astray \subseteq astray'
      PROVE  Leased'
  <2>1. ~Overtakes(p)
    BY <1>1 DEF Overtakes, Aside
  <2>2. Overtaken => Overtaken'
    BY <1>1, <2>1, OvertakenStays
  <2>3. JoinsFit'
    BY <1>1, <1>10 DEF Doing, Grounded, GroundedAt
  <2> QED BY <1>1, <2>2, <2>3, InCallLeased DEF Leased, LeaseFits, InCall, Misplaced
<1>2. ASSUME operations[p] # None, ~Stale(p), operations[p].kind = "recover"
      PROVE  session.status \in InCall
  BY <1>2 DEF Core, EachFits, CurrentIs, Current, InCall
<1>3. ASSUME operations[p] # None, operations[p].at \in {"repair", "detaching", "camera", "screen"}
      PROVE  operations[p].kind = "recover"
  BY <1>3 DEF Grounded, GroundedAt
<1>4. CASE ReconcileRebuilding(p)
  <2>1. /\ Recovers(p, "detaching") /\ Detach(session.client, p)
        /\ UNCHANGED <<commands, lease, astray>>
    BY <1>4, RebuildingDoes
  <2>2. session'.status = "recovering" /\ session'.shown = session.shown
        /\ session'.generation = session.generation + 1
    BY <1>0, <2>1, DetachDoes
  <2>3. session'.generation >= session.generation /\ session'.generation # session.generation
    BY <2>2 DEF HookTypeOK, HookType
  <2>4. CASE session.status \in InCall
    BY <1>1, <2>1, <2>2, <2>3, <2>4 DEF Recovers, InCall
  <2>5. CASE session.status \notin InCall
    <3>1. PICK q \in Operations : Current(q) /\ operations[q].kind # "recover"
      BY <2>1, <2>5 DEF Recovers, InCall, HookTypeOK, HookType, Core, StatusFits
    <3>2. q # p /\ operations'[q] = operations[q] /\ operations[q].at # "leaving"
      <4>1. operations[q].generation = session.generation /\ session.generation \in Nat
        BY <3>1 DEF Current, Stale, HookTypeOK, HookType
      <4>2. operations[q].at # "leaving"
        BY <3>1, <4>1 DEF Grounded, GroundedAt, Current
      <4> QED BY <2>1, <3>1, <4>2 DEF Recovers, Rest, Current
    <3>3. Overtaken'
      BY <2>3, <3>1, <3>2, AsideStays DEF Overtaken, Overtakes, Current
    <3>4. JoinsFit'
      BY <1>10, <2>1 DEF Recovers, Doing
    <3> QED BY <2>2, <3>3, <3>4, InCallLeased DEF InCall
  <2> QED BY <2>4, <2>5
<1>5. CASE ReconcileRepairing(p)
  <2>1. /\ Recovers(p, "repair") /\ session'.status = session.status
        /\ session.status \in {"connected", "reconnecting"}
        /\ session'.generation = session.generation
        /\ session'.shown = session.shown /\ UNCHANGED <<commands, lease, astray>>
    BY <1>5, RepairingDoes
  <2>2. session'.generation >= session.generation
    BY <2>1 DEF HookTypeOK, HookType
  <2> QED BY <1>1, <2>1, <2>2 DEF Recovers, InCall
<1>6. CASE Repaired(p)
  <2>1. /\ IsOver(p) /\ operations[p].at = "repair" /\ ~Stale(p)
        /\ session'.status = "connected" /\ session'.generation = session.generation
        /\ session'.shown = IF operations[p].kind = "switch" THEN operations[p].room ELSE session.shown
        /\ UNCHANGED <<commands, lease, astray>>
    BY <1>6, RepairedDoes
  <2>2. session'.generation >= session.generation
    BY <2>1 DEF HookTypeOK, HookType
  <2> QED BY <1>1, <1>2, <1>3, <2>1, <2>2 DEF IsOver, InCall
<1>7. CASE RepairFails(p)
  <2>1. /\ operations[p] # None /\ operations[p].at = "repair" /\ operations[p].from \in Names /\ Rest(p)
        /\ Detach(operations[p].from, session.recovery) /\ session.recovery \in Names
        /\ astray' = astray \cup (IF Stale(p) THEN {"revived"} ELSE {})
        /\ UNCHANGED <<commands, lease>>
    BY <1>7, RepairFailsDoes
  <2>2. session'.status = "recovering" /\ session'.shown = session.shown
        /\ session'.generation = session.generation + 1
    BY <2>1, DetachDoes
  <2>3. ~Stale(p)
    BY <2>1 DEF Sound
  <2>4. session'.generation >= session.generation
    BY <2>2 DEF HookTypeOK, HookType
  <2> QED BY <1>1, <1>2, <1>3, <2>1, <2>2, <2>3, <2>4 DEF InCall
<1>8. CASE RecoveryStarts(p)
  <2>1. PICK kept : kept <=> operations[p].microphone \in microphones
    OBVIOUS
  <2>2. /\ operations[p] # None /\ operations[p].at = "detaching" /\ Rest(p)
        /\ session'.status = "recovering" /\ session'.shown = session.shown
        /\ session'.generation = session.generation
        /\ astray' = astray \cup (IF Stale(p) THEN {"revived"} ELSE {})
        /\ UNCHANGED <<commands, lease>>
    BY <1>8, <2>1, RecoveryStartsDoes
  <2>3. ~Stale(p)
    BY <2>2 DEF Sound
  <2>4. session'.generation >= session.generation
    BY <2>2 DEF HookTypeOK, HookType
  <2> QED BY <1>1, <1>2, <1>3, <2>2, <2>3, <2>4 DEF InCall
<1>9. ASSUME NEW s \in Captures, CaptureRestored(p, s) \/ CaptureLost(p, s) \/ CaptureUnwanted(p, s)
      PROVE  Leased'
  <2>1. /\ operations[p] # None /\ operations[p].at = s /\ UNCHANGED <<commands, lease>>
        /\ \/ s = "camera" /\ MovesTo(p, "screen") /\ UNCHANGED <<session, astray>>
           \/ /\ s # "camera" /\ IsOver(p) /\ session'.status = "connected"
              /\ session'.generation = session.generation
              /\ session'.shown = IF operations[p].kind = "switch" THEN operations[p].room ELSE session.shown
              /\ astray' = astray \cup (IF Stale(p) THEN {"revived"} ELSE {})
    BY <1>9, AfterCaptureDoes
  <2>2. operations[p].kind = "recover"
    BY <1>3, <2>1, CapturesAreTwo
  <2>3. CASE s = "camera" /\ MovesTo(p, "screen") /\ UNCHANGED <<session, astray>>
    BY <2>1, <2>3, MovesLeased DEF MovesTo
  <2>4. CASE /\ IsOver(p) /\ session'.status = "connected"
             /\ session'.generation = session.generation
             /\ session'.shown = IF operations[p].kind = "switch" THEN operations[p].room ELSE session.shown
             /\ astray' = astray \cup (IF Stale(p) THEN {"revived"} ELSE {})
    <3>1. ~Stale(p)
      BY <2>4 DEF Sound
    <3>2. session'.generation >= session.generation
      BY <2>4 DEF HookTypeOK, HookType
    <3> QED BY <1>1, <1>2, <2>1, <2>2, <2>4, <3>1, <3>2 DEF InCall, IsOver
  <2> QED BY <2>1, <2>3, <2>4
<1> QED BY <1>4, <1>5, <1>6, <1>7, <1>8, <1>9

LEMMA LeasedStep ==
  ASSUME HookNoneApart, HookTypeOK, HookTypeOK', Grounded, Grounded', Core, Core', Leased,
         [Next]_vars, Sound', "late" \notin astray'
  PROVE  Leased'
<1>1. CASE UNCHANGED vars
  BY <1>1, LeasedUnchanged DEF vars, clients, server
<1>2. CASE CapturesAct
  BY <1>2, CapturesDo, LeasedUnchanged
<1>3. CASE Next
  BY <1>1, <1>2, <1>3, UserLeased, AnswersLeased, StartsLeased, RecoveriesLeased
     DEF Next, Waiting, UserActs, AnswersAct, CapturesAct
<1> QED BY <1>1, <1>3

-----------------------------------------------------------------------------
(* The inductive invariant of the session and its operations.               *)
HookInv ==
  /\ HookTypeOK /\ Grounded
  /\ Sound => Core
  /\ Sound /\ "late" \notin astray => Leased

LEMMA HookInvHolds == ASSUME HookNoneApart PROVE Spec => []HookInv
<1>1. Init => HookInv
  BY HookTypeInit, GroundedInit, CoreInit, LeasedInit DEF HookInv
<1>2. HookInv /\ [Next]_vars => HookInv'
  <2> SUFFICES ASSUME HookInv, [Next]_vars PROVE HookInv'
    OBVIOUS
  <2>1. HookTypeOK /\ HookTypeOK' /\ Grounded /\ Grounded'
    BY HookTypeStep, GroundedStep DEF HookInv
  <2>2. Sound' => Sound /\ Core'
    <3>1. Sound' => Sound
      BY AstrayGrows DEF Sound
    <3> QED BY <2>1, <3>1, CoreStep DEF HookInv
  <2>3. Sound' /\ "late" \notin astray' => Leased'
    <3>1. "late" \notin astray' => "late" \notin astray
      BY AstrayGrows
    <3> QED BY <2>1, <2>2, <3>1, LeasedStep DEF HookInv
  <2> QED BY <2>1, <2>2, <2>3 DEF HookInv
<1> QED BY <1>1, <1>2, PTL DEF Spec

LEMMA HookInvCoherent == ASSUME HookNoneApart, HookInv PROVE Coherent
<1> SUFFICES ASSUME Quiet, astray \cap {"late", "revived", "undercut"} = {}
             PROVE  /\ session.status \in {"idle", "connected", "reconnecting"}
                    /\ session.status = "idle" =>
                         /\ session.client = None /\ Left
                         /\ microphones = {} \/ "microphone" \in astray
                    /\ session.status = "connected" =>
                         /\ session.client # None /\ peers[session.client] = "open"
                         /\ published[session.client] = session.microphone
                         /\ session.microphone \in microphones
                         /\ lease = session.shown \/ "misplaced" \in astray
  BY DEF Coherent, Left
<1>1. HookTypeOK /\ Core /\ Leased
  BY DEF HookInv, Sound
<1>2. (\A p \in Operations : operations[p] = None) /\ commands = <<>>
  BY DEF Quiet
<1>3. session.status \in {"idle", "connected", "reconnecting"}
  BY <1>1, <1>2 DEF HookTypeOK, HookType, Core, StatusFits, Current
<1>4. ASSUME session.status = "idle"
      PROVE  /\ session.client = None /\ Left
             /\ microphones = {} \/ "microphone" \in astray
  <2>1. session.client = None /\ session.microphone = None
    BY <1>1, <1>4 DEF Core, StatusFits
  <2>2. ClearedTo(Len(commands)) /\ Len(commands) = 0
    BY <1>1, <1>2, <1>4 DEF Leased, LeaseFits
  <2>3. \A m \in microphones : m # None
    BY <1>1 DEF HookTypeOK, HookNoneApart
  <2>4. microphones = {} \/ "microphone" \in astray
    BY <1>1, <1>2, <2>1, <2>3 DEF Core, MicrophonesFit, Owns
  <2> QED BY <2>1, <2>2, <2>4 DEF ClearedTo
<1>5. ASSUME session.status = "connected"
      PROVE  /\ session.client # None /\ Held
             /\ lease = session.shown \/ "misplaced" \in astray
  <2>1. ~Overtaken
    BY <1>2 DEF Overtaken, Overtakes, Aside
  <2> QED BY <1>1, <1>5, <2>1 DEF Core, StatusFits, Leased, LeaseFits, Misplaced
<1> QED BY <1>3, <1>4, <1>5 DEF Held

(* For any rooms and operations: once nothing is under way, the status the user *)
(* is shown, the client and microphone the hook holds and the call the server  *)
(* has it in agree, through joins, leaves, switches, recoveries and rebuilds,   *)
(* unless an operation went on after a later one in a way named in astray      *)
(* (use-voice-session.ts: join, leave, switchCall, startClient, reconcile).    *)
THEOREM CoherentHolds == ASSUME HookNoneApart PROVE Spec => []Coherent
<1>1. HookInv => Coherent
  BY HookInvCoherent
<1> QED BY <1>1, HookInvHolds, PTL

-----------------------------------------------------------------------------
(* The captures, as long as none was mislaid or kept.  One fits when its state *)
(* and its stream agree, with three exceptions: what the recovery under way    *)
(* has still to restore (pends), what waits for its task, and what was removed.  *)
Clean == Sound /\ astray \cap {"mislaid", "kept"} = {}

Pends(s) ==
  \/ session.status = "reconnecting" /\ session.client = None
  \/ \E p \in Operations :
       /\ Current(p) /\ operations[p].kind = "recover" /\ operations[p].at # "repair"
       /\ operations[p].at = "screen" => s # "camera"
Up == session.status \in {"connected", "reconnecting"} /\ session.client # None

StreamFits(s, x, pends, client, generation, removed) ==
  /\ ~x.wanted => x.stream = "none" /\ x.state \in {"idle", "stopping"}
  /\ x.state = "idle" => x.stream = "none"
  /\ x.state = "stopping" => ~x.wanted /\ x.closing # None
  /\ x.state = "active" => x.stream # "none"
  /\ x.state = "active" /\ ~pends => x.sent = client
  /\ x.wanted /\ x.stream = "none" => removed \/ pends \/ x.state = "requesting-permission"
  /\ x.stream = "ended" =>
       /\ s # "camera"
       /\ pends \/ (x.task # None /\ x.task.at = "publishing" /\ x.task.session = generation)
  /\ x.state \in {"requesting-permission", "publishing", "switching"} /\ ~pends =>
       /\ x.task # None /\ x.task.session = generation
       /\ x.state = "requesting-permission" => x.task.at = "permission" /\ x.task.manager = x.manager
       /\ x.state \in {"publishing", "switching"} => x.task.at = x.state
TaskFits(s, x, pends, up, client, generation) ==
  /\ x.busy <=> x.task # None
  /\ x.task # None =>
       /\ x.task.session <= generation /\ x.task.manager <= x.manager
       /\ x.task.generation # x.generation => ~x.wanted
       /\ x.task.at # "switching" /\ x.task.session = generation => up /\ x.task.client = client
       /\ x.task.at = "permission" /\ x.task.manager = x.manager =>
            /\ x.wanted
            /\ s = "camera" => x.state \in {"requesting-permission", "active"}
            /\ s # "camera" => x.state = "requesting-permission" /\ x.stream = "none"
       /\ x.task.at = "switching" =>
            /\ s = "camera"
            /\ x.task.manager = x.manager => x.stream = "live"
            /\ x.task.session = generation /\ ~pends /\ x.stream # "none" => x.sent = client
Fits(s, x, pends, up, client, generation, removed) ==
  /\ StreamFits(s, x, pends, client, generation, removed)
  /\ TaskFits(s, x, pends, up, client, generation)
FitsNow(s) ==
  Fits(s, captures[s], Pends(s), Up, session.client, session.generation, "removed" \in astray)
Wanting ==
  /\ session.status \in {"idle", "joining"} => \A s \in Captures : ~captures[s].wanted
  /\ session.requested => session.status = "idle"
Caps == Wanting /\ \A s \in Captures : FitsNow(s)

LEMMA CapsInit == ASSUME HookNoneApart, Init PROVE Caps
BY DEF Init, Caps, Wanting, FitsNow, Fits, StreamFits, TaskFits

(* The session goes on, and a capture with it. *)
LEMMA FitsGoesOn ==
  ASSUME NEW s \in Captures, FitsNow(s), captures'[s] = captures[s],
         session'.client = session.client, session'.generation = session.generation,
         astray \subseteq astray',
         Pends(s) => Pends(s)' \/ ~captures[s].wanted, Up => Up'
  PROVE  FitsNow(s)'
<1>1. "removed" \in astray => "removed" \in astray'
  OBVIOUS
<1> QED BY <1>1 DEF FitsNow, Fits, StreamFits, TaskFits

(* Another session, or another client of one that was not up: what is wanted is *)
(* to be restored.                                                           *)
LEMMA FitsLater ==
  ASSUME HookTypeOK, HookTypeOK', NEW s \in Captures, FitsNow(s),
         \/ captures'[s] = captures[s]
         \/ \E n : captures'[s] = [captures[s] EXCEPT !.sent = n],
         session'.generation >= session.generation,
         session'.generation # session.generation \/ ~Up,
         astray \subseteq astray',
         Pends(s)' \/ ~captures[s].wanted
  PROVE  FitsNow(s)'
<1> PICK x : x = captures[s]
  OBVIOUS
<1> PICK y : y = captures'[s]
  OBVIOUS
<1> PICK g, g2 : g = session.generation /\ g2 = session'.generation
  OBVIOUS
<1>0. x \in CaptureType /\ g \in Nat /\ g2 \in Nat
  BY DEF HookTypeOK, HookType
<1>1. /\ y.state = x.state /\ y.wanted = x.wanted /\ y.stream = x.stream /\ y.task = x.task
      /\ y.busy = x.busy /\ y.closing = x.closing /\ y.manager = x.manager
      /\ y.generation = x.generation
  BY <1>0 DEF CaptureType
<1>2. x.task # None => /\ x.task.session \in Nat /\ x.task.session <= g
                       /\ x.task.session <= g2
                       /\ x.task.session = g2 => g2 = g /\ x.task.session = g
  <2> SUFFICES ASSUME x.task # None
               PROVE  /\ x.task.session \in Nat /\ x.task.session <= g
                      /\ x.task.session <= g2
                      /\ x.task.session = g2 => g2 = g /\ x.task.session = g
    OBVIOUS
  <2>1. x.task.session \in Nat
    BY <1>0 DEF CaptureType, TaskType
  <2>2. x.task.session <= g
    BY DEF FitsNow, Fits, TaskFits
  <2> QED BY <1>0, <2>1, <2>2
<1>3. StreamFits(s, x, Pends(s), session.client, g, "removed" \in astray)
      /\ TaskFits(s, x, Pends(s), Up, session.client, g)
  BY DEF FitsNow, Fits
<1>4. "removed" \in astray => "removed" \in astray'
  OBVIOUS
<1>5. Pends(s)' \/ ~x.wanted
  OBVIOUS
<1>6. StreamFits(s, y, Pends(s)', session'.client, g2, "removed" \in astray')
  BY <1>1, <1>3, <1>4, <1>5 DEF StreamFits
<1>7. TaskFits(s, y, Pends(s)', Up', session'.client, g2)
  BY <1>1, <1>2, <1>3, <1>5 DEF StreamFits, TaskFits
<1> QED BY <1>6, <1>7 DEF FitsNow, Fits

(* Stopped, and not wanted any more, it fits whatever the session does. *)
IsStopped(x, y) ==
  /\ ~y.wanted /\ y.stream = "none"
  /\ y.state = "idle" \/ (y.state = "stopping" /\ y.closing # None)
  /\ \/ y.task = x.task /\ y.busy = x.busy /\ y.manager = x.manager + 1
     \/ y.task = None /\ ~y.busy

LEMMA FitsStopped ==
  ASSUME HookTypeOK, HookTypeOK', NEW s \in Captures, FitsNow(s),
         IsStopped(captures[s], captures'[s]),
         session'.generation >= session.generation,
         session'.generation # session.generation
           \/ ((Up => Up') /\ session'.client = session.client)
  PROVE  FitsNow(s)'
<1> PICK x : x = captures[s]
  OBVIOUS
<1> PICK y : y = captures'[s]
  OBVIOUS
<1> PICK g, g2 : g = session.generation /\ g2 = session'.generation
  OBVIOUS
<1>0. x \in CaptureType /\ g \in Nat /\ g2 \in Nat /\ g2 >= g
  BY DEF HookTypeOK, HookType
<1>1. IsStopped(x, y)
  OBVIOUS
<1>2. TaskFits(s, x, Pends(s), Up, session.client, g)
  BY DEF FitsNow, Fits
<1>3. StreamFits(s, y, Pends(s)', session'.client, g2, "removed" \in astray')
  BY <1>1 DEF StreamFits, IsStopped
<1>4. TaskFits(s, y, Pends(s)', Up', session'.client, g2)
  <2>1. CASE y.task = None /\ ~y.busy
    BY <2>1 DEF TaskFits
  <2>2. CASE y.task = x.task /\ y.busy = x.busy /\ y.manager = x.manager + 1
    <3>1. x.task # None => /\ x.task.session <= g2 /\ x.task.manager <= y.manager
                           /\ x.task.manager # y.manager
                           /\ x.task.session = g2 => g2 = g /\ x.task.session = g
      <4> SUFFICES ASSUME x.task # None
                   PROVE  /\ x.task.session <= g2 /\ x.task.manager <= y.manager
                          /\ x.task.manager # y.manager
                          /\ x.task.session = g2 => g2 = g /\ x.task.session = g
        OBVIOUS
      <4>1. x.task.session \in Nat /\ x.task.manager \in Nat /\ x.manager \in Nat
        BY <1>0 DEF CaptureType, TaskType
      <4>2. x.task.session <= g /\ x.task.manager <= x.manager
        BY <1>2 DEF TaskFits
      <4>3. y.manager = x.manager + 1
        BY <2>2
      <4> QED BY <1>0, <4>1, <4>2, <4>3
    <3>2. ((Up => Up') /\ session'.client = session.client) \/ g2 # g
      OBVIOUS
    <3>3. ~y.wanted /\ y.stream = "none"
      BY <1>1 DEF IsStopped
    <3> QED BY <1>2, <2>2, <3>1, <3>2, <3>3 DEF TaskFits
  <2> QED BY <1>1, <2>1, <2>2 DEF IsStopped
<1> QED BY <1>3, <1>4 DEF FitsNow, Fits

-----------------------------------------------------------------------------
(* How the captures fare when the session and its operations change.         *)
LEMMA CapsGoOn ==
  ASSUME Caps, captures' = captures, session'.client = session.client,
         session'.generation = session.generation, astray \subseteq astray', Wanting',
         \A s \in Captures : Pends(s) => Pends(s)' \/ ~captures[s].wanted,
         Up => Up'
  PROVE  Caps'
BY FitsGoesOn DEF Caps

LEMMA CapsLater ==
  ASSUME HookTypeOK, HookTypeOK', Caps,
         \A s \in Captures : \/ captures'[s] = captures[s]
                             \/ \E n : captures'[s] = [captures[s] EXCEPT !.sent = n],
         session'.generation >= session.generation,
         session'.generation # session.generation \/ ~Up,
         astray \subseteq astray', Wanting',
         \A s \in Captures : Pends(s)' \/ ~captures[s].wanted
  PROVE  Caps'
BY FitsLater DEF Caps

(* Nothing is captured in a session that is idle or being joined. *)
LEMMA CapsNobody ==
  ASSUME HookTypeOK, HookTypeOK', Caps, session.status \in {"idle", "joining"},
         captures' = captures, session'.generation >= session.generation,
         session'.requested => session'.status = "idle", astray \subseteq astray'
  PROVE  Caps'
<1>1. \A s \in Captures : ~captures[s].wanted
  BY DEF Caps, Wanting
<1>2. Wanting' /\ ~Up
  BY <1>1 DEF Wanting, Up
<1> QED BY <1>1, <1>2, CapsLater

(* What is to be restored stays so while the operation that restores it goes on. *)
LEMMA PendsStays ==
  ASSUME NEW p \in Operations, NEW s \in Captures, Rest(p), Pends(s),
         session'.generation = session.generation,
         session.status = "reconnecting" /\ session.client = None =>
           session'.status = "reconnecting" /\ session'.client = None,
         Current(p) /\ operations[p].kind = "recover" /\ operations[p].at # "repair"
           /\ (operations[p].at = "screen" => s # "camera") => Pends(s)'
  PROVE  Pends(s)'
<1>1. CASE session.status = "reconnecting" /\ session.client = None
  BY <1>1 DEF Pends
<1>2. CASE \E q \in Operations :
             /\ Current(q) /\ operations[q].kind = "recover" /\ operations[q].at # "repair"
             /\ operations[q].at = "screen" => s # "camera"
  <2>1. PICK q \in Operations :
          /\ Current(q) /\ operations[q].kind = "recover" /\ operations[q].at # "repair"
          /\ operations[q].at = "screen" => s # "camera"
    BY <1>2
  <2>2. CASE q = p
    BY <2>1, <2>2
  <2>3. CASE q # p
    <3>1. operations'[q] = operations[q] /\ Current(q)'
      BY <2>1, <2>3 DEF Rest, Current, Stale
    <3> QED BY <2>1, <3>1 DEF Pends
  <2> QED BY <2>2, <2>3
<1> QED BY <1>1, <1>2 DEF Pends

(* An operation that goes on, or ends, without a word to the session.        *)
LEMMA CapsMoves ==
  ASSUME Caps, NEW p \in Operations, Rest(p), captures' = captures,
         session'.status = session.status, session'.generation = session.generation,
         session'.requested = session.requested, session'.client = session.client,
         astray \subseteq astray',
         \/ ~Current(p) \/ operations[p].kind # "recover"
         \/ /\ operations'[p] # None /\ operations'[p].kind = operations[p].kind
            /\ operations'[p].generation = operations[p].generation
            /\ operations'[p].at \notin {"repair", "screen"}
  PROVE  Caps'
<1>1. \A s \in Captures : Pends(s) => Pends(s)'
  <2> SUFFICES ASSUME NEW s \in Captures, Pends(s) PROVE Pends(s)'
    OBVIOUS
  <2>1. Current(p) /\ operations[p].kind = "recover" => Pends(s)'
    <3> SUFFICES ASSUME Current(p), operations[p].kind = "recover" PROVE Pends(s)'
      OBVIOUS
    <3>1. Current(p)' /\ operations'[p].kind = "recover" /\ operations'[p].at \notin {"repair", "screen"}
      BY DEF Current, Stale
    <3> QED BY <3>1 DEF Pends
  <2> QED BY <2>1, PendsStays
<1>2. Wanting' /\ (Up => Up')
  BY DEF Caps, Wanting, Up
<1> QED BY <1>1, <1>2, CapsGoOn

(* An operation that restores everything, in a session that was not up or has  *)
(* just begun.                                                              *)
LEMMA CapsRestores ==
  ASSUME HookTypeOK, HookTypeOK', Caps, NEW p \in Operations,
         Current(p)', operations'[p].kind = "recover", operations'[p].at \notin {"repair", "screen"},
         \A s \in Captures : \/ captures'[s] = captures[s]
                             \/ \E n : captures'[s] = [captures[s] EXCEPT !.sent = n],
         session'.generation >= session.generation,
         session'.generation # session.generation \/ ~Up,
         ~session'.requested, session'.status \notin {"idle", "joining"},
         astray \subseteq astray'
  PROVE  Caps'
<1>1. \A s \in Captures : Pends(s)'
  BY DEF Pends
<1>2. Wanting'
  BY DEF Wanting
<1> QED BY <1>1, <1>2, CapsLater

LEMMA StoppedDoes ==
  ASSUME NEW x \in CaptureType
  PROVE  /\ Stopped(x).manager = x.manager + 1 /\ Stopped(x).stream = "none"
         /\ Stopped(x).state = x.state /\ Stopped(x).busy = x.busy /\ Stopped(x).wanted = x.wanted
         /\ Stopped(x).generation = x.generation /\ Stopped(x).task = x.task
         /\ Stopped(x).closing = x.closing /\ Stopped(x).sent = x.sent
BY DEF Stopped, CaptureType

LEMMA LeaveCaps ==
  ASSUME HookNoneApart, HookTypeOK, HookTypeOK', Caps, NEW p, LeaveWith(p)
  PROVE  Caps'
<1>1. /\ session'.status = "idle" /\ session'.generation = session.generation + 1
      /\ session'.requested
      /\ \A s \in Captures : captures'[s] =
           [Stopped(captures[s]) EXCEPT !.state = "idle", !.wanted = FALSE,
              !.sent = IF @ = session.client THEN None ELSE @]
  BY LeaveWithDoes
<1>2. ASSUME NEW s \in Captures
      PROVE  IsStopped(captures[s], captures'[s])
  <2>1. captures[s] \in CaptureType /\ Stopped(captures[s]) \in CaptureType
    BY StoppedTyped DEF HookTypeOK
  <2>4. PICK y \in CaptureType : y = Stopped(captures[s])
    BY <2>1
  <2>5. PICK n : n = IF y.sent = session.client THEN None ELSE y.sent
    OBVIOUS
  <2>2. captures'[s] = [y EXCEPT !.state = "idle", !.wanted = FALSE, !.sent = n]
    BY <1>1, <2>4, <2>5
  <2>3. /\ ~captures'[s].wanted /\ captures'[s].state = "idle"
        /\ captures'[s].stream = Stopped(captures[s]).stream
        /\ captures'[s].task = Stopped(captures[s]).task
        /\ captures'[s].busy = Stopped(captures[s]).busy
        /\ captures'[s].manager = Stopped(captures[s]).manager
    BY <2>2, <2>4 DEF CaptureType
  <2> QED BY <2>1, <2>3, StoppedDoes DEF IsStopped
<1>3. session'.generation >= session.generation /\ session'.generation # session.generation
  <2>1. session.generation \in Nat /\ session'.generation = session.generation + 1
    BY <1>1 DEF HookTypeOK, HookType
  <2> QED BY <2>1
<1>4. Wanting'
  BY <1>1, <1>2 DEF Wanting, IsStopped
<1> QED BY <1>2, <1>3, <1>4, FitsStopped DEF Caps

LEMMA UserCaps ==
  ASSUME HookNoneApart, HookTypeOK, HookTypeOK', Caps, UserActs
  PROVE  Caps'
<1>1. ASSUME NEW p \in Operations, NEW r \in Rooms, Join(p, r) PROVE Caps'
  <2>1. /\ session.status = "idle" /\ ~session'.requested
        /\ session'.generation = session.generation + 1
        /\ UNCHANGED <<captures, astray>>
    BY <1>1, JoinDoes
  <2>2. session'.generation >= session.generation
    BY <2>1 DEF HookTypeOK, HookType
  <2> QED BY <2>1, <2>2, CapsNobody
<1>2. ASSUME NEW p \in Operations, NEW r \in Rooms, SwitchCall(p, r) PROVE Caps'
  BY <1>2, LeaveCaps DEF SwitchCall
<1>3. CASE Leave
  BY <1>3, LeaveCaps DEF Leave
<1>4. CASE PeerFails \/ PeerComesBack
  <2>1. /\ UNCHANGED <<operations, captures, astray>>
        /\ session' \in {[session EXCEPT !.status = "reconnecting"], [session EXCEPT !.status = "connected"]}
        /\ session.status \in {"connected", "reconnecting"} /\ session.client # None
    BY <1>4 DEF PeerFails, PeerComesBack, clients
  <2>2. /\ session'.generation = session.generation
        /\ session'.requested = session.requested /\ session'.client = session.client
        /\ session'.status \in {"connected", "reconnecting"}
    BY <2>1 DEF HookTypeOK, HookType
  <2>3. \A s \in Captures : Pends(s) => Pends(s)'
    BY <2>1, <2>2 DEF Pends, Current, Stale
  <2>4. Wanting' /\ (Up => Up')
    BY <2>1, <2>2 DEF Caps, Wanting, Up
  <2> QED BY <2>1, <2>2, <2>3, <2>4, CapsGoOn
<1> QED BY <1>1, <1>2, <1>3, <1>4 DEF UserActs

LEMMA RejectedCaps ==
  ASSUME HookNoneApart, HookTypeOK, HookTypeOK', Grounded, Core, Caps, NEW p \in Operations,
         operations[p] # None, operations[p].at = "joining", JoinRejected(p),
         captures' = captures, astray \subseteq astray',
         Stale(p) => session.status = "idle"
  PROVE  Caps'
<1>1. session'.status = "idle" /\ session'.generation = session.generation
  BY RejectedDoes
<1>2. session.status \in {"idle", "joining"}
  <2>1. CASE Stale(p)
    BY <2>1
  <2>2. CASE Current(p)
    <3>1. CurrentIs(p) /\ GroundedAt(p)
      BY <2>2 DEF Core, EachFits, Grounded
    <3> QED BY <3>1 DEF CurrentIs, GroundedAt
  <2> QED BY <2>1, <2>2 DEF Current
<1>3. session'.generation >= session.generation
  BY <1>1 DEF HookTypeOK, HookType
<1> QED BY <1>1, <1>2, <1>3, CapsNobody

LEMMA AnswersCaps ==
  ASSUME HookNoneApart, HookTypeOK, HookTypeOK', Grounded, Core, Caps, Sound', AnswersAct
  PROVE  Caps'
<1>0. ASSUME UNCHANGED <<session, operations, captures, astray>> PROVE Caps'
  BY <1>0 DEF Caps, Wanting, FitsNow, Pends, Up, Current, Stale
<1>1. CASE JoinGranted
  <2>1. CASE ~Waits("joining")
    BY <1>0, <1>1, <2>1 DEF JoinGranted
  <2>2. CASE Waits("joining")
    <3>1. PICK p : p = Head1.by
      OBVIOUS
    <3>2. /\ p \in Operations /\ operations[p] # None /\ operations[p].at = "joining"
          /\ session'.status = "joining" /\ session'.generation = session.generation
          /\ session'.requested = session.requested
          /\ astray' = astray \cup (IF Stale(p) THEN {"revived"} ELSE {})
      BY <1>1, <2>2, <3>1, GrantedDoes
    <3>3. Current(p)
      BY <3>2 DEF Current, Sound
    <3>4. CurrentIs(p) /\ GroundedAt(p)
      BY <3>2, <3>3 DEF Core, EachFits, Grounded
    <3>5. session.status = "joining" /\ ~session.requested
      BY <3>2, <3>4 DEF CurrentIs, GroundedAt
    <3>6. session'.generation >= session.generation /\ captures' = captures
      BY <1>1, <3>2 DEF HookTypeOK, HookType, JoinGranted
    <3> QED BY <3>2, <3>5, <3>6, CapsNobody
  <2> QED BY <2>1, <2>2
<1>2. CASE JoinRefused
  <2>1. CASE ~Waits("joining")
    BY <1>0, <1>2, <2>1 DEF JoinRefused
  <2>2. CASE Waits("joining")
    <3>1. /\ commands # <<>> /\ JoinRejected(Head1.by)
          /\ astray' = astray \cup (IF Stale(Head1.by) /\ session.status # "idle" THEN {"undercut"} ELSE {})
          /\ captures' = captures
      BY <1>2, <2>2 DEF JoinRefused, Because
    <3>2. Head1.by \in Operations /\ operations[Head1.by] # None
          /\ operations[Head1.by].at = "joining"
      BY <2>2, <3>1, WaitsDoes
    <3>3. Stale(Head1.by) => session.status = "idle"
      BY <3>1 DEF Sound
    <3> QED BY <3>1, <3>2, <3>3, RejectedCaps
  <2> QED BY <2>1, <2>2
<1>3. ASSUME NEW p \in Operations, NEW queue, Doing(p, "leaving"), LeaveEnds(p, queue),
             captures' = captures
      PROVE  Caps'
  <2>1. /\ operations[p] # None /\ operations[p].at = "leaving" /\ Rest(p)
        /\ \/ /\ session.status = "idle" /\ UNCHANGED astray
              /\ session'.generation = session.generation + 1 /\ ~session'.requested
           \/ HookStays /\ astray' = astray \cup {"misplaced"}
    BY <1>3, LeaveEndsDoes
  <2>2. CASE /\ session.status = "idle" /\ UNCHANGED astray
             /\ session'.generation = session.generation + 1 /\ ~session'.requested
    <3>1. session'.generation >= session.generation
      BY <2>2 DEF HookTypeOK, HookType
    <3> QED BY <1>3, <2>2, <3>1, CapsNobody
  <2>3. CASE HookStays /\ astray' = astray \cup {"misplaced"}
    <3>1. operations[p].kind # "recover"
      BY <2>1 DEF Grounded, GroundedAt
    <3> QED BY <1>3, <2>1, <2>3, <3>1, CapsMoves DEF HookStays
  <2> QED BY <2>1, <2>2, <2>3
<1>5. CASE LeaveHandled
  <2>1. CASE ~Waits("leaving")
    BY <1>0, <1>5, <2>1 DEF LeaveHandled
  <2>2. CASE Waits("leaving")
    <3>1. /\ LeaveEnds(Head1.by, Tail(commands)) /\ captures' = captures /\ Doing(Head1.by, "leaving")
          /\ commands # <<>>
      BY <1>5, <2>2 DEF LeaveHandled, Waits
    <3>2. Head1.by \in Operations
      BY <2>2, <3>1, WaitsDoes
    <3> QED BY <1>3, <3>1, <3>2
  <2> QED BY <2>1, <2>2
<1>6. CASE LeaveLost
  <2>1. /\ UNCHANGED <<session, operations, captures>> /\ astray \subseteq astray'
        /\ astray' \subseteq astray \cup {"unleft"}
    BY <1>6 DEF LeaveLost, Because, clients
  <2>2. (Up => Up') /\ Wanting' /\ \A s \in Captures : Pends(s) => Pends(s)'
    BY <2>1 DEF Up, Caps, Wanting, Pends, Current, Stale
  <2> QED BY <2>1, <2>2, CapsGoOn
<1>7. ASSUME NEW p \in Operations, LeaveTimesOut(p) PROVE Caps'
  BY <1>3, <1>7 DEF LeaveTimesOut
<1>4. ASSUME NEW p \in Operations, JoinTimesOut(p) PROVE Caps'
  <2>1. /\ operations[p] # None /\ operations[p].at = "joining" /\ JoinRejected(p)
        /\ captures' = captures /\ astray \subseteq astray'
    BY <1>4 DEF JoinTimesOut, Doing
  <2>2. Stale(p) => session.status = "idle"
    BY <1>4 DEF JoinTimesOut, Sound
  <2> QED BY <2>1, <2>2, RejectedCaps
<1> QED BY <1>1, <1>2, <1>4, <1>5, <1>6, <1>7 DEF AnswersAct

LEMMA StartsCaps ==
  ASSUME HookNoneApart, HookTypeOK, HookTypeOK', Grounded, Core, Caps, Sound', NEW p \in Operations,
         \/ MicrophoneGranted(p) \/ SessionCreated(p) \/ Published(p)
         \/ PublishedTooLate(p) \/ StartFails(p) \/ DevicesListed(p)
  PROVE  Caps'
<1>0. Current(p) => CurrentIs(p)
  BY DEF Core, EachFits
<1>1. CASE MicrophoneGranted(p)
  <2>1. /\ Rest(p) /\ operations'[p] # None /\ operations'[p].at = "session"
        /\ operations'[p].kind = operations[p].kind
        /\ operations'[p].generation = operations[p].generation
        /\ UNCHANGED <<session, captures, astray>>
    BY <1>1, MicrophoneGrantedDoes
  <2> QED BY <2>1, CapsMoves
<1>2. CASE SessionCreated(p)
  <2>1. MovesTo(p, "publish") /\ UNCHANGED <<session, captures, astray>>
    BY <1>2, SessionCreatedDoes
  <2> QED BY <2>1, CapsMoves DEF MovesTo
<1>3. CASE Published(p)
  <2>1. /\ MovesTo(p, "devices")
        /\ session'.status = session.status /\ session'.generation = session.generation
        /\ session'.requested = session.requested /\ session'.client = session.client
        /\ UNCHANGED <<captures, astray>>
    BY <1>3, PublishedDoes
  <2> QED BY <2>1, CapsMoves DEF MovesTo
<1>4. CASE PublishedTooLate(p)
  <2>1. /\ session'.status = session.status /\ session'.generation = session.generation
        /\ session'.requested = session.requested /\ astray \subseteq astray'
        /\ session.status # "idle" => "undercut" \in astray'
        /\ captures' = captures
    BY <1>4, PublishedTooLateDoes
  <2>2. session.status = "idle" /\ session'.generation >= session.generation
    BY <2>1 DEF Sound, HookTypeOK, HookType
  <2> QED BY <2>1, <2>2, CapsNobody
<1>5. CASE StartFails(p)
  <2>1. PICK to : to = IF operations[p].kind = "recover" THEN "reconnecting" ELSE "idle"
    OBVIOUS
  <2>2. /\ IsOver(p) /\ operations[p].at \in {"microphone", "session", "publish"}
        /\ session'.status = to /\ session'.generation = session.generation
        /\ session'.requested = session.requested
        /\ session'.client = (IF session.client = p THEN None ELSE session.client)
        /\ (Stale(p) \/ session.requested) /\ session.status # to =>
             astray' \cap {"revived", "undercut"} # {}
        /\ astray \subseteq astray' /\ captures' = captures
    BY <1>5, <2>1, StartFailsDoes
  <2>3. Stale(p) \/ session.requested => session.status = to
    BY <2>2 DEF Sound
  <2>4. session'.generation >= session.generation
    BY <2>2 DEF HookTypeOK, HookType
  <2>5. CASE operations[p].kind # "recover"
    <3>1. session.status \in {"idle", "joining"}
      BY <1>0, <2>1, <2>2, <2>3, <2>5 DEF CurrentIs, Current, IsOver
    <3> QED BY <2>1, <2>2, <2>4, <2>5, <3>1, CapsNobody
  <2>6. CASE operations[p].kind = "recover" /\ Current(p)
    <3>1. session.status = "recovering" /\ session.client = p /\ ~session.requested
      BY <1>0, <2>2, <2>6 DEF CurrentIs
    <3>2. session'.status = "reconnecting" /\ session'.client = None
      BY <2>1, <2>2, <2>6, <3>1
    <3>3. (\A s \in Captures : Pends(s)') /\ ~Up
      BY <3>1, <3>2 DEF Pends, Up
    <3>4. Wanting'
      BY <2>2, <3>1, <3>2 DEF Wanting
    <3> QED BY <2>2, <2>4, <3>3, <3>4, CapsLater
  <2>7. CASE operations[p].kind = "recover" /\ ~Current(p)
    <3>1. Stale(p) /\ operations[p] # None
      BY <2>2, <2>7 DEF Current, IsOver
    <3>2. session.client # p
      <4> SUFFICES ASSUME session.client = p PROVE FALSE
      OBVIOUS
    <4>1. p # None /\ ~Current(p)
      BY <2>7 DEF HookNoneApart
    <4>2. session.status = "recovering"
      BY <3>1, <4>1, ClientOver
    <4> QED BY <2>1, <2>3, <2>7, <3>1, <4>2
    <3>3. session'.status = session.status /\ session'.client = session.client
      BY <2>1, <2>2, <2>3, <2>7, <3>1, <3>2
    <3> QED BY <2>2, <2>7, <3>3, CapsMoves DEF IsOver
  <2> QED BY <2>5, <2>6, <2>7
<1>6. CASE DevicesListed(p)
  <2>1. /\ operations[p] # None /\ operations[p].at = "devices"
        /\ session'.status = "connected" /\ session'.generation = session.generation
        /\ session'.requested = session.requested
        /\ operations[p].kind = "recover" /\ ~Stale(p) => MovesTo(p, "camera")
        /\ astray' = astray \cup (IF Stale(p) THEN {"revived"} ELSE {})
        /\ captures' = captures
    BY <1>6, DevicesListedDoes
  <2>2. Current(p) /\ ~Stale(p)
    BY <2>1 DEF Current, Sound
  <2>3. ~session.requested /\ session'.generation >= session.generation
    BY <1>0, <2>1, <2>2 DEF CurrentIs, HookTypeOK, HookType
  <2>4. CASE operations[p].kind # "recover"
    <3>1. session.status = "joining"
      BY <1>0, <2>2, <2>4 DEF CurrentIs
    <3> QED BY <2>1, <2>3, <3>1, CapsNobody
  <2>5. CASE operations[p].kind = "recover"
    <3>1. session.status = "recovering"
      BY <1>0, <2>1, <2>2, <2>5 DEF CurrentIs
    <3>2. /\ Current(p)' /\ operations'[p].kind = "recover"
          /\ operations'[p].at \notin {"repair", "screen"} /\ ~Up
      BY <2>1, <2>2, <2>5, <3>1 DEF Current, Stale, MovesTo, Up
    <3> QED BY <2>1, <2>3, <3>2, CapsRestores
  <2> QED BY <2>4, <2>5
<1> QED BY <1>1, <1>2, <1>3, <1>4, <1>5, <1>6

LEMMA RecoveriesCaps ==
  ASSUME HookNoneApart, HookTypeOK, HookTypeOK', Grounded, Core, Caps, Sound', NEW p \in Operations,
         \/ ReconcileRebuilding(p) \/ ReconcileRepairing(p) \/ Repaired(p) \/ RepairFails(p)
         \/ RecoveryStarts(p)
  PROVE  Caps'
<1>1. CASE ReconcileRebuilding(p)
  <2>1. /\ Recovers(p, "detaching") /\ Detach(session.client, p) /\ UNCHANGED astray
    BY <1>1, RebuildingDoes
  <2>2. session.client \in Names /\ p \in Names
    BY DEF HookTypeOK, HookType, Names
  <2>3. /\ session'.status = "recovering" /\ session'.generation = session.generation + 1
        /\ session'.requested = session.requested /\ LetsGo(session.client)
    BY <2>1, <2>2, DetachDoes
  <2>4. \A s \in Captures : \/ captures'[s] = captures[s]
                            \/ \E n : captures'[s] = [captures[s] EXCEPT !.sent = n]
    BY <2>3 DEF LetsGo
  <2>5. /\ Current(p)' /\ operations'[p].kind = "recover"
        /\ operations'[p].at \notin {"repair", "screen"} /\ ~session.requested
    BY <2>1 DEF Recovers, Current, Stale
  <2>6. session'.generation >= session.generation /\ session'.generation # session.generation
    <3>1. session.generation \in Nat /\ session'.generation = session.generation + 1
      BY <2>3 DEF HookTypeOK, HookType
    <3> QED BY <3>1
  <2> QED BY <2>1, <2>3, <2>4, <2>5, <2>6, CapsRestores
<1>2. CASE ReconcileRepairing(p)
  <2>1. /\ Recovers(p, "repair")
        /\ session'.status = session.status /\ session'.generation = session.generation
        /\ session'.requested = session.requested /\ session'.client = session.client
        /\ UNCHANGED <<captures, astray>>
    BY <1>2, RepairingDoes
  <2> QED BY <2>1, CapsMoves DEF Recovers, Current
<1>3. CASE Repaired(p)
  <2>1. /\ IsOver(p) /\ operations[p].at = "repair" /\ ~Stale(p)
        /\ session'.status = "connected" /\ session'.generation = session.generation
        /\ session'.requested = session.requested /\ session'.client = session.client
        /\ UNCHANGED <<captures, astray>>
    BY <1>3, RepairedDoes
  <2>2. Current(p)
    BY <2>1 DEF Current, IsOver
  <2>3. /\ CurrentIs(p) /\ operations[p].kind = "recover" /\ session.client # None
    BY <2>1, <2>2, InRepair
  <2>4. session.status \in {"connected", "reconnecting"} /\ ~session.requested
    BY <2>1, <2>3 DEF CurrentIs
  <2>5. \A s \in Captures : Pends(s) => Pends(s)'
    BY <2>1, <2>3, PendsStays DEF IsOver
  <2>6. Wanting' /\ (Up => Up')
    BY <2>1, <2>3, <2>4 DEF Wanting, Up
  <2> QED BY <2>1, <2>5, <2>6, CapsGoOn
<1>4. CASE RepairFails(p)
  <2>1. /\ operations[p] # None /\ operations[p].at = "repair" /\ operations[p].from \in Names
        /\ operations'[p] # None /\ operations'[p].kind = operations[p].kind
        /\ operations'[p].at = "detaching" /\ operations'[p].generation = session'.generation
        /\ Detach(operations[p].from, session.recovery) /\ session.recovery \in Names
        /\ astray' = astray \cup (IF Stale(p) THEN {"revived"} ELSE {})
    BY <1>4, RepairFailsDoes
  <2>2. Current(p)
    BY <2>1 DEF Current, Sound
  <2>3. CurrentIs(p) /\ operations[p].kind = "recover"
    BY <2>1, <2>2, InRepair
  <2>4. /\ session'.status = "recovering" /\ session'.generation = session.generation + 1
        /\ session'.requested = session.requested /\ LetsGo(operations[p].from)
    BY <2>1, DetachDoes
  <2>5. \A s \in Captures : \/ captures'[s] = captures[s]
                            \/ \E n : captures'[s] = [captures[s] EXCEPT !.sent = n]
    BY <2>4 DEF LetsGo
  <2>6. Current(p)' /\ ~session.requested
    BY <2>1, <2>3 DEF Current, Stale, CurrentIs
  <2>7. session'.generation >= session.generation /\ session'.generation # session.generation
    <3>1. session.generation \in Nat /\ session'.generation = session.generation + 1
      BY <2>4 DEF HookTypeOK, HookType
    <3> QED BY <3>1
  <2> QED BY <2>1, <2>3, <2>4, <2>5, <2>6, <2>7, CapsRestores
<1>5. CASE RecoveryStarts(p)
  <2>1. PICK kept : kept <=> operations[p].microphone \in microphones
    OBVIOUS
  <2>2. /\ operations[p] # None /\ operations[p].at = "detaching"
        /\ operations'[p] # None /\ operations'[p].kind = operations[p].kind
        /\ operations'[p].generation = operations[p].generation
        /\ kept => operations'[p].at = "session"
        /\ ~kept => operations'[p].at = "microphone"
        /\ session'.status = "recovering" /\ session'.generation = session.generation
        /\ session'.requested = session.requested
        /\ astray' = astray \cup (IF Stale(p) THEN {"revived"} ELSE {})
        /\ Closed(operations[p].from)
    BY <1>5, <2>1, RecoveryStartsDoes
  <2>3. Current(p) /\ ~Stale(p)
    BY <2>2 DEF Current, Sound
  <2>4. CurrentIs(p) /\ GroundedAt(p)
    BY <2>3 DEF Core, EachFits, Grounded, Current
  <2>5. /\ operations[p].kind = "recover" /\ ~session.requested /\ session.status = "recovering"
    BY <2>2, <2>4 DEF GroundedAt, CurrentIs
  <2>6. Current(p)' /\ operations'[p].at \notin {"repair", "screen"} /\ ~Up
    BY <2>2, <2>3, <2>5 DEF Current, Stale, Up
  <2>7. session'.generation >= session.generation
    BY <2>2 DEF HookTypeOK, HookType
  <2>8. \A s \in Captures : \/ captures'[s] = captures[s]
                            \/ \E n : captures'[s] = [captures[s] EXCEPT !.sent = n]
    <3>1. LetsGo(operations[p].from)
      BY <2>2, ClosedDoes
    <3> QED BY <3>1 DEF LetsGo
  <2> QED BY <2>2, <2>5, <2>6, <2>7, <2>8, CapsRestores
<1> QED BY <1>1, <1>2, <1>3, <1>4, <1>5

(* The session that restores a capture goes on, and has the other one still to do *)
(* if it comes after.                                                       *)
LEMMA RestoresSession ==
  ASSUME HookNoneApart, HookTypeOK, HookTypeOK', Grounded, Core, Caps, Sound',
         NEW p \in Operations, NEW s \in Captures,
         CaptureRestored(p, s) \/ CaptureLost(p, s) \/ CaptureUnwanted(p, s)
  PROVE  /\ session'.client = session.client /\ session'.generation = session.generation
         /\ astray \subseteq astray' /\ (Up => Up')
         /\ session'.requested = session.requested
         /\ session'.status \in {"idle", "joining"} => session' = session
         /\ session'.requested => session'.status = "idle"
         /\ \A t \in Captures : t # s /\ Pends(t) => Pends(t)'
         /\ peers[p] = "open" => Current(p) /\ session.client = p /\ Up'
<1>1. /\ operations[p] # None /\ operations[p].at = s
      /\ \/ s = "camera" /\ MovesTo(p, "screen") /\ UNCHANGED <<session, astray>>
         \/ /\ s # "camera" /\ IsOver(p)
            /\ session'.status = "connected" /\ session'.generation = session.generation
            /\ session'.requested = session.requested /\ session'.client = session.client
            /\ astray' = astray \cup (IF Stale(p) THEN {"revived"} ELSE {})
  BY AfterCaptureDoes
<1>2. s \in {"camera", "screen"} /\ p # None
  BY CapturesAreTwo, HookNoneApart DEF HookNoneApart
<1>3. operations[p].kind = "recover"
  BY <1>1, <1>2 DEF Grounded, GroundedAt
<1>4. Current(p) => /\ session.client = p /\ ~session.requested
                    /\ session.status \in {"connected", "reconnecting"}
  BY <1>1, <1>2, <1>3 DEF Core, EachFits, CurrentIs
<1>5. peers[p] = "open" => Current(p)
  BY <1>1, <1>2 DEF Core, EachFits, StaleIs, Current, Aside
<1>6. CASE s = "camera" /\ MovesTo(p, "screen") /\ UNCHANGED <<session, astray>>
  <2>1. ASSUME NEW t \in Captures, t # s, Pends(t) PROVE Pends(t)'
    <3>1. Current(p) => Current(p)'
      BY <1>6 DEF Current, Stale, MovesTo
    <3>2. Current(p)' => Pends(t)'
      BY <1>3, <1>6, <2>1 DEF Pends, MovesTo
    <3> QED BY <1>6, <2>1, <3>1, <3>2, PendsStays DEF MovesTo
  <2>2. (Up => Up') /\ (session.requested => session.status = "idle")
    BY <1>6 DEF Up, Caps, Wanting
  <2>3. Current(p) => Up'
    BY <1>2, <1>4, <1>6 DEF Up
  <2> QED BY <1>4, <1>5, <1>6, <2>1, <2>2, <2>3
<1>7. CASE /\ s # "camera" /\ IsOver(p)
           /\ session'.status = "connected" /\ session'.generation = session.generation
           /\ session'.requested = session.requested /\ session'.client = session.client
           /\ astray' = astray \cup (IF Stale(p) THEN {"revived"} ELSE {})
  <2>1. Current(p)
    BY <1>1, <1>7 DEF Current, Sound
  <2>2. session.client = p /\ ~session.requested /\ Up'
    BY <1>2, <1>4, <1>7, <2>1 DEF Up
  <2>3. ASSUME NEW t \in Captures, t # s, Pends(t) PROVE Pends(t)'
    <3>1. t = "camera" /\ operations[p].at = "screen"
      BY <1>1, <1>2, <1>7, <2>3, CapturesAreTwo
    <3> QED BY <1>2, <1>7, <2>2, <2>3, <3>1, PendsStays DEF IsOver
  <2> QED BY <1>7, <2>1, <2>2, <2>3
<1> QED BY <1>1, <1>6, <1>7

LEMMA RestoresCaps ==
  ASSUME HookNoneApart, HookTypeOK, HookTypeOK', Grounded, Core, Caps, Sound',
         NEW p \in Operations, NEW s \in Captures,
         CaptureRestored(p, s) \/ CaptureLost(p, s) \/ CaptureUnwanted(p, s)
  PROVE  Caps'
<1>1. /\ session'.client = session.client /\ session'.generation = session.generation
      /\ astray \subseteq astray' /\ (Up => Up')
      /\ session'.requested = session.requested
      /\ session'.status \in {"idle", "joining"} => session' = session
      /\ session'.requested => session'.status = "idle"
      /\ \A t \in Captures : t # s /\ Pends(t) => Pends(t)'
      /\ peers[p] = "open" => Current(p) /\ session.client = p /\ Up'
  BY RestoresSession
<1>2. FitsNow(s) /\ captures \in [Captures -> CaptureType] /\ captures[s] \in CaptureType
  BY DEF Caps, HookTypeOK
<1>3. session'.generation >= session.generation
  BY <1>1 DEF HookTypeOK, HookType
<1>4. ASSUME FitsNow(s)', \A t \in Captures : t # s => captures'[t] = captures[t],
             captures'[s].wanted => captures[s].wanted
      PROVE  Caps'
  <2>1. \A t \in Captures : captures'[t].wanted => captures[t].wanted
    BY <1>4
  <2>2. Wanting'
    BY <1>1, <2>1 DEF Caps, Wanting
  <2>3. ASSUME NEW t \in Captures, t # s PROVE FitsNow(t)'
    <3>1. FitsNow(t) /\ captures'[t] = captures[t]
      BY <1>4, <2>3 DEF Caps
    <3> QED BY <1>1, <2>3, <3>1, FitsGoesOn
  <2> QED BY <1>4, <2>2, <2>3 DEF Caps
<1>5. CASE CaptureUnwanted(p, s)
  <2>1. captures' = captures /\ ~captures[s].wanted
    BY <1>5 DEF CaptureUnwanted
  <2>2. FitsNow(s)'
    BY <1>1, <1>2, <2>1, FitsGoesOn
  <2> QED BY <1>4, <2>1, <2>2
<1>6. CASE CaptureLost(p, s)
  <2>1. PICK y \in CaptureType : y = Stopped(captures[s])
    BY <1>2, StoppedTyped
  <2>2. captures' = [captures EXCEPT ![s] = [y EXCEPT !.wanted = FALSE, !.state = "idle"]]
    BY <1>6, <2>1 DEF CaptureLost
  <2>3. y.manager = captures[s].manager + 1 /\ y.stream = "none" /\ y.task = captures[s].task
        /\ y.busy = captures[s].busy
    BY <1>2, <2>1, StoppedDoes
  <2>4. /\ captures'[s].manager = y.manager /\ captures'[s].stream = y.stream
        /\ captures'[s].task = y.task /\ captures'[s].busy = y.busy
        /\ ~captures'[s].wanted /\ captures'[s].state = "idle"
        /\ \A t \in Captures : t # s => captures'[t] = captures[t]
    BY <1>2, <2>2 DEF CaptureType
  <2>5. IsStopped(captures[s], captures'[s])
    BY <2>3, <2>4 DEF IsStopped
  <2>6. FitsNow(s)'
    BY <1>1, <1>2, <1>3, <2>5, FitsStopped
  <2> QED BY <1>4, <2>4, <2>6
<1>7. CASE CaptureRestored(p, s)
  <2>1. /\ captures' = [captures EXCEPT ![s].stream = "live", ![s].state = "active", ![s].sent = p]
        /\ captures[s].wanted /\ peers[p] = "open" /\ (s = "camera" \/ captures[s].stream = "live")
    BY <1>7 DEF CaptureRestored, Live
  <2>2. captures' = [captures EXCEPT ![s] = [captures[s] EXCEPT !.stream = "live", !.state = "active", !.sent = p]]
    BY <1>2, <2>1
  <2> PICK x : x = captures[s]
    OBVIOUS
  <2> PICK y : y = captures'[s]
    OBVIOUS
  <2>3. /\ y.stream = "live" /\ y.state = "active" /\ y.sent = p /\ y.wanted = x.wanted
        /\ y.task = x.task /\ y.busy = x.busy /\ y.manager = x.manager /\ y.closing = x.closing
        /\ y.generation = x.generation
        /\ \A t \in Captures : t # s => captures'[t] = captures[t]
    BY <1>2, <2>2 DEF CaptureType
  <2>4. session.client = p /\ Up'
    BY <1>1, <2>1
  <2>5. StreamFits(s, y, Pends(s)', session'.client, session'.generation, "removed" \in astray')
    BY <1>1, <2>1, <2>3, <2>4 DEF StreamFits
  <2>6. TaskFits(s, x, Pends(s), Up, session.client, session.generation)
    BY <1>2 DEF FitsNow, Fits
  <2>7. TaskFits(s, y, Pends(s)', Up', session'.client, session'.generation)
    <3>1. x.task # None =>
            /\ x.task.generation # x.generation => ~x.wanted
            /\ x.task.at # "switching" /\ x.task.session = session.generation =>
                 x.task.client = session.client
            /\ x.task.at = "permission" /\ x.task.manager = x.manager => s = "camera"
      BY <2>1, <2>6 DEF TaskFits
    <3>2. y.busy <=> y.task # None
      BY <2>3, <2>6 DEF TaskFits
    <3>3. x.task # None =>
            /\ x.task.session <= session.generation /\ x.task.manager <= x.manager
            /\ x.task.at = "switching" => s = "camera"
      BY <2>6 DEF TaskFits
    <3>4. y.wanted
      BY <2>1, <2>3
    <3> QED BY <1>1, <2>3, <2>4, <3>1, <3>2, <3>3, <3>4 DEF TaskFits
  <2>8. FitsNow(s)'
    BY <2>5, <2>7 DEF FitsNow, Fits
  <2> QED BY <1>4, <2>3, <2>8
<1> QED BY <1>5, <1>6, <1>7

-----------------------------------------------------------------------------
(* What changes one capture leaves the session to the others.                *)
OneFits(s, y) ==
  /\ StreamFits(s, y, Pends(s), session.client, session.generation, "removed" \in astray')
  /\ TaskFits(s, y, Pends(s), Up, session.client, session.generation)

LEMMA CapsOne ==
  ASSUME Caps, NEW s \in Captures, NEW y, OneFits(s, y), captures' = [captures EXCEPT ![s] = y],
         captures \in [Captures -> CaptureType],
         UNCHANGED <<session, operations>>, astray \subseteq astray',
         y.wanted => captures[s].wanted \/ session.status = "connected"
  PROVE  Caps'
<1>1. captures'[s] = y /\ \A t \in Captures : t # s => captures'[t] = captures[t]
  OBVIOUS
<1>2. (\A t \in Captures : Pends(t)' <=> Pends(t)) /\ (Up' <=> Up)
  BY DEF Pends, Current, Stale, Up
<1>3. FitsNow(s)'
  BY <1>1, <1>2 DEF OneFits, FitsNow, Fits, StreamFits, TaskFits
<1>4. ASSUME NEW t \in Captures, t # s PROVE FitsNow(t)'
  <2>1. FitsNow(t) /\ captures'[t] = captures[t]
    BY <1>1, <1>4 DEF Caps
  <2> QED BY <1>2, <2>1, FitsGoesOn
<1>5. Wanting'
  BY <1>1 DEF Caps, Wanting
<1> QED BY <1>3, <1>4, <1>5 DEF Caps

LEMMA IdledDoes ==
  ASSUME HookNoneApart, NEW x \in CaptureType
  PROVE  /\ Idled(x).task = None /\ ~Idled(x).busy
         /\ Idled(x).state = x.state /\ Idled(x).wanted = x.wanted /\ Idled(x).stream = x.stream
         /\ Idled(x).manager = x.manager /\ Idled(x).generation = x.generation
         /\ Idled(x).sent = x.sent /\ (x.closing # None => Idled(x).closing # None)
<1> PICK c : c = IF x.closing = None THEN None ELSE [x.closing EXCEPT !.behind = FALSE]
  OBVIOUS
<1>1. Idled(x) = [x EXCEPT !.task = None, !.busy = FALSE, !.closing = c]
  BY DEF Idled
<1>2. x.closing # None => c # None
  <2> SUFFICES ASSUME x.closing # None PROVE c # None
    OBVIOUS
  <2>1. x.closing \in ClosingType
    BY DEF CaptureType
  <2>2. c \in ClosingType
    BY <2>1 DEF ClosingType
  <2> QED BY <2>2 DEF HookNoneApart
<1> QED BY <1>1, <1>2 DEF CaptureType

(* A task of an earlier session changes nothing any more: what waits for it is *)
(* to be restored.                                                          *)
LEMMA IdledFits ==
  ASSUME HookNoneApart, NEW s \in Captures, NEW x \in CaptureType,
         StreamFits(s, x, Pends(s), session.client, session.generation, "removed" \in astray),
         x.task # None, x.task.session # session.generation, astray \subseteq astray'
  PROVE  OneFits(s, Idled(x))
<1> PICK y : y = Idled(x)
  OBVIOUS
<1>1. /\ y.task = None /\ ~y.busy /\ y.state = x.state /\ y.wanted = x.wanted
      /\ y.stream = x.stream /\ y.sent = x.sent /\ (x.closing # None => y.closing # None)
  BY IdledDoes
<1>2. "removed" \in astray => "removed" \in astray'
  OBVIOUS
<1>3. StreamFits(s, y, Pends(s), session.client, session.generation, "removed" \in astray')
  BY <1>1, <1>2 DEF StreamFits
<1>4. TaskFits(s, y, Pends(s), Up, session.client, session.generation)
  BY <1>1 DEF TaskFits
<1> QED BY <1>3, <1>4 DEF OneFits

LEMMA CaughtFits ==
  ASSUME HookNoneApart, NEW s \in Captures, NEW x \in CaptureType, x.task = captures[s].task,
         x.task # None, astray \subseteq astray',
         Outdated(s) =>
           StreamFits(s, x, Pends(s), session.client, session.generation, "removed" \in astray)
  PROVE  OneFits(s, Caught(s, x)) /\ (Caught(s, x).wanted => x.wanted)
<1>1. CASE Outdated(s)
  <2>1. OneFits(s, Idled(x))
    BY <1>1, IdledFits DEF Outdated
  <2> QED BY <1>1, <2>1, IdledDoes DEF Caught
<1>2. CASE ~Outdated(s)
  <2> PICK i \in CaptureType : i = Idled(x)
    BY IdledTyped
  <2> PICK z \in CaptureType : z = Stopped(i)
    BY StoppedTyped
  <2> PICK y : y = Caught(s, x)
    OBVIOUS
  <2>1. y = [z EXCEPT !.wanted = FALSE, !.state = "idle"]
    BY <1>2 DEF Caught
  <2>2. z.stream = "none" /\ z.task = None /\ ~z.busy
    BY IdledDoes, StoppedDoes
  <2>3. y.stream = "none" /\ y.task = None /\ ~y.busy /\ ~y.wanted /\ y.state = "idle"
    BY <2>1, <2>2 DEF CaptureType
  <2>4. OneFits(s, y)
    BY <2>3 DEF OneFits, StreamFits, TaskFits
  <2> QED BY <2>3, <2>4
<1> QED BY <1>1, <1>2

LEMMA NowFits ==
  ASSUME HookTypeOK, Caps, NEW s \in Captures
  PROVE  /\ captures \in [Captures -> CaptureType] /\ captures[s] \in CaptureType
         /\ captures[s].task # None => captures[s].task \in TaskType
         /\ session.generation \in Nat
         /\ StreamFits(s, captures[s], Pends(s), session.client, session.generation, "removed" \in astray)
         /\ TaskFits(s, captures[s], Pends(s), Up, session.client, session.generation)
BY DEF HookTypeOK, HookType, CaptureType, Caps, FitsNow, Fits

LEMMA StartCaptureCaps ==
  ASSUME HookNoneApart, HookTypeOK, Caps, NEW s \in Captures, StartCapture(s)
  PROVE  Caps'
<1> PICK x : x = captures[s]
  OBVIOUS
<1> PICK g : g = session.generation
  OBVIOUS
<1>1. /\ captures \in [Captures -> CaptureType] /\ x \in CaptureType /\ g \in Nat
      /\ StreamFits(s, x, Pends(s), session.client, g, "removed" \in astray)
      /\ TaskFits(s, x, Pends(s), Up, session.client, g)
  BY NowFits
<1>2. /\ session.client # None /\ session.status = "connected" /\ x.state = "idle" /\ ~x.busy
      /\ UNCHANGED <<session, operations, astray>>
  BY DEF StartCapture, clients
<1> PICK t : t = [at |-> "permission", generation |-> x.generation, session |-> g,
                  manager |-> x.manager, client |-> session.client]
  OBVIOUS
<1> PICK y : y = [x EXCEPT !.busy = TRUE, !.wanted = TRUE, !.state = "requesting-permission", !.task = t]
  OBVIOUS
<1>3. captures' = [captures EXCEPT ![s] = y]
  BY <1>1 DEF StartCapture
<1>4. /\ t.at = "permission" /\ t.generation = x.generation /\ t.session = g
      /\ t.manager = x.manager /\ t.client = session.client /\ t # None
      /\ x.manager \in Nat
  <2>1. t \in TaskType
    BY <1>1 DEF TaskType, CaptureType, HookTypeOK, HookType
  <2> QED BY <1>1, <2>1 DEF HookNoneApart, CaptureType
<1>5. /\ y.busy /\ y.wanted /\ y.state = "requesting-permission" /\ y.task = t
      /\ y.generation = x.generation /\ y.manager = x.manager /\ y.stream = x.stream
  BY <1>1 DEF CaptureType
<1>6. x.stream = "none" /\ Up
  BY <1>1, <1>2 DEF StreamFits, Up
<1>7. StreamFits(s, y, Pends(s), session.client, g, "removed" \in astray')
  BY <1>4, <1>5, <1>6 DEF StreamFits
<1>8. g <= g /\ x.manager <= x.manager
  BY <1>1, <1>4
<1>9. TaskFits(s, y, Pends(s), Up, session.client, g)
  BY <1>4, <1>5, <1>6, <1>8 DEF TaskFits
<1>10. OneFits(s, y)
  BY <1>7, <1>9 DEF OneFits
<1> QED BY <1>1, <1>2, <1>3, <1>10, CapsOne

LEMMA CaptureGrantedCaps ==
  ASSUME HookNoneApart, HookTypeOK, Caps, NEW s \in Captures, CaptureGranted(s)
  PROVE  Caps'
<1> PICK x : x = captures[s]
  OBVIOUS
<1>1. /\ captures \in [Captures -> CaptureType] /\ x \in CaptureType
      /\ StreamFits(s, x, Pends(s), session.client, session.generation, "removed" \in astray)
      /\ TaskFits(s, x, Pends(s), Up, session.client, session.generation)
  BY NowFits
<1>2. /\ x.task # None /\ x.task.at = "permission" /\ x.task \in TaskType
      /\ UNCHANGED <<session, operations, astray>>
  BY NowFits DEF CaptureGranted, At, clients
<1> PICK open : open = IF s = "screen" /\ x.stream # "none" THEN x ELSE [x EXCEPT !.stream = "live"]
  OBVIOUS
<1>3. captures' = [captures EXCEPT ![s] =
        IF x.task.manager # x.manager THEN Caught(s, x)
        ELSE IF ~Outdated(s)
        THEN [open EXCEPT !.task.at = "publishing", !.state = "publishing"]
        ELSE Idled(IF s = "camera" THEN open ELSE [x EXCEPT !.stream = "ended"])]
  BY DEF CaptureGranted
<1>4. s \in {"camera", "screen"}
  BY CapturesAreTwo
<1>5. CASE x.task.manager # x.manager
  <2>1. OneFits(s, Caught(s, x)) /\ (Caught(s, x).wanted => x.wanted)
    BY <1>1, <1>2, CaughtFits
  <2>2. captures' = [captures EXCEPT ![s] = Caught(s, x)]
    BY <1>3, <1>5
  <2> QED BY <1>1, <1>2, <2>1, <2>2, CapsOne
<1>6. CASE x.task.manager = x.manager
  <2>1. /\ x.wanted
        /\ s = "camera" => x.state \in {"requesting-permission", "active"}
        /\ s # "camera" => x.state = "requesting-permission" /\ x.stream = "none"
    BY <1>1, <1>2, <1>6 DEF TaskFits
  <2>2. open = [x EXCEPT !.stream = "live"]
    BY <1>4, <2>1
  <2>3. CASE ~Outdated(s)
    <3> PICK t : t = [x.task EXCEPT !.at = "publishing"]
      OBVIOUS
    <3> PICK y : y = [x EXCEPT !.stream = "live", !.task = t, !.state = "publishing"]
      OBVIOUS
    <3>1. [open EXCEPT !.task.at = "publishing", !.state = "publishing"] = y
      BY <1>1, <2>2 DEF CaptureType
    <3>2. captures' = [captures EXCEPT ![s] = y]
      BY <1>3, <1>6, <2>3, <3>1
    <3>3. /\ t.at = "publishing" /\ t.generation = x.task.generation /\ t.session = x.task.session
          /\ t.manager = x.task.manager /\ t.client = x.task.client /\ t # None
      <4>1. t \in TaskType
        BY <1>2 DEF TaskType
      <4> QED BY <1>2, <4>1 DEF HookNoneApart, TaskType
    <3>4. /\ y.stream = "live" /\ y.task = t /\ y.state = "publishing" /\ y.wanted = x.wanted
          /\ y.busy = x.busy /\ y.manager = x.manager /\ y.generation = x.generation
      BY <1>1 DEF CaptureType
    <3>5. x.task.session = session.generation
      BY <2>3 DEF Outdated
    <3>6. StreamFits(s, y, Pends(s), session.client, session.generation, "removed" \in astray')
      BY <2>1, <3>3, <3>4, <3>5 DEF StreamFits
    <3>7. TaskFits(s, y, Pends(s), Up, session.client, session.generation)
      <4>1. /\ x.busy /\ x.task.session <= session.generation /\ x.task.manager <= x.manager
            /\ x.task.generation # x.generation => ~x.wanted
            /\ Up /\ x.task.client = session.client
        BY <1>1, <1>2, <3>5 DEF TaskFits
      <4>2. y.busy
        BY <3>4, <4>1
      <4>3. /\ y.task = t /\ y.task # None /\ y.task.at = "publishing"
            /\ y.task.session <= session.generation /\ y.task.manager <= y.manager
        BY <3>3, <3>4, <4>1
      <4>4. y.task.client = session.client
        BY <3>3, <3>4, <4>1
      <4>6. x.task.generation = x.generation
        BY <2>1, <4>1
      <4>7. y.task.generation = y.generation
        BY <3>3, <3>4, <4>6
      <4>5. Up
        BY <4>1
      <4> QED BY <4>2, <4>3, <4>4, <4>5, <4>7 DEF TaskFits
    <3>8. OneFits(s, y)
      BY <3>6, <3>7 DEF OneFits
    <3> QED BY <1>1, <1>2, <2>1, <3>2, <3>8, CapsOne
  <2>4. CASE Outdated(s)
    <3> PICK stream \in {"live", "ended"} : stream = IF s = "camera" THEN "live" ELSE "ended"
      OBVIOUS
    <3> PICK z : z = [x EXCEPT !.stream = stream]
      OBVIOUS
    <3>1. captures' = [captures EXCEPT ![s] = Idled(z)]
      BY <1>3, <1>6, <2>2, <2>4
    <3>2. z \in CaptureType /\ z.stream = stream /\ z.task = x.task /\ z.state = x.state
          /\ z.wanted = x.wanted /\ z.sent = x.sent
      BY <1>1 DEF CaptureType
    <3>3. x.task.session # session.generation
      BY <2>4 DEF Outdated
    <3>4. StreamFits(s, z, Pends(s), session.client, session.generation, "removed" \in astray)
      BY <1>1, <2>1, <3>2, <3>3 DEF StreamFits
    <3>5. OneFits(s, Idled(z)) /\ (Idled(z).wanted => x.wanted)
      BY <1>2, <3>2, <3>3, <3>4, IdledFits, IdledDoes
    <3> QED BY <1>1, <1>2, <3>1, <3>5, CapsOne
  <2> QED BY <2>3, <2>4
<1> QED BY <1>5, <1>6

LEMMA CaptureDeniedCaps ==
  ASSUME HookNoneApart, HookTypeOK, Caps, NEW s \in Captures, CaptureDenied(s)
  PROVE  Caps'
<1> PICK x : x = captures[s]
  OBVIOUS
<1>1. /\ captures \in [Captures -> CaptureType] /\ x \in CaptureType
      /\ StreamFits(s, x, Pends(s), session.client, session.generation, "removed" \in astray)
  BY NowFits
<1>2. x.task # None /\ UNCHANGED <<session, operations, astray>>
      /\ captures' = [captures EXCEPT ![s] = Caught(s, x)]
  BY DEF CaptureDenied, At, clients
<1>3. OneFits(s, Caught(s, x)) /\ (Caught(s, x).wanted => x.wanted)
  BY <1>1, <1>2, CaughtFits
<1> QED BY <1>1, <1>2, <1>3, CapsOne

LEMMA ScreenEndsCaps ==
  ASSUME HookNoneApart, HookTypeOK, Caps, ScreenEnds, "kept" \notin astray'
  PROVE  Caps'
<1>1. PICK s \in Captures \ {"camera"} :
        /\ captures[s].task # None /\ captures[s].task.at = "publishing"
        /\ captures[s].stream = "live" /\ captures' = [captures EXCEPT ![s].stream = "ended"]
        /\ astray' = astray \cup (IF Outdated(s) THEN {"kept"} ELSE {})
        /\ UNCHANGED <<session, operations>>
  BY DEF ScreenEnds, At, Live, Because, clients
<1> PICK x : x = captures[s]
  OBVIOUS
<1> PICK y : y = [x EXCEPT !.stream = "ended"]
  OBVIOUS
<1>2. /\ captures \in [Captures -> CaptureType] /\ x \in CaptureType
      /\ StreamFits(s, x, Pends(s), session.client, session.generation, "removed" \in astray)
      /\ TaskFits(s, x, Pends(s), Up, session.client, session.generation)
  BY NowFits
<1>3. x.task.session = session.generation /\ ("removed" \in astray => "removed" \in astray')
  BY <1>1 DEF Outdated
<1>4. /\ y.stream = "ended" /\ y.task = x.task /\ y.state = x.state /\ y.wanted = x.wanted
      /\ y.busy = x.busy /\ y.manager = x.manager /\ y.generation = x.generation
      /\ y.sent = x.sent /\ y.closing = x.closing
  BY <1>2 DEF CaptureType
<1>5. StreamFits(s, y, Pends(s), session.client, session.generation, "removed" \in astray')
  BY <1>1, <1>2, <1>3, <1>4 DEF StreamFits
<1>6. TaskFits(s, y, Pends(s), Up, session.client, session.generation)
  BY <1>1, <1>2, <1>4 DEF TaskFits
<1>7. OneFits(s, y) /\ captures' = [captures EXCEPT ![s] = y]
  BY <1>1, <1>2, <1>5, <1>6 DEF OneFits
<1> QED BY <1>1, <1>2, <1>4, <1>7, CapsOne

LEMMA CapturePublishedCaps ==
  ASSUME HookNoneApart, HookTypeOK, Caps, NEW s \in Captures, CapturePublished(s), "kept" \notin astray'
  PROVE  Caps'
<1> PICK x : x = captures[s]
  OBVIOUS
<1>1. /\ captures \in [Captures -> CaptureType] /\ x \in CaptureType
      /\ StreamFits(s, x, Pends(s), session.client, session.generation, "removed" \in astray)
      /\ TaskFits(s, x, Pends(s), Up, session.client, session.generation)
  BY NowFits
<1> PICK over \in BOOLEAN : over <=> (x.task.generation # x.generation \/ x.stream # "live")
  OBVIOUS
<1>2. /\ x.task # None /\ x.task.at = "publishing"
      /\ captures' = [captures EXCEPT ![s] =
           IF s = "camera" /\ Outdated(s) THEN Idled(x)
           ELSE IF ~over /\ ~Outdated(s)
           THEN [Idled(x) EXCEPT !.state = "active", !.sent = x.task.client]
           ELSE IF s = "camera" THEN [Stopped(Idled(x)) EXCEPT !.state = "idle"]
           ELSE [Idled(x) EXCEPT !.state = "idle", !.wanted = FALSE]]
      /\ astray' = astray \cup
           (IF s # "camera" /\ x.stream # "none" /\ (Outdated(s) \/ x.stream = "ended")
            THEN {"kept"} ELSE {})
      /\ UNCHANGED <<session, operations>>
  BY DEF CapturePublished, At, Because, clients
<1>3. astray \subseteq astray' /\ ("removed" \in astray => "removed" \in astray')
  BY <1>2
<1> PICK i \in CaptureType : i = Idled(x)
  BY <1>1, IdledTyped
<1>4. /\ i.task = None /\ ~i.busy /\ i.state = x.state /\ i.wanted = x.wanted /\ i.stream = x.stream
      /\ i.sent = x.sent
  BY <1>1, IdledDoes
<1>5. ~Outdated(s) => x.task.session = session.generation /\ x.task.client = session.client
  BY <1>1, <1>2 DEF TaskFits, Outdated
<1>9. CASE s = "camera" /\ Outdated(s)
  <2>1. OneFits(s, i)
    BY <1>1, <1>2, <1>3, <1>9, IdledFits DEF Outdated
  <2>2. captures' = [captures EXCEPT ![s] = i]
    BY <1>2, <1>9
  <2> QED BY <1>1, <1>2, <1>3, <1>4, <2>1, <2>2, CapsOne
<1>6. CASE ~over /\ ~Outdated(s)
  <2> PICK y : y = [i EXCEPT !.state = "active", !.sent = x.task.client]
    OBVIOUS
  <2>1. /\ y.task = None /\ ~y.busy /\ y.state = "active" /\ y.wanted = x.wanted
        /\ y.stream = x.stream /\ y.sent = session.client
    BY <1>4, <1>5, <1>6 DEF CaptureType
  <2>2. OneFits(s, y)
    BY <1>1, <1>5, <1>6, <2>1 DEF OneFits, StreamFits, TaskFits
  <2>3. captures' = [captures EXCEPT ![s] = y]
    BY <1>2, <1>6
  <2> QED BY <1>1, <1>2, <1>3, <2>1, <2>2, <2>3, CapsOne
<1>7. CASE over /\ s = "camera" /\ ~Outdated(s)
  <2> PICK z \in CaptureType : z = Stopped(i)
    BY StoppedTyped
  <2> PICK y : y = [z EXCEPT !.state = "idle"]
    OBVIOUS
  <2>0. z.stream = "none" /\ z.wanted = i.wanted /\ z.task = i.task /\ z.busy = i.busy
    BY StoppedDoes
  <2>1. y.task = None /\ ~y.busy /\ y.state = "idle" /\ y.wanted = x.wanted /\ y.stream = "none"
    BY <1>4, <2>0 DEF CaptureType
  <2>2. x.stream = "live" => ~x.wanted
    BY <1>1, <1>2, <1>7 DEF TaskFits
  <2>3. x.stream # "ended" /\ x.stream \in {"none", "live", "ended"}
    BY <1>1, <1>7 DEF StreamFits, CaptureType
  <2>4. x.wanted => "removed" \in astray' \/ Pends(s)
    BY <1>1, <1>2, <1>3, <2>2, <2>3 DEF StreamFits
  <2>5. OneFits(s, y)
    BY <2>1, <2>4 DEF OneFits, StreamFits, TaskFits
  <2>6. captures' = [captures EXCEPT ![s] = y]
    BY <1>2, <1>7
  <2> QED BY <1>1, <1>2, <1>3, <2>1, <2>5, <2>6, CapsOne
<1>8. CASE (over \/ Outdated(s)) /\ s # "camera"
  <2> PICK y : y = [i EXCEPT !.state = "idle", !.wanted = FALSE]
    OBVIOUS
  <2>1. y.task = None /\ ~y.busy /\ y.state = "idle" /\ ~y.wanted /\ y.stream = x.stream
    BY <1>4 DEF CaptureType
  <2>2. x.stream # "ended" /\ (Outdated(s) => x.stream = "none")
    BY <1>2, <1>8
  <2>3. ~Outdated(s) => x.stream # "live"
    BY <1>1, <1>2, <1>8 DEF TaskFits, StreamFits
  <2>6. x.stream = "none"
    BY <1>1, <2>2, <2>3 DEF CaptureType
  <2>4. OneFits(s, y)
    BY <2>1, <2>6 DEF OneFits, StreamFits, TaskFits
  <2>5. captures' = [captures EXCEPT ![s] = y]
    BY <1>2, <1>8
  <2> QED BY <1>1, <1>2, <1>3, <2>1, <2>4, <2>5, CapsOne
<1> QED BY <1>6, <1>7, <1>8, <1>9

LEMMA CapturePublishFailsCaps ==
  ASSUME HookNoneApart, HookTypeOK, Caps, NEW s \in Captures, CapturePublishFails(s), "kept" \notin astray'
  PROVE  Caps'
<1>1. /\ captures \in [Captures -> CaptureType] /\ captures[s] \in CaptureType
      /\ StreamFits(s, captures[s], Pends(s), session.client, session.generation, "removed" \in astray)
  BY NowFits
<1> PICK x : x = IF Live(s) THEN [captures[s] EXCEPT !.stream = "ended"] ELSE captures[s]
  OBVIOUS
<1>2. /\ captures[s].task # None /\ captures' = [captures EXCEPT ![s] = Caught(s, x)]
      /\ astray' = astray \cup (IF Outdated(s) /\ Live(s) THEN {"kept"} ELSE {})
      /\ UNCHANGED <<session, operations>>
  BY DEF CapturePublishFails, At, Because, clients
<1>3. /\ x \in CaptureType /\ x.task = captures[s].task /\ x.wanted = captures[s].wanted
      /\ Outdated(s) => x = captures[s]
  BY <1>1, <1>2 DEF CaptureType
<1>4. OneFits(s, Caught(s, x)) /\ (Caught(s, x).wanted => x.wanted)
  BY <1>1, <1>2, <1>3, CaughtFits
<1> QED BY <1>1, <1>2, <1>3, <1>4, CapsOne

LEMMA ChangeCameraCaps ==
  ASSUME HookNoneApart, HookTypeOK, Caps, ChangeCamera
  PROVE  Caps'
<1>1. PICK s \in Captures :
        /\ s = "camera" /\ session.client # None /\ captures[s].state = "active" /\ ~captures[s].busy
        /\ captures' = [captures EXCEPT
             ![s].busy = TRUE, ![s].generation = captures[s].generation + 1, ![s].state = "switching",
             ![s].task = [at |-> "switching", generation |-> captures[s].generation + 1,
                          session |-> session.generation, manager |-> captures[s].manager,
                          client |-> session.client]]
        /\ UNCHANGED <<session, operations, astray>>
  BY DEF ChangeCamera, clients
<1> PICK x : x = captures[s]
  OBVIOUS
<1> PICK g : g = session.generation
  OBVIOUS
<1> PICK n : n = x.generation + 1
  OBVIOUS
<1>2. /\ captures \in [Captures -> CaptureType] /\ x \in CaptureType /\ g \in Nat
      /\ StreamFits(s, x, Pends(s), session.client, g, "removed" \in astray)
      /\ TaskFits(s, x, Pends(s), Up, session.client, g)
  BY NowFits
<1> PICK t : t = [at |-> "switching", generation |-> n, session |-> g, manager |-> x.manager,
                  client |-> session.client]
  OBVIOUS
<1> PICK y : y = [x EXCEPT !.busy = TRUE, !.generation = n, !.state = "switching", !.task = t]
  OBVIOUS
<1>3. captures' = [captures EXCEPT ![s] = y]
  BY <1>1, <1>2
<1>4. /\ t.at = "switching" /\ t.generation = n /\ t.session = g
      /\ t.manager = x.manager /\ t.client = session.client /\ t # None /\ x.manager \in Nat
  <2>1. n \in Nat
    BY <1>2 DEF CaptureType
  <2>2. t \in TaskType
    BY <1>2, <2>1 DEF TaskType, CaptureType, HookTypeOK, HookType
  <2> QED BY <1>2, <2>2 DEF HookNoneApart, CaptureType
<1>5. /\ y.busy /\ y.wanted = x.wanted /\ y.state = "switching" /\ y.task = t
      /\ y.generation = n /\ y.manager = x.manager /\ y.stream = x.stream /\ y.sent = x.sent
  BY <1>2 DEF CaptureType
<1>6. /\ x.wanted /\ x.stream = "live" /\ (~Pends(s) => x.sent = session.client)
  BY <1>1, <1>2 DEF StreamFits, CaptureType
<1>7. StreamFits(s, y, Pends(s), session.client, g, "removed" \in astray')
  BY <1>4, <1>5, <1>6 DEF StreamFits
<1>8. g <= g /\ x.manager <= x.manager
  BY <1>2, <1>4
<1>9. TaskFits(s, y, Pends(s), Up, session.client, g)
  BY <1>1, <1>4, <1>5, <1>6, <1>8 DEF TaskFits
<1>10. OneFits(s, y)
  BY <1>7, <1>9 DEF OneFits
<1> QED BY <1>1, <1>2, <1>3, <1>5, <1>10, CapsOne

LEMMA CameraChangedCaps ==
  ASSUME HookNoneApart, HookTypeOK, Caps, NEW s \in Captures,
         CameraChanged(s) \/ CameraNotChanged(s)
  PROVE  Caps'
<1> PICK x : x = captures[s]
  OBVIOUS
<1>1. /\ captures \in [Captures -> CaptureType] /\ x \in CaptureType
      /\ StreamFits(s, x, Pends(s), session.client, session.generation, "removed" \in astray)
      /\ TaskFits(s, x, Pends(s), Up, session.client, session.generation)
  BY NowFits
<1> PICK i \in CaptureType : i = Idled(x)
  BY <1>1, IdledTyped
<1>2. /\ x.task # None /\ x.task.at = "switching" /\ UNCHANGED <<session, operations, astray>>
  BY DEF CameraChanged, CameraNotChanged, At, clients
<1>3. /\ i.task = None /\ ~i.busy /\ i.state = x.state /\ i.wanted = x.wanted /\ i.stream = x.stream
      /\ i.sent = x.sent /\ (x.closing # None => i.closing # None)
  BY <1>1, IdledDoes
<1>4. s = "camera" /\ (x.task.manager = x.manager => x.stream = "live")
  BY <1>1, <1>2 DEF TaskFits
<1>5. \/ captures' = [captures EXCEPT ![s] = i] /\ (Outdated(s) \/ session.requested)
      \/ \E state : /\ captures' = [captures EXCEPT ![s] = [i EXCEPT !.state = state]]
                    /\ state = IF x.stream = "none" THEN "idle" ELSE "active"
                    /\ ~Outdated(s)
  BY <1>1, <1>2, <1>4 DEF CameraChanged, CameraNotChanged
<1>6. CASE captures' = [captures EXCEPT ![s] = i] /\ Outdated(s)
  <2>1. OneFits(s, i)
    BY <1>1, <1>2, <1>6, IdledFits DEF Outdated
  <2> QED BY <1>1, <1>2, <1>3, <1>6, <2>1, CapsOne
<1>7. CASE captures' = [captures EXCEPT ![s] = i] /\ session.requested
  <2>1. ~x.wanted
    BY <1>7 DEF Caps, Wanting
  <2>2. OneFits(s, i)
    BY <1>1, <1>3, <2>1 DEF OneFits, StreamFits, TaskFits
  <2> QED BY <1>1, <1>2, <1>3, <1>7, <2>2, CapsOne
<1>8. ASSUME NEW state, captures' = [captures EXCEPT ![s] = [i EXCEPT !.state = state]],
             state = IF x.stream = "none" THEN "idle" ELSE "active", ~Outdated(s)
      PROVE  Caps'
  <2> PICK y : y = [i EXCEPT !.state = state]
    OBVIOUS
  <2>1. /\ y.task = None /\ ~y.busy /\ y.state = state /\ y.wanted = x.wanted
        /\ y.stream = x.stream /\ y.sent = x.sent
    BY <1>3 DEF CaptureType
  <2>2. x.task.session = session.generation
    BY <1>8 DEF Outdated
  <2>3. x.stream # "none" /\ ~Pends(s) => x.sent = session.client
    BY <1>1, <1>2, <2>2 DEF TaskFits
  <2>4. x.wanted /\ x.stream = "none" => "removed" \in astray' \/ Pends(s)
    BY <1>1, <1>2 DEF StreamFits
  <2>5. StreamFits(s, y, Pends(s), session.client, session.generation, "removed" \in astray')
    BY <1>1, <1>4, <1>8, <2>1, <2>3, <2>4 DEF StreamFits
  <2>6. OneFits(s, y)
    BY <2>1, <2>5 DEF OneFits, TaskFits
  <2> QED BY <1>1, <1>2, <1>8, <2>1, <2>6, CapsOne
<1> QED BY <1>5, <1>6, <1>7, <1>8

LEMMA CameraRemovedCaps ==
  ASSUME HookNoneApart, HookTypeOK, Caps, CameraRemoved
  PROVE  Caps'
<1>1. PICK s \in Captures :
        /\ captures' = [captures EXCEPT ![s] = [Stopped(captures[s]) EXCEPT !.state = "idle",
             !.sent = IF captures[s].sent = session.client THEN None ELSE captures[s].sent]]
        /\ astray' = astray \cup {"removed"} /\ UNCHANGED <<session, operations>>
  BY DEF CameraRemoved, Because, clients
<1> PICK x : x = captures[s]
  OBVIOUS
<1>2. /\ captures \in [Captures -> CaptureType] /\ x \in CaptureType
      /\ x.task # None => x.task \in TaskType
      /\ StreamFits(s, x, Pends(s), session.client, session.generation, "removed" \in astray)
      /\ TaskFits(s, x, Pends(s), Up, session.client, session.generation)
  BY NowFits
<1> PICK z \in CaptureType : z = Stopped(x)
  BY <1>2, StoppedTyped
<1> PICK n : n = IF x.sent = session.client THEN None ELSE x.sent
  OBVIOUS
<1> PICK y : y = [z EXCEPT !.state = "idle", !.sent = n]
  OBVIOUS
<1>3. captures' = [captures EXCEPT ![s] = y]
  BY <1>1
<1>4. /\ z.manager = x.manager + 1 /\ z.stream = "none" /\ z.wanted = x.wanted /\ z.task = x.task
      /\ z.busy = x.busy /\ z.generation = x.generation
  BY <1>2, StoppedDoes
<1>5. /\ y.manager = x.manager + 1 /\ y.stream = "none" /\ y.wanted = x.wanted /\ y.task = x.task
      /\ (y.busy <=> x.busy) /\ y.generation = x.generation /\ y.state = "idle"
  BY <1>4 DEF CaptureType
<1>6. x.task # None => x.task.manager <= y.manager /\ x.task.manager # y.manager
  <2> SUFFICES ASSUME x.task # None PROVE x.task.manager <= y.manager /\ x.task.manager # y.manager
    OBVIOUS
  <2>1. x.task.manager \in Nat /\ x.manager \in Nat
    BY <1>2 DEF CaptureType, TaskType
  <2>2. x.task.manager <= x.manager
    BY <1>2 DEF TaskFits
  <2> QED BY <1>5, <2>1, <2>2
<1>7. StreamFits(s, y, Pends(s), session.client, session.generation, "removed" \in astray')
  BY <1>1, <1>5 DEF StreamFits
<1>8. TaskFits(s, y, Pends(s), Up, session.client, session.generation)
  BY <1>2, <1>5, <1>6 DEF TaskFits
<1>9. OneFits(s, y)
  BY <1>7, <1>8 DEF OneFits
<1> QED BY <1>1, <1>2, <1>3, <1>5, <1>9, CapsOne

LEMMA StopCaptureCaps ==
  ASSUME HookNoneApart, HookTypeOK, HookTypeOK', Caps, NEW s \in Captures, StopCapture(s)
  PROVE  Caps'
<1> PICK x : x = captures[s]
  OBVIOUS
<1>1. captures \in [Captures -> CaptureType] /\ x \in CaptureType /\ session.generation \in Nat
  BY NowFits
<1> PICK z \in CaptureType : z = Stopped(x)
  BY <1>1, StoppedTyped
<1> PICK state, closing, n :
      /\ state = IF session.client = None THEN "idle" ELSE "stopping"
      /\ closing = IF session.client = None THEN None
                   ELSE [client |-> session.client, behind |-> At(s, "publishing")]
      /\ n = x.generation + 1
  OBVIOUS
<1> PICK y : y = [z EXCEPT !.generation = n, !.wanted = FALSE, !.state = state, !.closing = closing]
  OBVIOUS
<1>2. captures' = [captures EXCEPT ![s] = y] /\ UNCHANGED <<session, operations, astray>>
  BY DEF StopCapture, clients
<1>3. session.client # None => closing # None
  <2> SUFFICES ASSUME session.client # None PROVE closing # None
    OBVIOUS
  <2>1. session.client \in Names /\ At(s, "publishing") \in BOOLEAN
    BY DEF HookTypeOK, HookType, At
  <2>2. closing \in ClosingType
    BY <2>1 DEF ClosingType
  <2> QED BY <2>2 DEF HookNoneApart
<1>4. /\ z.manager = x.manager + 1 /\ z.stream = "none" /\ z.task = x.task /\ z.busy = x.busy
  BY <1>1, StoppedDoes
<1>5. /\ y.manager = x.manager + 1 /\ y.stream = "none" /\ y.task = x.task /\ y.busy = x.busy
      /\ ~y.wanted /\ y.state = state /\ y.closing = closing
  BY <1>4 DEF CaptureType
<1>6. IsStopped(x, y) /\ captures'[s] = y /\ \A t \in Captures : t # s => captures'[t] = captures[t]
  BY <1>1, <1>2, <1>3, <1>5 DEF IsStopped
<1>7. session'.generation >= session.generation /\ session'.client = session.client
      /\ session'.generation = session.generation /\ (Up => Up')
  BY <1>1, <1>2 DEF Up
<1>8. \A t \in Captures : Pends(t) => Pends(t)'
  BY <1>2 DEF Pends, Current, Stale
<1>9. FitsNow(s) /\ FitsNow(s)'
  <2>1. FitsNow(s)
    BY DEF Caps
  <2> QED BY <1>6, <1>7, <2>1, FitsStopped
<1>10. ASSUME NEW t \in Captures, t # s PROVE FitsNow(t)'
  <2>1. FitsNow(t) /\ captures'[t] = captures[t]
    BY <1>6, <1>10 DEF Caps
  <2> QED BY <1>2, <1>7, <1>8, <2>1, FitsGoesOn
<1>11. Wanting'
  BY <1>2, <1>5, <1>6 DEF Caps, Wanting
<1> QED BY <1>9, <1>10, <1>11 DEF Caps

LEMMA CaptureClosedCaps ==
  ASSUME HookNoneApart, HookTypeOK, Caps, NEW s \in Captures, CaptureClosed(s),
         "mislaid" \notin astray'
  PROVE  Caps'
<1> PICK x : x = captures[s]
  OBVIOUS
<1>1. /\ captures \in [Captures -> CaptureType] /\ x \in CaptureType
      /\ StreamFits(s, x, Pends(s), session.client, session.generation, "removed" \in astray)
      /\ TaskFits(s, x, Pends(s), Up, session.client, session.generation)
  BY NowFits
<1> PICK n : n = IF x.sent = x.closing.client THEN None ELSE x.sent
  OBVIOUS
<1> PICK y : y = [x EXCEPT !.state = "idle", !.closing = None, !.sent = n]
  OBVIOUS
<1>2. /\ captures' = [captures EXCEPT ![s] = y]
      /\ astray' = astray \cup (IF x.state \notin {"idle", "stopping"} THEN {"mislaid"} ELSE {})
      /\ UNCHANGED <<session, operations>>
  BY <1>1 DEF CaptureClosed, Because, clients
<1>3. x.state \in {"idle", "stopping"} /\ ("removed" \in astray => "removed" \in astray')
  BY <1>2
<1>4. /\ y.state = "idle" /\ y.wanted = x.wanted /\ y.stream = x.stream /\ y.task = x.task
      /\ (y.busy <=> x.busy) /\ y.manager = x.manager /\ y.generation = x.generation
  BY <1>1 DEF CaptureType
<1>5. x.stream = "none" /\ (x.wanted => "removed" \in astray' \/ Pends(s))
  BY <1>1, <1>3 DEF StreamFits
<1>6. StreamFits(s, y, Pends(s), session.client, session.generation, "removed" \in astray')
  BY <1>4, <1>5 DEF StreamFits
<1>7. TaskFits(s, y, Pends(s), Up, session.client, session.generation)
  <2>1. x.task # None => ~(x.task.at = "permission" /\ x.task.manager = x.manager)
    <3>1. CASE x.state = "idle"
      BY <1>1, <3>1 DEF TaskFits
    <3>2. CASE x.state = "stopping"
      BY <1>1, <3>2 DEF TaskFits
    <3> QED BY <1>3, <3>1, <3>2
  <2> QED BY <1>1, <1>4, <1>5, <2>1 DEF TaskFits
<1>8. OneFits(s, y)
  BY <1>6, <1>7 DEF OneFits
<1> QED BY <1>1, <1>2, <1>4, <1>8, CapsOne

-----------------------------------------------------------------------------
LEMMA CapsStep ==
  ASSUME HookNoneApart, HookTypeOK, HookTypeOK', Grounded, Core, Caps, [Next]_vars, Clean'
  PROVE  Caps'
<1>0. Sound' /\ "mislaid" \notin astray' /\ "kept" \notin astray'
  BY DEF Clean
<1>1. ASSUME UNCHANGED <<session, operations, captures, astray>> PROVE Caps'
  BY <1>1 DEF Caps, Wanting, FitsNow, Pends, Up, Current, Stale
<1>2. CASE UNCHANGED vars
  BY <1>1, <1>2 DEF vars, clients
<1>3. CASE CapturesAct
  BY <1>0, <1>3, StartCaptureCaps, CaptureGrantedCaps, CaptureDeniedCaps, ScreenEndsCaps,
     CapturePublishedCaps, CapturePublishFailsCaps, ChangeCameraCaps, CameraChangedCaps,
     CameraRemovedCaps, StopCaptureCaps, CaptureClosedCaps DEF CapturesAct
<1>4. CASE Next
  BY <1>0, <1>2, <1>3, <1>4, UserCaps, AnswersCaps, StartsCaps, RecoveriesCaps, RestoresCaps
     DEF Next, Waiting, UserActs, AnswersAct, CapturesAct
<1> QED BY <1>2, <1>4

(* The inductive invariant of the captures.                                  *)
CapsInv == HookInv /\ (Clean => Caps)

LEMMA CapsInvHolds == ASSUME HookNoneApart PROVE Spec => []CapsInv
<1>1. Init => CapsInv
  BY HookTypeInit, GroundedInit, CoreInit, LeasedInit, CapsInit DEF HookInv, CapsInv
<1>2. CapsInv /\ HookInv' /\ [Next]_vars => CapsInv'
  <2> SUFFICES ASSUME CapsInv, HookInv', [Next]_vars, Clean' PROVE Caps'
    BY DEF CapsInv
  <2>1. Clean /\ Sound
    BY AstrayGrows DEF Clean, Sound
  <2>2. HookTypeOK /\ HookTypeOK' /\ Grounded /\ Core /\ Caps
    BY <2>1 DEF CapsInv, HookInv
  <2> QED BY <2>2, CapsStep
<1> QED BY <1>1, <1>2, HookInvHolds, PTL DEF Spec

LEMMA CapsInvShown == ASSUME HookNoneApart, CapsInv PROVE CaptureShown
<1> SUFFICES ASSUME Quiet, session.status \in {"idle", "connected"},
                    astray \cap {"revived", "undercut"} = {}, NEW s \in Captures,
                    astray \cap {"mislaid", "kept"} = {}
             PROVE  LET x == captures[s]
                    IN \/ x.state = "idle" /\ x.stream = "none" /\ (x.wanted => "removed" \in astray)
                       \/ x.state = "active" /\ x.stream = "live" /\ x.wanted /\ x.sent = session.client
  BY DEF CaptureShown
<1> PICK x : x = captures[s]
  OBVIOUS
<1>1. HookTypeOK /\ Caps
  BY DEF CapsInv, HookInv, Clean, Sound
<1>2. (\A p \in Operations : operations[p] = None) /\ x.task = None /\ x.closing = None
  BY DEF Quiet
<1>3. ~Pends(s)
  BY <1>2 DEF Pends, Current
<1>4. x \in CaptureType
      /\ StreamFits(s, x, Pends(s), session.client, session.generation, "removed" \in astray)
  BY <1>1, NowFits
<1>5. x.state \in {"idle", "active"}
  BY <1>2, <1>3, <1>4 DEF CaptureType, StreamFits
<1>6. CASE x.state = "idle"
  BY <1>3, <1>4, <1>6 DEF StreamFits
<1>7. CASE x.state = "active"
  <2>1. x.stream # "none" /\ x.stream # "ended" /\ x.sent = session.client /\ x.wanted
    BY <1>2, <1>3, <1>4, <1>7 DEF StreamFits
  <2> QED BY <1>4, <1>7, <2>1 DEF CaptureType
<1> QED BY <1>5, <1>6, <1>7

(* For any rooms and operations: once nothing is under way, camera and screen  *)
(* are each idle, with no stream and not wanted, or active, live, wanted and   *)
(* sent on the client of now, unless a stale close mislaid a stream, a manager *)
(* kept one that ended or was published while the session was detached, or the *)
(* camera was removed (use-voice-session.ts: startCamera, changeCamera,         *)
(* startScreenShare, their stops, reconcile).                                *)
THEOREM CaptureShownHolds == ASSUME HookNoneApart PROVE Spec => []CaptureShown
<1>1. CapsInv => CaptureShown
  BY CapsInvShown
<1> QED BY <1>1, CapsInvHolds, PTL
=============================================================================
