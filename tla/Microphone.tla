------------------------------ MODULE Microphone ------------------------------
(***************************************************************************)
(* The microphone of a call: who holds it open, and whether it is muted     *)
(* (src/src/features/voice/use-voice-session.ts, media-session-manager.ts,  *)
(* voice-control-state.ts), and what the others are told about it           *)
(* (use-server-realtime.ts, src/worker/durable/server-realtime.ts).  The    *)
(* user mutes, deafens and changes the device at any time: while a session  *)
(* starts, is rebuilt or ends.                                              *)
(***************************************************************************)
EXTENDS NullValue

CONSTANTS Clients,      \* media sessions, a finite pool
          Inputs        \* microphone tracks, a finite pool

VARIABLES
  call,       \* status: idle, joining, connected, recovering
  wanted,     \* the user has joined and not left (~userRequestedDisconnectRef)
  current,    \* clientRef
  sessions,   \* each media session
  input,      \* the tracks: none, live, ended
  enabled,    \* track.enabled
  ref,        \* microphoneTrackRef
  controls,   \* voiceControls
  change,     \* the changeMicrophone in flight
  online,     \* the socket is open
  presence,   \* what the server tells of the participant
  saved,      \* what the alarm read of it before it awaits D1
  unsent,     \* history: a change of the controls, or a leave, did not reach the
              \* server, or the alarm undid it there
  loose       \* history: tracks nobody stops any more

microphoneVars == <<call, wanted, current, sessions, input, enabled, ref,
                    controls, change, online, presence, saved, unsent, loose>>

(* A session starts (permission, publishing), is ready, and ends (stopping, *)
(* detaching, over).  published: it has its entry in localPublications;     *)
(* recovers: reconcile started it; read: the microphone reconcile read      *)
(* before it detached it; overtaken: the user has left since.               *)
New == [phase |-> "new", published |-> FALSE, track |-> None, recovers |-> FALSE,
        read |-> None, overtaken |-> FALSE]

Unmuted == [userMuted |-> FALSE, deafened |-> FALSE]      \* INITIAL_VOICE_CONTROL_STATE
EffectiveMuted(c) == c.userMuted \/ c.deafened

Away == [inCall |-> FALSE, muted |-> FALSE, deafened |-> FALSE]

MicrophoneInit ==
  /\ call = "idle" /\ wanted = FALSE /\ current = None
  /\ sessions = [c \in Clients |-> New]
  /\ input = [t \in Inputs |-> "none"] /\ enabled = [t \in Inputs |-> TRUE]
  /\ ref = None /\ controls = Unmuted /\ change = None
  /\ online = TRUE /\ presence = Away /\ saved = None /\ unsent = FALSE /\ loose = {}

Unused(c) == sessions[c].phase = "new"
Unopened(t) == input[t] = "none"

-----------------------------------------------------------------------------
(* What the others are told. *)

(* member.updated.  The handler ignores who is in no call, and the client   *)
(* drops what it cannot send.                                               *)
Tells(c) ==
  IF online /\ presence.inCall
  THEN /\ presence' = [presence EXCEPT !.muted = EffectiveMuted(c) \/ c.deafened,
                                       !.deafened = c.deafened]
       /\ unsent' = FALSE
  ELSE presence' = presence /\ unsent' = TRUE

(* The connection resumes with what it had; a write to its old socket is lost. *)
SocketToggles ==
  /\ online' = ~online /\ saved' = None
  /\ UNCHANGED <<call, wanted, current, sessions, input, enabled, ref, controls,
                 change, presence, unsent, loose>>

(* leaveCall is swallowed when the socket cannot be opened, or when the      *)
(* command or its answer is lost.                                           *)
LeftAtServer == (online /\ presence' = Away) \/ presence' = presence

(* The socket opened in time after all.                                     *)
LeavesLate ==
  /\ call = "idle" /\ online /\ presence.inCall
  /\ presence' = Away
  /\ UNCHANGED <<call, wanted, current, sessions, input, enabled, ref, controls,
                 change, online, saved, unsent, loose>>

(* alarm: the attachment is read, D1 is asked for the session, and what was *)
(* read is written back; or the socket is closed, or D1 fails.              *)
AlarmReadsPresence ==
  /\ online /\ saved = None
  /\ saved' = presence
  /\ UNCHANGED <<call, wanted, current, sessions, input, enabled, ref, controls,
                 change, online, presence, unsent, loose>>

AlarmLeavesPresence ==
  /\ saved # None /\ saved' = None
  /\ UNCHANGED <<call, wanted, current, sessions, input, enabled, ref, controls,
                 change, online, presence, unsent, loose>>

AlarmWritesPresence ==
  /\ saved # None
  /\ presence' = saved /\ saved' = None
  /\ unsent' = (unsent \/ presence' # presence)
  /\ UNCHANGED <<call, wanted, current, sessions, input, enabled, ref, controls,
                 change, online, loose>>

-----------------------------------------------------------------------------
(* The controls. *)

Reduced(c, action) ==
  IF action = "toggle-user-muted" THEN [c EXCEPT !.userMuted = ~@]
                                  ELSE [c EXCEPT !.deafened = ~@]

SetMuted(c, muted) ==
  IF c # None /\ sessions[c].published
  THEN enabled' = [enabled EXCEPT ![sessions[c].track] = ~muted]
  ELSE UNCHANGED enabled

MutedAsChosen(t) ==     \* Mutant: a new microphone of a deafened user is open.
  [enabled EXCEPT ![t] = ~controls.userMuted]

Muted(t) == [enabled EXCEPT ![t] = ~EffectiveMuted(controls)]

(* applyVoiceControl *)
Toggles(action) ==
  /\ controls' = Reduced(controls, action)
  /\ SetMuted(current, EffectiveMuted(controls'))
  /\ Tells(controls')
  /\ UNCHANGED <<call, wanted, current, sessions, input, ref, change, online,
                 saved, loose>>

-----------------------------------------------------------------------------
(* A session starts. *)

Starts(c, track) ==
  /\ current' = c
  /\ sessions' = [sessions EXCEPT ![c].phase = IF track = None THEN "permission" ELSE "publishing",
                                ![c].track = track]

UnderWay(c) == sessions[c].phase \in {"permission", "publishing", "detaching"}

(* The server has let it in, and has reset what it tells.  A join that      *)
(* overtakes an earlier start is followed in VoiceSession; here it waits.   *)
JoinsCall(c) ==
  /\ call = "idle" /\ online /\ Unused(c) /\ \A x \in Clients : ~UnderWay(x)
  /\ call' = "joining" /\ wanted' = TRUE
  /\ Starts(c, None)
  /\ presence' = [Away EXCEPT !.inCall = TRUE]
  /\ unsent' = (controls # Unmuted)
  /\ UNCHANGED <<input, enabled, ref, controls, change, online, saved, loose>>

Opens(t) == input' = [input EXCEPT ![t] = "live"]

PermissionGranted(c, t) ==
  /\ sessions[c].phase = "permission" /\ Unopened(t)
  /\ Opens(t)
  /\ sessions' = [sessions EXCEPT ![c].phase = "publishing", ![c].track = t]
  /\ UNCHANGED <<call, wanted, current, enabled, ref, controls, change, online,
                 presence, saved, unsent, loose>>

(* The microphone is published and muted as the user is.  Whoever was       *)
(* overtaken is detached and leaves the track open (VoiceSession).          *)
StartEnds(c) ==
  /\ sessions[c].phase = "publishing"
  /\ LET t == sessions[c].track
     IN  IF wanted
         THEN /\ sessions' = [sessions EXCEPT ![c].phase = "ready", ![c].published = TRUE]
              /\ enabled' = Muted(t)
              /\ ref' = t /\ call' = "connected"
              /\ UNCHANGED <<presence, loose>>
         ELSE /\ sessions' = [sessions EXCEPT ![c].phase = "over"]
              /\ loose' = loose \cup {t}
              /\ IF sessions[c].recovers THEN UNCHANGED presence ELSE LeftAtServer
              /\ UNCHANGED <<call, enabled, ref>>
  /\ UNCHANGED <<wanted, current, input, controls, change, online, saved,
                 unsent>>

Ended(t) == IF t = None THEN input ELSE [input EXCEPT ![t] = "ended"]

(* Refused, or not published: start stops the track it was given, too.  A   *)
(* recovery keeps the call, a join leaves it.                               *)
SessionFails(c) ==
  /\ sessions[c].phase \in {"permission", "publishing"}
  /\ input' = Ended(sessions[c].track)
  /\ sessions' = [sessions EXCEPT ![c].phase = "over"]
  /\ current' = IF current = c THEN None ELSE current
  /\ IF sessions[c].recovers
     THEN call' = "reconnecting" /\ UNCHANGED presence
     ELSE call' = "idle" /\ LeftAtServer
  /\ UNCHANGED <<wanted, enabled, ref, controls, change, online, saved, unsent,
                 loose>>

-----------------------------------------------------------------------------
(* A session ends. *)

(* leave: its stop waits for the sender before it stops the track.  When the *)
(* server is not told, it keeps what the controls were.                     *)
LeavesCall ==
  /\ call # "idle"
  /\ call' = "idle" /\ wanted' = FALSE /\ current' = None /\ ref' = None
  /\ controls' = Unmuted /\ LeftAtServer /\ unsent' = (presence' # Away)
  /\ sessions' = [c \in Clients |->
       IF c = current /\ sessions[c].phase = "ready" THEN [sessions[c] EXCEPT !.phase = "stopping"]
       ELSE [sessions[c] EXCEPT !.overtaken = @ \/ UnderWay(c)]]
  /\ UNCHANGED <<input, enabled, change, online, saved, loose>>

(* What was asked of the sender before is done before. *)
ChangedFirst(c) ==
  ~(change # None /\ change.client = c /\ change.phase = "replacing" /\ ~change.late)

StopEnds(c) ==
  /\ sessions[c].phase = "stopping" /\ ChangedFirst(c)
  /\ input' = Ended(sessions[c].track)
  /\ sessions' = [sessions EXCEPT ![c].phase = "over", ![c].published = FALSE]
  /\ UNCHANGED <<call, wanted, current, enabled, ref, controls, change, online,
                 presence, saved, unsent, loose>>

(* reconcile rebuilds the session: it reads the microphone, detaches the    *)
(* client, and gives the microphone to the next one unless it has ended.    *)
Rebuild ==
  /\ call = "connected" /\ current # None /\ sessions[current].phase = "ready"
  /\ call' = "recovering"
  /\ sessions' = [sessions EXCEPT ![current].phase = "detaching", ![current].read = ref]
  /\ UNCHANGED <<wanted, current, input, enabled, ref, controls, change, online,
                 presence, saved, unsent, loose>>

Usable(t) == IF t # None /\ input[t] = "live" THEN t ELSE None

StartsAnew(c, track) ==
  /\ current' = c
  /\ sessions' = [x \in Clients |->
       CASE x = c -> [sessions[c] EXCEPT !.track = track, !.recovers = TRUE,
                        !.phase = IF track = None THEN "permission" ELSE "publishing"]
         [] x # c /\ sessions[x].phase = "detaching" ->
              [sessions[x] EXCEPT !.phase = "over", !.published = FALSE]
         [] OTHER -> sessions[x]]
  /\ UNCHANGED <<wanted, input, enabled, ref, controls, change, online,
                 presence, saved, unsent>>

(* After a leave a client is started all the same, with status recovering;  *)
(* nothing is said of the tracks from then on (VoiceSession).               *)
DetachEnds(c) ==
  /\ Unused(c)
  /\ \E d \in Clients :
       /\ sessions[d].phase = "detaching" /\ ChangedFirst(d)
       /\ StartsAnew(c, Usable(sessions[d].read))
       /\ loose' = IF sessions[d].overtaken THEN Inputs ELSE loose
  /\ call' = "recovering"

(* A recovery that failed is tried again, from the microphone that is left. *)
RebuildAgain(c) ==
  /\ call = "reconnecting" /\ wanted /\ Unused(c)
  /\ call' = "recovering"
  /\ StartsAnew(c, Usable(ref)) /\ UNCHANGED loose

-----------------------------------------------------------------------------
(* changeMicrophone: a permission, the sender's track, the old track.       *)

(* Without a client only the device is chosen. *)
ChangeAsked ==
  /\ change = None /\ current # None
  /\ change' = [client |-> current, phase |-> "permission", track |-> None, late |-> FALSE]
  /\ UNCHANGED <<call, wanted, current, sessions, input, enabled, ref, controls,
                 online, presence, saved, unsent, loose>>

ChangeRefused ==
  /\ change # None /\ change.phase = "permission"
  /\ change' = None
  /\ UNCHANGED <<call, wanted, current, sessions, input, enabled, ref, controls,
                 online, presence, saved, unsent, loose>>

(* replaceLocalTrack: without a publication the new track is stopped.       *)
ChangeOpens(t) ==
  /\ change # None /\ change.phase = "permission" /\ Unopened(t)
  /\ IF sessions[change.client].published
     THEN /\ Opens(t)
          /\ change' = [change EXCEPT !.phase = "replacing", !.track = t,
               !.late = sessions[change.client].phase # "ready"]
     ELSE /\ input' = [input EXCEPT ![t] = "ended"]
          /\ change' = None
  /\ UNCHANGED <<call, wanted, current, sessions, enabled, ref, controls,
                 online, presence, saved, unsent, loose>>

(* The publication's track is stopped and replaced, and the hook goes on,   *)
(* whatever has become of the client meanwhile.                             *)
ChangeEnds ==
  /\ change # None /\ change.phase = "replacing"
  /\ LET c == change.client
         t == change.track
     IN  /\ input' = Ended(sessions[c].track)
         /\ sessions' = [sessions EXCEPT ![c].track = t]
         /\ ref' = t
         /\ enabled' = IF sessions[c].published THEN Muted(t) ELSE enabled
         /\ loose' = IF \/ current = c /\ sessions[c].phase = "ready"
                        \/ call = "idle" /\ sessions[c].phase = "stopping" /\ ~change.late
                     THEN loose ELSE Inputs
  /\ change' = None
  /\ UNCHANGED <<call, wanted, current, controls, online, presence, saved,
                 unsent>>

(* The sender of a closed connection refuses, or the device does. *)
ChangeFails ==
  /\ change # None /\ change.phase = "replacing"
  /\ input' = Ended(change.track) /\ change' = None
  /\ UNCHANGED <<call, wanted, current, sessions, enabled, ref, controls,
                 online, presence, saved, unsent, loose>>

-----------------------------------------------------------------------------
MicrophoneNext ==
  \/ SocketToggles \/ LeavesLate
  \/ AlarmReadsPresence \/ AlarmWritesPresence \/ AlarmLeavesPresence
  \/ \E action \in {"toggle-user-muted", "toggle-deafened"} : Toggles(action)
  \/ \E c \in Clients :
       \/ JoinsCall(c) \/ StartEnds(c) \/ SessionFails(c) \/ StopEnds(c) \/ DetachEnds(c)
       \/ RebuildAgain(c)
       \/ \E t \in Inputs : PermissionGranted(c, t)
  \/ LeavesCall \/ Rebuild
  \/ ChangeAsked \/ ChangeRefused \/ ChangeEnds \/ ChangeFails
  \/ \E t \in Inputs : ChangeOpens(t)

MicrophoneSpec == MicrophoneInit /\ [][MicrophoneNext]_microphoneVars

-----------------------------------------------------------------------------
(* Once nothing is under way: out of a call no microphone is open; in one   *)
(* the session publishes the microphone the hook knows, it is open, nothing *)
(* else is, and it is silent exactly when the user is muted or deafened;    *)
(* and the others see what the controls say, unless a change or a leave     *)
(* could not be sent or the alarm undid it.  Tracks that a change or a      *)
(* start left open behind a rebuild or a leave are set aside.               *)
Settled ==
  /\ change = None
  /\ \A c \in Clients : sessions[c].phase \in {"new", "ready", "over"}

LiveInputs == {t \in Inputs : input[t] = "live"} \ loose

Follows ==
  Settled =>
    /\ call = "idle" => LiveInputs = {}
    /\ call = "connected" /\ loose # Inputs =>
         LET t == sessions[current].track
         IN  sessions[current].published /\ ref = t /\ LiveInputs = {t}
             /\ enabled[t] = ~EffectiveMuted(controls)
    /\ presence.inCall /\ ~unsent =>
         presence.deafened = controls.deafened /\ presence.muted = EffectiveMuted(controls)
=============================================================================
