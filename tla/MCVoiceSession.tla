--------------------------- MODULE MCVoiceSession ---------------------------
(* The voice session of a client for TLC.  Three joins, switches or         *)
(* recoveries between two rooms, with a camera and a screen; a behaviour is *)
(* followed to the first step that goes astray and beyond it, until a       *)
(* second kind would.                                                       *)
(*                                                                          *)
(* Beside it, its microphone, and the conversation that is stored for a     *)
(* reload.  Each has a view of the session of its own, so that they share   *)
(* no variable: a behaviour follows one of them, and the other two rest     *)
(* where they began.                                                        *)
EXTENDS VoiceSession, Microphone, CallResumption, TLC

VARIABLE part        \* the one this behaviour follows

MCInit ==
  /\ part \in {"session", "speaker", "tab"}
  /\ Init /\ MicrophoneInit /\ TabInit

MCNext ==
  /\ UNCHANGED part
  /\ \/ part = "session" /\ Next /\ UNCHANGED <<microphoneVars, tabVars>>
     \/ part = "speaker" /\ MicrophoneNext /\ UNCHANGED <<vars, tabVars>>
     \/ part = "tab" /\ TabNext /\ UNCHANGED <<vars, microphoneVars>>

MCSpec == MCInit /\ [][MCNext]_<<vars, microphoneVars, tabVars, part>>

Interchangeable == Permutations(Operations) \cup Permutations(Rooms)

(* A tab is followed until it goes astray. *)
OneKind == Cardinality(astray) <= 1 /\ ~strayed

(* Bound: a fifth thing is asked for only where one of the operations is left  *)
(* and nothing has gone astray.                                              *)
FiveWithTwo == budget = 0 => astray = {} /\ \E p \in Operations : Fresh(p)

(* Bound: the alarm is under way only while every word has reached the server. *)
AlarmAlone == saved = None \/ (~unsent /\ loose = {})
=============================================================================
