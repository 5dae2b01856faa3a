--------------------------- MODULE MediaConnection ---------------------------
(***************************************************************************)
(* What the media registry of ServerRealtime knows of one connection: where *)
(* its attachment lives while sockets come and go.  CallLease models the    *)
(* same events for the call; here a connection is one account's, and the    *)
(* call begins and ends at any time (src/worker/durable/server-realtime.ts).*)
(*                                                                          *)
(* The registry modules extend this one, say what an attachment holds, and  *)
(* pass each action what an attachment without media looks like.            *)
(***************************************************************************)
CONSTANTS None,      \* realtimeSessionId null
          NoAtt      \* no attachment: no replaced transport, no copy

VARIABLES
  place,     \* where the connection is: open, closing (a listed socket), suspended
             \* (a record), resuming (held by a fetch that awaits D1), gone
  att,       \* its attachment
  replaced,  \* the attachment of the superseded transport that is still listed
  copy,      \* the attachment as the alarm read it before it awaits D1
  astray     \* history: somebody acted on a replaced transport or an older copy,
             \* or the connection was lost with its call

lease == <<place, att, replaced, copy, astray>>

Places == {"open", "closing", "suspended", "resuming", "gone"}

Listed == place \in {"open", "closing"}

(* findConnection: the first listed socket with the tag of the connection,  *)
(* whatever its readyState; a superseded one has the tag too, and the order *)
(* of getWebSockets is not ours.                                            *)
Found == (IF Listed THEN {"current"} ELSE {}) \cup (IF replaced # NoAtt THEN {"replaced"} ELSE {})

At(t) == IF t = "current" THEN att ELSE replaced

(* serializeAttachment on the transport found. *)
Serialize(t, a) ==
  /\ att' = IF t = "current" THEN a ELSE att
  /\ replaced' = IF t = "replaced" THEN a ELSE replaced
  /\ astray' = (astray \/ t = "replaced")
  /\ UNCHANGED <<place, copy>>

(* A call of the object that only looks at the attachment. *)
Read(t) == Serialize(t, At(t))

-----------------------------------------------------------------------------
(* The connection moves and keeps its media. *)

(* The server closes the socket: limits, revocation. *)
CloseSocket ==
  /\ place = "open"
  /\ place' = "closing"
  /\ UNCHANGED <<att, replaced, copy, astray>>

(* webSocketClose of an abnormal close: suspendConnection. *)
Suspend ==
  /\ Listed
  /\ place' = "suspended" /\ copy' = NoAtt
  /\ UNCHANGED <<att, replaced, astray>>

(* resumeConnection: from the storage, or from an open socket.  One         *)
(* replaced transport at a time; what the alarm writes to it is CallLease's.*)
ResumeSuspended ==
  /\ place = "suspended"
  /\ place' = "resuming"
  /\ UNCHANGED <<att, replaced, copy, astray>>

ResumeOpen ==
  /\ place = "open" /\ replaced = NoAtt
  /\ place' = "resuming" /\ replaced' = att /\ copy' = NoAtt
  /\ UNCHANGED <<att, astray>>

(* The fetch goes on once D1 has answered, or throws with the connection.   *)
ResumeAccepted ==
  /\ place = "resuming"
  /\ place' = "open"
  /\ UNCHANGED <<att, replaced, copy, astray>>

ResumeLost ==
  /\ place = "resuming"
  /\ place' = "gone"
  /\ astray' = (astray \/ att.inCall)
  /\ UNCHANGED <<att, replaced, copy>>

(* The close event of the superseded socket. *)
ReplacedGone ==
  /\ replaced # NoAtt
  /\ replaced' = NoAtt
  /\ UNCHANGED <<place, att, copy, astray>>

(* The alarm reads the attachment of an open socket, awaits D1, and writes  *)
(* it back or closes the socket.                                            *)
AlarmReads ==
  /\ place = "open" /\ copy = NoAtt
  /\ copy' = att
  /\ UNCHANGED <<place, att, replaced, astray>>

AlarmWrites ==
  /\ copy # NoAtt
  /\ att' = copy /\ copy' = NoAtt
  /\ astray' = (astray \/ copy # att)
  /\ UNCHANGED <<place, replaced>>

AlarmCloses ==
  /\ copy # NoAtt
  /\ copy' = NoAtt
  /\ place' = IF place = "open" THEN "closing" ELSE place
  /\ UNCHANGED <<att, replaced, astray>>

Moves == \/ CloseSocket \/ Suspend
         \/ ResumeSuspended \/ ResumeOpen \/ ResumeAccepted \/ ResumeLost
         \/ ReplacedGone
         \/ AlarmReads \/ AlarmWrites \/ AlarmCloses

-----------------------------------------------------------------------------
(* The call begins and ends. *)

(* joinCall, when findCallOwner finds no other connection. *)
Joins(t) ==
  /\ t \in Found /\ ~At(t).inCall
  /\ Serialize(t, [At(t) EXCEPT !.inCall = TRUE])

(* leaveCall on a socket: call.leave, or a join of another room, which goes *)
(* on with inCall; a takeover does it to the open socket of the owner.      *)
Leaves(t, bare) ==
  /\ t \in Found /\ At(t).inCall
  /\ Serialize(t, bare)

ChangesRoom(t, bare) ==
  /\ t \in Found /\ At(t).inCall
  /\ Serialize(t, [bare EXCEPT !.inCall = TRUE])

(* refreshSocialState without the room: every socket of the account and its *)
(* suspended connection.  A connection held by a fetch is not among them.   *)
Bare(a, bare) == IF a # NoAtt /\ a.inCall THEN bare ELSE a

LosesAccess(bare) ==
  /\ \/ att.inCall /\ place \in {"open", "closing", "suspended"}
     \/ replaced # NoAtt /\ replaced.inCall
  /\ att' = IF place = "resuming" THEN att ELSE Bare(att, bare)
  /\ replaced' = Bare(replaced, bare)
  /\ astray' = (astray \/ (place = "resuming" /\ att.inCall))
  /\ UNCHANGED <<place, copy>>

(* The connection ends with its call: a normal close, the end of the grace  *)
(* period, a takeover from the suspended connection.                        *)
Ends(bare) ==
  /\ \/ Listed
     \/ place = "suspended"
  /\ place' = "gone" /\ att' = bare /\ copy' = NoAtt
  /\ UNCHANGED <<replaced, astray>>

(* A next connection, once nothing is left of this one. *)
Connects(bare) ==
  /\ place = "gone" /\ replaced = NoAtt
  /\ place' = "open" /\ att' = bare
  /\ UNCHANGED <<replaced, copy, astray>>
=============================================================================
