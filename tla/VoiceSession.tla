----------------------------- MODULE VoiceSession -----------------------------
(***************************************************************************)
(* The voice session of one client (src/src/features/voice/                 *)
(* use-voice-session.ts): joining, leaving and switching a call, starting   *)
(* its MediaSessionManager, the recovery that rebuilds it, and the camera   *)
(* and the screen published through it (media-session-manager.ts,           *)
(* media-capture-managers.ts).  Each is an asynchronous function cut at its *)
(* awaits, and any of them may go on after another has changed the refs.    *)
(***************************************************************************)
EXTENDS Naturals, Sequences, FiniteSets, NullValue

CONSTANTS Rooms,
          Operations,    \* joins, switches and recoveries; each makes one client
          Captures,      \* "camera" and "screen"
          Budget         \* bound: what the user and the supervisor ask for

(* startClient restores these two and no other, by name. *)
ASSUME CapturesAreTwo == Captures = {"camera", "screen"}

VARIABLES
  session,     \* the refs and the status of the hook, and callConversation's room
  operations,  \* where each join, switch or recovery is
  peers,       \* the RTCPeerConnection of the client of each operation
  published,   \* the microphone each client has published
  microphones, \* the live microphone tracks, named by who opened them
  captures,    \* camera and screen: the refs, and their capture manager
  commands,    \* call.join and call.leave on the socket
  lease,       \* the call the server has this connection in
  budget,
  astray       \* history: what an operation did that a later one had ended
               \* (Coherent and CaptureShown name what each reason excuses)

clients == <<operations, peers, published, microphones>>
server == <<commands, lease>>
vars == <<session, clients, captures, server, budget, astray>>

Init ==
  /\ session = [status |-> "idle", generation |-> 0, requested |-> FALSE, inFlight |-> FALSE,
                client |-> None, microphone |-> None, recovery |-> None, shown |-> None]
  /\ operations = [p \in Operations |-> None]
  /\ peers = [p \in Operations |-> "none"]
  /\ published = [p \in Operations |-> None]
  /\ microphones = {}
  /\ captures = [s \in Captures |->
       [state |-> "idle", busy |-> FALSE, wanted |-> FALSE, generation |-> 0,
        stream |-> "none", manager |-> 0, task |-> None, closing |-> None, sent |-> None]]
  /\ commands = <<>> /\ lease = None
  /\ budget = Budget /\ astray = {}

-----------------------------------------------------------------------------
Ask == budget > 0 /\ budget' = budget - 1
Because(reason, condition) == astray' = astray \cup (IF condition THEN {reason} ELSE {})
Fresh(p) == operations[p] = None /\ peers[p] = "none" /\ p \notin microphones
Doing(p, at) == operations[p] # None /\ operations[p].at = at
Stale(p) == operations[p].generation # session.generation
Goes(p, at) == [operations EXCEPT ![p].at = at]
Ends(p) == [operations EXCEPT ![p] = None]
Command(what, p, r) == commands' = Append(commands, [what |-> what, by |-> p, room |-> r])

(* CameraManager.stop, ScreenShareManager.stop.  Mutant: no new generation, so  *)
(* a permission granted after the stop opens the camera.                     *)
StoppedOnlyNow(x) == [x EXCEPT !.stream = "none"]
Stopped(x) == [x EXCEPT !.manager = @ + 1, !.stream = "none"]

(* MediaSessionManager.stop and detachForRecovery: both close the peer, past *)
(* the queue; only the first stops the published tracks.  Neither sees what  *)
(* start has not published yet.  Both wait for the senders of what is        *)
(* published before they close; after a leave this window shows nothing.     *)
Live(s) == captures[s].stream = "live"
PeerClosed(c) == [p \in Operations |-> IF p = c /\ peers[p] = "open" THEN "closed" ELSE peers[p]]
Unpublished(c) == [p \in Operations |-> IF p = c THEN None ELSE published[p]]
Silenced(c) == microphones \ {published[p] : p \in {c} \cap Operations}

(* A new generation of the session, and the next status. *)
JoinBegins(x) == [x EXCEPT !.inFlight = TRUE, !.requested = FALSE, !.status = "joining",
                           !.generation = @ + 1]

-----------------------------------------------------------------------------
(* join: joinConversationCall shows the room first when nothing is under way. *)
Join(p, r) ==
  /\ Ask /\ Fresh(p) /\ session.status = "idle" /\ ~session.inFlight
  /\ session' = [JoinBegins(session) EXCEPT !.shown = r]
  /\ operations' = [operations EXCEPT ![p] =
       [kind |-> "join", at |-> "joining", generation |-> session'.generation, room |-> r,
        microphone |-> None, from |-> None]]
  /\ Command("join", p, r)
  /\ UNCHANGED <<peers, published, microphones, captures, lease, astray>>

(* leave: everything of the session ends at once, and call.leave is sent.    *)
LeaveWith(p) ==
  /\ session' = [session EXCEPT !.requested = TRUE, !.inFlight = FALSE, !.generation = @ + 1,
                   !.recovery = None, !.client = None, !.microphone = None, !.status = "idle"]
  /\ peers' = PeerClosed(session.client)
  /\ published' = Unpublished(session.client)
  /\ microphones' = Silenced(session.client)
  /\ captures' = [s \in Captures |->
       [Stopped(captures[s]) EXCEPT !.state = "idle", !.wanted = FALSE,
          !.sent = IF @ = session.client THEN None ELSE @]]
  /\ Command("leave", p, None)

(* By the user, or when the server says the call was taken elsewhere. *)
Leave ==
  /\ Ask /\ session.status # "idle"
  /\ LeaveWith(None)
  /\ UNCHANGED <<operations, lease, astray>>

(* switchCall: leave is awaited before the join. *)
SwitchCall(p, r) ==
  /\ Ask /\ Fresh(p) /\ session.status # "idle"
  /\ LeaveWith(p)
  /\ operations' = [operations EXCEPT ![p] =
       [kind |-> "switch", at |-> "leaving", generation |-> 0, room |-> r, microphone |-> None,
        from |-> None]]
  /\ UNCHANGED <<lease, astray>>

-----------------------------------------------------------------------------
(* The beginning of startClient: the generation is the one it finds. *)
StartClient(p, before, recovering) ==
  [before EXCEPT !.client = p, !.status = IF recovering THEN "recovering" ELSE "joining"]

Head1 == Head(commands)
Waits(at) == Head1.by # None /\ Doing(Head1.by, at)

(* call.join is granted; unless it was given up, the operation starts its     *)
(* client, also after a leave.                                              *)
JoinGranted ==
  LET p == Head1.by
  IN /\ commands # <<>> /\ Head1.what = "join"
     /\ lease' = Head1.room /\ commands' = Tail(commands)
     /\ IF Waits("joining")
        THEN /\ session' = StartClient(p, session, FALSE)
             /\ operations' = [operations EXCEPT ![p].at = "microphone",
                                                 ![p].generation = session.generation]
             /\ Because("revived", Stale(p))
        ELSE UNCHANGED <<session, operations, astray>>
     /\ UNCHANGED <<peers, published, microphones, captures, budget>>

(* Refused, or a call of this account elsewhere: the join ends. *)
JoinRejected(p) ==
  /\ session' = [session EXCEPT !.inFlight = FALSE, !.status = "idle",
                   !.shown = IF operations[p].kind = "switch" THEN operations[p].room ELSE @]
  /\ operations' = Ends(p)

JoinRefused ==
  /\ commands # <<>> /\ Head1.what = "join" /\ commands' = Tail(commands)
  /\ IF Waits("joining")
     THEN JoinRejected(Head1.by)
          /\ Because("undercut", Stale(Head1.by) /\ session.status # "idle")
     ELSE UNCHANGED <<session, operations, astray>>
  /\ UNCHANGED <<peers, published, microphones, captures, lease, budget>>

(* Eight seconds without an answer: the server may still do it. *)
JoinTimesOut(p) ==
  /\ Doing(p, "joining")
  /\ JoinRejected(p)
  /\ astray' = astray \cup {"late"} \cup
       (IF Stale(p) /\ session.status # "idle" THEN {"undercut"} ELSE {})
  /\ UNCHANGED <<peers, published, microphones, captures, server, budget>>

(* The leave before a switch has ended: it joins, unless something else has;   *)
(* then it only shows its room.                                              *)
LeaveEnds(p, queue) ==
  IF session.status = "idle" /\ ~session.inFlight
  THEN /\ session' = JoinBegins(session)
       /\ operations' = [operations EXCEPT ![p].at = "joining",
                                           ![p].generation = session'.generation]
       /\ commands' = Append(queue, [what |-> "join", by |-> p, room |-> operations[p].room])
       /\ UNCHANGED astray
  ELSE /\ session' = [session EXCEPT !.shown = operations[p].room]
       /\ operations' = Ends(p)
       /\ commands' = queue
       /\ Because("misplaced", TRUE)

(* call.leave is done. *)
LeaveHandled ==
  /\ commands # <<>> /\ Head1.what = "leave"
  /\ lease' = None
  /\ IF Waits("leaving") THEN LeaveEnds(Head1.by, Tail(commands))
     ELSE commands' = Tail(commands) /\ UNCHANGED <<session, operations, astray>>
  /\ UNCHANGED <<peers, published, microphones, captures, budget>>

(* No socket could be opened for it, or it was lost with one: leave and join    *)
(* swallow that, and the connection resumed keeps the call.                  *)
LeaveLost ==
  /\ commands # <<>> /\ Head1.what = "leave" /\ ~Waits("leaving")
  /\ commands' = Tail(commands)
  /\ Because("unleft", lease # None)
  /\ UNCHANGED <<session, clients, captures, lease, budget>>

(* The switch goes on without an answer; what was sent may still be done. *)
LeaveTimesOut(p) ==
  /\ Doing(p, "leaving")
  /\ LeaveEnds(p, commands)
  /\ UNCHANGED <<peers, published, microphones, captures, lease, budget>>

-----------------------------------------------------------------------------
(* MediaSessionManager.start: the microphone, the session, the publication.  *)
MicrophoneGranted(p) ==
  /\ Doing(p, "microphone")
  /\ microphones' = microphones \cup {p}
  /\ operations' = [operations EXCEPT ![p].at = "session", ![p].microphone = p]
  /\ UNCHANGED <<session, peers, published, captures, server, budget, astray>>

(* The server makes a session only for the call the connection is in. *)
SessionCreated(p) ==
  /\ Doing(p, "session") /\ lease = operations[p].room
  /\ peers' = [peers EXCEPT ![p] = "open"]
  /\ operations' = Goes(p, "publish")
  /\ UNCHANGED <<session, published, microphones, captures, server, budget, astray>>

(* What join does once startClient has returned. *)
Returns(p, before) ==
  [before EXCEPT !.shown = IF operations[p].kind = "switch" THEN operations[p].room ELSE @,
                 !.recovery = IF @ = p THEN None ELSE @]
(* Mutant: a start that fails leaves the call to the server. *)
NeverLeaves(p) == UNCHANGED commands
LeavesUnlessRecovery(p) ==
  IF operations[p].kind = "recover" THEN UNCHANGED commands ELSE Command("leave", None, None)

(* Published, but the session has moved on: the peer is closed, the microphone *)
(* stays open, and a join leaves whatever call the connection is in.          *)
PublishedTooLate(p) ==
  /\ Doing(p, "publish") /\ peers[p] = "open" /\ (Stale(p) \/ session.requested)
  /\ peers' = PeerClosed(p)
  /\ session' = Returns(p, IF operations[p].kind = "recover" THEN session
                           ELSE [session EXCEPT !.inFlight = FALSE])
  /\ LeavesUnlessRecovery(p)
  /\ operations' = Ends(p)
  /\ astray' = astray \cup {"microphone"} \cup
       (IF session.status # "idle" THEN {"undercut"} ELSE {})
  /\ UNCHANGED <<published, microphones, captures, lease, budget>>

Published(p) ==
  /\ Doing(p, "publish") /\ peers[p] = "open" /\ ~Stale(p) /\ ~session.requested
  /\ published' = [published EXCEPT ![p] = operations[p].microphone]
  /\ session' = [session EXCEPT !.microphone = operations[p].microphone]
  /\ operations' = Goes(p, "devices")
  /\ UNCHANGED <<peers, microphones, captures, server, budget, astray>>

(* Any failure up to there: the microphone and the client stop, the status is  *)
(* written, and a join leaves the call.                                      *)
StartFails(p) ==
  LET recovering == operations[p].kind = "recover"
      after == [session EXCEPT
                  !.client = IF @ = p THEN None ELSE @,
                  !.status = IF recovering THEN "reconnecting" ELSE "idle",
                  !.inFlight = IF recovering THEN @ ELSE FALSE]
  IN /\ \E at \in {"microphone", "session", "publish"} : Doing(p, at)
     /\ peers' = PeerClosed(p)
     /\ microphones' = microphones \ {operations[p].microphone}
     /\ session' = Returns(p, after)
     /\ LeavesUnlessRecovery(p)
     /\ operations' = Ends(p)
     /\ astray' = astray \cup
          (IF (Stale(p) \/ session.requested) /\ session.status # after.status
           THEN {IF recovering THEN "revived" ELSE "undercut"} ELSE {})
     /\ UNCHANGED <<published, captures, lease, budget>>

(* The devices are listed; the status is written without another look. *)
DevicesListed(p) ==
  /\ Doing(p, "devices")
  /\ LET now == [session EXCEPT !.status = "connected"]
     IN IF operations[p].kind = "recover" /\ ~Stale(p)
        THEN session' = now /\ operations' = Goes(p, "camera")
        ELSE session' = Returns(p, now) /\ operations' = Ends(p)
  /\ Because("revived", Stale(p))
  /\ UNCHANGED <<peers, published, microphones, captures, server, budget>>

-----------------------------------------------------------------------------
(* The peer of the client fails, or the connection is another one; or its ICE  *)
(* comes back.                                                              *)
PeerFails ==
  /\ Ask
  /\ session.client # None /\ peers[session.client] = "open"
  /\ session.status = "connected"
  /\ session' = [session EXCEPT !.status = "reconnecting"]
  /\ UNCHANGED <<clients, captures, server, astray>>

PeerComesBack ==
  /\ session.client # None /\ peers[session.client] = "open"
  /\ published[session.client] # None /\ session.status = "reconnecting"
  /\ session' = [session EXCEPT !.status = "connected"]
  /\ UNCHANGED <<clients, captures, server, budget, astray>>

(* reconcile, asked for by the supervisor.  One that finds the session sound   *)
(* repairs what is not published: its peer is connected, and has said so to   *)
(* the status.  The other one, and a repair that failed, detach the client    *)
(* found at first and start another.                                        *)
MayReconcile(p) ==
  /\ Ask /\ Fresh(p)
  /\ ~session.requested /\ session.status # "idle"
  /\ session.recovery = None

Recovery(p, at) ==
  [kind |-> "recover", at |-> at, generation |-> session'.generation, room |-> session.shown,
   microphone |-> session.microphone, from |-> session.client]

(* detachForRecovery waits for the senders of what is published, if anything   *)
(* is, before it closes the peer; what is being published meanwhile may still *)
(* succeed.                                                                 *)
Sends(c) == c # None /\ (published[c] # None \/ \E s \in Captures : captures[s].sent = c)
Closed(c) ==
  /\ peers' = PeerClosed(c)
  /\ published' = Unpublished(c)
  /\ captures' = [s \in Captures |->
       [captures[s] EXCEPT !.sent = IF @ = c THEN None ELSE @]]

Detach(c, recovery) ==
  /\ session' = [session EXCEPT !.generation = @ + 1, !.status = "recovering",
                                !.recovery = recovery]
  /\ IF Sends(c) THEN UNCHANGED <<peers, published, captures>> ELSE Closed(c)

ReconcileRebuilding(p) ==
  /\ MayReconcile(p)
  /\ Detach(session.client, p)
  /\ operations' = [operations EXCEPT ![p] = Recovery(p, "detaching")]
  /\ UNCHANGED <<microphones, server, astray>>

ReconcileRepairing(p) ==
  /\ MayReconcile(p) /\ session.status \in {"connected", "reconnecting"}
  /\ session.client # None /\ peers[session.client] = "open"
  /\ session.microphone \in microphones
  /\ session' = [session EXCEPT !.recovery = p]
  /\ operations' = [operations EXCEPT ![p] = Recovery(p, "repair")]
  /\ UNCHANGED <<peers, published, microphones, captures, server, astray>>

Repaired(p) ==
  /\ Doing(p, "repair") /\ ~Stale(p)
  /\ session' = Returns(p, [session EXCEPT !.status = "connected"])
  /\ operations' = Ends(p)
  /\ UNCHANGED <<peers, published, microphones, captures, server, budget, astray>>

RepairFails(p) ==
  /\ Doing(p, "repair")
  /\ Detach(operations[p].from, session.recovery)
  /\ operations' = [operations EXCEPT ![p].at = "detaching",
                                      ![p].generation = session'.generation]
  /\ Because("revived", Stale(p))
  /\ UNCHANGED <<microphones, server, budget>>

(* The peer is closed; startClient takes the microphone that is still open.   *)
RecoveryStarts(p) ==
  LET kept == operations[p].microphone \in microphones
  IN /\ Doing(p, "detaching")
     /\ Closed(operations[p].from)
     /\ session' = StartClient(p, session, TRUE)
     /\ operations' = [operations EXCEPT
          ![p].at = IF kept THEN "session" ELSE "microphone",
          ![p].microphone = IF kept THEN @ ELSE None, ![p].room = session.shown]
     /\ Because("revived", Stale(p))
     /\ UNCHANGED <<microphones, server, budget>>

(* The rest of the rebuild: camera, then screen, each if it is still wanted;   *)
(* then the status is written without another look.                          *)
AfterCapture(p, s) ==
  IF s = "camera" THEN operations' = Goes(p, "screen") /\ UNCHANGED <<session, astray>>
  ELSE /\ operations' = Ends(p)
       /\ session' = Returns(p, [session EXCEPT !.status = "connected"])
       /\ Because("revived", Stale(p))

(* A camera is opened again, a screen only if it is still shared. *)
CaptureRestored(p, s) ==
  /\ Doing(p, s) /\ captures[s].wanted
  /\ s = "camera" \/ Live(s)
  /\ peers[p] = "open"
  /\ captures' = [captures EXCEPT ![s].stream = "live", ![s].state = "active", ![s].sent = p]
  /\ AfterCapture(p, s)
  /\ UNCHANGED <<peers, published, microphones, server, budget>>

CaptureLost(p, s) ==
  /\ Doing(p, s) /\ captures[s].wanted
  /\ captures' = [captures EXCEPT ![s] = [Stopped(@) EXCEPT !.wanted = FALSE, !.state = "idle"]]
  /\ AfterCapture(p, s)
  /\ UNCHANGED <<peers, published, microphones, server, budget>>

CaptureUnwanted(p, s) ==
  /\ Doing(p, s) /\ ~captures[s].wanted
  /\ AfterCapture(p, s)
  /\ UNCHANGED <<peers, published, microphones, captures, server, budget>>

-----------------------------------------------------------------------------
(* startCamera and startScreenShare. *)
StartCapture(s) ==
  /\ Ask
  /\ session.client # None /\ session.status = "connected"
  /\ captures[s].state = "idle" /\ ~captures[s].busy
  /\ captures' = [captures EXCEPT
       ![s].busy = TRUE, ![s].wanted = TRUE, ![s].state = "requesting-permission",
       ![s].task = [at |-> "permission", generation |-> captures[s].generation,
                    session |-> session.generation, manager |-> captures[s].manager,
                    client |-> session.client]]
  /\ UNCHANGED <<session, clients, server, astray>>

At(s, at) == captures[s].task # None /\ captures[s].task.at = at
Outdated(s) == captures[s].task.session # session.generation
Idled(x) == [x EXCEPT !.task = None, !.busy = FALSE,
                      !.closing = IF @ = None THEN None ELSE [@ EXCEPT !.behind = FALSE]]

(* The queue of a client: a publication, or a close of the same source, first. *)
Awaits(s, behind) ==
  /\ captures[s].closing # None /\ captures[s].closing.client = captures[s].task.client
  /\ captures[s].closing.behind = behind

(* The catch: in a later session it changes nothing any more. *)
Caught(s, x) == IF Outdated(s) THEN Idled(x)
                ELSE [Stopped(Idled(x)) EXCEPT !.wanted = FALSE, !.state = "idle"]

(* The camera opened, or the screen; a stream the screen's manager still has   *)
(* is returned as it is, ended or not.                                       *)
CaptureGranted(s) ==
  /\ At(s, "permission")
  /\ LET x == captures[s]
         open == IF s = "screen" /\ x.stream # "none" THEN x ELSE [x EXCEPT !.stream = "live"]
     IN captures' = [captures EXCEPT ![s] =
          IF x.task.manager # x.manager THEN Caught(s, x)
          ELSE IF ~Outdated(s)
          THEN [open EXCEPT !.task.at = "publishing", !.state = "publishing"]
          ELSE Idled(IF s = "camera" THEN open ELSE [x EXCEPT !.stream = "ended"])]
  /\ UNCHANGED <<session, clients, server, budget, astray>>

CaptureDenied(s) ==
  /\ At(s, "permission")
  /\ captures' = [captures EXCEPT ![s] = Caught(s, @)]
  /\ UNCHANGED <<session, clients, server, budget, astray>>

(* Sharing is ended from the browser before anybody listens for it. *)
ScreenEnds ==
  \E s \in Captures \ {"camera"} :
    /\ Ask
    /\ At(s, "publishing") /\ Live(s)
    /\ captures' = [captures EXCEPT ![s].stream = "ended"]
    /\ Because("kept", Outdated(s))
    /\ UNCHANGED <<session, clients, server>>

(* Published; a stop meanwhile has stopped the track and waits in the queue.   *)
(* In a session that is being detached nothing more is done with a camera; a  *)
(* screen is closed again, but its manager keeps the stream, live or ended.   *)
CapturePublished(s) ==
  LET x == captures[s]
      over == x.task.generation # x.generation \/ x.stream # "live"
  IN /\ At(s, "publishing") /\ ~Awaits(s, FALSE)
     /\ peers[x.task.client] = "open"
     /\ captures' = [captures EXCEPT ![s] =
          IF s = "camera" /\ Outdated(s) THEN Idled(x)
          ELSE IF ~over /\ ~Outdated(s)
          THEN [Idled(x) EXCEPT !.state = "active", !.sent = x.task.client]
          ELSE IF s = "camera" THEN [Stopped(Idled(x)) EXCEPT !.state = "idle"]
          ELSE [Idled(x) EXCEPT !.state = "idle", !.wanted = FALSE]]
     /\ Because("kept", s # "camera" /\ x.stream # "none" /\ (Outdated(s) \/ x.stream = "ended"))
     /\ UNCHANGED <<session, clients, server, budget>>

CapturePublishFails(s) ==
  /\ At(s, "publishing") /\ ~Awaits(s, FALSE)
  /\ captures' = [captures EXCEPT
       ![s] = Caught(s, IF Live(s) THEN [captures[s] EXCEPT !.stream = "ended"] ELSE @)]
  /\ Because("kept", Outdated(s) /\ Live(s))
  /\ UNCHANGED <<session, clients, server, budget>>

(* changeCamera: another device replaces the track that is sent. *)
ChangeCamera ==
  \E s \in Captures \cap {"camera"} :
    /\ Ask
    /\ session.client # None /\ captures[s].state = "active" /\ ~captures[s].busy
    /\ captures' = [captures EXCEPT
         ![s].busy = TRUE, ![s].generation = @ + 1, ![s].state = "switching",
         ![s].task = [at |-> "switching", generation |-> captures[s].generation + 1,
                      session |-> session.generation, manager |-> captures[s].manager,
                      client |-> session.client]]
    /\ UNCHANGED <<session, clients, server, astray>>

CameraChanged(s) ==
  LET x == captures[s]
  IN /\ At(s, "switching")
     /\ x.task.manager = x.manager /\ x.sent = x.task.client
     /\ captures' = [captures EXCEPT ![s] =
          IF Outdated(s) THEN Idled(x) ELSE [Idled(x) EXCEPT !.state = "active"]]
     /\ UNCHANGED <<session, clients, server, budget, astray>>

CameraNotChanged(s) ==
  /\ At(s, "switching")
  /\ captures' = [captures EXCEPT ![s] =
       IF Outdated(s) \/ session.requested THEN Idled(@)
       ELSE [Idled(@) EXCEPT !.state = IF captures[s].stream = "none" THEN "idle" ELSE "active"]]
  /\ UNCHANGED <<session, clients, server, budget, astray>>

(* refreshDevices finds the camera gone: nothing says it is not wanted any more. *)
CameraRemoved ==
  \E s \in Captures \cap {"camera"} :
    /\ Ask /\ Live(s)
    /\ LET x == captures[s]
       IN captures' = [captures EXCEPT ![s] =
            [Stopped(x) EXCEPT !.state = "idle",
               !.sent = IF x.sent = session.client THEN None ELSE x.sent]]
    /\ Because("removed", TRUE)
    /\ UNCHANGED <<session, clients, server>>

(* stopCamera and stopScreenShare, by the user or because the track ended; the *)
(* close waits in the queue behind a publication.                            *)
StopCapture(s) ==
  /\ Ask
  /\ captures[s].state \notin {"idle", "stopping"} /\ captures[s].closing = None
  /\ LET x == captures[s]
     IN captures' = [captures EXCEPT ![s] =
          [Stopped(x) EXCEPT !.generation = x.generation + 1, !.wanted = FALSE,
             !.state = IF session.client = None THEN "idle" ELSE "stopping",
             !.closing = IF session.client = None THEN None
                         ELSE [client |-> session.client, behind |-> At(s, "publishing")]]]
  /\ UNCHANGED <<session, clients, server, astray>>

(* Closed or refused, the state is idle, whatever it has become since. *)
CaptureClosed(s) ==
  LET x == captures[s]
  IN /\ x.closing # None
     /\ ~(At(s, "publishing") /\ Awaits(s, TRUE))
     /\ captures' = [captures EXCEPT
          ![s].state = "idle", ![s].closing = None,
          ![s].sent = IF @ = x.closing.client THEN None ELSE @]
     /\ Because("mislaid", x.state \notin {"idle", "stopping"})
     /\ UNCHANGED <<session, clients, server, budget>>

-----------------------------------------------------------------------------
(* Nothing is under way; the session waits for what is asked next. *)
Quiet ==
  /\ operations = [p \in Operations |-> None] /\ commands = <<>>
  /\ \A s \in Captures : captures[s].task = None /\ captures[s].closing = None

Waiting == Quiet /\ UNCHANGED vars

Next ==
  \/ \E p \in Operations, r \in Rooms : Join(p, r) \/ SwitchCall(p, r)
  \/ Leave \/ JoinGranted \/ JoinRefused \/ LeaveHandled \/ LeaveLost
  \/ PeerFails \/ PeerComesBack \/ Waiting
  \/ \E p \in Operations :
       \/ JoinTimesOut(p) \/ LeaveTimesOut(p) \/ MicrophoneGranted(p) \/ SessionCreated(p)
       \/ Published(p) \/ PublishedTooLate(p) \/ StartFails(p) \/ DevicesListed(p)
       \/ ReconcileRebuilding(p) \/ ReconcileRepairing(p) \/ Repaired(p) \/ RepairFails(p)
       \/ RecoveryStarts(p)
       \/ \E s \in Captures : CaptureRestored(p, s) \/ CaptureLost(p, s) \/ CaptureUnwanted(p, s)
  \/ ScreenEnds \/ ChangeCamera \/ CameraRemoved
  \/ \E s \in Captures :
       \/ StartCapture(s) \/ CaptureGranted(s) \/ CaptureDenied(s) \/ CapturePublished(s)
       \/ CapturePublishFails(s) \/ CameraChanged(s) \/ CameraNotChanged(s)
       \/ StopCapture(s) \/ CaptureClosed(s)

Spec == Init /\ [][Next]_vars

-----------------------------------------------------------------------------
(* Once nothing is under way, what the user is shown, what the client holds and *)
(* the call the server has it in agree: idle is no client, no call and no      *)
(* microphone that records; connected is a client whose peer is open, with a  *)
(* live microphone of its own, in the call of the room shown; and no other     *)
(* status of an operation stays.  It fails only where an operation went on     *)
(* after a later one: a client that a leave did not end (revived), a status or *)
(* a call.leave written over a later call (undercut), a join done after it was *)
(* given up (late), a microphone opened but not yet published at a leave, a    *)
(* switch that ended in another call, a call.leave that never reached the      *)
(* server (unleft) (use-voice-session.ts: join, leave, switchCall,             *)
(* startClient, reconcile).                                                  *)
Coherent ==
  Quiet /\ astray \cap {"late", "revived", "undercut"} = {} =>
    /\ session.status \in {"idle", "connected", "reconnecting"}
    /\ session.status = "idle" =>
         /\ session.client = None
         /\ lease = None \/ "unleft" \in astray
         /\ microphones = {} \/ "microphone" \in astray
    /\ session.status = "connected" =>
         /\ session.client # None /\ peers[session.client] = "open"
         /\ published[session.client] = session.microphone
         /\ session.microphone \in microphones
         /\ lease = session.shown \/ "misplaced" \in astray

(* Once nothing is under way, a camera or a screen is live exactly when it is   *)
(* shown as active and wanted, and what is active is sent on the session of    *)
(* now: none goes on unseen, and none is shown that nobody receives.  It fails *)
(* where a close cleared a capture begun after it (mislaid), and where the     *)
(* screen's manager keeps a stream nobody asks for any more (kept): ended, or  *)
(* live when it was published while the session was being detached            *)
(* (use-voice-session.ts: startCamera, changeCamera, startScreenShare, their   *)
(* stops, reconcile).                                                        *)
CaptureShown ==
  Quiet /\ session.status \in {"idle", "connected"} /\ astray \cap {"revived", "undercut"} = {} =>
    \A s \in Captures :
      LET x == captures[s]
      IN \/ x.state = "idle" /\ x.stream = "none" /\ (x.wanted => "removed" \in astray)
         \/ x.state = "active" /\ x.stream = "live" /\ x.wanted /\ x.sent = session.client
         \/ astray \cap {"mislaid", "kept"} # {}
=============================================================================
