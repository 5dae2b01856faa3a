---------------------------- MODULE MCClientLoops ---------------------------
(* The two loops of the client that try again, for TLC: the supervisor's    *)
(* recoveries and a listener's subscriptions.  They share no variable: a    *)
(* behaviour follows one of them, and the other rests, where nothing of it  *)
(* that is fair is enabled.                                                 *)
EXTENDS Supervisor

CONSTANTS p1, p2, Publications, Sessions, Scenes

VARIABLES
  stage, listed, status, client, manager, marked, remote, due, timer, routes, found,
  registered, held, excuses, faults,
  part        \* the one this behaviour follows

Listener == INSTANCE Reception

listener == <<stage, listed, status, client, manager, marked, remote, due, timer, routes,
              found, registered, held, excuses, faults>>

LoopsInit ==
  /\ part \in {"supervisor", "listener"}
  /\ Init /\ Listener!Init
  /\ part = "supervisor" => faults = 1      \* one scene to rest in

LoopsNext ==
  /\ UNCHANGED part
  /\ \/ part = "supervisor" /\ Next /\ UNCHANGED listener
     \/ part = "listener" /\ Listener!Next /\ UNCHANGED vars

LoopsSpec ==
  LoopsInit /\ [][LoopsNext]_<<vars, listener, part>> /\ Fairness /\ Listener!Fairness

Received == Listener!Received
Vanishes == Listener!Vanishes

-----------------------------------------------------------------------------
Seen(active, online, socket, peer, voice, control) ==
  [active |-> active, networkOnline |-> online, socketState |-> socket,
   peerState |-> peer, voice |-> voice, control |-> control]

(* Before the session and as it starts, a good call, one being joined with  *)
(* the socket down, a socket that fell during a call, a lost peer, pending  *)
(* control calls and a call that was left.                                  *)
MCSnapshots ==
  {Seen(FALSE, TRUE, "disconnected", "connected", "idle", FALSE),
   Seen(FALSE, TRUE, "connecting", "connected", "idle", FALSE),
   Seen(TRUE, TRUE, "connected", "connected", "connected", FALSE),
   Seen(TRUE, TRUE, "disconnected", "connected", "joining", FALSE),
   Seen(TRUE, TRUE, "connecting", "connected", "connected", FALSE),
   Seen(TRUE, TRUE, "connected", "failed", "reconnecting", FALSE),
   Seen(TRUE, TRUE, "connected", "connected", "connected", TRUE),
   Seen(TRUE, TRUE, "connected", "connected", "idle", FALSE)}

(* Two publications and a failure, or one and two failures. *)
MCScenes == {[coming |-> {p1, p2}, failures |-> 1], [coming |-> {p1}, failures |-> 2]}
=============================================================================
