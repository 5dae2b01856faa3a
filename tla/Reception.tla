------------------------------ MODULE Reception ------------------------------
(***************************************************************************)
(* How a listener receives the publications of a call: the effect that      *)
(* compares the list with what it has asked for                             *)
(* (src/src/features/voice/use-voice-session.ts), the negotiation queue of  *)
(* each media session (media-session-manager.ts), the subscription routes   *)
(* (src/worker/routes/realtime-routes.ts) and the subscriptions that        *)
(* ServerRealtime keeps with the connection                                 *)
(* (src/worker/durable/server-realtime.ts).                                 *)
(*                                                                          *)
(* Media sessions are rebuilt, the socket of the listener drops, answers    *)
(* and negotiations fail and lists miss a publication: as many times as the *)
(* scene says.                                                              *)
(***************************************************************************)
EXTENDS Naturals, Sequences, FiniteSets, SequencesExt

CONSTANTS Publications,     \* of the other participants of the room
          Sessions,         \* the media sessions of this listener, one after the other
          Scenes            \* which publications come, and how many failures they meet

VARIABLES
  stage,      \* the publications at the server: coming, offered, over
  listed,     \* the list of the client (publications)
  status,     \* connected, or recovering while the session is rebuilt
  client,     \* clientRef: the current media session
  manager,    \* each MediaSessionManager
  marked,     \* subscribedPublicationIdsRef
  remote,      \* remoteMedia
  due,        \* the effect has to run: a dependency has changed
  timer,      \* subscriptionRetryTimerRef
  routes,     \* the requests the server is working on
  found,      \* findConnection finds the connection: it is not suspended
  registered, \* realtimeSessionId
  held,       \* subscriptions of the attachment: none, pending, done
  excuses,    \* history: refused by what the server kept, left open, mark taken away
  faults      \* failures to come

world == <<stage, listed, faults>>
hook == <<status, client, marked, remote, due, timer>>
server == <<routes, found, registered, held>>
vars == <<world, hook, manager, server, excuses>>

Unused == [open |-> FALSE, fresh |-> TRUE, byMid |-> {}, tracks |-> {}, queue |-> <<>>]

(* A job of the negotiation queue.  marks are the publications its caller   *)
(* takes back when it fails.                                                *)
Subscribe(pubs, marks) ==
  [kind |-> "subscribe", pubs |-> pubs, marks |-> marks, phase |-> "queued"]
Unsubscribe(p) == [kind |-> "unsubscribe", pubs |-> {p}, marks |-> {}, phase |-> "queued"]

Init ==
  /\ \E scene \in Scenes :
       /\ stage = [p \in Publications |-> IF p \in scene.coming THEN "coming" ELSE "over"]
       /\ faults = scene.failures
  /\ listed = {}
  /\ client = CHOOSE s \in Sessions : TRUE
  /\ registered = client
  /\ manager = [s \in Sessions |->
                  IF s = client THEN [Unused EXCEPT !.open = TRUE, !.fresh = FALSE] ELSE Unused]
  /\ status = "connected" /\ marked = {} /\ remote = {} /\ due = FALSE /\ timer = FALSE
  /\ routes = {} /\ found = TRUE /\ held = [p \in Publications |-> "none"]
  /\ excuses = [refused |-> FALSE, left |-> {}, unmarked |-> {}]

Fails == faults > 0 /\ faults' = faults - 1

Offered == {p \in Publications : stage[p] = "offered"}

-----------------------------------------------------------------------------
(* The publications and the list. *)

Publish(p) ==
  /\ stage[p] = "coming"
  /\ stage' = [stage EXCEPT ![p] = "offered"]
  /\ UNCHANGED <<listed, faults, hook, manager, server, excuses>>

Unpublish(p) ==
  /\ stage[p] = "offered"
  /\ stage' = [stage EXCEPT ![p] = "over"]
  /\ UNCHANGED <<listed, faults, hook, manager, server, excuses>>

(* media.published, media.unpublished and the snapshots that bring them. *)
ListChanges ==
  /\ due' = TRUE
  /\ UNCHANGED <<stage, status, client, marked, remote, timer, manager, server, excuses>>

ListAdds(p) ==
  /\ found /\ p \in Offered \ listed
  /\ listed' = listed \cup {p}
  /\ ListChanges /\ UNCHANGED faults

ListDrops(p) ==
  /\ found /\ p \in listed \ Offered
  /\ listed' = listed \ {p}
  /\ ListChanges /\ UNCHANGED faults

(* A snapshot without the connection that publishes it (CallLease). *)
ListMisses(p) ==
  /\ found /\ p \in listed \cap Offered /\ Fails
  /\ listed' = listed \ {p}
  /\ ListChanges

-----------------------------------------------------------------------------
(* The effect. *)

Enqueue(s, jobs) == manager' = [manager EXCEPT ![s].queue = @ \o jobs]

(* Those it asked for and the list no longer has are closed; the others are *)
(* asked for together, unless a retry is waiting.                           *)
Effect ==
  /\ due /\ due' = FALSE
  /\ UNCHANGED <<world, status, client, server>>
  /\ IF status # "connected"
     THEN UNCHANGED <<marked, remote, timer, manager, excuses>>
     ELSE LET gone == marked \ listed
              pending == listed \ marked
              waits == pending # {} /\ timer
              fresh == pending \ (manager[client].byMid \cup manager[client].tracks)
              closes == SetToSeq({Unsubscribe(p) : p \in gone})
              opens == IF waits \/ fresh = {} THEN <<>> ELSE <<Subscribe(fresh, pending)>>
          IN  /\ remote' = remote \ gone
              /\ marked' = (marked \ gone) \cup (IF waits THEN {} ELSE pending)
              /\ timer' = (timer /\ (waits \/ fresh # {}))
              /\ Enqueue(client, closes \o opens)
              /\ excuses' = [excuses EXCEPT !.unmarked = IF waits THEN @ ELSE @ \ pending]

(* clearSubscriptionRetry *)
RetryCleared == timer' = FALSE

TimerFires ==
  /\ timer /\ timer' = FALSE /\ due' = TRUE
  /\ UNCHANGED <<world, status, client, marked, remote, manager, server, excuses>>

-----------------------------------------------------------------------------
(* The jobs of a session, first come first served.                          *)

First(s) == Head(manager[s].queue)
IsAt(s, kind, phase) ==
  manager[s].queue # <<>> /\ First(s).kind = kind /\ First(s).phase = phase

Finished(m) == [m EXCEPT !.queue = Tail(@)]
Finishes(s) == manager' = [manager EXCEPT ![s] = Finished(@)]
Proceeds(s, phase) == manager' = [manager EXCEPT ![s].queue[1].phase = phase]

ForgetsMark(pubs) ==    \* Mutant: the media stays in the list.
  /\ marked' = marked \ pubs
  /\ UNCHANGED <<status, client, remote, due, timer>>

GivesBackQuietly(s) ==  \* Mutant: nothing tries again.
  /\ marked' = marked \ First(s).marks
  /\ UNCHANGED <<status, client, remote, due, timer>>

(* The catch of the effect, whichever session the job belongs to: it also   *)
(* takes back what was asked for again meanwhile.                           *)
GivesBack(s) ==
  /\ marked' = marked \ First(s).marks
  /\ timer' = (timer \/ First(s).kind = "subscribe")
  /\ UNCHANGED <<status, client, remote, due>>

AskedAgain(s) ==
  LET others == IF s = client THEN Tail(manager[s].queue) ELSE manager[client].queue
  IN  First(s).marks \cap (manager[client].byMid \cup UNION {job.pubs : job \in Range(others)})

JobFails(s, refused, left) ==
  /\ manager' = [manager EXCEPT ![s] = Finished(IF IsAt(s, "subscribe", "negotiating")
                                                THEN [@ EXCEPT !.byMid = @ \ First(s).pubs]
                                                ELSE @)]
  /\ GivesBack(s)
  /\ excuses' = [excuses EXCEPT !.refused = @ \/ refused, !.left = @ \cup left,
                                !.unmarked = @ \cup AskedAgain(s)]

(* onRemoteTrackRemoved: removeRemoteMedia. *)
Forgets(pubs) ==
  /\ marked' = marked \ pubs /\ remote' = remote \ pubs
  /\ UNCHANGED <<status, client, due, timer>>

Held(pubs, state) == [p \in Publications |-> IF p \in pubs THEN state ELSE held[p]]
Owns(s) == found /\ registered = s

(* A request reaches the server as the job starts.  reserveSubscriptions:   *)
(* all of them or none.                                                     *)
Reservable(s, pubs) == Owns(s) /\ pubs \subseteq Offered /\ \A p \in pubs : held[p] = "none"

SubscribeStarts(s) ==
  /\ IsAt(s, "subscribe", "queued")
  /\ LET pubs == First(s).pubs
     IN  IF manager[s].open /\ Reservable(s, pubs)
         THEN /\ Proceeds(s, "asking")
              /\ held' = Held(pubs, "pending")
              /\ routes' = routes \cup {[session |-> s, pubs |-> pubs, heard |-> TRUE]}
              /\ UNCHANGED <<hook, excuses>>
         ELSE /\ JobFails(s, FALSE, {})
              /\ UNCHANGED <<held, routes>>
  /\ UNCHANGED <<world, found, registered>>

(* completeSubscriptions after the SFU has answered, or cancelSubscriptions *)
(* which does not ask for the session.                                      *)
Cancelled(pubs) == Held({p \in pubs : found /\ held[p] = "pending"}, "none")

RouteFails(r) ==
  /\ held' = Cancelled(r.pubs)
  /\ IF r.heard THEN JobFails(r.session, ~found, {})
                ELSE /\ excuses' = [excuses EXCEPT !.refused = @ \/ ~found]
                     /\ UNCHANGED <<hook, manager>>

SfuFails(r) ==
  /\ Fails
  /\ RouteFails(r) /\ routes' = routes \ {r}
  /\ UNCHANGED <<stage, listed, found, registered>>

(* The answer comes: setRemoteDescription makes the tracks appear.  It      *)
(* throws on a closed session.                                              *)
Completes(r) ==
  /\ routes' = routes \ {r}
  /\ IF ~Owns(r.session) \/ \E p \in r.pubs : held[p] # "pending"
     THEN RouteFails(r)
     ELSE /\ held' = Held(r.pubs, "done")
          /\ IF ~r.heard THEN UNCHANGED <<hook, manager, excuses>>
             ELSE IF ~manager[r.session].open THEN JobFails(r.session, FALSE, {})
             ELSE /\ manager' = [manager EXCEPT ![r.session].byMid = @ \cup r.pubs,
                                                ![r.session].tracks = @ \cup r.pubs,
                                                ![r.session].queue[1].phase = "negotiating"]
                  /\ remote' = remote \cup r.pubs
                  /\ UNCHANGED <<status, client, marked, due, timer, excuses>>
  /\ UNCHANGED <<world, found, registered>>

(* The answer does not come: the client gives the request up, the server    *)
(* does not.                                                                *)
AnswerLost(r) ==
  /\ r.heard /\ Fails
  /\ JobFails(r.session, TRUE, {})
  /\ routes' = (routes \ {r}) \cup {[r EXCEPT !.heard = FALSE]}
  /\ UNCHANGED <<stage, listed, found, registered, held>>

(* The renegotiation is answered.  The caller clears the retry, that of     *)
(* other publications too.                                                  *)
SubscriptionEnds(s) ==
  /\ IsAt(s, "subscribe", "negotiating") /\ manager[s].open
  /\ Finishes(s)
  /\ RetryCleared
  /\ excuses' = [excuses EXCEPT !.unmarked = IF timer THEN @ \cup (listed \ marked) ELSE @]
  /\ UNCHANGED <<world, status, client, marked, remote, due, server>>

NegotiationFails(s) ==
  /\ IsAt(s, "subscribe", "negotiating")
  /\ IF manager[s].open THEN Fails /\ JobFails(s, TRUE, First(s).pubs)
                        ELSE JobFails(s, FALSE, {}) /\ UNCHANGED faults
  /\ UNCHANGED <<stage, listed, server>>

(* findRemoteMid *)
HasMid(s, p) == p \in manager[s].byMid

(* takeSubscription *)
UnsubscribeStarts(s) ==
  /\ IsAt(s, "unsubscribe", "queued")
  /\ LET pubs == First(s).pubs
     IN  IF \E p \in pubs : ~HasMid(s, p)
         THEN Finishes(s) /\ UNCHANGED <<hook, held, excuses>>
         ELSE IF Owns(s) /\ \A p \in pubs : held[p] = "done"
         THEN Proceeds(s, "asking") /\ held' = Held(pubs, "none") /\ UNCHANGED <<hook, excuses>>
         ELSE JobFails(s, FALSE, pubs) /\ UNCHANGED held
  /\ UNCHANGED <<world, routes, found, registered>>

(* applyServerOffer: with an offer the session must be open still; without  *)
(* one it does not matter.                                                  *)
OfferRefused(s) == ~manager[s].open

(* The SFU has closed the track. *)
Unsubscribed(s) ==
  /\ IsAt(s, "unsubscribe", "asking")
  /\ LET pubs == First(s).pubs
     IN  \/ /\ OfferRefused(s) /\ JobFails(s, FALSE, {})
         \/ /\ manager' = [manager EXCEPT ![s] = Finished([@ EXCEPT
                              !.byMid = @ \ pubs, !.tracks = @ \ pubs])]
            /\ Forgets(pubs)
            /\ excuses' = [excuses EXCEPT !.unmarked = @ \cup (pubs \cap (listed \cup marked)),
                                          !.left = IF s = client THEN @ ELSE @ \cup pubs]
  /\ UNCHANGED <<world, server>>

(* The SFU does not close it, or the answer or the negotiation fails. *)
UnsubscribeFails(s) ==
  /\ IsAt(s, "unsubscribe", "asking") /\ Fails
  /\ JobFails(s, FALSE, First(s).pubs)
  /\ UNCHANGED <<stage, listed, server>>

-----------------------------------------------------------------------------
(* The socket of the listener drops, and its connection is resumed.         *)
Drops ==
  /\ found /\ Fails /\ found' = FALSE
  /\ UNCHANGED <<stage, listed, hook, manager, routes, registered, held, excuses>>

IsResumed ==
  /\ ~found /\ found' = TRUE
  /\ UNCHANGED <<world, hook, manager, routes, registered, held, excuses>>

(* The media session is rebuilt: reconcile detaches the client and starts   *)
(* another one.  The jobs of the old one are not cancelled.                 *)
Detaches ==
  /\ status = "connected" /\ \E s \in Sessions : manager[s].fresh
  /\ Fails
  /\ status' = "recovering" /\ marked' = {} /\ remote' = {}
  /\ manager' = [manager EXCEPT ![client].open = FALSE, ![client].byMid = {},
                                ![client].tracks = {}]
  /\ UNCHANGED <<stage, listed, client, due, timer, server, excuses>>

(* registerRealtimeSession forgets the subscriptions of the other session.  *)
Registers(s) ==
  /\ registered' = s
  /\ held' = [p \in Publications |-> "none"]

IsRebuilt(s) ==
  /\ status = "recovering" /\ found /\ manager[s].fresh
  /\ client' = s /\ status' = "connected" /\ due' = TRUE
  /\ manager' = [manager EXCEPT ![s].open = TRUE, ![s].fresh = FALSE]
  /\ Registers(s)
  /\ excuses' = [excuses EXCEPT !.refused = FALSE, !.unmarked = {}, !.left = {}]
  /\ UNCHANGED <<world, marked, remote, timer, routes, found>>

-----------------------------------------------------------------------------
JobAdvances(s) ==
  \/ SubscribeStarts(s) \/ SubscriptionEnds(s) \/ NegotiationFails(s)
  \/ UnsubscribeStarts(s) \/ Unsubscribed(s)

Next ==
  \/ \E p \in Publications : \/ Publish(p) \/ Unpublish(p)
                             \/ ListAdds(p) \/ ListDrops(p) \/ ListMisses(p)
  \/ Effect \/ TimerFires
  \/ \E s \in Sessions : JobAdvances(s) \/ UnsubscribeFails(s) \/ IsRebuilt(s)
  \/ \E r \in routes : Completes(r) \/ SfuFails(r) \/ AnswerLost(r)
  \/ Drops \/ IsResumed \/ Detaches

(* Timers fire, effects run, requests are answered, messages arrive and a   *)
(* connection that dropped is resumed.                                      *)
Fairness ==
  /\ WF_vars(Effect) /\ WF_vars(TimerFires) /\ WF_vars(IsResumed)
  /\ WF_vars(\E r \in routes : Completes(r))
  /\ \A s \in Sessions : WF_vars(JobAdvances(s))
  /\ \A p \in Publications : WF_vars(ListAdds(p)) /\ WF_vars(ListDrops(p))

Spec == Init /\ [][Next]_vars
FairSpec == Spec /\ Fairness

-----------------------------------------------------------------------------
(* A publication the list has is shown in the end, in spite of refusals,    *)
(* retries and batches with a publication that is over, unless the server   *)
(* kept a subscription the client gave up (it refuses every batch with it   *)
(* from then on, until the session is rebuilt), or the publication was      *)
(* closed after it came back to the list, or its retry was cleared by the   *)
(* success of another.                                                      *)
Hopeful(p) ==
  /\ p \in listed \cap Offered /\ status = "connected"
  /\ ~excuses.refused /\ p \notin excuses.left \cup excuses.unmarked

Received == \A p \in Publications : Hopeful(p) ~> (p \in remote \/ ~Hopeful(p))

(* What the list no longer has disappears in the end, also when it came     *)
(* while its end was on the way, unless the server or the negotiation       *)
(* failed to close it.                                                      *)
Vanished(p) == p \in listed \/ p \notin remote

Vanishes == \A p \in Publications :
              (p \notin listed) ~> (Vanished(p) \/ p \in excuses.left \cup excuses.unmarked)
=============================================================================
