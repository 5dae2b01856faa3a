------------------------- MODULE PublicationRegistry -------------------------
(***************************************************************************)
(* The publications of one connection: the HTTP requests that create an SFU *)
(* session, publish and close tracks, each a sequence of calls to the       *)
(* ServerRealtime object with an SFU call between them                      *)
(* (src/worker/routes/realtime-routes.ts), the records the object keeps of  *)
(* them (src/worker/durable/server-realtime.ts), and what the other clients *)
(* of the room have been told.  Between two calls of a request anything may *)
(* happen to the connection and to its call, and other requests run.        *)
(***************************************************************************)
EXTENDS MediaConnection

CONSTANTS Requests,     \* HTTP requests, a finite pool
          Sessions,     \* SFU session ids, a finite pool
          Sources,      \* MediaSource
          ScreenVideo, ScreenAudio

ASSUME ScreenSources == {ScreenVideo, ScreenAudio} \subseteq Sources /\ ScreenVideo # ScreenAudio

ASSUME NoSession == None \notin Sessions

VARIABLES
  req,       \* the requests in progress
  view,      \* the publications the others in the room know of
  missed     \* history: publications whose cancellation or removal found no connection

vars == <<lease, req, view, missed>>

(* A publication is named by the request that reserved it and its source. *)
Ids == Requests \X Sources

(* publications holds pending and published records; pendingClosures the    *)
(* ones being closed.                                                       *)
Attachment == [inCall : BOOLEAN, session : Sessions \cup {None},
               pending : SUBSET Ids, published : SUBSET Ids, closing : SUBSET Ids]

ASSUME NoAttachment == NoAtt \notin Attachment

Bareness == [inCall |-> FALSE, session |-> None,
             pending |-> {}, published |-> {}, closing |-> {}]

Stages == {"idle", "creating", "admitted", "reserved", "cancelling",
           "resolving", "pairing", "removing", "unpublished"}

Request == [stage : Stages, session : Sessions \cup {None},
            targets : SUBSET Ids, left : SUBSET Ids]

Idle == [stage |-> "idle", session |-> None, targets |-> {}, left |-> {}]

Of(s, ids) == {p \in ids : p[2] = s}       \* the ids of a source
SourcesOf(ids) == {p[2] : p \in ids}

(* The attachments there are, and the ids a request may not take again. *)
Attachments == {att} \cup ({replaced, copy} \ {NoAtt})
Records(a) == a.pending \cup a.published \cup a.closing
Mentioned == view \cup (UNION {Records(a) : a \in Attachments})
                  \cup (UNION {req[r].targets : r \in Requests})

Goto(r, stage) == req' = [req EXCEPT ![r] = [@ EXCEPT !.stage = stage]]
Done(r) == req' = [req EXCEPT ![r] = Idle]

(* The object finds no connection: the call changes nothing. *)
Nobody == Found = {} /\ UNCHANGED lease

-----------------------------------------------------------------------------
Init ==
  /\ place = "open" /\ att = Bareness /\ replaced = NoAtt /\ copy = NoAtt
  /\ astray = FALSE
  /\ req = [r \in Requests |-> Idle]
  /\ view = {} /\ missed = {}

-----------------------------------------------------------------------------
(* The connection and its call.  finalizeCall announces the end of every    *)
(* published record, and call.member.left removes what may be left.         *)
Move == Moves /\ UNCHANGED <<req, view, missed>>

Join == \E t \in Found : Joins(t) /\ UNCHANGED <<req, view, missed>>

FinalizeCall == view' = {} /\ UNCHANGED <<req, missed>>

(* Mutant: the SFU session stays with the connection. *)
LeaveWithSession ==
  FinalizeCall /\ \E t \in Found :
    \/ Leaves(t, [Bareness EXCEPT !.session = At(t).session])
    \/ ChangesRoom(t, [Bareness EXCEPT !.session = At(t).session])

Leave == FinalizeCall /\ \E t \in Found : Leaves(t, Bareness) \/ ChangesRoom(t, Bareness)

Evict == FinalizeCall /\ LosesAccess(Bareness)

End == /\ Ends(Bareness)
       /\ view' = IF att.inCall THEN {} ELSE view
       /\ UNCHANGED <<req, missed>>

Connect == /\ Connects(Bareness)
           /\ \A r \in Requests : req[r] = Idle
           /\ UNCHANGED <<req, view, missed>>

-----------------------------------------------------------------------------
(* hasActiveCall: every request passes it first. *)
Admitted(t) == t \in Found /\ At(t).inCall

Admit(r, request) ==
  /\ req[r] = Idle
  /\ \E t \in Found : /\ Admitted(t)
                      /\ Read(t)
  /\ req' = [req EXCEPT ![r] = request]

RequestSession(r) ==
  /\ Admit(r, [Idle EXCEPT !.stage = "creating"])
  /\ UNCHANGED <<view, missed>>

(* The session a client names is one it was given; another is refused.      *)
RequestPublish(r, sources) ==
  /\ \E s \in {a.session : a \in Attachments} \ {None} :
       Admit(r, [stage |-> "admitted", session |-> s,
                 targets |-> {r} \X sources, left |-> {}])
  /\ ({r} \X Sources) \cap Mentioned = {}
  /\ missed' = missed \ ({r} \X Sources)
  /\ UNCHANGED view

RequestClose(r, p) ==
  /\ p \in UNION {a.published \cup a.closing : a \in Attachments}
  /\ \E s \in {a.session : a \in Attachments} \ {None} :
       Admit(r, [stage |-> "resolving", session |-> s, targets |-> {p}, left |-> {}])
  /\ UNCHANGED <<view, missed>>

-----------------------------------------------------------------------------
(* registerRealtimeSession with the new session of the SFU.  A previous one *)
(* is rebuilt: its publications end.                                        *)
FreshSession(s) ==
  /\ \A a \in Attachments : a.session # s
  /\ \A r \in Requests : req[r].session # s

(* Mutant: a rebuilt session ends its publications without telling. *)
RegisterSilently(r, s) ==
  /\ req[r].stage = "creating" /\ FreshSession(s)
  /\ \/ Nobody
     \/ \E t \in Found :
          Serialize(t, IF At(t).session # None
                       THEN [Bareness EXCEPT !.inCall = At(t).inCall, !.session = s]
                       ELSE [At(t) EXCEPT !.session = s])
  /\ Done(r)
  /\ UNCHANGED <<view, missed>>

Register(r, s) ==
  /\ req[r].stage = "creating" /\ FreshSession(s)
  /\ \/ Nobody /\ UNCHANGED view
     \/ \E t \in Found :
          LET a == At(t)
              rebuilt == a.session # None
          IN  /\ Serialize(t, IF rebuilt THEN [Bareness EXCEPT !.inCall = a.inCall, !.session = s]
                                         ELSE [a EXCEPT !.session = s])
              /\ view' = IF rebuilt /\ a.inCall THEN view \ a.published ELSE view
  /\ Done(r)
  /\ UNCHANGED missed

(* The SFU fails to create a session, or to close tracks that were removed. *)
Fail(r) ==
  /\ req[r].stage \in {"creating", "unpublished"}
  /\ Done(r)
  /\ UNCHANGED <<lease, view, missed>>

-----------------------------------------------------------------------------
(* ownsRealtimeSession and reservePublications. *)
(* Mutant: only published sources count as taken. *)
ReservableTwice(a, request) ==
  LET sources == SourcesOf(request.targets)
  IN  /\ a.session = request.session
      /\ sources \cap SourcesOf(a.published) = {}
      /\ ScreenAudio \in sources =>
           ScreenVideo \in sources \cup SourcesOf(a.published)

Reservable(a, request) ==
  LET sources == SourcesOf(request.targets)
  IN  /\ a.session = request.session
      /\ sources \cap SourcesOf(a.pending \cup a.published) = {}
      /\ ScreenAudio \in sources =>
           ScreenVideo \in sources \cup SourcesOf(a.published)

Reserve(r) ==
  /\ req[r].stage = "admitted"
  /\ \/ Nobody /\ Done(r)
     \/ \E t \in Found :
          IF Reservable(At(t), req[r])
          THEN /\ Serialize(t, [At(t) EXCEPT !.pending = @ \cup req[r].targets])
               /\ Goto(r, "reserved")
          ELSE Read(t) /\ Done(r)
  /\ UNCHANGED <<view, missed>>

(* The SFU published the tracks: completePublications.  It writes the       *)
(* records before it looks whether there is still a call to announce them.  *)
CompleteUnchecked(r) ==   \* Mutant: the reservations are not looked up.
  /\ req[r].stage = "reserved"
  /\ \/ Nobody /\ Goto(r, "cancelling") /\ UNCHANGED view
     \/ \E t \in Found :
          LET a == At(t)
          IN  /\ Serialize(t, [a EXCEPT !.pending = @ \ req[r].targets,
                                        !.published = @ \cup req[r].targets])
              /\ view' = IF a.inCall THEN view \cup req[r].targets ELSE view
              /\ IF a.inCall THEN Done(r) ELSE Goto(r, "cancelling")
  /\ UNCHANGED missed

Complete(r) ==
  /\ req[r].stage = "reserved"
  /\ \/ Nobody /\ Goto(r, "cancelling") /\ UNCHANGED view
     \/ \E t \in Found :
          LET a == At(t)
              known == req[r].targets \subseteq a.pending
          IN  IF known
              THEN /\ Serialize(t, [a EXCEPT !.pending = @ \ req[r].targets,
                                             !.published = @ \cup req[r].targets])
                   /\ view' = IF a.inCall THEN view \cup req[r].targets ELSE view
                   /\ IF a.inCall THEN Done(r) ELSE Goto(r, "cancelling")
              ELSE Serialize(t, a) /\ Goto(r, "cancelling") /\ UNCHANGED view
  /\ UNCHANGED missed

(* The SFU failed, or the completion did: cancelPublications. *)
CancelBySource(r) ==   \* Mutant: reservations are found by their source.
  /\ req[r].stage \in {"reserved", "cancelling"}
  /\ \/ Nobody /\ missed' = missed \cup req[r].targets
     \/ /\ \E t \in Found :
             Serialize(t, [At(t) EXCEPT !.pending =
                             {p \in @ : p[2] \notin SourcesOf(req[r].targets)}])
        /\ UNCHANGED missed
  /\ Done(r)
  /\ UNCHANGED view

Cancel(r) ==
  /\ req[r].stage \in {"reserved", "cancelling"}
  /\ \/ Nobody /\ missed' = missed \cup req[r].targets
     \/ /\ \E t \in Found :
             Serialize(t, [At(t) EXCEPT !.pending = @ \ req[r].targets])
        /\ UNCHANGED missed
  /\ Done(r)
  /\ UNCHANGED view

-----------------------------------------------------------------------------
(* ownsRealtimeSession and resolveOwnedPublication. *)
Owned(a, request) == IF a.session = request.session THEN a.published \cup a.closing ELSE {}

Removing(r, ids) ==
  req' = [req EXCEPT ![r] = [@ EXCEPT !.stage = "removing", !.targets = ids, !.left = ids]]

Resolve(r) ==
  /\ req[r].stage = "resolving"
  /\ \/ Nobody /\ Done(r)
     \/ \E t \in Found :
          /\ Read(t)
          /\ IF req[r].targets \subseteq Owned(At(t), req[r])
             THEN IF ScreenVideo \in SourcesOf(req[r].targets)
                  THEN Goto(r, "pairing")
                  ELSE Removing(r, req[r].targets)
             ELSE Done(r)
  /\ UNCHANGED <<view, missed>>

(* resolveOwnedPublicationBySource: the screen's audio goes with its video. *)
(* The published one comes before those being closed already.               *)
AudioOwned(a, request) ==
  LET published == Of(ScreenAudio, a.published \cap Owned(a, request))
  IN  IF published # {} THEN published ELSE Of(ScreenAudio, Owned(a, request))

Pair(r) ==
  /\ req[r].stage = "pairing"
  /\ \/ Nobody /\ Removing(r, req[r].targets)
     \/ \E t \in Found :
          /\ Read(t)
          /\ LET audio == AudioOwned(At(t), req[r])
             IN  \/ audio = {} /\ Removing(r, req[r].targets)
                 \/ \E p \in audio : Removing(r, req[r].targets \cup {p})
  /\ UNCHANGED <<view, missed>>

Removed(r, left) ==
  req' = [req EXCEPT ![r] = [@ EXCEPT !.stage = IF left = {} THEN "unpublished" ELSE "removing",
                                      !.left = left]]

(* removePublication, of the video first.  The route does not look at what  *)
(* it returns.                                                              *)
RemoveCopying(r, p) ==   \* Mutant: the record stays among the publications.
  /\ req[r].stage = "removing" /\ p \in req[r].left
  /\ Of(ScreenVideo, req[r].left) \subseteq {p}
  /\ \E t \in Found :
       IF p \in At(t).published
       THEN /\ Serialize(t, [At(t) EXCEPT !.closing = @ \cup {p}])
            /\ view' = IF At(t).inCall THEN view \ {p} ELSE view
       ELSE Read(t) /\ UNCHANGED view
  /\ Removed(r, req[r].left \ {p})
  /\ UNCHANGED missed

RemoveFirst(r, p) ==   \* Mutant: the screen's audio is not removed.
  /\ req[r].stage = "removing" /\ p \in req[r].left
  /\ Of(ScreenVideo, req[r].left) \subseteq {p}
  /\ \E t \in Found :
       IF p \in At(t).published
       THEN /\ Serialize(t, [At(t) EXCEPT !.published = @ \ {p}, !.closing = @ \cup {p}])
            /\ view' = IF At(t).inCall THEN view \ {p} ELSE view
       ELSE Read(t) /\ UNCHANGED view
  /\ Removed(r, {})
  /\ UNCHANGED missed

Remove(r, p) ==
  /\ req[r].stage = "removing" /\ p \in req[r].left
  /\ Of(ScreenVideo, req[r].left) \subseteq {p}
  /\ \/ Nobody /\ missed' = missed \cup {p} /\ UNCHANGED view
     \/ /\ \E t \in Found :
             LET a == At(t)
             IN  IF p \in a.published
                 THEN /\ Serialize(t, [a EXCEPT !.published = @ \ {p}, !.closing = @ \cup {p}])
                      /\ view' = IF a.inCall THEN view \ {p} ELSE view
                 ELSE Serialize(t, a) /\ UNCHANGED view
        /\ UNCHANGED missed
  /\ Removed(r, req[r].left \ {p})

(* The SFU closed the tracks: completePublicationClosures. *)
Closed(r) ==
  /\ req[r].stage = "unpublished"
  /\ \/ Nobody
     \/ \E t \in Found : Serialize(t, [At(t) EXCEPT !.closing = @ \ req[r].targets])
  /\ Done(r)
  /\ UNCHANGED <<view, missed>>

-----------------------------------------------------------------------------
Next ==
  \/ Move \/ Join \/ Leave \/ Evict \/ End \/ Connect
  \/ \E r \in Requests :
       \/ RequestSession(r)
       \/ \E sources \in SUBSET Sources \ {{}} : RequestPublish(r, sources)
       \/ \E p \in Ids : RequestClose(r, p) \/ Remove(r, p)
       \/ \E s \in Sessions : Register(r, s)
       \/ Fail(r) \/ Reserve(r) \/ Complete(r) \/ Cancel(r)
       \/ Resolve(r) \/ Pair(r) \/ Closed(r)

Spec == Init /\ [][Next]_vars

-----------------------------------------------------------------------------
Apart(a) == /\ a.pending \cap a.published = {}
            /\ a.pending \cap a.closing = {}
            /\ a.published \cap a.closing = {}

Typed ==
  /\ place \in Places
  /\ att \in Attachment
  /\ replaced \in Attachment \cup {NoAtt}
  /\ copy \in Attachment \cup {NoAtt}
  /\ astray \in BOOLEAN
  /\ req \in [Requests -> Request]
  /\ view \in SUBSET Ids
  /\ missed \in SUBSET Ids

(* Every variable has its type, and a record is in one state: reserved,     *)
(* published, or being closed.                                              *)
TypeOK == Typed /\ (~astray => Apart(att))

(* What the others have been told is what the registry holds: media.published, *)
(* media.unpublished and call.member.left, applied in order, show exactly   *)
(* the published records of a connection in a call, through suspension,     *)
(* resumption, rebuilt sessions and late completions.                       *)
ViewFaithful ==
  ~astray => view = IF place # "gone" /\ att.inCall THEN att.published ELSE {}

(* Media belongs to a call: a late completion, or a session registered      *)
(* after the call has ended, leaves no record on a connection without one.  *)
InCallOnly ==
  ~astray /\ Records(att) # {} => att.inCall

(* A reservation is in the hands of its request until it is completed or    *)
(* cancelled, unless the cancellation found no connection; and a batch      *)
(* stands or falls as a whole: no other request takes a part of it.         *)
Holds(r) == req[r].stage \in {"reserved", "cancelling"}

ReservationOwned ==
  ~astray =>
    /\ \A p \in att.pending \ missed : Holds(p[1]) /\ p \in req[p[1]].targets
    /\ \A r \in Requests : Holds(r) =>
         req[r].targets \subseteq att.pending \/ req[r].targets \cap Records(att) = {}

(* One publication of each source, as reserved and as the others see it.    *)
OneBySource ==
  ~astray => \A p, q \in att.pending \cup view : p[2] = q[2] => p = q

(* media.unpublished comes before the tracks are closed in the SFU: when a  *)
(* close asks for that, nobody believes in the publications any more.       *)
UnpublishedFirst ==
  \A r \in Requests : ~astray /\ req[r].stage = "unpublished" =>
    req[r].targets \cap view \subseteq missed

(* What docs/architecture.md says of a failure: it cancels the reservation. *)
FailuresCancel ==
  \A p \in att.pending : Holds(p[1])

(* A publication is announced once, from its reservation and by its request;*)
(* once ended it does not come back.                                        *)
AnnouncedOnce ==
  [][~astray' => \A p \in view' \ view : p \in att.pending /\ req[p[1]].stage = "reserved"]_vars
=============================================================================
