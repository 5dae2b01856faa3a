---------------------- MODULE PublicationRegistryProofs ----------------------
(***************************************************************************)
(* The promises of PublicationRegistry hold for any number of requests,     *)
(* sessions and sources.  They are inductive together with what a request   *)
(* knows between its calls: which records may carry its identifiers, and    *)
(* that a call must have ended if its session is no longer the              *)
(* connection's.                                                            *)
(***************************************************************************)
EXTENDS PublicationRegistry, TLAPS

IdsOf(r) == {p \in Ids : p[1] = r}

Publishing(r) == req[r].stage \in {"admitted", "reserved", "cancelling"}
Closing(r) == req[r].stage \in {"pairing", "removing", "unpublished"}

(* The registry and the others' view of it. *)
ViewShows == view = IF place # "gone" /\ att.inCall THEN att.published ELSE {}
RecordsInCall == Records(att) # {} => att.inCall
SourcesTaken == \A p, q \in att.pending \cup att.published : p[2] = q[2] => p = q

(* A request that publishes: before its reservation nothing has its         *)
(* identifiers, and its session stands for the call it was admitted in.     *)
AdmittedFresh ==
  \A r \in Requests : req[r].stage = "admitted" =>
    /\ req[r].session # None
    /\ req[r].session = att.session => att.inCall
    /\ IdsOf(r) \cap Records(att) = {}

OwnTargets == \A r \in Requests : Publishing(r) => req[r].targets \subseteq IdsOf(r)

Reserved ==
  \A r \in Requests : Holds(r) =>
    /\ IdsOf(r) \cap Records(att) \subseteq att.pending \cap req[r].targets
    /\ req[r].targets \subseteq att.pending \/ req[r].targets \cap Records(att) = {}

PendingHeld == \A p \in att.pending \ missed : Holds(p[1]) /\ p \in req[p[1]].targets

(* A request that closes: its targets are nobody's reservation, and those   *)
(* it has removed are not seen.                                             *)
CloseApart ==
  \A r \in Requests : Closing(r) =>
    /\ req[r].targets \cap att.pending = {}
    /\ \A q \in Requests : Publishing(q) => req[r].targets \cap IdsOf(q) = {}

RemovedUnseen ==
  \A r \in Requests :
    /\ req[r].stage \in {"removing", "unpublished"} =>
         (req[r].targets \ req[r].left) \cap view \subseteq missed
    /\ req[r].stage = "unpublished" => req[r].left = {}

Promise == /\ Apart(att) /\ ViewShows /\ RecordsInCall /\ SourcesTaken
           /\ AdmittedFresh /\ OwnTargets /\ Reserved /\ PendingHeld
           /\ CloseApart /\ RemovedUnseen

RegistryInv == Typed /\ (~astray => Promise)

-----------------------------------------------------------------------------
(* Identifiers are pairs, and those of two requests are different. *)
LEMMA IdFacts ==
  /\ \A p \in Ids : p[1] \in Requests /\ p[2] \in Sources
  /\ \A r \in Requests, s \in Sources : <<r, s>> \in Ids
  /\ \A r \in Requests : {r} \X Sources = IdsOf(r)
  /\ \A p, q \in Ids : p[1] = q[1] /\ p[2] = q[2] => p = q
BY DEF Ids, IdsOf

LEMMA BarenessTyped == Bareness \in Attachment
BY DEF Bareness, Attachment

(* EXCEPT on attachments and requests, as the actions use it. *)
LEMMA AttachmentUpdates ==
  ASSUME NEW a \in Attachment, NEW P \in SUBSET Ids, NEW Q \in SUBSET Ids,
         NEW s \in Sessions \cup {None}, NEW b \in BOOLEAN
  PROVE  /\ [a EXCEPT !.pending = P] \in Attachment
         /\ [a EXCEPT !.closing = P] \in Attachment
         /\ [a EXCEPT !.pending = P, !.published = Q] \in Attachment
         /\ [a EXCEPT !.published = P, !.closing = Q] \in Attachment
         /\ [a EXCEPT !.session = s] \in Attachment
         /\ [a EXCEPT !.inCall = b] \in Attachment
         /\ [a EXCEPT !.inCall = b, !.session = s] \in Attachment
BY DEF Attachment

(* What a serialization leaves behind, and what it does when nobody is      *)
(* astray: the transport found is the current one.                          *)
LEMMA SerializeTypes ==
  ASSUME Typed, NEW t \in Found, NEW a \in Attachment, Serialize(t, a)
  PROVE  /\ att' \in Attachment /\ replaced' \in Attachment \cup {NoAtt}
         /\ copy' \in Attachment \cup {NoAtt} /\ place' \in Places /\ astray' \in BOOLEAN
BY DEF Typed, Serialize, Found

LEMMA FoundTyped ==
  ASSUME Typed, NEW t \in Found
  PROVE  At(t) \in Attachment
BY DEF Typed, At, Found

LEMMA OnCurrent ==
  ASSUME NEW t \in Found, NEW a, Serialize(t, a), ~astray'
  PROVE  /\ att' = a /\ At(t) = att /\ place' = place /\ Listed /\ place # "gone" /\ ~astray
BY DEF Serialize, Found, At, Listed
-----------------------------------------------------------------------------
(* The lease keeps the types, whatever attachment without media it is given.*)
LeaseTyped == /\ place \in Places /\ att \in Attachment
              /\ replaced \in Attachment \cup {NoAtt} /\ copy \in Attachment \cup {NoAtt}
              /\ astray \in BOOLEAN

LEMMA MovesTyped == Typed /\ Moves => LeaseTyped'
<1> SUFFICES ASSUME Typed, Moves PROVE LeaseTyped'
  OBVIOUS
<1>1. LeaseTyped /\ att.inCall \in BOOLEAN
  BY DEF Typed, LeaseTyped, Attachment
<1> QED
  BY <1>1 DEF LeaseTyped, Moves, CloseSocket, Suspend, ResumeSuspended, ResumeOpen,
     ResumeAccepted, ResumeLost, ReplacedGone, AlarmReads, AlarmWrites, AlarmCloses, Places

LEMMA CallTyped ==
  ASSUME Typed, Join \/ Leave \/ Evict \/ End \/ Connect
  PROVE  LeaseTyped'
<1>1. Bareness \in Attachment /\ [Bareness EXCEPT !.inCall = TRUE] \in Attachment
  BY BarenessTyped, AttachmentUpdates
<1>2. CASE Join
  <2>1. PICK t \in Found : Joins(t)
    BY <1>2 DEF Join
  <2>2. [At(t) EXCEPT !.inCall = TRUE] \in Attachment
    BY FoundTyped, AttachmentUpdates
  <2> QED BY <2>1, <2>2, SerializeTypes DEF Joins, LeaseTyped
<1>3. CASE Leave
  <2>1. PICK t \in Found : Leaves(t, Bareness) \/ ChangesRoom(t, Bareness)
    BY <1>3 DEF Leave
  <2> QED BY <2>1, <1>1, SerializeTypes DEF Leaves, ChangesRoom, LeaseTyped
<1>4. CASE Evict
  <2>1. LeaseTyped /\ att.inCall \in BOOLEAN
    BY DEF Typed, LeaseTyped, Attachment
  <2> QED BY <1>4, <1>1, <2>1 DEF Evict, LosesAccess, Bare, LeaseTyped
<1>5. CASE End
  BY <1>5, <1>1 DEF Typed, End, Ends, LeaseTyped, Places
<1>6. CASE Connect
  BY <1>6, <1>1 DEF Typed, Connect, Connects, LeaseTyped, Places
<1> QED BY <1>2, <1>3, <1>4, <1>5, <1>6

(* Every call of the object in a request serializes an attachment. *)
LEMMA RequestTyped ==
  ASSUME Typed, NEW r \in Requests,
         \/ RequestSession(r)
         \/ \E sources \in SUBSET Sources : RequestPublish(r, sources)
         \/ \E p \in Ids : RequestClose(r, p)
  PROVE  Typed'
<1>1. ASSUME NEW t \in Found, Read(t) PROVE LeaseTyped'
  BY <1>1, FoundTyped, SerializeTypes DEF Read, LeaseTyped
<1>2. Idle \in Request /\ \A k \in Requests : req[k] \in Request
  BY DEF Typed, Idle, Request, Stages
<1>3. \A a \in Attachments : a.session \in Sessions \cup {None}
  BY DEF Typed, Attachments, Attachment
<1>4. CASE RequestSession(r)
  <2>1. [Idle EXCEPT !.stage = "creating"] \in Request
    BY DEF Idle, Request, Stages
  <2>2. LeaseTyped'
    BY <1>1, <1>4 DEF RequestSession, Admit
  <2> QED BY <1>4, <2>1, <2>2 DEF RequestSession, Admit, Typed, LeaseTyped
<1>5. ASSUME NEW sources \in SUBSET Sources, RequestPublish(r, sources) PROVE Typed'
  <2>1. PICK s \in Sessions :
          Admit(r, [stage |-> "admitted", session |-> s, targets |-> {r} \X sources, left |-> {}])
    BY <1>3, <1>5 DEF RequestPublish
  <2>2. [stage |-> "admitted", session |-> s, targets |-> {r} \X sources, left |-> {}] \in Request
    BY DEF Request, Stages, Ids
  <2>3. LeaseTyped'
    BY <1>1, <2>1 DEF Admit
  <2> QED BY <1>5, <2>1, <2>2, <2>3 DEF RequestPublish, Admit, Typed, LeaseTyped
<1>6. ASSUME NEW p \in Ids, RequestClose(r, p) PROVE Typed'
  <2>1. PICK s \in Sessions :
          Admit(r, [stage |-> "resolving", session |-> s, targets |-> {p}, left |-> {}])
    BY <1>3, <1>6 DEF RequestClose
  <2>2. [stage |-> "resolving", session |-> s, targets |-> {p}, left |-> {}] \in Request
    BY DEF Request, Stages
  <2>3. LeaseTyped'
    BY <1>1, <2>1 DEF Admit
  <2> QED BY <1>6, <2>1, <2>2, <2>3 DEF RequestClose, Admit, Typed, LeaseTyped
<1> QED BY <1>4, <1>5, <1>6

LEMMA RequestUpdates ==
  ASSUME NEW q \in Request, NEW stage \in Stages, NEW P \in SUBSET Ids, NEW Q \in SUBSET Ids
  PROVE  /\ [q EXCEPT !.stage = stage] \in Request
         /\ [q EXCEPT !.stage = stage, !.left = P] \in Request
         /\ [q EXCEPT !.left = P, !.stage = stage] \in Request
         /\ [q EXCEPT !.stage = stage, !.targets = P, !.left = Q] \in Request
BY DEF Request

LEMMA ReqTyped ==
  ASSUME Typed, NEW r \in Requests, NEW stage \in Stages, NEW P \in SUBSET Ids
  PROVE  /\ Done(r) => req' \in [Requests -> Request]
         /\ Goto(r, stage) => req' \in [Requests -> Request]
         /\ Removing(r, P) => req' \in [Requests -> Request]
         /\ Removed(r, P) => req' \in [Requests -> Request]
<1>1. req \in [Requests -> Request] /\ req[r] \in Request /\ Idle \in Request
  BY DEF Typed, Idle, Request, Stages
<1>2. Done(r) => req' \in [Requests -> Request]
  BY <1>1 DEF Done
<1>3. ASSUME Goto(r, stage) PROVE req' \in [Requests -> Request]
  <2>1. req' = [req EXCEPT ![r] = [req[r] EXCEPT !.stage = stage]]
    BY <1>3 DEF Goto
  <2> QED BY <1>1, <2>1, RequestUpdates
<1>4. ASSUME Removing(r, P) PROVE req' \in [Requests -> Request]
  <2>1. "removing" \in Stages
    BY DEF Stages
  <2>2. req' = [req EXCEPT ![r] = [req[r] EXCEPT !.stage = "removing", !.targets = P, !.left = P]]
    BY <1>4 DEF Removing
  <2> QED BY <1>1, <2>1, <2>2, RequestUpdates
<1>5. ASSUME Removed(r, P) PROVE req' \in [Requests -> Request]
  <2>1. PICK next \in Stages : req' = [req EXCEPT ![r] = [req[r] EXCEPT !.stage = next, !.left = P]]
    <3>1. "unpublished" \in Stages /\ "removing" \in Stages
      BY DEF Stages
    <3> QED BY <1>5, <3>1 DEF Removed
  <2> QED BY <1>1, <2>1, RequestUpdates
<1> QED BY <1>2, <1>3, <1>4, <1>5

LEMMA AnswerTyped ==
  ASSUME Typed, NEW r \in Requests,
         \/ \E s \in Sessions : Register(r, s)
         \/ Fail(r) \/ Reserve(r) \/ Complete(r) \/ Cancel(r)
         \/ Resolve(r) \/ Pair(r) \/ Closed(r)
         \/ \E p \in Ids : Remove(r, p)
  PROVE  Typed'
<1>1. ASSUME NEW t \in Found, NEW a \in Attachment, Serialize(t, a) PROVE LeaseTyped'
  BY <1>1, SerializeTypes DEF LeaseTyped
<1>2. ASSUME UNCHANGED lease PROVE LeaseTyped'
  BY <1>2 DEF Typed, LeaseTyped, lease
<1>3. \A t \in Found : At(t) \in Attachment
  BY FoundTyped
<1>4. /\ req[r] \in Request /\ req[r].targets \in SUBSET Ids
      /\ view \in SUBSET Ids /\ missed \in SUBSET Ids
  BY DEF Typed, Request
<1>5. \A t \in Found : /\ At(t).pending \in SUBSET Ids /\ At(t).published \in SUBSET Ids
                       /\ At(t).closing \in SUBSET Ids /\ At(t).inCall \in BOOLEAN
  BY <1>3 DEF Attachment
<1>6. LeaseTyped' /\ req' \in [Requests -> Request] /\ view' \in SUBSET Ids
        /\ missed' \in SUBSET Ids => Typed'
  BY DEF LeaseTyped, Typed
<1>7. \A t \in Found : Read(t) => LeaseTyped'
  BY <1>1, <1>3 DEF Read
<1>8. "reserved" \in Stages /\ "cancelling" \in Stages /\ "pairing" \in Stages
        /\ "removing" \in Stages /\ "unpublished" \in Stages
  BY DEF Stages
<1>9. Done(r) => req' \in [Requests -> Request]
  BY <1>4, <1>8, ReqTyped
<1>a. ASSUME NEW s \in Sessions, Register(r, s) PROVE Typed'
  <2>1. LeaseTyped' /\ view' \in SUBSET Ids
    <3>1. CASE Nobody /\ UNCHANGED view
      BY <3>1, <1>2, <1>4 DEF Nobody
    <3>2. ASSUME NEW t \in Found,
                 Serialize(t, IF At(t).session # None
                                THEN [Bareness EXCEPT !.inCall = At(t).inCall, !.session = s]
                                ELSE [At(t) EXCEPT !.session = s]),
                 view' \in {view, view \ At(t).published}
          PROVE  LeaseTyped' /\ view' \in SUBSET Ids
      <4>1. /\ [Bareness EXCEPT !.inCall = At(t).inCall, !.session = s] \in Attachment
            /\ [At(t) EXCEPT !.session = s] \in Attachment
        BY <1>3, <1>5, BarenessTyped, AttachmentUpdates
      <4> QED BY <4>1, <3>2, <1>1, <1>4
    <3> QED BY <1>a, <3>1, <3>2 DEF Register
  <2> QED BY <1>a, <2>1, <1>4, <1>6, <1>9 DEF Register
<1>b. CASE Fail(r)
  BY <1>b, <1>2, <1>4, <1>6, <1>9 DEF Fail
<1>c. CASE Reserve(r)
  <2>1. CASE Nobody /\ Done(r)
    BY <2>1, <1>c, <1>2, <1>4, <1>6, <1>9 DEF Nobody, Reserve
  <2>2. ASSUME NEW t \in Found,
               \/ /\ Serialize(t, [At(t) EXCEPT !.pending = @ \cup req[r].targets])
                  /\ Goto(r, "reserved")
               \/ Read(t) /\ Done(r)
        PROVE  LeaseTyped' /\ req' \in [Requests -> Request]
    <3>1. [At(t) EXCEPT !.pending = @ \cup req[r].targets] \in Attachment
      BY <1>3, <1>4, <1>5, AttachmentUpdates
    <3> QED BY <3>1, <2>2, <1>1, <1>7, <1>8, ReqTyped
  <2> QED BY <2>1, <2>2, <1>c, <1>4, <1>6 DEF Reserve
<1>d. CASE Complete(r)
  <2>1. CASE Nobody /\ Goto(r, "cancelling") /\ UNCHANGED view
    BY <2>1, <1>d, <1>2, <1>4, <1>6, <1>8, ReqTyped DEF Nobody, Complete
  <2>2. ASSUME NEW t \in Found,
               \/ Serialize(t, [At(t) EXCEPT !.pending = @ \ req[r].targets,
                                             !.published = @ \cup req[r].targets])
               \/ Serialize(t, At(t)),
               Done(r) \/ Goto(r, "cancelling"),
               view' \in {view, view \cup req[r].targets}
        PROVE  LeaseTyped' /\ req' \in [Requests -> Request] /\ view' \in SUBSET Ids
    <3>1. [At(t) EXCEPT !.pending = @ \ req[r].targets,
                        !.published = @ \cup req[r].targets] \in Attachment
      BY <1>3, <1>4, <1>5, AttachmentUpdates
    <3> QED BY <3>1, <2>2, <1>1, <1>3, <1>4, <1>8, ReqTyped
  <2> QED BY <2>1, <2>2, <1>d, <1>4, <1>6 DEF Complete, Read
<1>e. CASE Cancel(r)
  <2>1. ASSUME NEW t \in Found, Serialize(t, [At(t) EXCEPT !.pending = @ \ req[r].targets])
        PROVE  LeaseTyped'
    <3>1. [At(t) EXCEPT !.pending = @ \ req[r].targets] \in Attachment
      BY <1>3, <1>4, <1>5, AttachmentUpdates
    <3> QED BY <3>1, <2>1, <1>1
  <2>2. LeaseTyped' /\ missed' \in SUBSET Ids
    BY <2>1, <1>e, <1>2, <1>4 DEF Cancel, Nobody
  <2> QED BY <2>2, <1>e, <1>4, <1>6, <1>9 DEF Cancel
<1>f. CASE Resolve(r)
  <2>1. LeaseTyped'
    BY <1>f, <1>2, <1>7 DEF Resolve, Nobody
  <2>2. Removing(r, req[r].targets) => req' \in [Requests -> Request]
    BY <1>4, <1>8, ReqTyped
  <2>3. req' \in [Requests -> Request]
    BY <1>f, <2>2, <1>8, <1>9, ReqTyped DEF Resolve
  <2> QED BY <2>1, <2>3, <1>f, <1>4, <1>6 DEF Resolve
<1>g. CASE Pair(r)
  <2>1. LeaseTyped'
    BY <1>g, <1>2, <1>7 DEF Pair, Nobody
  <2>2. \A t \in Found : AudioOwned(At(t), req[r]) \subseteq Ids
    BY <1>5 DEF AudioOwned, Owned, Of
  <2>3. ASSUME NEW P \in SUBSET Ids, Removing(r, P) PROVE req' \in [Requests -> Request]
    BY <2>3, <1>8, ReqTyped
  <2>4. req' \in [Requests -> Request]
    BY <1>g, <2>2, <2>3, <1>4 DEF Pair
  <2> QED BY <2>1, <2>4, <1>g, <1>4, <1>6 DEF Pair
<1>h. ASSUME NEW p \in Ids, Remove(r, p) PROVE Typed'
  <2>1. ASSUME NEW t \in Found,
               \/ Serialize(t, [At(t) EXCEPT !.published = @ \ {p}, !.closing = @ \cup {p}])
               \/ Read(t)
        PROVE  LeaseTyped'
    <3>1. [At(t) EXCEPT !.published = @ \ {p}, !.closing = @ \cup {p}] \in Attachment
      BY <1>3, <1>5, AttachmentUpdates
    <3> QED BY <3>1, <2>1, <1>1, <1>7
  <2>2. LeaseTyped' /\ view' \in SUBSET Ids /\ missed' \in SUBSET Ids
    <3>1. CASE Nobody /\ missed' = missed \cup {p} /\ UNCHANGED view
      BY <3>1, <1>2, <1>4 DEF Nobody
    <3>2. CASE ~(Nobody /\ missed' = missed \cup {p} /\ UNCHANGED view)
      <4>1. PICK t \in Found :
              IF p \in At(t).published
              THEN /\ Serialize(t, [At(t) EXCEPT !.published = @ \ {p}, !.closing = @ \cup {p}])
                   /\ view' = IF At(t).inCall THEN view \ {p} ELSE view
              ELSE Read(t) /\ UNCHANGED view
        BY <3>2, <1>h DEF Remove, Read
      <4>2. UNCHANGED missed
        BY <3>2, <1>h DEF Remove
      <4> QED BY <4>1, <4>2, <2>1, <1>4
    <3> QED BY <3>1, <3>2
  <2>4. req[r].left \ {p} \in SUBSET Ids
    BY <1>4 DEF Request
  <2>6. req' \in [Requests -> Request]
    BY <1>h, <2>4, <1>8, ReqTyped DEF Remove
  <2> QED BY <2>2, <2>6, <1>6
<1>i. CASE Closed(r)
  <2>1. ASSUME NEW t \in Found, Serialize(t, [At(t) EXCEPT !.closing = @ \ req[r].targets])
        PROVE  LeaseTyped'
    <3>1. [At(t) EXCEPT !.closing = @ \ req[r].targets] \in Attachment
      BY <1>3, <1>5, AttachmentUpdates
    <3> QED BY <3>1, <2>1, <1>1
  <2>2. LeaseTyped'
    BY <2>1, <1>i, <1>2 DEF Closed, Nobody
  <2> QED BY <2>2, <1>i, <1>4, <1>6, <1>9 DEF Closed
<1> QED BY <1>a, <1>b, <1>c, <1>d, <1>e, <1>f, <1>g, <1>h, <1>i

LEMMA NextTyped == Typed /\ [Next]_vars => Typed'
<1> SUFFICES ASSUME Typed, [Next]_vars PROVE Typed'
  OBVIOUS
<1>1. CASE Move
  BY <1>1, MovesTyped DEF Move, Typed, LeaseTyped
<1>2. CASE Join \/ Leave \/ Evict \/ End \/ Connect
  <2>1. LeaseTyped'
    BY <1>2, CallTyped
  <2>2. UNCHANGED <<req, missed>> /\ view' \in {view, {}}
    BY <1>2 DEF Join, Leave, Evict, End, Connect, FinalizeCall
  <2> QED BY <2>1, <2>2 DEF Typed, LeaseTyped
<1>3. CASE UNCHANGED vars
  BY <1>3 DEF vars, lease, Typed
<1> QED BY <1>1, <1>2, <1>3, RequestTyped, AnswerTyped DEF Next
-----------------------------------------------------------------------------
(* The promise is kept by the lease: a move keeps all there is, and the end *)
(* of a call leaves neither records nor a view of them.                     *)
LEMMA MovesPromise ==
  ASSUME Promise, att' = att, UNCHANGED <<req, view, missed>>,
         place = "gone" => place' = "gone",
         place' = "gone" => place = "gone" \/ ~att.inCall
  PROVE  Promise'
<1>1. ViewShows'
  BY DEF Promise, ViewShows
<1>2. /\ (Apart(att) /\ RecordsInCall /\ SourcesTaken)'
      /\ (AdmittedFresh /\ OwnTargets)'
  BY DEF Promise, Apart, RecordsInCall, SourcesTaken, AdmittedFresh, OwnTargets, Publishing
<1>3. (Reserved /\ PendingHeld /\ CloseApart /\ RemovedUnseen)'
  BY DEF Promise, Reserved, PendingHeld, CloseApart, RemovedUnseen, Publishing, Closing, Holds
<1> QED BY <1>1, <1>2, <1>3 DEF Promise

LEMMA ClearedPromise ==
  ASSUME Promise, Records(att)' = {}, view' = {}, UNCHANGED <<req, missed>>,
         \/ att'.session = None
         \/ att'.session = att.session /\ (att.inCall => att'.inCall)
  PROVE  Promise'
<1>0. att'.pending = {} /\ att'.published = {} /\ att'.closing = {}
  BY DEF Records
<1>1. ViewShows' /\ Apart(att)' /\ RecordsInCall' /\ SourcesTaken'
  BY <1>0 DEF ViewShows, Apart, RecordsInCall, SourcesTaken, Records
<1>2. AdmittedFresh' /\ OwnTargets'
  BY <1>0 DEF Promise, AdmittedFresh, OwnTargets, Publishing, Records
<1>3. Reserved' /\ PendingHeld'
  BY <1>0 DEF Promise, Reserved, PendingHeld, Holds, Records
<1>4. CloseApart' /\ RemovedUnseen'
  BY <1>0 DEF Promise, CloseApart, RemovedUnseen, Publishing, Closing
<1> QED BY <1>1, <1>2, <1>3, <1>4 DEF Promise

(* A request that has nothing reserved begins or ends: nothing is asked of  *)
(* the stage it goes to.                                                    *)
Quiet == {"idle", "creating", "resolving"}

LEMMA QuietPromise ==
  ASSUME Typed, Promise, NEW r \in Requests, ~Holds(r), NEW next, next.stage \in Quiet,
         att' = att, place' = place, UNCHANGED <<view, missed>>, req' = [req EXCEPT ![r] = next]
  PROVE  Promise'
<1>0. \A q \in Requests : req'[q] = IF q = r THEN next ELSE req[q]
  BY DEF Typed
<1>1. next.stage \in {"idle", "creating", "resolving"}
  BY DEF Quiet
<1>2. ViewShows' /\ Apart(att)' /\ RecordsInCall' /\ SourcesTaken'
  BY DEF Promise, ViewShows, Apart, RecordsInCall, SourcesTaken
<1>3. AdmittedFresh' /\ OwnTargets'
  BY <1>0, <1>1 DEF Promise, AdmittedFresh, OwnTargets, Publishing
<1>4. Reserved'
  BY <1>0, <1>1 DEF Promise, Reserved, Holds
<1>5. PendingHeld'
  <2>1. \A p \in att.pending : p[1] \in Requests
    BY IdFacts DEF Typed, Attachment
  <2> QED BY <1>0, <1>1, <2>1 DEF Promise, PendingHeld, Holds
<1>6. CloseApart' /\ RemovedUnseen'
  BY <1>0, <1>1 DEF Promise, CloseApart, RemovedUnseen, Publishing, Closing
<1> QED BY <1>2, <1>3, <1>4, <1>5, <1>6 DEF Promise

LEMMA EndPromise ==
  ASSUME Typed, Promise, NEW r \in Requests, ~Holds(r),
         att' = att, place' = place, UNCHANGED <<view, missed>>, Done(r)
  PROVE  Promise'
<1>1. Idle.stage \in Quiet
  BY DEF Idle, Quiet
<1> QED BY <1>1, QuietPromise DEF Done

LEMMA ReservePromise ==
  ASSUME Typed, Promise, NEW r \in Requests, Reserve(r), ~astray'
  PROVE  Promise'
<1>1. CASE Done(r) /\ att' = att /\ place' = place
  BY <1>1, EndPromise DEF Reserve, Holds
<1> DEFINE T == req[r].targets
<1>2. CASE /\ Reservable(att, req[r]) /\ Goto(r, "reserved") /\ place' = place /\ place # "gone"
           /\ att' = [att EXCEPT !.pending = @ \cup T]
  <2>0. /\ \A q \in Requests : q # r => req'[q] = req[q]
        /\ req'[r].stage = "reserved" /\ req'[r].targets = T
    BY <1>2 DEF Typed, Goto, Request
  <2>1. /\ att'.pending = att.pending \cup T /\ att'.published = att.published
        /\ att'.closing = att.closing /\ att'.inCall = att.inCall /\ att'.session = att.session
    BY <1>2 DEF Typed, Attachment
  <2>2. req[r].stage = "admitted" /\ UNCHANGED <<view, missed>>
    BY DEF Reserve
  <2>3. T \subseteq IdsOf(r) /\ IdsOf(r) \cap Records(att) = {} /\ att.inCall
    BY <1>2, <2>2 DEF Promise, OwnTargets, AdmittedFresh, Publishing, Reservable
  <2>4. \A q \in Requests : q # r => IdsOf(q) \cap T = {}
    BY <2>3 DEF IdsOf
  <2>5. \A p \in att.pending : p[1] \in Requests
    BY IdFacts DEF Typed, Attachment
  <2> HIDE DEF T
  <2>a. Apart(att)'
    BY <2>1, <2>3 DEF Promise, Apart, Records
  <2>b. ViewShows' /\ RecordsInCall'
    BY <1>2, <2>1, <2>2, <2>3 DEF Promise, ViewShows, RecordsInCall
  <2>c. SourcesTaken'
    <3>1. \A p \in T, q \in att.pending \cup att.published : p[2] # q[2]
      BY <1>2 DEF Reservable, SourcesOf, T
    <3>2. \A p, q \in T : p[2] = q[2] => p = q
      BY <2>3, IdFacts DEF IdsOf
    <3> QED BY <2>1, <3>1, <3>2 DEF Promise, SourcesTaken
  <2>d. AdmittedFresh'
    BY <2>0, <2>1, <2>4 DEF Promise, AdmittedFresh, Records
  <2>e. OwnTargets'
    BY <2>0, <2>3 DEF Promise, OwnTargets, Publishing
  <2>f. Reserved'
    <3>1. ASSUME NEW q \in Requests, q # r, Holds(q)'
          PROVE  /\ IdsOf(q) \cap Records(att)' \subseteq att'.pending \cap req'[q].targets
                 /\ req'[q].targets \subseteq att'.pending \/ req'[q].targets \cap Records(att)' = {}
      <4>1. Holds(q) /\ req[q].targets \subseteq IdsOf(q)
        BY <3>1, <2>0 DEF Holds, Promise, OwnTargets, Publishing
      <4> QED BY <4>1, <3>1, <2>0, <2>1, <2>4 DEF Promise, Reserved, Records
    <3>2. /\ IdsOf(r) \cap Records(att)' \subseteq att'.pending \cap req'[r].targets
          /\ req'[r].targets \subseteq att'.pending
      BY <2>0, <2>1, <2>3 DEF Records
    <3> QED BY <3>1, <3>2 DEF Reserved
  <2>g. PendingHeld'
    <3>1. \A p \in T : p[1] = r
      BY <2>3 DEF IdsOf
    <3> QED BY <2>0, <2>1, <2>2, <2>5, <3>1 DEF Promise, PendingHeld, Holds
  <2>h. CloseApart'
    <3>1. \A q \in Requests : Closing(q) => req[q].targets \cap IdsOf(r) = {}
      BY <2>2 DEF Promise, CloseApart, Publishing
    <3> QED BY <2>0, <2>1, <2>2, <2>3, <3>1 DEF Promise, CloseApart, Closing, Publishing
  <2>i. RemovedUnseen'
    BY <2>0, <2>2 DEF Promise, RemovedUnseen
  <2> QED BY <2>a, <2>b, <2>c, <2>d, <2>e, <2>f, <2>g, <2>h, <2>i DEF Promise
<1>3. ASSUME Nobody PROVE att' = att /\ place' = place
  BY <1>3 DEF Nobody, lease
<1>4. ASSUME NEW t \in Found, Read(t) PROVE att' = att /\ place' = place
  BY <1>4, OnCurrent, FoundTyped DEF Read
<1>5. ASSUME NEW t \in Found, Serialize(t, [At(t) EXCEPT !.pending = @ \cup T])
      PROVE  At(t) = att /\ att' = [att EXCEPT !.pending = @ \cup T] /\ place' = place /\ place # "gone"
  BY <1>5, OnCurrent
<1> QED BY <1>1, <1>2, <1>3, <1>4, <1>5 DEF Reserve

(* The completion moves the reserved records of r, all or none, and tells   *)
(* the others: what is reserved is reserved in a call.                      *)
LEMMA CompletePromise ==
  ASSUME Typed, Promise, NEW r \in Requests, Complete(r), ~astray'
  PROVE  Promise'
<1> DEFINE T == req[r].targets
<1>0. /\ req[r].stage = "reserved" /\ UNCHANGED missed /\ T \subseteq IdsOf(r)
      /\ \A p \in att.pending : p[1] \in Requests
  BY IdFacts DEF Complete, Promise, OwnTargets, Publishing, Typed, Attachment
<1>1. CASE att' = att /\ place' = place /\ view' = view /\ Goto(r, "cancelling")
  <2>0. /\ \A q \in Requests : q # r => req'[q] = req[q]
        /\ req'[r].stage = "cancelling" /\ req'[r].targets = T
    BY <1>1 DEF Typed, Goto, Request
  <2>1. ViewShows' /\ Apart(att)' /\ RecordsInCall' /\ SourcesTaken'
    BY <1>1 DEF Promise, ViewShows, Apart, RecordsInCall, SourcesTaken
  <2>2. AdmittedFresh' /\ OwnTargets'
    BY <1>0, <1>1, <2>0 DEF Promise, AdmittedFresh, OwnTargets, Publishing
  <2>3. Reserved' /\ PendingHeld'
    BY <1>0, <1>1, <2>0 DEF Promise, Reserved, PendingHeld, Holds
  <2>4. CloseApart' /\ RemovedUnseen'
    BY <1>0, <1>1, <2>0 DEF Promise, CloseApart, RemovedUnseen, Publishing, Closing
  <2> QED BY <2>1, <2>2, <2>3, <2>4 DEF Promise
<1>2. ASSUME T \subseteq att.pending, place' = place, place # "gone",
             att' = [att EXCEPT !.pending = @ \ T, !.published = @ \cup T],
             view' = IF att.inCall THEN view \cup T ELSE view,
             IF att.inCall THEN Done(r) ELSE Goto(r, "cancelling")
      PROVE  Promise'
  <2>0. /\ \A q \in Requests : q # r => req'[q] = req[q]
        /\ req'[r].stage \in {"idle", "cancelling"}
        /\ req'[r].stage = "cancelling" => ~att.inCall /\ req'[r].targets = T
    BY <1>2 DEF Typed, Goto, Done, Idle, Request
  <2>1. /\ att'.pending = att.pending \ T /\ att'.published = att.published \cup T
        /\ att'.closing = att.closing /\ att'.inCall = att.inCall /\ att'.session = att.session
    BY <1>2 DEF Typed, Attachment
  <2>2. Records(att)' = Records(att) /\ (T # {} => att.inCall)
    BY <1>2, <2>1 DEF Records, Promise, RecordsInCall
  <2>3. view' = view \cup T
    BY <1>2, <2>2
  <2>4. \A q \in Requests : q # r => IdsOf(q) \cap T = {}
    BY <1>0 DEF IdsOf
  <2> HIDE DEF T
  <2>a. Apart(att)'
    BY <1>2, <2>1 DEF Promise, Apart
  <2>b. ViewShows' /\ RecordsInCall'
    BY <1>2, <2>1, <2>2, <2>3 DEF Promise, ViewShows, RecordsInCall
  <2>c. SourcesTaken'
    BY <1>2, <2>1 DEF Promise, SourcesTaken
  <2>d. AdmittedFresh' /\ OwnTargets'
    BY <1>0, <2>0, <2>1, <2>2 DEF Promise, AdmittedFresh, OwnTargets, Publishing, T
  <2>e. Reserved'
    <3>1. ASSUME NEW q \in Requests, q # r, Holds(q)'
          PROVE  /\ IdsOf(q) \cap Records(att)' \subseteq att'.pending \cap req'[q].targets
                 /\ req'[q].targets \subseteq att'.pending \/ req'[q].targets \cap Records(att)' = {}
      <4>1. Holds(q) /\ req[q].targets \subseteq IdsOf(q)
        BY <3>1, <2>0 DEF Holds, Promise, OwnTargets, Publishing
      <4> QED BY <4>1, <3>1, <2>0, <2>1, <2>2, <2>4 DEF Promise, Reserved
    <3>2. ASSUME Holds(r)'
          PROVE  /\ IdsOf(r) \cap Records(att)' \subseteq att'.pending \cap req'[r].targets
                 /\ req'[r].targets \subseteq att'.pending
      <4>1. ~att.inCall /\ req'[r].targets = T
        BY <3>2, <2>0 DEF Holds
      <4> QED BY <4>1, <2>2 DEF Promise, RecordsInCall
    <3> QED BY <3>1, <3>2 DEF Reserved
  <2>f. PendingHeld'
    <3>1. \A p \in att.pending : p[1] = r /\ p \notin missed => p \in T
      BY DEF Promise, PendingHeld, T
    <3> QED BY <1>0, <2>0, <2>1, <3>1 DEF Promise, PendingHeld, Holds
  <2>g. CloseApart'
    BY <1>0, <2>0, <2>1 DEF Promise, CloseApart, Closing, Publishing
  <2>h. RemovedUnseen'
    <3>1. \A q \in Requests : Closing(q) => req[q].targets \cap T = {}
      BY <1>0 DEF Promise, CloseApart, Publishing
    <3> QED BY <1>0, <2>0, <2>3, <3>1 DEF Promise, RemovedUnseen, Closing
  <2> QED BY <2>a, <2>b, <2>c, <2>d, <2>e, <2>f, <2>g, <2>h DEF Promise
<1>3. ASSUME Nobody PROVE att' = att /\ place' = place
  BY <1>3 DEF Nobody, lease
<1>4. ASSUME NEW t \in Found, Serialize(t, At(t)) PROVE att' = att /\ place' = place
  BY <1>4, OnCurrent, FoundTyped
<1>5. ASSUME NEW t \in Found,
             Serialize(t, [At(t) EXCEPT !.pending = @ \ T, !.published = @ \cup T])
      PROVE  At(t) = att /\ att' = [att EXCEPT !.pending = @ \ T, !.published = @ \cup T]
               /\ place' = place /\ place # "gone"
  BY <1>5, OnCurrent
<1> QED
  <2>1. CASE Nobody /\ Goto(r, "cancelling") /\ UNCHANGED view
    BY <2>1, <1>1, <1>3
  <2>2. ASSUME NEW t \in Found, T \subseteq At(t).pending,
               Serialize(t, [At(t) EXCEPT !.pending = @ \ T, !.published = @ \cup T]),
               view' = IF At(t).inCall THEN view \cup T ELSE view,
               IF At(t).inCall THEN Done(r) ELSE Goto(r, "cancelling")
        PROVE  Promise'
    BY <2>2, <1>2, <1>5
  <2>3. ASSUME NEW t \in Found, Serialize(t, At(t)), Goto(r, "cancelling"), UNCHANGED view
        PROVE  Promise'
    BY <2>3, <1>1, <1>4
  <2> QED BY <2>1, <2>2, <2>3 DEF Complete, Read

(* A cancellation takes back what is r's, or misses all of it. *)
LEMMA CancelPromise ==
  ASSUME Typed, Promise, NEW r \in Requests, Cancel(r), ~astray'
  PROVE  Promise'
<1> DEFINE T == req[r].targets
<1>0. /\ Holds(r) /\ UNCHANGED view /\ T \subseteq IdsOf(r)
      /\ \A p \in att.pending : p[1] \in Requests
  BY IdFacts DEF Cancel, Holds, Promise, OwnTargets, Publishing, Typed, Attachment
<1>1. \A q \in Requests : req'[q] = IF q = r THEN Idle ELSE req[q]
  BY DEF Cancel, Done, Typed
<1>2. PICK P \in SUBSET Ids :
        /\ att'.pending = att.pending \ P /\ att'.published = att.published
        /\ att'.closing = att.closing /\ att'.inCall = att.inCall /\ att'.session = att.session
        /\ place' = place
        /\ \/ P = {} /\ missed' = missed \cup T
           \/ P = T /\ missed' = missed
  <2>1. CASE Nobody /\ missed' = missed \cup T
    <3>1. att' = att /\ place' = place
      BY <2>1 DEF Nobody, lease
    <3>2. {} \in SUBSET Ids
      OBVIOUS
    <3> QED BY <2>1, <3>1, <3>2
  <2>2. ASSUME NEW t \in Found, Serialize(t, [At(t) EXCEPT !.pending = @ \ T]), UNCHANGED missed
        PROVE  /\ att'.pending = att.pending \ T /\ att'.published = att.published
               /\ att'.closing = att.closing /\ att'.inCall = att.inCall
               /\ att'.session = att.session /\ place' = place
    <3>1. att' = [att EXCEPT !.pending = @ \ T] /\ place' = place
      BY <2>2, OnCurrent
    <3> QED BY <3>1 DEF Typed, Attachment
  <2>3. T \in SUBSET Ids
    BY DEF Typed, Request
  <2> QED BY <2>1, <2>2, <2>3 DEF Cancel
<1>3. Idle.stage = "idle"
  BY DEF Idle
<1>4. \A q \in Requests : q # r => IdsOf(q) \cap T = {}
  BY <1>0 DEF IdsOf
<1> HIDE DEF T
<1>a. ViewShows' /\ Apart(att)' /\ RecordsInCall' /\ SourcesTaken'
  BY <1>0, <1>2 DEF Promise, ViewShows, Apart, RecordsInCall, SourcesTaken, Records
<1>b. AdmittedFresh' /\ OwnTargets'
  BY <1>1, <1>2, <1>3 DEF Promise, AdmittedFresh, OwnTargets, Publishing, Records
<1>c. Reserved'
  <2>1. ASSUME NEW q \in Requests, Holds(q)'
        PROVE  /\ IdsOf(q) \cap Records(att)' \subseteq att'.pending \cap req'[q].targets
               /\ req'[q].targets \subseteq att'.pending \/ req'[q].targets \cap Records(att)' = {}
    <3>1. q # r /\ Holds(q) /\ req'[q] = req[q] /\ req[q].targets \subseteq IdsOf(q)
      BY <2>1, <1>1, <1>3 DEF Holds, Promise, OwnTargets, Publishing
    <3> QED BY <3>1, <1>2, <1>4 DEF Promise, Reserved, Records
  <2> QED BY <2>1 DEF Reserved
<1>d. PendingHeld'
  <2>1. \A p \in att.pending : p[1] = r /\ p \notin missed => p \in T
    BY DEF Promise, PendingHeld, T
  <2> QED BY <1>0, <1>1, <1>2, <2>1 DEF Promise, PendingHeld, Holds
<1>e. CloseApart' /\ RemovedUnseen'
  BY <1>0, <1>1, <1>2, <1>3 DEF Promise, CloseApart, RemovedUnseen, Publishing, Closing
<1> QED BY <1>a, <1>b, <1>c, <1>d, <1>e DEF Promise

(* What is admitted reads the connection of a call. *)
LEMMA AdmitReads ==
  ASSUME Typed, NEW r \in Requests, NEW request, Admit(r, request), ~astray'
  PROVE  /\ att' = att /\ place' = place /\ att.inCall
         /\ req[r] = Idle /\ req' = [req EXCEPT ![r] = request]
<1>1. PICK t \in Found : Admitted(t) /\ Read(t)
  BY DEF Admit
<1>2. att' = att /\ place' = place /\ At(t) = att
  BY <1>1, OnCurrent DEF Read
<1> QED BY <1>1, <1>2 DEF Admit, Admitted

(* A request that publishes takes identifiers nothing has. *)
LEMMA RequestPublishPromise ==
  ASSUME Typed, Promise, NEW r \in Requests, NEW sources \in SUBSET Sources,
         RequestPublish(r, sources), ~astray'
  PROVE  Promise'
<1> DEFINE next(s) == [stage |-> "admitted", session |-> s,
                       targets |-> {r} \X sources, left |-> {}]
<1>1. PICK s \in {a.session : a \in Attachments} \ {None} : Admit(r, next(s))
  BY DEF RequestPublish
<1>2. /\ att' = att /\ place' = place /\ att.inCall /\ UNCHANGED view
      /\ req[r] = Idle /\ req' = [req EXCEPT ![r] = next(s)]
  BY <1>1, AdmitReads DEF RequestPublish
<1>3. /\ \A q \in Requests : q # r => req'[q] = req[q]
      /\ req'[r].stage = "admitted" /\ req'[r].session = s /\ s # None
      /\ req'[r].targets = {r} \X sources /\ {r} \X sources \subseteq IdsOf(r)
  BY <1>1, <1>2, IdFacts DEF Typed
<1>4. /\ IdsOf(r) \cap Records(att) = {} /\ IdsOf(r) \cap view = {}
      /\ \A q \in Requests : IdsOf(r) \cap req[q].targets = {}
      /\ missed' = missed \ IdsOf(r)
  <2>1. IdsOf(r) \cap Mentioned = {} /\ missed' = missed \ IdsOf(r)
    BY IdFacts DEF RequestPublish
  <2>2. Records(att) \subseteq Mentioned /\ view \subseteq Mentioned
    BY DEF Mentioned, Attachments
  <2>3. ASSUME NEW q \in Requests, NEW p \in req[q].targets PROVE p \in Mentioned
    <3>1. req[q].targets \in {req[k].targets : k \in Requests}
      OBVIOUS
    <3> DEFINE U == UNION {req[k].targets : k \in Requests}
    <3>2. p \in U
      BY <3>1
    <3>3. U \subseteq Mentioned
      BY Zenon DEF Mentioned
    <3> QED BY <3>2, <3>3
  <2> QED BY <2>1, <2>2, <2>3
<1>5. \A p \in att.pending : p \in Ids /\ p[1] \in Requests /\ p \in Records(att)
  BY IdFacts DEF Typed, Attachment, Records
<1>a. ViewShows' /\ Apart(att)' /\ RecordsInCall' /\ SourcesTaken'
  BY <1>2 DEF Promise, ViewShows, Apart, RecordsInCall, SourcesTaken
<1>b. AdmittedFresh' /\ OwnTargets'
  BY <1>2, <1>3, <1>4 DEF Promise, AdmittedFresh, OwnTargets, Publishing
<1>c. Reserved'
  BY <1>2, <1>3 DEF Promise, Reserved, Holds
<1>d. PendingHeld'
  <2>1. \A p \in att.pending : p[1] # r
    BY <1>4, <1>5 DEF IdsOf
  <2>2. \A p \in att.pending \ missed' : p \in att.pending \ missed
    BY <1>4, <2>1 DEF IdsOf
  <2> QED BY <1>2, <1>3, <1>5, <2>1, <2>2 DEF Promise, PendingHeld, Holds
<1>e. CloseApart'
  BY <1>2, <1>3, <1>4 DEF Promise, CloseApart, Closing, Publishing
<1>f. RemovedUnseen'
  BY <1>2, <1>3, <1>4 DEF Promise, RemovedUnseen
<1> QED BY <1>a, <1>b, <1>c, <1>d, <1>e, <1>f DEF Promise

LEMMA RequestPromise ==
  ASSUME Typed, Promise, NEW r \in Requests, ~astray',
         \/ RequestSession(r)
         \/ \E sources \in SUBSET Sources : RequestPublish(r, sources)
         \/ \E p \in Ids : RequestClose(r, p)
  PROVE  Promise'
<1>1. ASSUME NEW next, next.stage \in Quiet, Admit(r, next), UNCHANGED <<view, missed>>
      PROVE  Promise'
  <2>1. /\ att' = att /\ place' = place /\ req[r] = Idle /\ req' = [req EXCEPT ![r] = next]
    BY <1>1, AdmitReads
  <2>2. ~Holds(r)
    BY <2>1 DEF Holds, Idle
  <2> QED BY <1>1, <2>1, <2>2, QuietPromise
<1>2. CASE RequestSession(r)
  <2>1. [Idle EXCEPT !.stage = "creating"].stage \in Quiet
    BY DEF Idle, Quiet
  <2> QED BY <1>1, <1>2, <2>1 DEF RequestSession
<1>3. ASSUME NEW p \in Ids, RequestClose(r, p) PROVE Promise'
  <2>1. PICK s \in {a.session : a \in Attachments} \ {None} :
          Admit(r, [stage |-> "resolving", session |-> s, targets |-> {p}, left |-> {}])
    BY <1>3 DEF RequestClose
  <2>2. [stage |-> "resolving", session |-> s, targets |-> {p}, left |-> {}].stage \in Quiet
    BY DEF Quiet
  <2> QED BY <1>1, <1>3, <2>1, <2>2 DEF RequestClose
<1> QED BY <1>2, <1>3, RequestPublishPromise

(* A registered session is new: what the old one had is gone, and told, and *)
(* no request knows the new one.                                            *)
LEMMA RegisterPromise ==
  ASSUME Typed, Promise, NEW r \in Requests, NEW s \in Sessions, Register(r, s), ~astray'
  PROVE  Promise'
<1>0. ~Holds(r) /\ Done(r) /\ UNCHANGED missed /\ \A q \in Requests : req[q].session # s
  BY DEF Register, Holds, FreshSession
<1>1. CASE att' = att /\ place' = place /\ view' = view
  BY <1>0, <1>1, EndPromise
<1>2. ASSUME place' = place, place # "gone", att'.inCall = att.inCall, att'.session = s,
             \/ /\ Records(att)' = {} /\ view' = {}
             \/ /\ att'.pending = att.pending /\ att'.published = att.published
                /\ att'.closing = att.closing /\ view' = view
      PROVE  Promise'
  <2>0. /\ \A q \in Requests : req'[q] = IF q = r THEN Idle ELSE req[q]
        /\ Idle.stage = "idle"
    BY <1>0 DEF Typed, Done, Idle
  <2>1. CASE Records(att)' = {} /\ view' = {}
    <3>0. att'.pending = {} /\ att'.published = {} /\ att'.closing = {}
      BY <2>1 DEF Records
    <3>1. ViewShows' /\ Apart(att)' /\ RecordsInCall' /\ SourcesTaken'
      BY <2>1, <3>0 DEF ViewShows, Apart, RecordsInCall, SourcesTaken
    <3>2. AdmittedFresh' /\ OwnTargets'
      BY <1>0, <1>2, <2>0, <2>1 DEF Promise, AdmittedFresh, OwnTargets, Publishing
    <3>3. Reserved' /\ PendingHeld'
      BY <2>0, <2>1, <3>0 DEF Promise, Reserved, PendingHeld, Holds
    <3>4. CloseApart' /\ RemovedUnseen'
      BY <2>0, <2>1, <3>0 DEF Promise, CloseApart, RemovedUnseen, Publishing, Closing
    <3> QED BY <3>1, <3>2, <3>3, <3>4 DEF Promise
  <2>2. CASE /\ att'.pending = att.pending /\ att'.published = att.published
             /\ att'.closing = att.closing /\ view' = view
    <3>0. Records(att)' = Records(att) /\ \A p \in att.pending : p[1] \in Requests
      BY <2>2, IdFacts DEF Records, Typed, Attachment
    <3>1. ViewShows' /\ Apart(att)' /\ RecordsInCall' /\ SourcesTaken'
      BY <1>2, <2>2, <3>0 DEF Promise, ViewShows, Apart, RecordsInCall, SourcesTaken
    <3>2. AdmittedFresh' /\ OwnTargets'
      BY <1>0, <1>2, <2>0, <3>0 DEF Promise, AdmittedFresh, OwnTargets, Publishing
    <3>3. Reserved' /\ PendingHeld'
      BY <1>0, <2>0, <2>2, <3>0 DEF Promise, Reserved, PendingHeld, Holds
    <3>4. CloseApart' /\ RemovedUnseen'
      BY <1>0, <2>0, <2>2 DEF Promise, CloseApart, RemovedUnseen, Publishing, Closing
    <3> QED BY <3>1, <3>2, <3>3, <3>4 DEF Promise
  <2> QED BY <1>2, <2>1, <2>2
<1>3. ASSUME Nobody PROVE att' = att /\ place' = place
  BY <1>3 DEF Nobody, lease
<1>4. ASSUME NEW t \in Found, att.session # None,
             Serialize(t, [Bareness EXCEPT !.inCall = At(t).inCall, !.session = s]),
             view' = IF att.inCall THEN view \ att.published ELSE view
      PROVE  Promise'
  <2>1. att' = [Bareness EXCEPT !.inCall = att.inCall, !.session = s]
          /\ place' = place /\ place # "gone"
    BY <1>4, OnCurrent
  <2>2. att'.inCall = att.inCall /\ att'.session = s /\ Records(att)' = {}
    BY <2>1 DEF Bareness, Records
  <2>3. view' = {}
    BY <1>4, <2>1 DEF Promise, ViewShows
  <2> QED BY <1>2, <2>1, <2>2, <2>3
<1>5. ASSUME NEW t \in Found, Serialize(t, [At(t) EXCEPT !.session = s]), UNCHANGED view
      PROVE  Promise'
  <2>1. att' = [att EXCEPT !.session = s] /\ place' = place /\ place # "gone"
    BY <1>5, OnCurrent
  <2>2. /\ att'.inCall = att.inCall /\ att'.session = s /\ att'.pending = att.pending
        /\ att'.published = att.published /\ att'.closing = att.closing
    BY <2>1 DEF Typed, Attachment
  <2> QED BY <1>2, <1>5, <2>1, <2>2
<1>6. ASSUME NEW t \in Found, NEW a, Serialize(t, a) PROVE At(t) = att
  BY <1>6, OnCurrent
<1> QED
  <2>1. CASE Nobody /\ UNCHANGED view
    BY <2>1, <1>1, <1>3
  <2>2. ASSUME NEW t \in Found, At(t).session # None,
               Serialize(t, [Bareness EXCEPT !.inCall = At(t).inCall, !.session = s]),
               view' = IF At(t).inCall THEN view \ At(t).published ELSE view
        PROVE  Promise'
    BY <2>2, <1>4, <1>6
  <2>3. ASSUME NEW t \in Found, Serialize(t, [At(t) EXCEPT !.session = s]), UNCHANGED view
        PROVE  Promise'
    BY <2>3, <1>5
  <2> QED BY <2>1, <2>2, <2>3 DEF Register

(* A close that goes on: its targets belong to no one who publishes. *)
Unreserved(ids) ==
  /\ ids \cap att.pending = {}
  /\ \A q \in Requests : Publishing(q) => ids \cap IdsOf(q) = {}

LEMMA ClosingPromise ==
  ASSUME Typed, Promise, NEW r \in Requests, ~Publishing(r), NEW next,
         next.stage = "pairing" \/ (next.stage = "removing" /\ next.left = next.targets),
         Unreserved(next.targets),
         att' = att, place' = place, UNCHANGED <<view, missed>>, req' = [req EXCEPT ![r] = next]
  PROVE  Promise'
<1>0. \A q \in Requests : req'[q] = IF q = r THEN next ELSE req[q]
  BY DEF Typed
<1>2. ViewShows' /\ Apart(att)' /\ RecordsInCall' /\ SourcesTaken'
  BY DEF Promise, ViewShows, Apart, RecordsInCall, SourcesTaken
<1>3. AdmittedFresh' /\ OwnTargets'
  BY <1>0 DEF Promise, AdmittedFresh, OwnTargets, Publishing
<1>4. Reserved'
  BY <1>0 DEF Promise, Reserved, Holds
<1>5. PendingHeld'
  <2>1. \A p \in att.pending : p[1] \in Requests
    BY IdFacts DEF Typed, Attachment
  <2> QED BY <1>0, <2>1 DEF Promise, PendingHeld, Holds, Publishing
<1>6. CloseApart' /\ RemovedUnseen'
  BY <1>0 DEF Promise, CloseApart, RemovedUnseen, Publishing, Closing, Unreserved
<1> QED BY <1>2, <1>3, <1>4, <1>5, <1>6 DEF Promise

(* What is published or being closed is unreserved. *)
LEMMA OwnedUnreserved ==
  ASSUME Promise, NEW request
  PROVE  Unreserved(Owned(att, request))
<1>1. Owned(att, request) \subseteq att.published \cup att.closing
  BY DEF Owned
<1>2. (att.published \cup att.closing) \cap att.pending = {}
  BY DEF Promise, Apart
<1>3. ASSUME NEW q \in Requests, Publishing(q)
      PROVE  IdsOf(q) \cap Records(att) \subseteq att.pending
  BY <1>3 DEF Publishing, Promise, AdmittedFresh, Reserved, Holds
<1> QED BY <1>1, <1>2, <1>3 DEF Unreserved, Records

LEMMA ResolvePromise ==
  ASSUME Typed, Promise, NEW r \in Requests, Resolve(r) \/ Pair(r), ~astray'
  PROVE  Promise'
<1>0. ~Publishing(r) /\ ~Holds(r) /\ UNCHANGED <<view, missed>>
  BY DEF Resolve, Pair, Publishing, Holds
<1>1. req[r] \in Request
  BY DEF Typed
<1>2. att' = att /\ place' = place /\ \A t \in Found : Read(t) => At(t) = att
  <2>1. ASSUME Nobody PROVE att' = att /\ place' = place
    BY <2>1 DEF Nobody, lease
  <2>2. ASSUME NEW t \in Found, Read(t)
        PROVE  att' = att /\ place' = place /\ At(t) = att
    BY <2>2, OnCurrent DEF Read
  <2> QED BY <2>1, <2>2 DEF Resolve, Pair
<1>3. Done(r) => Promise'
  BY <1>0, <1>2, EndPromise
<1>4. ASSUME NEW ids, Unreserved(ids), Removing(r, ids) PROVE Promise'
  <2>1. PICK next : /\ next = [req[r] EXCEPT !.stage = "removing", !.targets = ids, !.left = ids]
                    /\ req' = [req EXCEPT ![r] = next]
    BY <1>4 DEF Removing
  <2>2. next.stage = "removing" /\ next.targets = ids /\ next.left = ids
    BY <1>1, <2>1 DEF Request
  <2> QED BY <1>0, <1>2, <1>4, <2>1, <2>2, ClosingPromise
<1>5. CASE Resolve(r)
  <2>1. ASSUME req[r].targets \subseteq Owned(att, req[r]), Goto(r, "pairing")
        PROVE  Promise'
    <3>1. PICK next : /\ next = [req[r] EXCEPT !.stage = "pairing"]
                      /\ req' = [req EXCEPT ![r] = next]
      BY <2>1 DEF Goto
    <3>2. next.stage = "pairing" /\ next.targets = req[r].targets
      BY <1>1, <3>1 DEF Request
    <3>3. Unreserved(next.targets)
      BY <2>1, <3>2, OwnedUnreserved DEF Unreserved
    <3> QED BY <1>0, <1>2, <3>1, <3>2, <3>3, ClosingPromise
  <2>2. ASSUME req[r].targets \subseteq Owned(att, req[r]), Removing(r, req[r].targets)
        PROVE  Promise'
    <3>1. Unreserved(req[r].targets)
      BY <2>2, OwnedUnreserved DEF Unreserved
    <3> QED BY <1>4, <2>2, <3>1
  <2> QED BY <1>2, <1>3, <1>5, <2>1, <2>2 DEF Resolve
<1>6. CASE Pair(r)
  <2>1. Unreserved(req[r].targets)
    BY <1>6 DEF Pair, Promise, CloseApart, Closing, Unreserved
  <2>2. ASSUME NEW p \in AudioOwned(att, req[r]) PROVE Unreserved(req[r].targets \cup {p})
    <3>1. p \in Owned(att, req[r])
      BY <2>2 DEF AudioOwned, Of
    <3> QED BY <2>1, <3>1, OwnedUnreserved DEF Unreserved
  <2> QED BY <1>2, <1>4, <1>6, <2>1, <2>2 DEF Pair
<1> QED BY <1>5, <1>6

(* A removal is told when it takes a published record; otherwise there is   *)
(* nothing to tell, or nobody to tell it.                                   *)
LEMMA RemovePromise ==
  ASSUME Typed, Promise, NEW r \in Requests, NEW p \in Ids, Remove(r, p), ~astray'
  PROVE  Promise'
<1>0. /\ req[r].stage = "removing"
      /\ \A q \in Requests : q # r => req'[q] = req[q]
      /\ req'[r].targets = req[r].targets /\ req'[r].left = req[r].left \ {p}
      /\ req'[r].stage \in {"removing", "unpublished"}
      /\ req'[r].stage = "unpublished" => req'[r].left = {}
  <2>1. req[r] \in Request /\ Removed(r, req[r].left \ {p}) /\ req[r].stage = "removing"
    BY DEF Typed, Remove
  <2> QED BY <2>1 DEF Typed, Removed, Request
<1>1. /\ att'.pending = att.pending /\ att'.published \subseteq att.published
      /\ Records(att)' = Records(att) /\ Apart(att)'
      /\ att'.inCall = att.inCall /\ att'.session = att.session
      /\ ViewShows' /\ view' \subseteq view
      /\ missed \subseteq missed' /\ missed' \cap att.pending \subseteq missed \cup {p}
      /\ p \in view' => p \in missed'
      /\ p \in att.pending => missed' = missed \/ att' = att
  <2>0. Apart(att) /\ view = IF place # "gone" /\ att.inCall THEN att.published ELSE {}
    BY DEF Promise, ViewShows
  <2>1. CASE Nobody /\ missed' = missed \cup {p} /\ UNCHANGED view
    <3>1. att' = att /\ place' = place
      BY <2>1 DEF Nobody, lease
    <3> QED BY <2>0, <2>1, <3>1 DEF ViewShows, Apart, Records
  <2>2. ASSUME NEW t \in Found, p \in At(t).published, UNCHANGED missed,
               Serialize(t, [At(t) EXCEPT !.published = @ \ {p}, !.closing = @ \cup {p}]),
               view' = IF At(t).inCall THEN view \ {p} ELSE view
        PROVE  <1>1!:
    <3>1. At(t) = att /\ place' = place /\ place # "gone"
            /\ att' = [att EXCEPT !.published = @ \ {p}, !.closing = @ \cup {p}]
      BY <2>2, OnCurrent
    <3>2. /\ att'.pending = att.pending /\ att'.published = att.published \ {p}
          /\ att'.closing = att.closing \cup {p} /\ att'.inCall = att.inCall
          /\ att'.session = att.session
      BY <3>1 DEF Typed, Attachment
    <3> QED BY <2>0, <2>2, <3>1, <3>2 DEF ViewShows, Apart, Records
  <2>3. ASSUME NEW t \in Found, p \notin At(t).published, UNCHANGED <<view, missed>>,
               Serialize(t, At(t))
        PROVE  <1>1!:
    <3>1. At(t) = att /\ place' = place /\ att' = att
      BY <2>3, OnCurrent, FoundTyped
    <3> QED BY <2>0, <2>3, <3>1 DEF ViewShows, Apart, Records
  <2> QED BY <2>1, <2>2, <2>3 DEF Remove
<1>2. \A q \in att.pending : q[1] \in Requests
  BY IdFacts DEF Typed, Attachment
<1>a. RecordsInCall' /\ SourcesTaken'
  BY <1>1 DEF Promise, RecordsInCall, SourcesTaken
<1>b. AdmittedFresh' /\ OwnTargets'
  BY <1>0, <1>1 DEF Promise, AdmittedFresh, OwnTargets, Publishing
<1>c. Reserved'
  BY <1>0, <1>1 DEF Promise, Reserved, Holds
<1>d. PendingHeld'
  BY <1>0, <1>1, <1>2 DEF Promise, PendingHeld, Holds
<1>e. CloseApart'
  BY <1>0, <1>1 DEF Promise, CloseApart, Closing, Publishing
<1>f. RemovedUnseen'
  BY <1>0, <1>1 DEF Promise, RemovedUnseen
<1> QED BY <1>1, <1>a, <1>b, <1>c, <1>d, <1>e, <1>f DEF Promise

LEMMA ClosedPromise ==
  ASSUME Typed, Promise, NEW r \in Requests, Closed(r), ~astray'
  PROVE  Promise'
<1> DEFINE T == req[r].targets
<1>0. /\ req[r].stage = "unpublished" /\ UNCHANGED <<view, missed>>
      /\ \A q \in Requests : req'[q] = IF q = r THEN Idle ELSE req[q]
      /\ Idle.stage = "idle"
  BY DEF Closed, Done, Typed, Idle
<1>1. /\ att'.pending = att.pending /\ att'.published = att.published
      /\ att'.closing \subseteq att.closing
      /\ att'.inCall = att.inCall /\ att'.session = att.session /\ place' = place
  <2>1. CASE Nobody
    BY <2>1 DEF Nobody, lease
  <2>2. ASSUME NEW t \in Found, Serialize(t, [At(t) EXCEPT !.closing = @ \ T])
        PROVE  <1>1!:
    <3>1. att' = [att EXCEPT !.closing = @ \ T] /\ place' = place
      BY <2>2, OnCurrent
    <3> QED BY <3>1 DEF Typed, Attachment
  <2> QED BY <2>1, <2>2 DEF Closed
<1>2. \A q \in att.pending : q[1] \in Requests
  BY IdFacts DEF Typed, Attachment
<1>a. ViewShows' /\ Apart(att)' /\ RecordsInCall' /\ SourcesTaken'
  BY <1>0, <1>1 DEF Promise, ViewShows, Apart, RecordsInCall, SourcesTaken, Records
<1>b. AdmittedFresh' /\ OwnTargets'
  BY <1>0, <1>1 DEF Promise, AdmittedFresh, OwnTargets, Publishing, Records
<1>c. Reserved'
  BY <1>0, <1>1 DEF Promise, Reserved, Holds, Records
<1>d. PendingHeld'
  BY <1>0, <1>1, <1>2 DEF Promise, PendingHeld, Holds
<1>e. CloseApart' /\ RemovedUnseen'
  BY <1>0, <1>1 DEF Promise, CloseApart, RemovedUnseen, Publishing, Closing
<1> QED BY <1>a, <1>b, <1>c, <1>d, <1>e DEF Promise
-----------------------------------------------------------------------------
(* A call of the lease without media keeps the promise, whoever is astray   *)
(* afterwards: the promise is asked only while nobody is.                   *)
LEMMA MovePromise ==
  ASSUME Typed, Promise, Move, ~astray'
  PROVE  Promise'
<1>1. att' = att
  BY DEF Move, Moves, CloseSocket, Suspend, ResumeSuspended, ResumeOpen, ResumeAccepted,
     ResumeLost, ReplacedGone, AlarmReads, AlarmWrites, AlarmCloses
<1>2. place = "gone" => place' = "gone"
  BY DEF Move, Moves, CloseSocket, Suspend, ResumeSuspended, ResumeOpen, ResumeAccepted,
     ResumeLost, ReplacedGone, AlarmReads, AlarmWrites, AlarmCloses, Listed
<1>3. place' = "gone" => place = "gone" \/ ~att.inCall
  BY DEF Move, Moves, CloseSocket, Suspend, ResumeSuspended, ResumeOpen, ResumeAccepted,
     ResumeLost, ReplacedGone, AlarmReads, AlarmWrites, AlarmCloses, Listed
<1> QED BY <1>1, <1>2, <1>3, MovesPromise DEF Move

(* Without a call there are no records and no view, so a join begins clean, *)
(* and leaving, losing access and ending return to that.                    *)
LEMMA CallPromise ==
  ASSUME Typed, Promise, Join \/ Leave \/ Evict \/ End \/ Connect, ~astray'
  PROVE  Promise'
<1>0. /\ Records(Bareness) = {} /\ Bareness.session = None
      /\ Records([Bareness EXCEPT !.inCall = TRUE]) = {}
      /\ [Bareness EXCEPT !.inCall = TRUE].session = None
  BY DEF Bareness, Records
<1>1. ~att.inCall => Records(att) = {} /\ view = {}
  BY DEF Promise, RecordsInCall, ViewShows
<1>2. CASE Join
  <2>1. PICK t \in Found : Joins(t) /\ UNCHANGED <<req, view, missed>>
    BY <1>2 DEF Join
  <2>2. att' = [att EXCEPT !.inCall = TRUE] /\ ~att.inCall
    BY <2>1, OnCurrent DEF Joins
  <2>3. att'.inCall /\ att'.session = att.session /\ Records(att)' = Records(att)
    BY <2>2 DEF Typed, Attachment, Records
  <2> QED BY <1>1, <2>1, <2>2, <2>3, ClearedPromise
<1>3. CASE Leave
  <2>1. PICK t \in Found : Leaves(t, Bareness) \/ ChangesRoom(t, Bareness)
    BY <1>3 DEF Leave
  <2>2. att' \in {Bareness, [Bareness EXCEPT !.inCall = TRUE]}
    BY <2>1, OnCurrent DEF Leaves, ChangesRoom
  <2> QED BY <1>0, <1>3, <2>2, ClearedPromise DEF Leave, FinalizeCall
<1>4. CASE Evict
  <2>0. UNCHANGED <<req, missed>> /\ view' = {}
    BY <1>4 DEF Evict, FinalizeCall
  <2>1. CASE att'.session = None /\ Records(att)' = {}
    BY <2>0, <2>1, ClearedPromise
  <2>2. CASE att' = att /\ ~att.inCall
    BY <1>1, <2>0, <2>2, ClearedPromise
  <2>3. att' = Bareness \/ (att' = att /\ ~att.inCall)
    BY <1>4, NoAttachment DEF Evict, LosesAccess, Bare, Typed, Attachment
  <2> QED BY <1>0, <2>1, <2>2, <2>3
<1>5. CASE End
  <2>1. att' = Bareness /\ UNCHANGED <<req, missed>> /\ view' = {}
    BY <1>5, <1>1 DEF End, Ends
  <2> QED BY <1>0, <2>1, ClearedPromise
<1>6. CASE Connect
  <2>1. att' = Bareness /\ UNCHANGED <<req, view, missed>> /\ view = {}
    BY <1>6 DEF Connect, Connects, Promise, ViewShows
  <2> QED BY <1>0, <2>1, ClearedPromise
<1> QED BY <1>2, <1>3, <1>4, <1>5, <1>6

(* Who is astray stays astray. *)
LEMMA AstrayForGood ==
  ASSUME Typed, Next, astray
  PROVE  astray'
<1>1. \A t, a : Serialize(t, a) => astray'
  BY DEF Serialize
<1>2. UNCHANGED lease => astray'
  BY DEF lease
<1>3. CASE Move
  BY <1>3 DEF Move, Moves, CloseSocket, Suspend, ResumeSuspended, ResumeOpen, ResumeAccepted,
     ResumeLost, ReplacedGone, AlarmReads, AlarmWrites, AlarmCloses
<1>4. CASE Join \/ Leave \/ Evict \/ End \/ Connect
  BY <1>1, <1>4 DEF Join, Leave, Evict, End, Connect, Joins, Leaves, ChangesRoom, LosesAccess,
     Ends, Connects
<1>5. ASSUME NEW r \in Requests,
             \/ RequestSession(r)
             \/ \E sources \in SUBSET Sources : RequestPublish(r, sources)
             \/ \E p \in Ids : RequestClose(r, p)
      PROVE  astray'
  BY <1>1, <1>5 DEF RequestSession, RequestPublish, RequestClose, Admit, Read
<1>6. ASSUME NEW r \in Requests,
             \/ \E s \in Sessions : Register(r, s)
             \/ Fail(r) \/ Reserve(r) \/ Complete(r) \/ Cancel(r)
      PROVE  astray'
  BY <1>1, <1>2, <1>6 DEF Register, Fail, Reserve, Complete, Cancel, Nobody, Read
<1>7. ASSUME NEW r \in Requests,
             \/ Resolve(r) \/ Pair(r) \/ Closed(r)
             \/ \E p \in Ids : Remove(r, p)
      PROVE  astray'
  BY <1>1, <1>2, <1>7 DEF Resolve, Pair, Closed, Remove, Nobody, Read
<1> QED BY <1>3, <1>4, <1>5, <1>6, <1>7 DEF Next

LEMMA NextPromise ==
  ASSUME Typed, Promise, [Next]_vars, ~astray'
  PROVE  Promise'
<1>1. ASSUME UNCHANGED vars PROVE Promise'
  <2>1. att' = att /\ place' = place /\ UNCHANGED <<req, view, missed>>
    BY <1>1 DEF vars, lease
  <2> QED BY <2>1, MovesPromise
<1>2. ASSUME NEW r \in Requests, Fail(r) PROVE Promise'
  <2>1. att' = att /\ place' = place /\ ~Holds(r)
    BY <1>2 DEF Fail, Holds, lease
  <2> QED BY <1>2, <2>1, EndPromise DEF Fail
<1> QED
  BY <1>1, <1>2, MovePromise, CallPromise, RequestPromise, RegisterPromise, ReservePromise,
     CompletePromise, CancelPromise, ResolvePromise, RemovePromise, ClosedPromise DEF Next

LEMMA InitInv == Init => RegistryInv
<1> SUFFICES ASSUME Init PROVE RegistryInv
  OBVIOUS
<1>1. /\ att = Bareness /\ place = "open" /\ view = {} /\ Records(att) = {}
      /\ att.pending = {} /\ att.published = {} /\ att.closing = {}
      /\ \A r \in Requests : req[r] = Idle
  BY DEF Init, Bareness, Records
<1>2. Idle \in Request /\ Idle.stage = "idle"
  BY DEF Idle, Request, Stages
<1>3. Typed
  BY <1>2, BarenessTyped DEF Init, Typed, Places
<1>4. Promise
  BY <1>1, <1>2 DEF Promise, Apart, ViewShows, RecordsInCall, SourcesTaken, AdmittedFresh,
     OwnTargets, Publishing, Reserved, Holds, PendingHeld, CloseApart, Closing, RemovedUnseen
<1> QED BY <1>3, <1>4 DEF RegistryInv

LEMMA NextInv == RegistryInv /\ [Next]_vars => RegistryInv'
<1> SUFFICES ASSUME RegistryInv, [Next]_vars PROVE RegistryInv'
  OBVIOUS
<1>1. Typed'
  BY NextTyped DEF RegistryInv
<1>2. ASSUME ~astray' PROVE Promise'
  <2>1. ~astray
    BY <1>2, AstrayForGood DEF RegistryInv, vars, lease
  <2> QED BY <1>2, <2>1, NextPromise DEF RegistryInv
<1> QED BY <1>1, <1>2 DEF RegistryInv

LEMMA InvHolds == Spec => []RegistryInv
BY InitInv, NextInv, PTL DEF Spec
-----------------------------------------------------------------------------
(* Every variable keeps its type, and no record is in two states at once,   *)
(* whatever requests and losses of the call come between the calls of the   *)
(* object.                                                                  *)
THEOREM RegistryTypeCorrect == Spec => []TypeOK
<1>1. RegistryInv => TypeOK
  BY DEF RegistryInv, Promise, TypeOK
<1> QED BY <1>1, InvHolds, PTL

(* The others of the room see exactly the published records of a connection *)
(* in a call, for any number of requests that publish and close at once.    *)
THEOREM ViewAlwaysFaithful == Spec => []ViewFaithful
<1>1. RegistryInv => ViewFaithful
  BY DEF RegistryInv, Promise, ViewFaithful, ViewShows
<1> QED BY <1>1, InvHolds, PTL

(* No late completion or session leaves a record on a connection whose call *)
(* has ended.                                                               *)
THEOREM MediaInCallOnly == Spec => []InCallOnly
<1>1. RegistryInv => InCallOnly
  BY DEF RegistryInv, Promise, InCallOnly, RecordsInCall
<1> QED BY <1>1, InvHolds, PTL

(* A pending record belongs to a request that still answers for it, unless  *)
(* its cancellation found no connection, and a batch is never split.        *)
THEOREM ReservationsOwned == Spec => []ReservationOwned
<1>1. RegistryInv => ReservationOwned
  BY DEF RegistryInv, Promise, ReservationOwned, PendingHeld, Reserved
<1> QED BY <1>1, InvHolds, PTL

(* Two records of one source are never reserved or seen together: the       *)
(* reservation excludes it before the SFU is asked.                         *)
THEOREM SourcesExclusive == Spec => []OneBySource
<1>1. RegistryInv => OneBySource
  BY DEF RegistryInv, Promise, OneBySource, SourcesTaken, ViewShows
<1> QED BY <1>1, InvHolds, PTL

(* When a close asks the SFU to close its tracks, the others have been told *)
(* that they are gone, unless the removal found no connection.              *)
THEOREM ToldBeforeClosed == Spec => []UnpublishedFirst
<1>1. RegistryInv => UnpublishedFirst
  BY DEF RegistryInv, Promise, UnpublishedFirst, RemovedUnseen
<1> QED BY <1>1, InvHolds, PTL

(* Only the completion of a reservation announces, and only what its own    *)
(* request reserved.                                                        *)
LEMMA OnlyCompleteAnnounces ==
  ASSUME RegistryInv, [Next]_vars, ~astray', NEW p \in view' \ view
  PROVE  p \in att.pending /\ req[p[1]].stage = "reserved"
<1>1. ASSUME NEW r \in Requests, Complete(r)
      PROVE  p \in att.pending /\ req[p[1]].stage = "reserved"
  <2>1. PICK t \in Found :
          LET a == At(t)
          IN  /\ req[r].targets \subseteq a.pending
              /\ Serialize(t, [a EXCEPT !.pending = @ \ req[r].targets,
                                        !.published = @ \cup req[r].targets])
              /\ p \in req[r].targets
    BY <1>1 DEF Complete
  <2>2. At(t) = att /\ ~astray
    BY <2>1, OnCurrent
  <2>3. req[r].stage = "reserved" /\ req[r].targets \subseteq IdsOf(r)
    BY <1>1, <2>2 DEF Complete, RegistryInv, Promise, OwnTargets, Publishing
  <2> QED BY <2>1, <2>2, <2>3 DEF IdsOf
<1>2. ASSUME NEW r \in Requests,
             \/ RequestSession(r)
             \/ \E sources \in SUBSET Sources : RequestPublish(r, sources)
             \/ \E q \in Ids : RequestClose(r, q) \/ Remove(r, q)
             \/ \E s \in Sessions : Register(r, s)
             \/ Fail(r) \/ Reserve(r) \/ Cancel(r) \/ Resolve(r) \/ Pair(r) \/ Closed(r)
      PROVE  FALSE
  BY <1>2 DEF RequestSession, RequestPublish, RequestClose, Remove, Register, Fail, Reserve,
     Cancel, Resolve, Pair, Closed
<1>3. CASE Move \/ Join \/ Leave \/ Evict \/ End \/ Connect \/ UNCHANGED vars
  BY <1>3 DEF Move, Join, Leave, Evict, End, Connect, FinalizeCall, vars
<1> QED BY <1>1, <1>2, <1>3 DEF Next

(* A publication is announced once, by its own request, and never comes     *)
(* back after it ended.                                                     *)
THEOREM PublicationsAnnouncedOnce == Spec => AnnouncedOnce
<1>1. RegistryInv /\ [Next]_vars =>
        [~astray' => \A p \in view' \ view : p \in att.pending /\ req[p[1]].stage = "reserved"]_vars
  BY OnlyCompleteAnnounces
<1> QED BY <1>1, InvHolds, PTL DEF Spec, AnnouncedOnce
=============================================================================
