--------------------------- MODULE CallResumption ---------------------------
(***************************************************************************)
(* Which conversation the call of this tab belongs to, and what a reload    *)
(* comes back to (src/src/features/call/call-context.tsx, call-resume.ts).  *)
(* The effects of a commit see what was rendered and what the effects       *)
(* before them left in the refs; what happens until the next commit is      *)
(* rendered together.  The entry in sessionStorage survives the page.       *)
(***************************************************************************)
EXTENDS NullValue

CONSTANT Conversations

VARIABLES
  page,       \* bootstrap is there, the socket has a connection, conversations it lists
  voice,      \* the hook: status (idle, joining, connected), its call, camera, conflict
  joining,    \* the join in flight: its conversation, and whether it was overtaken
  switch,     \* joinConversationCall during a call: leaving, then joining
  shown,      \* callConversationId
  refs,       \* callResumeRef, resumedCallRef, shouldResumeCameraRef, hadActiveCallRef
  stored,     \* the entry of this tab: conversation, camera, older than a minute
  changed,    \* what the next commit renders anew: the dependencies of the effects
  wish,       \* history: the call the user asked for and has not left
  strayed     \* history: the call, or what is stored of it, went another way

tabVars == <<page, voice, joining, switch, shown, refs, stored, changed, wish, strayed>>

Idle == [status |-> "idle", room |-> None, camera |-> FALSE, conflict |-> None]
Blank == [resume |-> None, resumed |-> FALSE, camera |-> FALSE, had |-> FALSE]
Entry(c, camera) == [conversation |-> c, camera |-> camera, old |-> FALSE]

Opened == [loaded |-> FALSE, connected |-> FALSE, known |-> Conversations]

TabInit ==
  /\ page = Opened /\ voice = Idle /\ joining = None /\ switch = None
  /\ shown = None /\ refs = Blank /\ stored = None /\ changed = {}
  /\ wish = None /\ strayed = FALSE

Switching == switch # None
GoesAstray(when) == strayed' = (strayed \/ when)

-----------------------------------------------------------------------------
(* The page. *)

(* loadCallResumeState: an entry of over a minute ago is removed. *)
Loads ==
  /\ ~page.loaded /\ page' = [page EXCEPT !.loaded = TRUE]
  /\ stored' = IF stored # None /\ stored.old THEN None ELSE stored
  /\ refs' = [Blank EXCEPT !.resume = stored']
  /\ wish' = IF stored' = None THEN None ELSE wish
  /\ UNCHANGED <<voice, joining, switch, shown, changed, strayed>>

Connects ==
  /\ page.loaded /\ ~page.connected /\ page' = [page EXCEPT !.connected = TRUE]
  /\ changed' = changed \cup {"connection"}
  /\ UNCHANGED <<voice, joining, switch, shown, refs, stored, wish, strayed>>

(* A social update replaces bootstrap; a conversation may be gone. *)
BootstrapChanges(known) ==
  /\ page.loaded /\ known \subseteq page.known
  /\ page' = [page EXCEPT !.known = known]
  /\ changed' = changed \cup {"bootstrap"}
  /\ UNCHANGED <<voice, joining, switch, shown, refs, stored, wish, strayed>>

Ages ==
  /\ stored # None /\ stored' = [stored EXCEPT !.old = TRUE]
  /\ UNCHANGED <<page, voice, joining, switch, shown, refs, changed, wish, strayed>>

(* What no effect has stored yet is forgotten: a switch under way, too. *)
Reloads ==
  /\ page.loaded
  /\ page' = [Opened EXCEPT !.known = page.known]
  /\ voice' = Idle /\ joining' = None /\ switch' = None /\ shown' = None
  /\ refs' = Blank /\ changed' = {}
  /\ GoesAstray(Switching \/ changed # {})
  /\ UNCHANGED <<stored, wish>>

-----------------------------------------------------------------------------
(* The effects of a commit, in their order. *)

Resumes ==
  refs.resume # None /\ ~refs.resumed /\ page.connected /\ voice.status = "idle"
    /\ changed \cap {"connection", "bootstrap", "status", "shown"} # {}

Lost == Resumes /\ refs.resume.conversation \notin page.known

Rejoins == Resumes /\ ~Lost

(* The effect that resumes has run before the one that saves.               *)
Remembered ==
  IF Rejoins
  THEN [refs EXCEPT !.resumed = TRUE, !.camera = refs.resume.camera, !.had = TRUE]
  ELSE IF Lost THEN [refs EXCEPT !.resume = None] ELSE refs

StartsCamera == refs.camera /\ voice.status = "connected" /\ ~voice.camera

Saved == changed \cap {"bootstrap", "shown", "camera", "status"} # {}
Saves == Saved /\ voice.status # "idle" /\ shown # None
ClearsAnyIdle == Saved /\ voice.status = "idle" /\ ~Switching \* Mutant: no call was had.
Clears == Saved /\ Remembered.had /\ voice.status = "idle" /\ ~Switching

Conflicts == voice.conflict \in page.known /\ changed \cap {"bootstrap", "conflict"} # {}

(* join; out of a connection, and in a call, it does nothing. *)
Joinable == page.connected /\ voice.status = "idle"

JoinStarts(c) ==
  /\ voice' = [voice EXCEPT !.status = "joining", !.room = c, !.conflict = None]
  /\ joining' = [conversation |-> c, overtaken |-> FALSE]

Shows(c) == shown' = c /\ changed' = IF c # shown THEN {"shown"} ELSE {}

Commit ==
  /\ changed # {}
  /\ LET next == IF Clears THEN None
                 ELSE IF Rejoins THEN refs.resume.conversation
                 ELSE IF Conflicts THEN voice.conflict ELSE shown
         rejoined == Rejoins /\ Joinable
     IN  /\ shown' = next
         /\ changed' = (IF next # shown THEN {"shown"} ELSE {})
                         \cup (IF rejoined THEN {"status"} ELSE {})
                         \cup (IF StartsCamera THEN {"camera"} ELSE {})
         /\ IF rejoined THEN JoinStarts(refs.resume.conversation)
            ELSE /\ voice' = [voice EXCEPT !.camera = @ \/ StartsCamera]
                 /\ UNCHANGED joining
  /\ refs' = [Remembered EXCEPT
       !.had = IF Clears THEN FALSE ELSE @ \/ Saves,
       !.resume = IF Clears THEN None ELSE @,
       !.camera = @ /\ voice.status # "connected"]
  /\ stored' = IF Saves THEN Entry(shown, voice.camera)
               ELSE IF Clears \/ Lost THEN None ELSE stored
  /\ GoesAstray(Rejoins /\ Clears)
  /\ wish' = IF Lost THEN None ELSE wish
  /\ UNCHANGED <<page, switch>>

-----------------------------------------------------------------------------
(* The user. *)

(* joinConversationCall out of a call.  When join does nothing only what is *)
(* shown changes.  What a join does that overtakes another is followed in   *)
(* VoiceSession; here it waits.                                             *)
Joins(c) ==
  /\ page.loaded /\ c \in page.known /\ voice.status = "idle" /\ changed = {}
  /\ joining = None
  /\ IF Joinable THEN JoinStarts(c) ELSE UNCHANGED <<voice, joining>>
  /\ shown' = c
  /\ changed' = (IF c # shown THEN {"shown"} ELSE {})
                  \cup (IF Joinable THEN {"status"} ELSE {})
  /\ refs' = [refs EXCEPT !.had = TRUE]
  /\ wish' = IF Joinable THEN c ELSE None
  /\ strayed' = (Switching \/ refs.camera)
  /\ UNCHANGED <<page, switch, stored>>

(* takeoverCall: nothing is shown for it. *)
TakesOver ==
  /\ voice.conflict # None /\ Joinable /\ joining = None /\ changed = {}
  /\ JoinStarts(voice.conflict)
  /\ changed' = {"status"} /\ wish' = voice.conflict
  /\ strayed' = TRUE
  /\ UNCHANGED <<page, switch, shown, refs, stored>>

Hangs == /\ voice' = Idle
         /\ joining' = IF joining = None THEN None ELSE [joining EXCEPT !.overtaken = TRUE]
         /\ changed' = changed \cup {"status"}

(* leave, by the user or because another connection took the call. *)
Leaves ==
  /\ voice.status # "idle"
  /\ Hangs /\ wish' = None
  /\ UNCHANGED <<page, switch, shown, refs, stored, strayed>>

Switches(c) ==
  /\ voice.status # "idle" /\ ~Switching /\ c \in page.known \ {shown}
  /\ switch' = [conversation |-> c, phase |-> "leaving"]
  /\ refs' = [refs EXCEPT !.had = TRUE]
  /\ Hangs /\ wish' = c
  /\ GoesAstray(refs.camera)
  /\ UNCHANGED <<page, shown, stored>>

TogglesCamera ==
  /\ voice.status = "connected"
  /\ voice' = [voice EXCEPT !.camera = ~@]
  /\ changed' = changed \cup {"camera"}
  /\ UNCHANGED <<page, joining, switch, shown, refs, stored, wish, strayed>>

-----------------------------------------------------------------------------
(* The promises. *)

(* switchCall has left and joins. *)
SwitchJoins ==
  /\ Switching /\ switch.phase = "leaving" /\ joining = None
  /\ switch' = [switch EXCEPT !.phase = IF Joinable THEN "joining" ELSE "over"]
  /\ IF Joinable THEN JoinStarts(switch.conversation) /\ changed' = changed \cup {"status"}
                 ELSE UNCHANGED <<voice, joining, changed>>
  /\ UNCHANGED <<page, shown, refs, stored, wish, strayed>>

(* It never fails: what it joined, or not, is shown. *)
SwitchShows(also) ==
  /\ shown' = switch.conversation
  /\ changed' = changed \cup also
                  \cup (IF switch.conversation # shown THEN {"shown"} ELSE {})
  /\ refs' = [refs EXCEPT !.had = TRUE]
  /\ switch' = None

SwitchEnds ==
  /\ Switching /\ switch.phase = "over"
  /\ SwitchShows({})
  /\ UNCHANGED <<page, voice, joining, stored, wish, strayed>>

ForSwitch == Switching /\ switch.phase = "joining"

(* The switch that waits for it goes on before the next commit. *)
Reports(also) ==
  IF ForSwitch THEN SwitchShows(also)
  ELSE changed' = changed \cup also /\ UNCHANGED <<shown, refs, switch>>

JoinSucceeds ==
  /\ joining # None /\ ~joining.overtaken
  /\ joining' = None
  /\ voice' = [voice EXCEPT !.status = "connected"]
  /\ Reports({"status"})
  /\ UNCHANGED <<page, stored, wish, strayed>>

(* The user has a call elsewhere. *)
JoinConflicts(conflict) ==
  /\ joining # None /\ ~joining.overtaken
  /\ joining' = None
  /\ voice' = [Idle EXCEPT !.conflict = conflict]
  /\ Reports({"status", "conflict"})
  /\ wish' = None
  /\ UNCHANGED <<page, stored, strayed>>

(* Not joined, not started, or overtaken: a call.leave comes before the     *)
(* switch goes on.                                                          *)
JoinFails ==
  /\ joining # None
  /\ joining' = None
  /\ IF joining.overtaken THEN UNCHANGED <<voice, changed, wish>>
     ELSE voice' = Idle /\ changed' = changed \cup {"status"} /\ wish' = None
  /\ switch' = IF ForSwitch THEN [switch EXCEPT !.phase = "over"] ELSE switch
  /\ UNCHANGED <<page, shown, refs, stored, strayed>>

-----------------------------------------------------------------------------
TabNext ==
  \/ Loads \/ Connects \/ Ages \/ Reloads \/ Commit
  \/ \E known \in SUBSET page.known : BootstrapChanges(known)
  \/ \E c \in Conversations : Joins(c) \/ Switches(c)
  \/ TakesOver \/ Leaves \/ TogglesCamera
  \/ SwitchJoins \/ SwitchEnds \/ JoinSucceeds \/ JoinFails
  \/ \E c \in Conversations : JoinConflicts(c)

TabSpec == TabInit /\ [][TabNext]_tabVars

-----------------------------------------------------------------------------
(* Once everything is rendered and no join is under way: the call is the    *)
(* one the user asked for, it is the one shown, and what is stored comes    *)
(* back to it, with its camera.  Without a call nothing is stored that a    *)
(* reload would bring back, and none was asked for: a reload has brought it *)
(* back, unless its entry was a minute old.  What is astray: a reload       *)
(* during a switch or before the commit that would store, a call taken over *)
(* (nothing is shown for it), a join while a switch leaves, a camera that   *)
(* was to be resumed in a call since left, and a resumption rendered        *)
(* together with a change of the lists, which clears it.                    *)
Rendered == page.connected /\ changed = {} /\ joining = None /\ ~Switching

Resumable ==
  Rendered /\ ~strayed =>
    IF voice.status = "idle" THEN stored = None /\ wish = None
    ELSE /\ voice.room = wish /\ shown = wish
         /\ stored # None /\ stored.conversation = wish /\ stored.camera = voice.camera
=============================================================================
