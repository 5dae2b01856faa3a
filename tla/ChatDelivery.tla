----------------------------- MODULE ChatDelivery -----------------------------
(***************************************************************************)
(* A chat message from the command that sends it, through D1 and the        *)
(* broadcasts of ServerRealtime (sendChatMessage, announceChatUpdate), to   *)
(* the cache one client shows (src/src/features/rooms/use-server-realtime.ts*)
(* and chat-view.tsx).  The socket keeps the order of events; the answers   *)
(* of D1, the announcements of edits and the pages of history are           *)
(* concurrent with each other and with the socket.  The caches of two       *)
(* clients never meet, so one client is enough.                             *)
(***************************************************************************)
EXTENDS Naturals, Sequences, FiniteSets, Functions

CONSTANTS Messages,       \* client message ids
          Mine,           \* those this client sends
          Conversations,
          MaxChanges,     \* bound: edits and deletions
          MaxLosses,      \* bound: times the socket is lost
          PageSize,       \* 50
          CacheSize,      \* 100
          CacheLimit,     \* 5
          None

ASSUME MineAreMessages == Mine \subseteq Messages
ASSUME SizesArePositive == {PageSize, CacheSize, CacheLimit} \subseteq Nat \ {0}

VARIABLES
  of,           \* the conversation each message is sent to
  rows,         \* messages in D1; the id of a row is its place
  sends,        \* sendChatMessage of each message: where it is, what it read
  announces,    \* edits and deletions whose announcement is under way
  connected, losses,
  wire,         \* events on their way to the client
  view,         \* the conversation on the screen
  cache,        \* the messages shown, by conversation
  loaded,       \* conversations whose history counts as loaded
  recency,      \* chatRecencyRef
  fetch,        \* the first page being loaded
  older,        \* the page before the oldest message being loaded
  canLoadOlder, \* the last page was full, of whatever conversation
  asked,        \* history: the messages this client has sent
  unsure,       \* history: stored messages whose sender was told otherwise
  unheard,      \* history: messages whose command or answer the socket lost
  forgotten,    \* history: unconfirmed messages a page or an eviction dropped
  excuses       \* history: why the cache may differ from D1

server == <<of, rows, sends, announces>>
socket == <<connected, losses, wire>>
client == <<view, cache, loaded, recency, fetch, older, canLoadOlder>>
history == <<asked, unsure, unheard, forgotten, excuses>>
vars == <<server, socket, client, history>>

Reasons == {"gap", "stale", "clobbered", "strayed", "early", "late", "emptied"}
Idle == [at |-> "idle", id |-> 0, ver |-> 0, gone |-> FALSE]
Stored(m) == \E i \in DOMAIN rows : rows[i].m = m

(* filter, and the like: what s has at the places in S, in their order. *)
Nth(S, k) == CHOOSE i \in S : Cardinality({j \in S : j < i}) = k - 1
Those(s, S) == [k \in 1 .. Cardinality(S) |-> s[Nth(S, k)]]

(* What a user sees of a message: its text and "(editada)", or neither. *)
Look(e) == IF e.gone THEN <<>> ELSE <<e.ver, e.edited>>
Row(i) == [m |-> rows[i].m, id |-> i, ver |-> rows[i].ver, gone |-> rows[i].gone,
           edited |-> rows[i].ver > 0, state |-> "sent"]
Page(c, before) ==
  LET ids == {i \in DOMAIN rows : of[rows[i].m] = c /\ i < before}
      last == {i \in ids : Cardinality({j \in ids : j > i}) < PageSize}
  IN [k \in 1 .. Cardinality(last) |-> Row(Nth(last, k))]

Init ==
  /\ of \in [Messages -> Conversations]
  /\ rows = <<>> /\ sends = [m \in Messages |-> Idle] /\ announces = {}
  /\ connected = TRUE /\ losses = 0 /\ wire = <<>>
  /\ view \in Conversations
  /\ cache = [c \in Conversations |-> <<>>] /\ loaded = {} /\ recency = <<>>
  /\ fetch = None /\ older = None /\ canLoadOlder = FALSE
  /\ asked = {} /\ unsure = {} /\ unheard = {} /\ forgotten = {} /\ excuses = {}

-----------------------------------------------------------------------------
(* updateChat: the conversation becomes the most recent, keeps its last      *)
(* CacheSize messages, and the least recent one is dropped.                 *)
Recent(c) == LET all == <<c>> \o Those(recency, {k \in DOMAIN recency : recency[k] # c})
             IN SubSeq(all, 1, IF Len(all) < CacheLimit THEN Len(all) ELSE CacheLimit)
Kept(c) == {Recent(c)[i] : i \in DOMAIN Recent(c)}
LastOf(s) == SubSeq(s, IF Len(s) > CacheSize THEN Len(s) - CacheSize + 1 ELSE 1, Len(s))
Shows(s) == {s[i].m : i \in DOMAIN s}
Unconfirmed(s) == {s[i].m : i \in {j \in DOMAIN s : s[j].id = 0}}

UpdateChatForgetful(c, messages, load) ==
  LET next == [d \in Conversations |-> IF d = c THEN LastOf(messages)
                                       ELSE IF d \in Kept(c) THEN cache[d] ELSE <<>>]
  IN /\ cache' = next
     /\ recency' = Recent(c)
     /\ loaded' = loaded \cup load
     /\ forgotten' = forgotten \cup
          UNION {Unconfirmed(cache[d]) \ Shows(next[d]) : d \in Conversations}

UpdateChat(c, messages, load) ==
  LET next == [d \in Conversations |-> IF d = c THEN LastOf(messages)
                                       ELSE IF d \in Kept(c) THEN cache[d] ELSE <<>>]
  IN /\ cache' = next
     /\ recency' = Recent(c)
     /\ loaded' = (loaded \cup load) \cap Kept(c)
     /\ forgotten' = forgotten \cup
          UNION {Unconfirmed(cache[d]) \ Shows(next[d]) : d \in Conversations}

WithoutOptimistic(s, m, id) == Those(s, {k \in DOMAIN s : s[k].m # m \/ s[k].id # 0})
Without(s, m, id) == Those(s, {k \in DOMAIN s : s[k].m # m /\ (s[k].id # id \/ id = 0)})
Failed(m) == \E c \in Conversations : \E i \in DOMAIN cache[c] :
               cache[c][i].m = m /\ cache[c][i].state = "failed"

Confirmed(s) == {k \in DOMAIN s : s[k].id > 0}
Ids(s) == {s[k].id : k \in Confirmed(s)}

(* sendChat: the optimistic entry, then the command. A retry replaces its own. *)
SendChat(m) ==
  /\ m \in Mine /\ connected /\ sends[m] = Idle /\ view = of[m]
  /\ Failed(m) \/ m \notin asked
  /\ UpdateChat(of[m], Append(Without(cache[of[m]], m, 0),
                              [m |-> m, id |-> 0, ver |-> 0, gone |-> FALSE,
                               edited |-> FALSE, state |-> "sending"]), {})
  /\ sends' = [sends EXCEPT ![m].at = "sent"]
  /\ asked' = asked \cup {m}
  /\ excuses' = excuses \cup
       (IF Ids(cache[of[m]]) # {} /\ Ids(cache'[of[m]]) = {} THEN {"emptied"} ELSE {})
  /\ UNCHANGED <<of, rows, announces, socket, view, fetch, older, canLoadOlder, unsure, unheard>>

(* The command of another client. *)
OthersSend(m) ==
  /\ m \notin Mine /\ sends[m] = Idle /\ ~Stored(m)
  /\ sends' = [sends EXCEPT ![m].at = "sent"]
  /\ UNCHANGED <<of, rows, announces, socket, client, history>>

-----------------------------------------------------------------------------
(* An event reaches the client if it is connected.  One that does not matters *)
(* only if no later page will bring what it said.                           *)
Settling(c) == \/ c \in loaded
               \/ fetch # None /\ fetch.conversation = c /\ fetch.read
               \/ older # None /\ older.conversation = c
Event(kind, m, e) == [kind |-> kind, m |-> m, id |-> e.id, ver |-> e.ver, gone |-> e.gone,
                      edited |-> kind = "chat.updated"]
Concerns(e) == e.m \in Mine /\ e.kind \in {"chat.message", "error"}
Misses(m) == IF Settling(of[m]) THEN {"gap"} ELSE {}

(* What the event says is no longer so, and no announcement will correct it. *)
Stale(e, pending) ==
  /\ Look(e) # Look(Row(e.id))
  /\ ~(e.kind = "chat.updated" /\ rows[e.id].gone)
  /\ \A a \in pending : a.id = e.id => <<a.ver, a.gone>> # <<rows[e.id].ver, rows[e.id].gone>>

Deliver(e, pending) ==
  /\ wire' = IF connected THEN Append(wire, e) ELSE wire
  /\ unheard' = unheard \cup (IF connected \/ ~Concerns(e) THEN {} ELSE {e.m})
  /\ excuses' = excuses \cup
       (IF e.kind = "error" THEN {}
        ELSE (IF connected THEN {} ELSE Misses(e.m))
             \cup (IF Stale(e, pending) THEN {"stale"} ELSE {}))

(* Only the sender is told of a failure. *)
FailSilently(m) == UNCHANGED <<wire, unheard, excuses>>
Fail(m) == IF m \in Mine THEN Deliver(Event("error", m, Idle), announces)
                         ELSE UNCHANGED <<wire, unheard, excuses>>

(* sendChatMessage refuses: rate limit, access, or a trigger of D1. *)
Refuse(m) ==
  /\ sends[m].at = "sent"
  /\ sends' = [sends EXCEPT ![m] = Idle]
  /\ Fail(m)
  /\ UNCHANGED <<of, rows, announces, connected, losses, client, unsure, forgotten, asked>>

(* The insert, or the select of the row an earlier attempt has inserted. *)
IdOf(m, table) == CHOOSE i \in DOMAIN table : table[i].m = m
Inserted(m) == IF Stored(m) THEN rows ELSE Append(rows, [m |-> m, ver |-> 0, gone |-> FALSE])
Store(m) ==
  /\ sends[m].at = "sent"
  /\ rows' = Inserted(m)
  /\ LET i == IdOf(m, rows')
     IN sends' = [sends EXCEPT ![m] = [at |-> "read", id |-> i, ver |-> rows'[i].ver,
                                       gone |-> rows'[i].gone]]
  /\ UNCHANGED <<of, announces, socket, client, history>>

(* D1 has stored the message, but its answer is an error. *)
StoreLost(m) ==
  /\ sends[m].at = "sent"
  /\ rows' = Inserted(m)
  /\ sends' = [sends EXCEPT ![m] = Idle]
  /\ unsure' = unsure \cup {m}
  /\ Fail(m)
  /\ UNCHANGED <<of, announces, connected, losses, client, forgotten, asked>>

(* D1 has answered: a deleted row has no content and is an error, any other is *)
(* broadcast as it was read, and never as edited.                           *)
Answer(m) ==
  /\ sends[m].at = "read"
  /\ sends' = [sends EXCEPT ![m] = Idle]
  /\ IF sends[m].gone THEN Fail(m) ELSE Deliver(Event("chat.message", m, sends[m]), announces)
  /\ UNCHANGED <<of, rows, announces, connected, losses, client, unsure, forgotten, asked>>

-----------------------------------------------------------------------------
(* editMessage and deleteMessage: one statement, then the announcement.      *)
Changes == FoldFunction(+, 0, [i \in DOMAIN rows |-> rows[i].ver])
           + Cardinality({i \in DOMAIN rows : rows[i].gone})
Change(i, ver, gone) ==
  /\ ~rows[i].gone /\ Changes < MaxChanges
  /\ rows' = [rows EXCEPT ![i].ver = ver, ![i].gone = gone]
  /\ announces' = announces \cup {[id |-> i, ver |-> ver, gone |-> gone]}
  /\ UNCHANGED <<of, sends, socket, client, history>>

EditMessage(i) == i \in DOMAIN rows /\ Change(i, rows[i].ver + 1, FALSE)
DeleteMessage(i) == i \in DOMAIN rows /\ Change(i, rows[i].ver, TRUE)

AnnounceChatUpdate(a) ==
  LET e == Event(IF a.gone THEN "chat.deleted" ELSE "chat.updated", rows[a.id].m, a)
  IN /\ announces' = announces \ {a}
     /\ Deliver(e, announces')
     /\ UNCHANGED <<of, rows, sends, connected, losses, client, unsure, forgotten, asked>>

-----------------------------------------------------------------------------
(* The socket is lost with the commands and the events in it; what was shown  *)
(* stays, and the new socket brings no messages.                            *)
Lose(lost) ==
  /\ connected /\ losses < MaxLosses
  /\ connected' = FALSE /\ losses' = losses + 1 /\ wire' = <<>>
  /\ lost \subseteq {m \in Mine : sends[m].at = "sent"}
  /\ sends' = [m \in Messages |-> IF m \in lost THEN Idle ELSE sends[m]]
  /\ unheard' = unheard \cup lost \cup
       {wire[k].m : k \in {j \in DOMAIN wire : Concerns(wire[j])}}
  /\ excuses' = excuses \cup
       UNION {Misses(wire[k].m) : k \in {j \in DOMAIN wire : wire[j].kind # "error"}}
  /\ UNCHANGED <<of, rows, announces, client, asked, unsure, forgotten>>

Reconnect ==
  /\ ~connected /\ connected' = TRUE
  /\ UNCHANGED <<server, losses, wire, client, history>>

-----------------------------------------------------------------------------
(* The client takes the next event. *)
Touches(e, x) == IF e.kind = "error" THEN x.m = e.m ELSE x.id = e.id
Touched(e, x) == CASE e.kind = "chat.updated" -> [x EXCEPT !.ver = e.ver, !.edited = TRUE]
                   [] e.kind = "chat.deleted" -> [x EXCEPT !.gone = TRUE]
                   [] OTHER                   -> [x EXCEPT !.state = "failed"]
Applied(e) ==
  LET s == cache[of[e.m]]
  IN IF e.kind = "chat.message"
     THEN Append(Without(s, e.m, e.id), [m |-> e.m, id |-> e.id, ver |-> e.ver, gone |-> FALSE,
                                         edited |-> FALSE, state |-> "sent"])
     ELSE [k \in DOMAIN s |-> IF Touches(e, s[k]) THEN Touched(e, s[k]) ELSE s[k]]

(* The message joins the end of the list although a later one is shown. *)
Late(e) == e.kind = "chat.message" /\ \E k \in DOMAIN cache[of[e.m]] : cache[of[e.m]][k].id > e.id

(* A page read before this event will not contain it. *)
Crossed(p, c) == IF p # None /\ p.conversation = c THEN [p EXCEPT !.crossed = p.read] ELSE p
Receive ==
  /\ connected /\ wire # <<>>
  /\ wire' = Tail(wire)
  /\ LET e == Head(wire)
     IN IF e.kind = "error" /\ e.m \notin Shows(cache[of[e.m]])
        THEN UNCHANGED <<cache, loaded, recency, fetch, older, forgotten, excuses>>
        ELSE /\ excuses' = excuses \cup (IF Late(e) THEN {"late"} ELSE {})
             /\ UpdateChat(of[e.m], Applied(e), {})
             /\ fetch' = Crossed(fetch, of[e.m])
             /\ older' = IF older = None \/ older.conversation # of[e.m] THEN older
                         ELSE [older EXCEPT !.crossed = TRUE]
  /\ UNCHANGED <<server, connected, losses, view, canLoadOlder, asked, unsure, unheard>>

-----------------------------------------------------------------------------
(* Another conversation is opened: the first page on its way is ignored.     *)
Open(c) ==
  /\ view' = c /\ fetch' = IF c = view THEN fetch ELSE None
  /\ UNCHANGED <<server, socket, cache, loaded, recency, older, canLoadOlder, history>>

FetchHistory ==
  /\ view \notin loaded /\ fetch = None
  /\ fetch' = [conversation |-> view, read |-> FALSE, page |-> <<>>, crossed |-> FALSE]
  /\ UNCHANGED <<server, socket, view, cache, loaded, recency, older, canLoadOlder, history>>

FetchRead ==
  /\ fetch # None /\ ~fetch.read
  /\ fetch' = [fetch EXCEPT !.read = TRUE, !.page = Page(fetch.conversation, Len(rows) + 1)]
  /\ UNCHANGED <<server, socket, view, cache, loaded, recency, older, canLoadOlder, history>>

(* setConversationMessages: the page takes the place of what was cached. *)
FetchDone ==
  /\ fetch # None /\ fetch.read
  /\ UpdateChat(fetch.conversation, fetch.page, {fetch.conversation})
  /\ excuses' = excuses \cup (IF fetch.crossed THEN {"clobbered"} ELSE {})
  /\ fetch' = None /\ canLoadOlder' = (Len(fetch.page) = PageSize)
  /\ UNCHANGED <<server, socket, view, older, asked, unsure, unheard>>

(* loadOlder captures the messages on the screen, even before their history is *)
(* loaded; its answer goes to whatever conversation is open by then, whose    *)
(* history then counts as loaded, and a first page on its way is ignored.     *)
LoadOlder ==
  /\ canLoadOlder /\ older = None /\ Confirmed(cache[view]) # {}
  /\ LET s == cache[view]
         first == CHOOSE i \in Confirmed(s) : \A j \in Confirmed(s) : i <= j
     IN older' = [conversation |-> view, messages |-> s, before |-> s[first].id,
                  read |-> FALSE, page |-> <<>>, crossed |-> FALSE, early |-> view \notin loaded]
  /\ UNCHANGED <<server, socket, view, cache, loaded, recency, fetch, canLoadOlder, history>>

OlderRead ==
  /\ older # None /\ ~older.read
  /\ older' = [older EXCEPT !.read = TRUE, !.page = Page(older.conversation, older.before)]
  /\ UNCHANGED <<server, socket, view, cache, loaded, recency, fetch, canLoadOlder, history>>

OlderDone ==
  /\ older # None /\ older.read
  /\ UpdateChat(view, older.page \o older.messages, {view})
  /\ excuses' = excuses
       \cup (IF older.crossed \/ cache[view] # older.messages THEN {"clobbered"} ELSE {})
       \cup (IF view # older.conversation THEN {"strayed"} ELSE {})
       \cup (IF older.early THEN {"early"} ELSE {})
  /\ older' = None /\ canLoadOlder' = (Len(older.page) = PageSize)
  /\ fetch' = None
  /\ UNCHANGED <<server, socket, view, asked, unsure, unheard>>

-----------------------------------------------------------------------------
Next ==
  \/ \E m \in Messages : SendChat(m) \/ OthersSend(m) \/ Refuse(m) \/ Store(m)
                         \/ StoreLost(m) \/ Answer(m)
  \/ \E i \in 1 .. Len(rows) : EditMessage(i) \/ DeleteMessage(i)
  \/ \E a \in announces : AnnounceChatUpdate(a)
  \/ \E lost \in SUBSET Mine : Lose(lost)
  \/ Reconnect \/ Receive
  \/ \E c \in Conversations : Open(c)
  \/ FetchHistory \/ FetchRead \/ FetchDone
  \/ LoadOlder \/ OlderRead \/ OlderDone

Spec == Init /\ [][Next]_vars

-----------------------------------------------------------------------------
(* Nothing is under way between this client, the server and D1. *)
Quiet == /\ connected /\ wire = <<>> /\ announces = {} /\ fetch = None /\ older = None
         /\ \A m \in Messages : sends[m] = Idle

(* A conversation whose history counts as loaded shows every message from the *)
(* oldest one it shows on, each as D1 has it, unless an event fell into a gap *)
(* of the socket, told an older state than one before it, or a page read      *)
(* earlier, asked for another conversation, or asked before the history was   *)
(* loaded replaced what was shown, or one's own messages pushed or took all   *)
(* others out of the cache.  One that shows none has none.  The exceptions are *)
(* messages whose sender was told otherwise                                   *)
(* (sendChatMessage and announceChatUpdate of server-realtime.ts against      *)
(* setConversationMessages and updateChat of use-server-realtime.ts).         *)
Shown ==
  Quiet /\ excuses = {} => \A c \in loaded :
    /\ \A k \in Confirmed(cache[c]) : Look(cache[c][k]) = Look(Row(cache[c][k].id))
    /\ \A i \in DOMAIN rows :
         of[rows[i].m] = c /\ (Ids(cache[c]) = {} \/ \E j \in Ids(cache[c]) : j < i)
           => i \in Ids(cache[c]) \/ rows[i].m \in unsure

(* Messages are shown once and in the order D1 gave them, unless two were      *)
(* broadcast in the other order: a retry, or the answers of D1 overtaking      *)
(* each other (the list of use-server-realtime.ts is in order of arrival).    *)
InOrder ==
  Quiet /\ excuses = {} => \A c \in Conversations :
    \A k, l \in Confirmed(cache[c]) : k < l => cache[c][k].id < cache[c][l].id

(* No message of this client is lost without a word: D1 has it, or it is shown *)
(* as failed, unless the socket lost the command or the answer, a page or an   *)
(* eviction dropped the entry, or an older page put back a past state of it;  *)
(* and what is shown as failed D1 does not      *)
(* have, unless D1's own answer was lost (sendChat and the error event of      *)
(* use-server-realtime.ts, sendChatMessage of server-realtime.ts).            *)
Noticed ==
  Quiet /\ excuses \cap {"clobbered", "strayed"} = {} =>
    /\ \A m \in asked : Stored(m) \/ Failed(m) \/ m \in unheard \cup forgotten
    /\ \A c \in Conversations : \A k \in DOMAIN cache[c] :
         LET e == cache[c][k]
         IN e.id = 0 => \/ e.state = "sending" /\ e.m \in unheard
                        \/ e.state = "failed" /\ (Stored(e.m) => e.m \in unsure)
=============================================================================
