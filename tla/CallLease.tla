------------------------------ MODULE CallLease ------------------------------
(***************************************************************************)
(* The connections of the ServerRealtime durable object and the call each  *)
(* account may hold: WebSocket upgrade and resumption, call.join,          *)
(* call.takeover and call.leave, close events, the suspended connections   *)
(* of the grace period, the alarm that ends them, and the refresh of the   *)
(* rooms an account may use (src/worker/durable/server-realtime.ts).       *)
(*                                                                         *)
(* The object runs one event at a time.  An await on its own storage lets  *)
(* no event in; an await on the D1 database does.  So a handler is one     *)
(* action, except fetch and alarm, which are cut at their D1 await: what   *)
(* they read before it may no longer hold when they go on.                 *)
(***************************************************************************)
EXTENDS Naturals

CONSTANTS Users,        \* accounts
          Connections,  \* connectionIds (UUIDs)
          Sockets,      \* WebSockets, a finite pool: a gone socket is reused
          Channels,     \* call rooms
          MaxEpoch,     \* bound on the connectionEpoch a client asks for
          None,         \* channelId null, and no socket held by the alarm
          NoAtt,        \* the attachment of a socket that does not exist
          NoRecord      \* no suspended connection under this storage key

VARIABLES
  status,      \* of each socket: free, pending (upgrade awaits D1), open, closing
  att,         \* the attachment serialized on each socket
  suspended,   \* storage: one record per user and connectionId
  graceAlarm,  \* an alarm is set, no later than the expiry of any live record
  alarm,       \* idle, or checking: the alarm handler awaits D1 for a session
  todo,        \* the sockets it found due and has not looked at yet
  held,        \* the socket whose session it checks; None once that is gone
  copy,        \* the attachment of held as the handler read it before the await
  roster,      \* what another client believes: the room each user is in
  blind,       \* history: users who joined past a call the lookup did not see,
               \* or whose attachment an older copy overwrote
  misled       \* history: users of whom roster was told something outdated,
               \* or not told of the loss of their call

socketVars == <<status, att>>
alarmVars  == <<graceAlarm, alarm, todo, held, copy>>
history == <<blind, misled>>
vars == <<socketVars, suspended, alarmVars, roster, history>>

-----------------------------------------------------------------------------
(* dead stands for superseded and lifecycleHandled, which resumeConnection  *)
(* sets together; webSocketClose sets the second alone, on a socket that is *)
(* then gone.                                                               *)
Attachment == [user : Users, conn : Connections, epoch : Nat,
               channel : Channels \cup {None}, dead : BOOLEAN]

SuspendedRecord == [epoch : Nat, channel : Channels \cup {None}, expired : BOOLEAN]

(* The placeholders are none of the values they stand beside. *)
ASSUME Placeholders ==
  /\ None \notin Channels \cup Sockets
  /\ NoAtt \notin Attachment
  /\ NoRecord \notin SuspendedRecord

ASSUME EpochBound == MaxEpoch \in Nat

Statuses == {"free", "pending", "open", "closing"}

(* getWebSockets() returns a socket from acceptWebSocket until its close    *)
(* event, also after the server called close() on it.                       *)
Listed(k) == status[k] \in {"open", "closing"}

(* Where the state of a connection lives, wherever the code can see it. *)
Carrier(k) == status[k] # "free" /\ ~att[k].dead

SocketCalls(u) == {k \in Sockets : /\ Carrier(k)
                                   /\ att[k].user = u
                                   /\ att[k].channel # None}
RecordCalls(u) == {c \in Connections : /\ suspended[u][c] # NoRecord
                                       /\ suspended[u][c].channel # None}

(* What findCallOwner sees: open sockets first, then live records. *)
OpenCalls(u) == {k \in Sockets : /\ status[k] = "open"
                                 /\ att[k].user = u
                                 /\ att[k].channel # None}
LiveRecordCalls(u) == {c \in RecordCalls(u) : ~suspended[u][c].expired}

(* A call of u, other than that of socket k, that findCallOwner overlooks. *)
HiddenCall(u, k) == \/ \E j \in SocketCalls(u) \ {k} : status[j] # "open"
                    \/ \E c \in RecordCalls(u) : suspended[u][c].expired

LiveRecord(u, c) == suspended[u][c] # NoRecord /\ ~suspended[u][c].expired

(* crypto.randomUUID(): an identifier nothing carries. *)
FreshConnection(c) ==
  /\ \A k \in Sockets : status[k] # "free" => att[k].conn # c
  /\ \A u \in Users : suspended[u][c] = NoRecord

BlindIf(condition, u)  == blind' = IF condition THEN blind \cup {u} ELSE blind
MisledIf(condition, u) == misled' = IF condition THEN misled \cup {u} ELSE misled

-----------------------------------------------------------------------------
Init ==
  /\ status = [k \in Sockets |-> "free"]
  /\ att = [k \in Sockets |-> NoAtt]
  /\ suspended = [u \in Users |-> [c \in Connections |-> NoRecord]]
  /\ graceAlarm = FALSE
  /\ alarm = "idle" /\ todo = {} /\ held = None /\ copy = NoAtt
  /\ roster = [u \in Users |-> None]
  /\ blind = {} /\ misled = {}

-----------------------------------------------------------------------------
(* fetch, up to the D1 await of loadRealtimeCapabilities: the request may   *)
(* name a connection to resume.  What resumeConnection takes is held by the *)
(* handler alone until the upgrade ends.                                    *)
Upgrading(k, a) == 
  /\ status[k] = "free"
  /\ att' = [att EXCEPT ![k] = a]
  /\ status' = [status EXCEPT ![k] = "pending"]

FetchNew(u, k, c) ==
  /\ FreshConnection(c)
  /\ Upgrading(k, [user |-> u, conn |-> c, epoch |-> 1, channel |-> None, dead |-> FALSE])
  /\ UNCHANGED <<suspended, alarmVars, roster, history>>

(* Mutant: the replaced transport is not marked superseded. *)
FetchReplacingUnmarked(k, j, e) ==
  /\ status[j] = "open" /\ status[k] = "free"
  /\ e > att[j].epoch
  /\ status' = [status EXCEPT ![j] = "closing", ![k] = "pending"]
  /\ att' = [att EXCEPT ![k] = [att[j] EXCEPT !.epoch = e]]
  /\ UNCHANGED <<suspended, alarmVars, roster, history>>

(* Mutant: the requested epoch is not compared with the one in storage. *)
FetchResumingAnyEpoch(u, k, c, e) ==
  /\ \A j \in Sockets :
       status[j] = "open" /\ att[j].user = u /\ att[j].conn = c => e <= att[j].epoch
  /\ LiveRecord(u, c)
  /\ Upgrading(k, [user |-> u, conn |-> c, epoch |-> e,
                   channel |-> suspended[u][c].channel, dead |-> FALSE])
  /\ suspended' = [suspended EXCEPT ![u][c] = NoRecord]
  /\ UNCHANGED <<alarmVars, roster, history>>

(* An open socket of the connection is superseded and closed with 4002. *)
FetchReplacing(k, j, e) ==
  /\ status[j] = "open" /\ status[k] = "free"
  /\ e > att[j].epoch
  /\ status' = [status EXCEPT ![j] = "closing", ![k] = "pending"]
  /\ att' = [att EXCEPT ![j].dead = TRUE,
                        ![k] = [att[j] EXCEPT !.epoch = e, !.dead = FALSE]]
  /\ UNCHANGED <<suspended, alarmVars, roster, history>>

(* Otherwise a live record of the storage is taken out. *)
FetchResuming(u, k, c, e) ==
  /\ \A j \in Sockets :
       status[j] = "open" /\ att[j].user = u /\ att[j].conn = c => e <= att[j].epoch
  /\ LiveRecord(u, c)
  /\ e > suspended[u][c].epoch
  /\ Upgrading(k, [user |-> u, conn |-> c, epoch |-> e,
                   channel |-> suspended[u][c].channel, dead |-> FALSE])
  /\ suspended' = [suspended EXCEPT ![u][c] = NoRecord]
  /\ UNCHANGED <<alarmVars, roster, history>>

(* Mutant: ensureAlarm looks at the sockets and not at the storage. *)
EnsureAlarmSocketsOnly(isSet, records) == graceAlarm' = isSet

(* ensureAlarm: among the times still to come it takes the nearest.  A       *)
(* record that has already expired is not one of them.                       *)
EnsureAlarm(isSet, records) ==
  graceAlarm' = (isSet \/ \E u \in Users, c \in Connections :
                            records[u][c] # NoRecord /\ ~records[u][c].expired)

(* D1 answered: the socket is accepted. *)
FetchAccept(k) ==
  /\ status[k] = "pending"
  /\ status' = [status EXCEPT ![k] = "open"]
  /\ EnsureAlarm(graceAlarm, suspended)
  /\ UNCHANGED <<att, suspended, alarm, todo, held, copy, roster, history>>

(* D1 failed: fetch throws, and a resumed connection goes with it unheard.  *)
FetchFail(k) ==
  /\ status[k] = "pending"
  /\ status' = [status EXCEPT ![k] = "free"]
  /\ att' = [att EXCEPT ![k] = NoAtt]
  /\ MisledIf(att[k].channel # None, att[k].user)
  /\ UNCHANGED <<suspended, alarmVars, roster, blind>>

-----------------------------------------------------------------------------
(* call.join and call.takeover, on any listed socket: webSocketMessage does *)
(* not look at readyState nor at superseded.  A conflict changes nothing.   *)
(* gone: the previous owner's call.member.left was broadcast just before.   *)
Announce(k, ch, gone) ==
  roster' = [roster EXCEPT ![att[k].user] =
               CASE att[k].channel # ch -> ch
                 [] att[k].channel = ch /\ gone -> None
                 [] OTHER -> @]

Overlooked(k) == /\ BlindIf(HiddenCall(att[k].user, k), att[k].user)
                 /\ MisledIf(att[k].dead, att[k].user)

Join(k, ch) ==
  LET u == att[k].user
      c == att[k].conn
  IN  /\ Listed(k)
      /\ \/ /\ OpenCalls(u) = {}
            /\ LiveRecordCalls(u) = {} \/ c \in LiveRecordCalls(u)
         \/ \E j \in OpenCalls(u) : att[j].conn = c
      /\ att' = [att EXCEPT ![k].channel = ch]
      /\ Announce(k, ch, FALSE)
      /\ Overlooked(k)
      /\ UNCHANGED <<status, suspended, alarmVars>>

TakeoverSocket(k, ch, j) ==
  /\ Listed(k)
  /\ j \in OpenCalls(att[k].user) /\ att[j].conn # att[k].conn
  /\ att' = [att EXCEPT ![j].channel = None, ![k].channel = ch]
  /\ Announce(k, ch, TRUE)
  /\ Overlooked(k)
  /\ UNCHANGED <<status, suspended, alarmVars>>

(* Mutant: the previous owner's record stays in the storage. *)
TakeoverRecordKept(k, ch, c) ==
  LET u == att[k].user
  IN  /\ Listed(k)
      /\ OpenCalls(u) = {}
      /\ c \in LiveRecordCalls(u) /\ c # att[k].conn
      /\ att' = [att EXCEPT ![k].channel = ch]
      /\ Announce(k, ch, TRUE)
      /\ Overlooked(k)
      /\ UNCHANGED <<status, suspended, alarmVars>>

TakeoverRecord(k, ch, c) ==
  LET u == att[k].user
  IN  /\ Listed(k)
      /\ OpenCalls(u) = {}
      /\ c \in LiveRecordCalls(u) /\ c # att[k].conn
      /\ att' = [att EXCEPT ![k].channel = ch]
      /\ suspended' = [suspended EXCEPT ![u][c] = NoRecord]
      /\ Announce(k, ch, TRUE)
      /\ Overlooked(k)
      /\ UNCHANGED <<status, alarmVars>>

Leave(k) ==
  /\ Listed(k) /\ att[k].channel # None
  /\ att' = [att EXCEPT ![k].channel = None]
  /\ roster' = [roster EXCEPT ![att[k].user] = None]
  /\ MisledIf(att[k].dead, att[k].user)
  /\ UNCHANGED <<status, suspended, alarmVars, blind>>

-----------------------------------------------------------------------------
(* close() by the server: disconnectSession and disconnectUser close the    *)
(* sockets of a session or of a user (the sessions of u are any division of *)
(* its sockets); the message limits close one.                              *)
Close(closed) ==
  /\ status' = [k \in Sockets |-> IF k \in closed THEN "closing" ELSE status[k]]
  /\ UNCHANGED <<att, suspended, alarmVars, roster, history>>

Disconnect(u) ==
  \E closed \in SUBSET {k \in Sockets : status[k] = "open" /\ att[k].user = u} :
    closed # {} /\ Close(closed)

LimitExceeded(k) == status[k] = "open" /\ Close({k})

(* The close event: the socket is gone.  The alarm loses sight of it too.   *)
GoneHalfway(k) ==   \* Mutant: the attachment of a gone socket stays behind.
  /\ status' = [status EXCEPT ![k] = "free"]
  /\ todo' = todo \ {k}
  /\ held' = IF held = k THEN None ELSE held
  /\ UNCHANGED <<att, alarm, copy>>

Gone(k) ==
  /\ status' = [status EXCEPT ![k] = "free"]
  /\ att' = [att EXCEPT ![k] = NoAtt]
  /\ todo' = todo \ {k}
  /\ held' = IF held = k THEN None ELSE held
  /\ UNCHANGED <<alarm, copy>>

ClosedSuperseded(k) ==
  /\ Listed(k) /\ att[k].dead
  /\ Gone(k)
  /\ UNCHANGED <<suspended, graceAlarm, roster, history>>

(* Any code but 1000 and 4003: the connection is suspended for the grace.   *)
ClosedAbnormally(k) ==
  LET u == att[k].user
      c == att[k].conn
  IN  /\ Listed(k) /\ ~att[k].dead
      /\ Gone(k)
      /\ suspended' = [suspended EXCEPT ![u][c] =
           [epoch |-> att[k].epoch, channel |-> att[k].channel, expired |-> FALSE]]
      /\ EnsureAlarm(graceAlarm, suspended')
      /\ UNCHANGED <<roster, history>>

(* Code 1000 or 4003: the connection ends here. *)
ClosedNormally(k) ==
  /\ Listed(k) /\ ~att[k].dead
  /\ Gone(k)
  /\ roster' = [roster EXCEPT ![att[k].user] = IF att[k].channel = None THEN @ ELSE None]
  /\ UNCHANGED <<suspended, graceAlarm, history>>

-----------------------------------------------------------------------------
(* Time: the 45 s of a record pass. *)
Expire(u, c) ==
  /\ LiveRecord(u, c)
  /\ suspended' = [suspended EXCEPT ![u][c].expired = TRUE]
  /\ UNCHANGED <<socketVars, alarmVars, roster, history>>

(* The loop over the sockets: the next one still open is read, and D1 is    *)
(* asked for its session; with none left, ensureAlarm ends the handler.     *)
(* isSet: an alarm was set since this one fired.                            *)
NextCheck(rest, isSet) ==
  LET ready == {k \in rest : status'[k] = "open"}
  IN  \/ \E k \in ready :
           /\ alarm' = "checking" /\ held' = k /\ copy' = att'[k] /\ todo' = rest \ {k}
           /\ graceAlarm' = isSet
      \/ /\ ready = {}
         /\ alarm' = "idle" /\ held' = None /\ copy' = NoAtt /\ todo' = {}
         /\ EnsureAlarm(isSet, suspended')

(* The alarm: expired records end, then the sockets at their session limit  *)
(* are checked.  It was set for a record or for a session limit, which may  *)
(* come at any time while a socket or a record exists.                      *)
AlarmDue == \/ graceAlarm
            \/ \E k \in Sockets : Listed(k)
            \/ \E u \in Users, c \in Connections : suspended[u][c] # NoRecord

(* Mutant: the records of the expired connections are not deleted. *)
AlarmFiresKeeping ==
  /\ alarm = "idle" /\ AlarmDue
  /\ roster' = [u \in Users |->
       IF \E c \in RecordCalls(u) : suspended[u][c].expired THEN None ELSE roster[u]]
  /\ UNCHANGED <<socketVars, suspended, history>>
  /\ \E due \in SUBSET {k \in Sockets : status[k] = "open"} : NextCheck(due, FALSE)

AlarmFires ==
  /\ alarm = "idle" /\ AlarmDue
  /\ suspended' = [u \in Users |-> [c \in Connections |->
       IF LiveRecord(u, c) THEN suspended[u][c] ELSE NoRecord]]
  /\ roster' = [u \in Users |->
       IF \E c \in RecordCalls(u) : suspended[u][c].expired THEN None ELSE roster[u]]
  /\ UNCHANGED <<socketVars, history>>
  /\ \E due \in SUBSET {k \in Sockets : status[k] = "open"} : NextCheck(due, FALSE)

(* D1 found no valid session: the socket is closed with 4003. *)
SessionInvalid ==
  /\ alarm = "checking"
  /\ status' = [k \in Sockets |-> IF k = held /\ status[k] = "open" THEN "closing"
                                                                   ELSE status[k]]
  /\ UNCHANGED <<att, suspended, roster, history>>
  /\ NextCheck(todo, graceAlarm)

(* D1 found it valid: the attachment read before the await is written back. *)
SessionValid ==
  /\ alarm = "checking"
  /\ att' = IF held = None THEN att ELSE [att EXCEPT ![held] = copy]
  /\ BlindIf(held # None /\ att' # att, copy.user)
  /\ UNCHANGED <<status, suspended, roster, misled>>
  /\ NextCheck(todo, graceAlarm)

(* D1 failed: the alarm handler throws, and the runtime runs it again. *)
AlarmFails ==
  /\ alarm = "checking"
  /\ alarm' = "idle" /\ held' = None /\ copy' = NoAtt /\ todo' = {}
  /\ graceAlarm' = TRUE
  /\ UNCHANGED <<socketVars, suspended, roster, history>>

-----------------------------------------------------------------------------
(* Mutant: suspended calls lose their room without call.member.left. *)
RefreshSilently(u, rooms) ==
  LET evicted == {k \in Sockets : /\ Listed(k) /\ att[k].user = u
                                  /\ att[k].channel \notin rooms \cup {None}}
      ended == {c \in RecordCalls(u) : suspended[u][c].channel \notin rooms}
  IN  /\ att' = [k \in Sockets |-> IF k \in evicted THEN [att[k] EXCEPT !.channel = None]
                                                    ELSE att[k]]
      /\ suspended' = [suspended EXCEPT ![u] =
           [c \in Connections |-> IF c \in ended THEN [@[c] EXCEPT !.channel = None]
                                                ELSE @[c]]]
      /\ roster' = [roster EXCEPT ![u] = IF evicted = {} THEN @ ELSE None]
      /\ MisledIf(\E k \in evicted : att[k].dead, u)
      /\ UNCHANGED <<status, alarmVars, blind>>

(* refreshSocialState with the rooms D1 returned for u: every listed socket *)
(* of u, superseded ones too, and every record leave a call not in rooms.   *)
Refresh(u, rooms) ==
  LET evicted == {k \in Sockets : /\ Listed(k) /\ att[k].user = u
                                  /\ att[k].channel \notin rooms \cup {None}}
      ended == {c \in RecordCalls(u) : suspended[u][c].channel \notin rooms}
  IN  /\ att' = [k \in Sockets |-> IF k \in evicted THEN [att[k] EXCEPT !.channel = None]
                                                    ELSE att[k]]
      /\ suspended' = [suspended EXCEPT ![u] =
           [c \in Connections |-> IF c \in ended THEN [@[c] EXCEPT !.channel = None]
                                                ELSE @[c]]]
      /\ roster' = [roster EXCEPT ![u] = IF evicted \cup ended = {} THEN @ ELSE None]
      /\ MisledIf(\E k \in evicted : att[k].dead, u)
      /\ UNCHANGED <<status, alarmVars, blind>>

(* state.resync or server.ready of the observing client: its view of every  *)
(* call is replaced by the snapshot.                                        *)
SnapshotRooms(u) ==
  IF OpenCalls(u) # {} THEN {att[k].channel : k \in OpenCalls(u)}
  ELSE IF LiveRecordCalls(u) # {} THEN {suspended[u][c].channel : c \in LiveRecordCalls(u)}
  ELSE {None}

Snapshot ==
  /\ roster' \in {r \in [Users -> Channels \cup {None}] :
                    \A u \in Users : r[u] \in SnapshotRooms(u)}
  /\ misled' = misled \cup {u \in Users : \E k \in SocketCalls(u) : status[k] # "open"}
  /\ UNCHANGED <<socketVars, suspended, alarmVars, blind>>

-----------------------------------------------------------------------------
Epochs == 2..MaxEpoch

Next ==
  \/ \E k \in Sockets :
       \/ \E u \in Users, c \in Connections :
            FetchNew(u, k, c) \/ \E e \in Epochs : FetchResuming(u, k, c, e)
       \/ \E j \in Sockets, e \in Epochs : FetchReplacing(k, j, e)
       \/ FetchAccept(k) \/ FetchFail(k)
       \/ \E ch \in Channels :
            \/ Join(k, ch)
            \/ \E j \in Sockets : TakeoverSocket(k, ch, j)
            \/ \E c \in Connections : TakeoverRecord(k, ch, c)
       \/ Leave(k) \/ LimitExceeded(k)
       \/ ClosedSuperseded(k) \/ ClosedAbnormally(k) \/ ClosedNormally(k)
  \/ \E u \in Users : \/ Disconnect(u)
                      \/ \E c \in Connections : Expire(u, c)
                      \/ \E rooms \in SUBSET Channels : Refresh(u, rooms)
  \/ AlarmFires \/ SessionInvalid \/ SessionValid \/ AlarmFails
  \/ Snapshot

Spec == Init /\ [][Next]_vars

(* An alarm that is set fires, and D1 answers the handler or fails it.      *)
Fairness == /\ WF_vars(graceAlarm /\ AlarmFires)
            /\ WF_vars(SessionInvalid \/ SessionValid \/ AlarmFails)
FairSpec == Spec /\ Fairness

-----------------------------------------------------------------------------
(* Every variable has its type; a socket is free exactly when it carries no *)
(* attachment, and the alarm holds a copy exactly while it checks.          *)
TypeOK ==
  /\ status \in [Sockets -> Statuses]
  /\ att \in [Sockets -> Attachment \cup {NoAtt}]
  /\ \A k \in Sockets : status[k] = "free" <=> att[k] = NoAtt
  /\ suspended \in [Users -> [Connections -> SuspendedRecord \cup {NoRecord}]]
  /\ graceAlarm \in BOOLEAN
  /\ alarm \in {"idle", "checking"}
  /\ alarm = "checking" => copy \in Attachment
  /\ alarm = "idle" => copy = NoAtt
  /\ todo \in SUBSET Sockets
  /\ held \in Sockets \cup {None}
  /\ roster \in [Users -> Channels \cup {None}]
  /\ blind \in SUBSET Users
  /\ misled \in SUBSET Users

(* The state of one connectionId lives in one place: on a single socket not *)
(* superseded, or in a single suspended record.  A resumption moves it, and *)
(* never leaves two.                                                        *)
OneCarrier ==
  \A u \in Users \ blind : \A k \in Sockets :
    Carrier(k) /\ att[k].user = u =>
      /\ suspended[u][att[k].conn] = NoRecord
      /\ \A j \in Sockets :
           Carrier(j) /\ att[j].user = u /\ att[j].conn = att[k].conn => j = k

(* The lease: an account has a call in one place at most, counting the ones *)
(* findCallOwner cannot see, unless a stale read was acted upon.            *)
LeaseExclusive ==
  \A u \in Users \ blind :
    /\ \A j, k \in SocketCalls(u) : j = k
    /\ \A c, d \in RecordCalls(u) : c = d
    /\ SocketCalls(u) = {} \/ RecordCalls(u) = {}

(* The others' view: call.member.joined and call.member.left, applied in    *)
(* order, show an account in the room its call is in, through suspensions   *)
(* and resumptions, and in none when it has no call.                        *)
RosterFaithful ==
  \A u \in Users \ (blind \cup misled) :
    /\ \A k \in SocketCalls(u) : roster[u] = att[k].channel
    /\ \A c \in RecordCalls(u) :
         \/ roster[u] = suspended[u][c].channel
         \/ suspended[u][c].expired /\ roster[u] = None
    /\ SocketCalls(u) = {} /\ RecordCalls(u) = {} => roster[u] = None

(* A live record never waits without an alarm: one is set no later than its *)
(* expiry, or the alarm handler runs and sets it as it ends.                *)
GraceCovered ==
  (\E u \in Users, c \in Connections : LiveRecord(u, c)) => graceAlarm \/ alarm = "checking"

(* The attachment the alarm holds across its await is one of a socket that *)
(* is still listed and that belongs to the same user.                       *)
HeldListed ==
  alarm = "checking" /\ held # None => Listed(held) /\ att[held].user = copy.user

(* What docs/architecture.md says without any exception. *)
OneCallPerAccount ==
  \A u \in Users :
    /\ \A j, k \in OpenCalls(u) : j = k
    /\ OpenCalls(u) = {} \/ LiveRecordCalls(u) = {}

(* The grace period ends: a call whose record is kept has an alarm to end   *)
(* it, before the record expires and after.                                 *)
ExpiredScheduled ==
  (\E u \in Users : RecordCalls(u) # {}) => graceAlarm \/ alarm = "checking"

(* A record that has expired while an alarm is set is ended by that alarm,  *)
(* also when D1 fails in the middle of it.                                  *)
ScheduledExpirySwept ==
  \A u \in Users, c \in Connections :
    (suspended[u][c] # NoRecord /\ suspended[u][c].expired /\ graceAlarm)
      ~> (suspended[u][c] = NoRecord \/ ~suspended[u][c].expired)

(* A connection is only ever taken over by a transport with a greater epoch:*)
(* a late upgrade of an older transport never gets it back.                 *)
Carries(k, u, c) == Carrier(k) /\ att[k].user = u /\ att[k].conn = c

EpochAdvances ==
  [][\A u \in Users, c \in Connections : u \notin blind' =>
       /\ \A j, k \in Sockets :
            Carries(j, u, c) /\ Carries(k, u, c)' =>
              att'[k].epoch > att[j].epoch \/ (j = k /\ att'[k].epoch = att[k].epoch)
       /\ \A k \in Sockets :
            /\ suspended[u][c] # NoRecord /\ Carries(k, u, c)' =>
                 att'[k].epoch > suspended[u][c].epoch
            /\ Carries(k, u, c) /\ suspended'[u][c] # NoRecord =>
                 suspended'[u][c].epoch = att[k].epoch]_vars
=============================================================================
