-------------------------- MODULE CallLeaseProofs --------------------------
(***************************************************************************)
(* What CallLease promises, for any number of accounts, connections,       *)
(* sockets and rooms.                                                      *)
(***************************************************************************)
EXTENDS CallLease, TLAPS

LEMMA SocketAttachment ==
  ASSUME TypeOK, NEW k \in Sockets, status[k] # "free"
  PROVE  att[k] \in Attachment
BY DEF TypeOK

(* A changed attachment, or record, is one. *)
LEMMA AttachmentWithChannel ==
  ASSUME NEW a \in Attachment, NEW ch \in Channels \cup {None}
  PROVE  /\ [a EXCEPT !.channel = ch] \in Attachment
         /\ [a EXCEPT !.channel = ch].user = a.user
         /\ [a EXCEPT !.channel = ch].conn = a.conn
         /\ [a EXCEPT !.channel = ch].dead = a.dead
         /\ [a EXCEPT !.channel = ch].epoch = a.epoch
         /\ [a EXCEPT !.channel = ch].channel = ch
BY DEF Attachment

LEMMA AttachmentDead ==
  ASSUME NEW a \in Attachment
  PROVE  /\ [a EXCEPT !.dead = TRUE] \in Attachment
         /\ [a EXCEPT !.dead = TRUE].user = a.user
         /\ [a EXCEPT !.dead = TRUE].dead
BY DEF Attachment

LEMMA AttachmentWithEpoch ==
  ASSUME NEW a \in Attachment, NEW e \in Nat
  PROVE  /\ [a EXCEPT !.epoch = e, !.dead = FALSE] \in Attachment
         /\ [a EXCEPT !.epoch = e, !.dead = FALSE].user = a.user
         /\ [a EXCEPT !.epoch = e, !.dead = FALSE].conn = a.conn
         /\ [a EXCEPT !.epoch = e, !.dead = FALSE].channel = a.channel
         /\ [a EXCEPT !.epoch = e, !.dead = FALSE].epoch = e
         /\ ~[a EXCEPT !.epoch = e, !.dead = FALSE].dead
BY DEF Attachment

LEMMA RecordWith ==
  ASSUME NEW r \in SuspendedRecord
  PROVE  /\ [r EXCEPT !.channel = None] \in SuspendedRecord
         /\ [r EXCEPT !.channel = None].channel = None
         /\ [r EXCEPT !.channel = None].epoch = r.epoch
         /\ [r EXCEPT !.expired = TRUE] \in SuspendedRecord
         /\ [r EXCEPT !.expired = TRUE].channel = r.channel
         /\ [r EXCEPT !.expired = TRUE].epoch = r.epoch
BY DEF SuspendedRecord

(* Storing a value of the right type keeps the storage typed. *)
LEMMA StorageWith ==
  ASSUME NEW T, NEW f \in [Users -> [Connections -> T]],
         NEW u \in Users, NEW c \in Connections, NEW v \in T
  PROVE  [f EXCEPT ![u][c] = v] \in [Users -> [Connections -> T]]
<1>1. [f[u] EXCEPT ![c] = v] \in [Connections -> T]
  OBVIOUS
<1>2. QED
  BY <1>1

(* How the alarm loop leaves its own variables, once the rest is typed. *)
LEMMA NextCheckType ==
  ASSUME TypeOK, NEW rest \in SUBSET Sockets, NEW isSet \in BOOLEAN,
         NextCheck(rest, isSet),
         status' \in [Sockets -> Statuses],
         att' \in [Sockets -> Attachment \cup {NoAtt}],
         \A k \in Sockets : status'[k] = "free" <=> att'[k] = NoAtt
  PROVE  /\ graceAlarm' \in BOOLEAN
         /\ alarm' \in {"idle", "checking"}
         /\ alarm' = "checking" => copy' \in Attachment
         /\ alarm' = "idle" => copy' = NoAtt
         /\ todo' \in SUBSET Sockets
         /\ held' \in Sockets \cup {None}
         /\ HeldListed'
BY DEF NextCheck, EnsureAlarm, HeldListed, Listed, Placeholders

LEMMA TypeInit == Init => TypeOK /\ HeldListed
<1> SUFFICES ASSUME Init PROVE TypeOK /\ HeldListed
  OBVIOUS
<1>1. suspended \in [Users -> [Connections -> SuspendedRecord \cup {NoRecord}]]
  BY DEF Init
<1>2. att \in [Sockets -> Attachment \cup {NoAtt}]
  BY DEF Init
<1>3. roster \in [Users -> Channels \cup {None}]
  BY DEF Init
<1>4. QED
  BY <1>1, <1>2, <1>3 DEF Init, TypeOK, HeldListed, Statuses

LEMMA TypeStep == TypeOK /\ HeldListed /\ [Next]_vars => TypeOK' /\ HeldListed'
<1> SUFFICES ASSUME TypeOK, HeldListed, [Next]_vars
             PROVE  TypeOK' /\ HeldListed'
  OBVIOUS
<1> USE Placeholders, SocketAttachment
<1>1. ASSUME NEW k \in Sockets, NEW u \in Users, NEW c \in Connections, FetchNew(u, k, c)
      PROVE  TypeOK' /\ HeldListed'
  <2>1. [user |-> u, conn |-> c, epoch |-> 1, channel |-> None, dead |-> FALSE] \in Attachment
    BY DEF Attachment
  <2>2. QED
    BY <1>1, <2>1 DEF FetchNew, Upgrading, TypeOK, HeldListed, Listed, Statuses, alarmVars, history
<1>2. ASSUME NEW k \in Sockets, NEW u \in Users, NEW c \in Connections, NEW e \in Epochs,
             FetchResuming(u, k, c, e)
      PROVE  TypeOK' /\ HeldListed'
  <2> DEFINE a == [user |-> u, conn |-> c, epoch |-> e,
                   channel |-> suspended[u][c].channel, dead |-> FALSE]
  <2>1. suspended[u][c] \in SuspendedRecord
    BY <1>2 DEF FetchResuming, LiveRecord, TypeOK
  <2>2. a \in Attachment
    BY <2>1, EpochBound DEF Attachment, SuspendedRecord, Epochs
  <2>3. suspended' \in [Users -> [Connections -> SuspendedRecord \cup {NoRecord}]]
    BY <1>2, StorageWith DEF FetchResuming, TypeOK
  <2>4. status[k] = "free" /\ att' = [att EXCEPT ![k] = a] /\ status' = [status EXCEPT ![k] = "pending"]
    BY <1>2 DEF FetchResuming, Upgrading
  <2>5. UNCHANGED <<alarmVars, roster, history>>
    BY <1>2 DEF FetchResuming
  <2> HIDE DEF a
  <2>6. QED
    BY <2>2, <2>3, <2>4, <2>5 DEF TypeOK, HeldListed, Listed, Statuses, alarmVars, history
<1>3. ASSUME NEW k \in Sockets, NEW j \in Sockets, NEW e \in Epochs, FetchReplacing(k, j, e)
      PROVE  TypeOK' /\ HeldListed'
  <2> DEFINE a == [att[j] EXCEPT !.epoch = e, !.dead = FALSE]
             b == [att[j] EXCEPT !.dead = TRUE]
  <2>1. att[j] \in Attachment /\ e \in Nat /\ j # k /\ status[j] = "open" /\ status[k] = "free"
    BY <1>3, EpochBound, SocketAttachment DEF FetchReplacing, Epochs
  <2>2. a \in Attachment /\ b \in Attachment /\ b.user = att[j].user
    BY <2>1, AttachmentDead, AttachmentWithEpoch
  <2>3. att' = [att EXCEPT ![j] = b, ![k] = a]
    BY <1>3, <2>1 DEF FetchReplacing, TypeOK
  <2>4. status' = [status EXCEPT ![j] = "closing", ![k] = "pending"]
    BY <1>3 DEF FetchReplacing
  <2>5. UNCHANGED <<suspended, alarmVars, roster, history>>
    BY <1>3 DEF FetchReplacing
  <2> HIDE DEF a, b
  <2>6. QED
    BY <2>1, <2>2, <2>3, <2>4, <2>5 DEF TypeOK, HeldListed, Listed, Statuses, alarmVars, history
<1>4. ASSUME NEW k \in Sockets, FetchAccept(k)
      PROVE  TypeOK' /\ HeldListed'
  BY <1>4 DEF FetchAccept, EnsureAlarm, TypeOK, HeldListed, Listed, Statuses, history
<1>5. ASSUME NEW k \in Sockets, FetchFail(k)
      PROVE  TypeOK' /\ HeldListed'
  BY <1>5 DEF FetchFail, MisledIf, TypeOK, HeldListed, Listed, Attachment, Statuses, alarmVars
<1>6. ASSUME NEW k \in Sockets, NEW ch \in Channels, Join(k, ch)
      PROVE  TypeOK' /\ HeldListed'
  BY <1>6 DEF Join, Announce, Overlooked, BlindIf, MisledIf, TypeOK, HeldListed, Listed, Attachment, Statuses, alarmVars
<1>7. ASSUME NEW k \in Sockets, NEW ch \in Channels, NEW j \in Sockets, TakeoverSocket(k, ch, j)
      PROVE  TypeOK' /\ HeldListed'
  <2> DEFINE a == [att[k] EXCEPT !.channel = ch]
             b == [att[j] EXCEPT !.channel = None]
  <2>1. /\ att[j] \in Attachment /\ att[k] \in Attachment
        /\ status[j] # "free" /\ status[k] # "free"
    BY <1>7, SocketAttachment DEF TakeoverSocket, OpenCalls, Listed
  <2>2. /\ a \in Attachment /\ a.user = att[k].user
        /\ b \in Attachment /\ b.user = att[j].user
        /\ att[k].user \in Users
    BY <2>1, AttachmentWithChannel DEF Attachment
  <2>3. j # k
    BY <1>7 DEF TakeoverSocket
  <2>4. att' = [att EXCEPT ![j] = b, ![k] = a]
    BY <1>7, <2>3 DEF TakeoverSocket, TypeOK
  <2>5. roster' \in [Users -> Channels \cup {None}] /\ blind' \in SUBSET Users /\ misled' \in SUBSET Users
    BY <1>7, <2>2 DEF TakeoverSocket, Announce, Overlooked, BlindIf, MisledIf, TypeOK
  <2>6. UNCHANGED <<status, suspended, alarmVars>>
    BY <1>7 DEF TakeoverSocket
  <2> HIDE DEF a, b
  <2>7. QED
    BY <2>1, <2>2, <2>3, <2>4, <2>5, <2>6 DEF TypeOK, HeldListed, Listed, Statuses, alarmVars
<1>8. ASSUME NEW k \in Sockets, NEW ch \in Channels, NEW c \in Connections, TakeoverRecord(k, ch, c)
      PROVE  TypeOK' /\ HeldListed'
  BY <1>8 DEF TakeoverRecord, Announce, Overlooked, BlindIf, MisledIf, TypeOK, HeldListed, Listed, Attachment, SuspendedRecord, Statuses, alarmVars
<1>9. ASSUME NEW k \in Sockets, Leave(k)
      PROVE  TypeOK' /\ HeldListed'
  <2> DEFINE a == [att[k] EXCEPT !.channel = None]
  <2>1. a \in Attachment /\ a.user = att[k].user /\ att[k].user \in Users /\ status[k] # "free"
    BY <1>9, SocketAttachment, AttachmentWithChannel DEF Leave, Listed, Attachment
  <2>2. att' = [att EXCEPT ![k] = a]
    BY <1>9 DEF Leave
  <2> HIDE DEF a
  <2>3. QED
    BY <1>9, <2>1, <2>2 DEF Leave, MisledIf, TypeOK, HeldListed, Listed, Statuses, alarmVars
<1>10. ASSUME NEW closed \in SUBSET Sockets, Close(closed), \A k \in closed : status[k] = "open"
      PROVE  TypeOK' /\ HeldListed'
  BY <1>10 DEF Close, TypeOK, HeldListed, Listed, Statuses, alarmVars, history
<1>11. ASSUME NEW k \in Sockets, ClosedSuperseded(k)
      PROVE  TypeOK' /\ HeldListed'
  BY <1>11 DEF ClosedSuperseded, Gone, TypeOK, HeldListed, Listed, Statuses, history
<1>12. ASSUME NEW k \in Sockets, ClosedAbnormally(k)
      PROVE  TypeOK' /\ HeldListed'
  BY <1>12 DEF ClosedAbnormally, Gone, EnsureAlarm, TypeOK, HeldListed, Listed, Attachment, SuspendedRecord, Statuses, history
<1>13. ASSUME NEW k \in Sockets, ClosedNormally(k)
      PROVE  TypeOK' /\ HeldListed'
  BY <1>13 DEF ClosedNormally, Gone, TypeOK, HeldListed, Listed, Attachment, Statuses, history
<1>14. ASSUME NEW u \in Users, NEW c \in Connections, Expire(u, c)
      PROVE  TypeOK' /\ HeldListed'
  <2>1. suspended[u][c] \in SuspendedRecord
    BY <1>14 DEF Expire, LiveRecord, TypeOK
  <2>2. suspended' = [suspended EXCEPT ![u][c] = [suspended[u][c] EXCEPT !.expired = TRUE]]
    BY <1>14 DEF Expire
  <2>3. suspended' \in [Users -> [Connections -> SuspendedRecord \cup {NoRecord}]]
    BY <2>1, <2>2, RecordWith, StorageWith DEF TypeOK
  <2>4. QED
    BY <1>14, <2>3 DEF Expire, TypeOK, HeldListed, Listed, socketVars, alarmVars, history
<1>15. ASSUME AlarmFires
      PROVE  TypeOK' /\ HeldListed'
  <2>1. PICK due \in SUBSET Sockets : NextCheck(due, FALSE)
    BY <1>15 DEF AlarmFires
  <2>2. /\ status' = status /\ att' = att /\ blind' = blind /\ misled' = misled
        /\ suspended' \in [Users -> [Connections -> SuspendedRecord \cup {NoRecord}]]
        /\ roster' \in [Users -> Channels \cup {None}]
    BY <1>15 DEF AlarmFires, socketVars, history, TypeOK
  <2>3. QED
    BY <2>1, <2>2, NextCheckType DEF TypeOK
<1>16. ASSUME SessionInvalid
      PROVE  TypeOK' /\ HeldListed'
  <2>1. /\ status' \in [Sockets -> Statuses] /\ att' = att
        /\ \A k \in Sockets : status'[k] = "free" <=> att'[k] = NoAtt
        /\ UNCHANGED <<suspended, roster, blind, misled>>
        /\ NextCheck(todo, graceAlarm)
    BY <1>16 DEF SessionInvalid, TypeOK, Statuses, history
  <2>2. QED
    BY <2>1, NextCheckType DEF TypeOK
<1>17. ASSUME SessionValid
      PROVE  TypeOK' /\ HeldListed'
  <2>1. /\ att' \in [Sockets -> Attachment \cup {NoAtt}] /\ status' = status
        /\ \A k \in Sockets : status'[k] = "free" <=> att'[k] = NoAtt
        /\ blind' \in SUBSET Users
        /\ UNCHANGED <<suspended, roster, misled>>
        /\ NextCheck(todo, graceAlarm)
    BY <1>17 DEF SessionValid, BlindIf, TypeOK, HeldListed, Listed, Attachment
  <2>2. QED
    BY <2>1, NextCheckType DEF TypeOK
<1>18. ASSUME AlarmFails
      PROVE  TypeOK' /\ HeldListed'
  BY <1>18 DEF AlarmFails, TypeOK, HeldListed, socketVars, history
<1>19. ASSUME NEW u \in Users, NEW rooms \in SUBSET Channels, Refresh(u, rooms)
      PROVE  TypeOK' /\ HeldListed'
  <2> DEFINE evicted == {k \in Sockets : /\ Listed(k) /\ att[k].user = u
                                         /\ att[k].channel \notin rooms \cup {None}}
             ended == {c \in RecordCalls(u) : suspended[u][c].channel \notin rooms}
             kept == [c \in Connections |->
                        IF c \in ended THEN [suspended[u][c] EXCEPT !.channel = None]
                                       ELSE suspended[u][c]]
  <2>1. att' = [k \in Sockets |-> IF k \in evicted THEN [att[k] EXCEPT !.channel = None]
                                                   ELSE att[k]]
    BY <1>19 DEF Refresh
  <2>2. \A k \in evicted : att[k] \in Attachment
    BY SocketAttachment DEF Listed
  <2>3. att' \in [Sockets -> Attachment \cup {NoAtt}]
    BY <2>1, <2>2, AttachmentWithChannel DEF TypeOK
  <2>4. \A k \in Sockets : att'[k] = att[k] \/ (k \in evicted /\ att'[k] \in Attachment /\ att'[k].user = att[k].user)
    BY <2>1, <2>2, AttachmentWithChannel
  <2>5. \A c \in ended : suspended[u][c] \in SuspendedRecord
    BY DEF RecordCalls, TypeOK
  <2>6. kept \in [Connections -> SuspendedRecord \cup {NoRecord}]
    <3>1. ASSUME NEW c \in Connections, c \in ended
          PROVE  [suspended[u][c] EXCEPT !.channel = None] \in SuspendedRecord
      BY <3>1, <2>5, RecordWith
    <3>2. \A c \in Connections : suspended[u][c] \in SuspendedRecord \cup {NoRecord}
      BY DEF TypeOK
    <3> HIDE DEF ended
    <3>3. QED
      BY <3>1, <3>2
  <2>7. suspended' = [suspended EXCEPT ![u] = kept]
    BY <1>19 DEF Refresh
  <2>8. suspended' \in [Users -> [Connections -> SuspendedRecord \cup {NoRecord}]]
    BY <2>6, <2>7 DEF TypeOK
  <2>9. roster' \in [Users -> Channels \cup {None}] /\ misled' \in SUBSET Users
    BY <1>19 DEF Refresh, MisledIf, TypeOK
  <2>10. UNCHANGED <<status, alarmVars, blind>>
    BY <1>19 DEF Refresh
  <2>11. \A k \in evicted : status[k] # "free"
    BY DEF Listed
  <2> HIDE DEF evicted, ended, kept
  <2>12. QED
    BY <2>3, <2>4, <2>8, <2>9, <2>10, <2>11 DEF TypeOK, HeldListed, Listed, Statuses, alarmVars
<1>20. ASSUME Snapshot
      PROVE  TypeOK' /\ HeldListed'
  BY <1>20 DEF Snapshot, TypeOK, HeldListed, Listed, socketVars, alarmVars
<1>21. CASE UNCHANGED vars
  BY <1>21 DEF vars, socketVars, alarmVars, history, TypeOK, HeldListed, Listed
<1>22. QED
  BY <1>1, <1>2, <1>3, <1>4, <1>5, <1>6, <1>7, <1>8, <1>9, <1>10, <1>11, <1>12, <1>13,
     <1>14, <1>15, <1>16, <1>17, <1>18, <1>19, <1>20, <1>21
     DEF Next, Disconnect, LimitExceeded

(* The type invariant of the connections of ServerRealtime. *)
THEOREM TypeCorrect == Spec => []TypeOK
<1>1. Init => TypeOK /\ HeldListed
  BY TypeInit
<1>2. TypeOK /\ HeldListed /\ [Next]_vars => (TypeOK /\ HeldListed)'
  BY TypeStep
<1>3. QED
  BY <1>1, <1>2, PTL DEF Spec

-----------------------------------------------------------------------------
(* A superseded transport is a closing one, and the alarm never holds the   *)
(* attachment of one.  Without this, an owner that findCallOwner finds      *)
(* might not be the carrier of its connection.                              *)
Superseded ==
  /\ \A k \in Sockets : status[k] # "free" /\ att[k].dead => status[k] = "closing"
  /\ alarm = "checking" => ~copy.dead

(* OneCarrier and LeaseExclusive are inductive together with it.            *)
LeaseInv == TypeOK /\ HeldListed /\ Superseded /\ OneCarrier /\ LeaseExclusive

(* A step that moves no connection, and adds no record, keeps OneCarrier.   *)
LEMMA CarriersKept ==
  ASSUME OneCarrier, blind \subseteq blind',
         \A k \in Sockets : Carrier(k)' => /\ Carrier(k)
                                          /\ att'[k].user = att[k].user
                                          /\ att'[k].conn = att[k].conn,
         \A u \in Users, c \in Connections :
           suspended'[u][c] # NoRecord => suspended[u][c] # NoRecord,
         \A k \in Sockets : Carrier(k) => att[k].conn \in Connections
  PROVE  OneCarrier'
BY DEF OneCarrier

(* A step that adds no call keeps the lease. *)
LEMMA CallsKept ==
  ASSUME LeaseExclusive, blind \subseteq blind',
         \A u \in Users : /\ SocketCalls(u)' \subseteq SocketCalls(u)
                         /\ RecordCalls(u)' \subseteq RecordCalls(u)
  PROVE  LeaseExclusive'
BY DEF LeaseExclusive

(* The alarm loop leaves Superseded as it finds it. *)
LEMMA NextCheckSuperseded ==
  ASSUME TypeOK, NEW rest \in SUBSET Sockets, NEW isSet, NextCheck(rest, isSet),
         \A k \in Sockets : status'[k] # "free" /\ att'[k].dead => status'[k] = "closing",
         \A k \in Sockets : status'[k] # "free" => att'[k].dead \in BOOLEAN
  PROVE  Superseded'
BY DEF NextCheck, Superseded
(* The upgrades. *)
LEMMA LeaseFetchNew ==
  ASSUME LeaseInv, NEW k \in Sockets, NEW u \in Users, NEW c \in Connections,
         FetchNew(u, k, c)
  PROVE  Superseded' /\ OneCarrier' /\ LeaseExclusive'
<1> DEFINE a == [user |-> u, conn |-> c, epoch |-> 1, channel |-> None, dead |-> FALSE]
<1> USE DEF LeaseInv
<1>1. /\ \A x \in Sockets : /\ att'[x] = IF x = k THEN a ELSE att[x]
                           /\ status'[x] = IF x = k THEN "pending" ELSE status[x]
      /\ status[k] = "free"
      /\ UNCHANGED <<suspended, alarm, copy, blind>>
  BY DEF FetchNew, Upgrading, alarmVars, history, TypeOK
<1>2. /\ \A x \in Sockets : status[x] # "free" => att[x].conn # c
      /\ \A v \in Users : suspended[v][c] = NoRecord
  BY DEF FetchNew, FreshConnection
<1>3. Superseded'
  BY <1>1 DEF Superseded
<1>4. OneCarrier'
  BY <1>1, <1>2 DEF OneCarrier, Carrier
<1>5. \A v \in Users : /\ SocketCalls(v)' \subseteq SocketCalls(v)
                      /\ RecordCalls(v)' \subseteq RecordCalls(v)
  BY <1>1 DEF SocketCalls, RecordCalls, Carrier
<1>6. QED
  BY <1>1, <1>3, <1>4, <1>5, CallsKept

LEMMA LeaseFetchResuming ==
  ASSUME LeaseInv, NEW k \in Sockets, NEW u \in Users, NEW c \in Connections, NEW e \in Nat,
         FetchResuming(u, k, c, e)
  PROVE  Superseded' /\ OneCarrier' /\ LeaseExclusive'
<1> DEFINE a == [user |-> u, conn |-> c, epoch |-> e,
                 channel |-> suspended[u][c].channel, dead |-> FALSE]
<1> USE DEF LeaseInv
<1>1. /\ \A x \in Sockets : /\ att'[x] = IF x = k THEN a ELSE att[x]
                           /\ status'[x] = IF x = k THEN "pending" ELSE status[x]
      /\ status[k] = "free"
      /\ UNCHANGED <<alarm, copy, blind>>
  BY DEF FetchResuming, Upgrading, alarmVars, history, TypeOK
<1>2. /\ suspended[u][c] # NoRecord
      /\ \A v \in Users, d \in Connections :
           suspended'[v][d] = IF v = u /\ d = c THEN NoRecord ELSE suspended[v][d]
  BY DEF FetchResuming, LiveRecord, TypeOK
<1>3. Superseded'
  BY <1>1 DEF Superseded
<1>4. OneCarrier'
  <2>1. \A x \in Sockets : Carrier(x) => att[x].conn \in Connections
    BY SocketAttachment DEF Carrier, Attachment
  <2>2. u \notin blind => \A x \in Sockets : ~(Carrier(x) /\ att[x].user = u /\ att[x].conn = c)
    BY <1>2 DEF OneCarrier
  <2>3. \A x \in Sockets : Carrier(x)' => x = k \/ Carrier(x)
    BY <1>1 DEF Carrier
  <2>4. QED
    BY <1>1, <1>2, <2>1, <2>2, <2>3 DEF OneCarrier
<1>5. LeaseExclusive'
  BY <1>1, <1>2 DEF LeaseExclusive, SocketCalls, RecordCalls, Carrier
<1>6. QED
  BY <1>3, <1>4, <1>5

LEMMA LeaseFetchReplacing ==
  ASSUME LeaseInv, NEW k \in Sockets, NEW j \in Sockets, NEW e \in Nat,
         FetchReplacing(k, j, e)
  PROVE  Superseded' /\ OneCarrier' /\ LeaseExclusive'
<1> DEFINE a == [att[j] EXCEPT !.epoch = e, !.dead = FALSE]
           b == [att[j] EXCEPT !.dead = TRUE]
<1> USE DEF LeaseInv
<1>1. /\ status[j] = "open" /\ status[k] = "free" /\ j # k
      /\ \A x \in Sockets :
           /\ att'[x] = IF x = k THEN a ELSE IF x = j THEN b ELSE att[x]
           /\ status'[x] = IF x = k THEN "pending" ELSE IF x = j THEN "closing" ELSE status[x]
      /\ UNCHANGED <<suspended, alarm, copy, blind>>
  BY DEF FetchReplacing, alarmVars, history, TypeOK
<1>2. /\ a.user = att[j].user /\ a.conn = att[j].conn /\ ~a.dead
      /\ a.channel = att[j].channel /\ b.dead
  BY <1>1, SocketAttachment, AttachmentDead, AttachmentWithEpoch
<1>3. ~att[j].dead
  BY <1>1 DEF Superseded
<1> HIDE DEF a, b
<1>4. Superseded'
  BY <1>1, <1>2 DEF Superseded
<1>5. OneCarrier'
  BY <1>1, <1>2, <1>3 DEF OneCarrier, Carrier
<1>6. LeaseExclusive'
  BY <1>1, <1>2, <1>3 DEF LeaseExclusive, SocketCalls, RecordCalls, Carrier
<1>7. QED
  BY <1>4, <1>5, <1>6

(* Joining: without a hidden call, what findCallOwner sees is all there is. *)
LEMMA LeaseJoin ==
  ASSUME LeaseInv, NEW k \in Sockets, NEW ch \in Channels, Join(k, ch)
  PROVE  Superseded' /\ OneCarrier' /\ LeaseExclusive'
<1> DEFINE a == [att[k] EXCEPT !.channel = ch]
<1> USE DEF LeaseInv
<1>0. status[k] # "free" /\ att[k].user \in Users /\ att[k].conn \in Connections
  BY SocketAttachment DEF Join, Listed, Attachment
<1> PICK u \in Users, c \in Connections : u = att[k].user /\ c = att[k].conn
  BY <1>0
<1>1. /\ status[k] # "free" /\ u = att[k].user /\ c = att[k].conn
      /\ a.user = u /\ a.conn = c /\ a.dead = att[k].dead /\ a.channel = ch
  BY <1>0, SocketAttachment, AttachmentWithChannel
<1>2. /\ \A x \in Sockets : att'[x] = IF x = k THEN a ELSE att[x]
      /\ UNCHANGED <<status, suspended, alarm, copy>>
      /\ blind' = IF HiddenCall(u, k) THEN blind \cup {u} ELSE blind
  BY DEF Join, Overlooked, BlindIf, alarmVars, TypeOK
<1>3. \/ OpenCalls(u) = {} /\ (LiveRecordCalls(u) = {} \/ c \in LiveRecordCalls(u))
      \/ \E j \in OpenCalls(u) : att[j].conn = c
  BY DEF Join
<1> HIDE DEF a
<1>4. Superseded'
  BY <1>1, <1>2 DEF Superseded
<1>5. OneCarrier'
  BY <1>1, <1>2, CarriersKept, SocketAttachment DEF Carrier, Attachment
<1>6. CASE HiddenCall(u, k)
  <2>1. \A v \in Users \ {u} : /\ SocketCalls(v)' \subseteq SocketCalls(v)
                              /\ RecordCalls(v)' \subseteq RecordCalls(v)
    BY <1>1, <1>2 DEF SocketCalls, RecordCalls, Carrier
  <2>2. QED
    BY <1>2, <1>4, <1>5, <1>6, <2>1 DEF LeaseExclusive
<1>7. CASE ~HiddenCall(u, k)
  <2>1. \A v \in Users \ {u} : /\ SocketCalls(v)' \subseteq SocketCalls(v)
                              /\ RecordCalls(v)' \subseteq RecordCalls(v)
    BY <1>1, <1>2 DEF SocketCalls, RecordCalls, Carrier
  <2>2. /\ SocketCalls(u) \ {k} \subseteq OpenCalls(u)
        /\ RecordCalls(u) = LiveRecordCalls(u)
    BY <1>7 DEF HiddenCall, SocketCalls, OpenCalls, LiveRecordCalls
  <2>3. OpenCalls(u) \subseteq SocketCalls(u)
    BY DEF OpenCalls, SocketCalls, Carrier, Superseded
  <2>4. SocketCalls(u)' \subseteq SocketCalls(u) \cup {k} /\ RecordCalls(u)' = RecordCalls(u)
    BY <1>1, <1>2 DEF SocketCalls, RecordCalls, Carrier
  <2>5. k \in SocketCalls(u)' => Carrier(k)
    BY <1>1, <1>2 DEF SocketCalls, Carrier
  <2>6. ASSUME u \notin blind
        PROVE  /\ \A i, j \in SocketCalls(u)' : i = j
               /\ SocketCalls(u)' = {} \/ RecordCalls(u)' = {}
               /\ \A d1, d2 \in RecordCalls(u)' : d1 = d2
    <3>1. CASE OpenCalls(u) = {} /\ (LiveRecordCalls(u) = {} \/ c \in LiveRecordCalls(u))
      <4>1. SocketCalls(u)' \subseteq {k}
        BY <2>2, <2>4, <3>1
      <4>2. Carrier(k) => c \notin RecordCalls(u)
        BY <1>1, <2>6 DEF OneCarrier, RecordCalls
      <4>3. QED
        BY <2>2, <2>4, <2>5, <2>6, <3>1, <4>1, <4>2 DEF LeaseExclusive
    <3>2. CASE \E j \in OpenCalls(u) : att[j].conn = c
      <4>1. PICK j \in OpenCalls(u) : att[j].conn = c
        BY <3>2
      <4>2. SocketCalls(u) = {j} /\ RecordCalls(u) = {}
        BY <1>1, <2>3, <2>6, <4>1 DEF LeaseExclusive
      <4>3. Carrier(k) => k = j
        BY <1>1, <2>6, <4>1, <4>2 DEF OneCarrier, SocketCalls
      <4>4. QED
        BY <2>4, <2>5, <4>2, <4>3
    <3>3. QED
      BY <1>3, <3>1, <3>2
  <2>7. QED
    <3>1. blind' = blind
      BY <1>2, <1>7
    <3>2. ASSUME NEW v \in Users \ blind
          PROVE  /\ \A i, j \in SocketCalls(v)' : i = j
                 /\ \A d1, d2 \in RecordCalls(v)' : d1 = d2
                 /\ SocketCalls(v)' = {} \/ RecordCalls(v)' = {}
      <4>1. CASE v = u
        BY <2>6, <4>1
      <4>2. CASE v # u
        BY <2>1, <4>2 DEF LeaseExclusive
      <4>3. QED
        BY <4>1, <4>2
    <3>3. LeaseExclusive'
      BY <3>1, <3>2 DEF LeaseExclusive
    <3>4. QED
      BY <1>4, <1>5, <3>3
<1>8. QED
  BY <1>6, <1>7

(* Takeover: the lease leaves the one place it was in. *)
LEMMA LeaseTakeoverSocket ==
  ASSUME LeaseInv, NEW k \in Sockets, NEW ch \in Channels, NEW j \in Sockets,
         TakeoverSocket(k, ch, j)
  PROVE  Superseded' /\ OneCarrier' /\ LeaseExclusive'
<1> DEFINE a == [att[k] EXCEPT !.channel = ch]
           b == [att[j] EXCEPT !.channel = None]
<1> USE DEF LeaseInv
<1>0. /\ status[k] # "free" /\ status[j] = "open" /\ j # k
      /\ att[j].user = att[k].user /\ att[j].channel # None
      /\ att[k].user \in Users
  BY SocketAttachment DEF TakeoverSocket, OpenCalls, Listed, Attachment
<1> PICK u \in Users : u = att[k].user
  BY <1>0
<1>1. /\ a.user = u /\ a.conn = att[k].conn /\ a.dead = att[k].dead /\ a.channel = ch
      /\ b.user = u /\ b.conn = att[j].conn /\ b.dead = att[j].dead /\ b.channel = None
  BY <1>0, SocketAttachment, AttachmentWithChannel
<1>2. /\ \A x \in Sockets : att'[x] = IF x = k THEN a ELSE IF x = j THEN b ELSE att[x]
      /\ UNCHANGED <<status, suspended, alarm, copy>>
      /\ blind \subseteq blind'
  BY <1>0 DEF TakeoverSocket, Overlooked, BlindIf, alarmVars, TypeOK
<1> HIDE DEF a, b
<1>3. Superseded'
  BY <1>0, <1>1, <1>2 DEF Superseded
<1>4. OneCarrier'
  BY <1>0, <1>1, <1>2, CarriersKept, SocketAttachment DEF Carrier, Attachment
<1>5. j \in SocketCalls(u)
  BY <1>0 DEF Superseded, SocketCalls, Carrier
<1>6. u \notin blind => SocketCalls(u) = {j} /\ RecordCalls(u) = {}
  BY <1>5 DEF LeaseExclusive
<1>7. \A v \in Users : RecordCalls(v)' = RecordCalls(v)
  BY <1>2 DEF RecordCalls
<1>8. /\ SocketCalls(u)' \subseteq (SocketCalls(u) \ {j}) \cup {k}
      /\ \A v \in Users \ {u} : SocketCalls(v)' \subseteq SocketCalls(v)
  BY <1>0, <1>1, <1>2 DEF SocketCalls, Carrier
<1>9. ASSUME NEW v \in Users \ blind'
      PROVE  /\ \A x, y \in SocketCalls(v)' : x = y
             /\ \A d1, d2 \in RecordCalls(v)' : d1 = d2
             /\ SocketCalls(v)' = {} \/ RecordCalls(v)' = {}
  <2>1. v \notin blind
    BY <1>2
  <2>2. CASE v = u
    BY <1>6, <1>7, <1>8, <2>1, <2>2
  <2>3. CASE v # u
    BY <1>7, <1>8, <2>1, <2>3 DEF LeaseExclusive
  <2>4. QED
    BY <2>2, <2>3
<1>10. QED
  BY <1>3, <1>4, <1>9 DEF LeaseExclusive

LEMMA LeaseTakeoverRecord ==
  ASSUME LeaseInv, NEW k \in Sockets, NEW ch \in Channels, NEW c \in Connections,
         TakeoverRecord(k, ch, c)
  PROVE  Superseded' /\ OneCarrier' /\ LeaseExclusive'
<1> DEFINE a == [att[k] EXCEPT !.channel = ch]
<1> USE DEF LeaseInv
<1>0. /\ status[k] # "free" /\ att[k].user \in Users
      /\ c \in RecordCalls(att[k].user)
  BY SocketAttachment DEF TakeoverRecord, LiveRecordCalls, Listed, Attachment
<1> PICK u \in Users : u = att[k].user
  BY <1>0
<1>1. a.user = u /\ a.conn = att[k].conn /\ a.dead = att[k].dead /\ a.channel = ch
  BY <1>0, SocketAttachment, AttachmentWithChannel
<1>2. /\ \A x \in Sockets : att'[x] = IF x = k THEN a ELSE att[x]
      /\ \A v \in Users, d \in Connections :
           suspended'[v][d] = IF v = u /\ d = c THEN NoRecord ELSE suspended[v][d]
      /\ UNCHANGED <<status, alarm, copy>>
      /\ blind \subseteq blind'
  BY <1>0 DEF TakeoverRecord, Overlooked, BlindIf, alarmVars, TypeOK
<1> HIDE DEF a
<1>3. Superseded'
  BY <1>0, <1>1, <1>2 DEF Superseded
<1>4. OneCarrier'
  BY <1>0, <1>1, <1>2, CarriersKept, SocketAttachment DEF Carrier, Attachment
<1>5. u \notin blind => SocketCalls(u) = {} /\ RecordCalls(u) = {c}
  BY <1>0 DEF LeaseExclusive
<1>6. \A v \in Users : RecordCalls(v)' \subseteq RecordCalls(v)
  BY <1>2 DEF RecordCalls
<1>7. c \notin RecordCalls(u)'
  BY <1>2 DEF RecordCalls
<1>8. /\ SocketCalls(u)' \subseteq SocketCalls(u) \cup {k}
      /\ \A v \in Users \ {u} : SocketCalls(v)' \subseteq SocketCalls(v)
  BY <1>0, <1>1, <1>2 DEF SocketCalls, Carrier
<1>9. ASSUME NEW v \in Users \ blind'
      PROVE  /\ \A x, y \in SocketCalls(v)' : x = y
             /\ \A d1, d2 \in RecordCalls(v)' : d1 = d2
             /\ SocketCalls(v)' = {} \/ RecordCalls(v)' = {}
  <2>1. v \notin blind
    BY <1>2
  <2>2. CASE v = u
    BY <1>5, <1>6, <1>7, <1>8, <2>1, <2>2
  <2>3. CASE v # u
    BY <1>6, <1>8, <2>1, <2>3 DEF LeaseExclusive
  <2>4. QED
    BY <2>2, <2>3
<1>10. QED
  BY <1>3, <1>4, <1>9 DEF LeaseExclusive

(* Suspension: the connection moves from the socket to the storage. *)
LEMMA LeaseClosedAbnormally ==
  ASSUME LeaseInv, NEW k \in Sockets, ClosedAbnormally(k)
  PROVE  Superseded' /\ OneCarrier' /\ LeaseExclusive'
<1> USE DEF LeaseInv
<1>0. Carrier(k) /\ att[k].user \in Users /\ att[k].conn \in Connections
  BY SocketAttachment DEF ClosedAbnormally, Listed, Carrier, Attachment
<1> PICK u \in Users, c \in Connections : u = att[k].user /\ c = att[k].conn
  BY <1>0
<1> DEFINE r == [epoch |-> att[k].epoch, channel |-> att[k].channel, expired |-> FALSE]
<1>1. r \in SuspendedRecord
  BY <1>0, SocketAttachment DEF Carrier, Attachment, SuspendedRecord
<1>2. r # NoRecord /\ r.channel = att[k].channel
  BY <1>1, Placeholders
<1>3. /\ \A x \in Sockets :
           /\ x # k => att'[x] = att[x] /\ status'[x] = status[x]
           /\ status'[k] = "free"
      /\ \A v \in Users, d \in Connections :
           suspended'[v][d] = IF v = u /\ d = c THEN r ELSE suspended[v][d]
      /\ UNCHANGED <<alarm, copy, blind>>
  BY DEF ClosedAbnormally, Gone, history, TypeOK
<1> HIDE DEF r
<1>4. Superseded'
  BY <1>3 DEF Superseded
<1>5. OneCarrier'
  <2>1. \A x \in Sockets : Carrier(x)' => x # k /\ Carrier(x)
    BY <1>3 DEF Carrier
  <2>2. \A x \in Sockets : Carrier(x) => att[x].conn \in Connections
    BY SocketAttachment DEF Carrier, Attachment
  <2>3. u \notin blind =>
          \A x \in Sockets : Carrier(x) /\ att[x].user = u /\ att[x].conn = c => x = k
    BY <1>0 DEF OneCarrier
  <2>4. QED
    BY <1>3, <2>1, <2>2, <2>3 DEF OneCarrier
<1>6. \A v \in Users : SocketCalls(v)' = SocketCalls(v) \ {k}
  BY <1>3 DEF SocketCalls, Carrier
<1>7. /\ \A v \in Users \ {u} : RecordCalls(v)' = RecordCalls(v)
      /\ RecordCalls(u)' \subseteq RecordCalls(u) \cup {c}
      /\ k \notin SocketCalls(u) => RecordCalls(u)' \subseteq RecordCalls(u)
  BY <1>0, <1>2, <1>3 DEF RecordCalls, SocketCalls
<1>8. ASSUME NEW v \in Users \ blind
      PROVE  /\ \A x, y \in SocketCalls(v)' : x = y
             /\ \A d1, d2 \in RecordCalls(v)' : d1 = d2
             /\ SocketCalls(v)' = {} \/ RecordCalls(v)' = {}
  BY <1>6, <1>7 DEF LeaseExclusive
<1>9. QED
  BY <1>3, <1>4, <1>5, <1>8 DEF LeaseExclusive

(* Writing back an older attachment marks its user blind. *)
LEMMA LeaseSessionValid ==
  ASSUME LeaseInv, SessionValid
  PROVE  Superseded' /\ OneCarrier' /\ LeaseExclusive'
<1> USE DEF LeaseInv
<1>1. /\ UNCHANGED <<status, suspended>>
      /\ NextCheck(todo, graceAlarm)
      /\ att' = IF held = None THEN att ELSE [att EXCEPT ![held] = copy]
      /\ blind' = IF held # None /\ att' # att THEN blind \cup {copy.user} ELSE blind
  BY DEF SessionValid, BlindIf
<1>2. /\ alarm = "checking" /\ copy \in Attachment /\ ~copy.dead
      /\ held # None => held \in Sockets /\ att[held].user = copy.user
  BY DEF SessionValid, TypeOK, Superseded, HeldListed
<1>3. /\ \A x \in Sockets : status'[x] # "free" /\ att'[x].dead => status'[x] = "closing"
      /\ \A x \in Sockets : status'[x] # "free" => att'[x].dead \in BOOLEAN
  BY <1>1, <1>2, SocketAttachment DEF Superseded, Attachment, TypeOK
<1>4. Superseded'
  BY <1>1, <1>3, NextCheckSuperseded DEF TypeOK
<1>5. CASE att' = att
  <2>1. OneCarrier'
    BY <1>1, <1>5 DEF OneCarrier, Carrier
  <2>2. LeaseExclusive'
    BY <1>1, <1>5 DEF LeaseExclusive, SocketCalls, RecordCalls, Carrier
  <2>3. QED
    BY <1>4, <2>1, <2>2
<1>6. CASE att' # att
  <2>1. /\ \A x \in Sockets : att'[x] # att[x] => att[x].user = copy.user /\ att'[x].user = copy.user
        /\ blind' = blind \cup {copy.user}
    BY <1>1, <1>2, <1>6 DEF TypeOK
  <2>2. OneCarrier'
    BY <1>1, <2>1 DEF OneCarrier, Carrier
  <2>3. \A v \in Users \ blind' : /\ SocketCalls(v)' = SocketCalls(v)
                                 /\ RecordCalls(v)' = RecordCalls(v)
    BY <1>1, <2>1 DEF SocketCalls, RecordCalls, Carrier
  <2>4. LeaseExclusive'
    BY <2>1, <2>3 DEF LeaseExclusive
  <2>5. QED
    BY <1>4, <2>2, <2>4
<1>7. QED
  BY <1>5, <1>6

(* A step that moves no connection to another place. *)
Settled ==
  /\ blind \subseteq blind'
  /\ \A k \in Sockets : Carrier(k)' => /\ Carrier(k)
                                       /\ att'[k].user = att[k].user
                                       /\ att'[k].conn = att[k].conn
                                       /\ att'[k].epoch = att[k].epoch
  /\ \A u \in Users, c \in Connections :
       suspended'[u][c] # NoRecord => suspended[u][c] # NoRecord

(* And one that besides gives nobody a call: what the remaining steps are.  *)
Calm ==
  /\ Settled
  /\ \A k \in Sockets : Carrier(k)' /\ att'[k].channel # None => att[k].channel # None
  /\ \A u \in Users, c \in Connections :
       suspended'[u][c] # NoRecord /\ suspended'[u][c].channel # None
         => suspended[u][c].channel # None

LEMMA LeaseCalm ==
  ASSUME LeaseInv, Calm
  PROVE  OneCarrier' /\ LeaseExclusive'
<1>1. OneCarrier'
  BY CarriersKept, SocketAttachment DEF LeaseInv, Calm, Settled, Carrier, Attachment
<1>2. \A u \in Users : /\ SocketCalls(u)' \subseteq SocketCalls(u)
                      /\ RecordCalls(u)' \subseteq RecordCalls(u)
  BY DEF Calm, Settled, SocketCalls, RecordCalls
<1>3. QED
  BY <1>1, <1>2, CallsKept DEF LeaseInv, Calm, Settled

(* The steps that leave every connection and call where it is, or end them. *)
CalmStep ==
  \/ \E k \in Sockets : \/ FetchAccept(k) \/ FetchFail(k) \/ Leave(k) \/ LimitExceeded(k)
                        \/ ClosedSuperseded(k) \/ ClosedNormally(k)
  \/ \E u \in Users : \/ Disconnect(u)
                      \/ \E c \in Connections : Expire(u, c)
                      \/ \E rooms \in SUBSET Channels : Refresh(u, rooms)
  \/ AlarmFires \/ SessionInvalid \/ AlarmFails \/ Snapshot \/ UNCHANGED vars

LEMMA CalmSteps ==
  ASSUME LeaseInv, CalmStep
  PROVE  Superseded' /\ Calm
<1>a. TypeOK /\ Superseded
  BY DEF LeaseInv
<1>b. \A k \in Sockets : status[k] # "free" => att[k].dead \in BOOLEAN
  BY <1>a, SocketAttachment DEF Attachment
<1>1. ASSUME NEW k \in Sockets, FetchAccept(k)
      PROVE  Superseded' /\ Calm
  BY <1>1, <1>a DEF FetchAccept, Superseded, Calm, Settled, Carrier, TypeOK, history
<1>2. ASSUME NEW k \in Sockets, FetchFail(k)
      PROVE  Superseded' /\ Calm
  BY <1>2, <1>a DEF FetchFail, Superseded, Calm, Settled, Carrier, TypeOK, alarmVars
<1>3. ASSUME NEW k \in Sockets, Leave(k)
      PROVE  Superseded' /\ Calm
  <2> DEFINE a == [att[k] EXCEPT !.channel = None]
  <2>1. a.user = att[k].user /\ a.conn = att[k].conn /\ a.epoch = att[k].epoch
       /\ a.dead = att[k].dead /\ a.channel = None
    BY <1>3, <1>a, SocketAttachment, AttachmentWithChannel DEF Leave, Listed
  <2>2. /\ \A x \in Sockets : att'[x] = IF x = k THEN a ELSE att[x]
        /\ UNCHANGED <<status, suspended, alarm, copy, blind>>
    BY <1>3, <1>a DEF Leave, alarmVars, TypeOK
  <2> HIDE DEF a
  <2>3. QED
    BY <1>a, <2>1, <2>2 DEF Superseded, Calm, Settled, Carrier
<1>4. ASSUME NEW closed \in SUBSET Sockets, Close(closed), \A k \in closed : status[k] = "open"
      PROVE  Superseded' /\ Calm
  BY <1>4, <1>a DEF Close, Superseded, Calm, Settled, Carrier, TypeOK, alarmVars, history
<1>5. ASSUME NEW k \in Sockets, ClosedSuperseded(k) \/ ClosedNormally(k)
      PROVE  Superseded' /\ Calm
  BY <1>5, <1>a DEF ClosedSuperseded, ClosedNormally, Gone, Superseded, Calm, Settled, Carrier, TypeOK, history
<1>6. ASSUME NEW u \in Users, NEW c \in Connections, Expire(u, c)
      PROVE  Superseded' /\ Calm
  <2> DEFINE r == [suspended[u][c] EXCEPT !.expired = TRUE]
  <2>1. suspended[u][c] # NoRecord /\ r.channel = suspended[u][c].channel
    BY <1>6, <1>a, RecordWith DEF Expire, LiveRecord, TypeOK
  <2>2. /\ \A v \in Users, d \in Connections :
             suspended'[v][d] = IF v = u /\ d = c THEN r ELSE suspended[v][d]
        /\ UNCHANGED <<status, att, alarm, copy, blind>>
    BY <1>6, <1>a DEF Expire, socketVars, alarmVars, history, TypeOK
  <2> HIDE DEF r
  <2>3. QED
    BY <1>a, <2>1, <2>2 DEF Superseded, Calm, Settled, Carrier
<1>7. ASSUME AlarmFires
      PROVE  Superseded' /\ Calm
  <2>1. PICK due \in SUBSET Sockets : NextCheck(due, FALSE)
    BY <1>7 DEF AlarmFires
  <2>2. /\ UNCHANGED <<status, att, blind>>
        /\ \A u \in Users, c \in Connections :
             suspended'[u][c] # NoRecord => suspended'[u][c] = suspended[u][c]
    BY <1>7 DEF AlarmFires, socketVars, history
  <2>3. Superseded'
    BY <1>a, <1>b, <2>1, <2>2, NextCheckSuperseded DEF Superseded
  <2>4. QED
    BY <2>2, <2>3 DEF Calm, Settled, Carrier
<1>8. ASSUME SessionInvalid
      PROVE  Superseded' /\ Calm
  <2>1. /\ UNCHANGED <<att, suspended, blind>>
        /\ \A k \in Sockets : status[k] = "free" => status'[k] = "free"
        /\ \A k \in Sockets : status[k] = "closing" => status'[k] = "closing"
        /\ todo \in SUBSET Sockets
        /\ NextCheck(todo, graceAlarm)
    BY <1>8, <1>a DEF SessionInvalid, history, TypeOK
  <2>2. Superseded'
    BY <1>a, <1>b, <2>1, NextCheckSuperseded DEF Superseded
  <2>3. QED
    BY <2>1, <2>2 DEF Calm, Settled, Carrier
<1>9. ASSUME AlarmFails
      PROVE  Superseded' /\ Calm
  BY <1>9, <1>a DEF AlarmFails, Superseded, Calm, Settled, Carrier, socketVars, history
<1>10. ASSUME NEW u \in Users, NEW rooms \in SUBSET Channels, Refresh(u, rooms)
       PROVE  Superseded' /\ Calm
  <2> DEFINE evicted == {k \in Sockets : /\ Listed(k) /\ att[k].user = u
                                         /\ att[k].channel \notin rooms \cup {None}}
             ended == {c \in RecordCalls(u) : suspended[u][c].channel \notin rooms}
             kept == [c \in Connections |->
                        IF c \in ended THEN [suspended[u][c] EXCEPT !.channel = None]
                                       ELSE suspended[u][c]]
  <2>1. /\ att' = [k \in Sockets |-> IF k \in evicted THEN [att[k] EXCEPT !.channel = None]
                                                    ELSE att[k]]
        /\ suspended' = [suspended EXCEPT ![u] = kept]
        /\ UNCHANGED <<status, alarm, copy, blind>>
    BY <1>10 DEF Refresh, alarmVars
  <2>2. ASSUME NEW k \in evicted
        PROVE  /\ [att[k] EXCEPT !.channel = None].user = att[k].user
               /\ [att[k] EXCEPT !.channel = None].conn = att[k].conn
               /\ [att[k] EXCEPT !.channel = None].epoch = att[k].epoch
               /\ [att[k] EXCEPT !.channel = None].dead = att[k].dead
               /\ [att[k] EXCEPT !.channel = None].channel = None
    BY <1>a, SocketAttachment, AttachmentWithChannel DEF Listed
  <2>3. \A c \in ended : /\ suspended[u][c] # NoRecord
                         /\ suspended[u][c].channel # None
    BY DEF RecordCalls
  <2>4. \A v \in Users, c \in Connections :
          \/ suspended'[v][c] = suspended[v][c]
          \/ suspended[v][c] # NoRecord /\ suspended[v][c].channel # None
    BY <1>a, <2>1, <2>3 DEF TypeOK
  <2> HIDE DEF evicted, ended, kept
  <2>5. QED
    BY <1>a, <2>1, <2>2, <2>4 DEF Superseded, Calm, Settled, Carrier
<1>11. ASSUME Snapshot
       PROVE  Superseded' /\ Calm
  BY <1>11, <1>a DEF Snapshot, Superseded, Calm, Settled, Carrier, socketVars, alarmVars
<1>12. CASE UNCHANGED vars
  BY <1>12, <1>a DEF vars, socketVars, alarmVars, history, Superseded, Calm, Settled, Carrier
<1>13. QED
  BY <1>1, <1>2, <1>3, <1>4, <1>5, <1>6, <1>7, <1>8, <1>9, <1>10, <1>11, <1>12
     DEF CalmStep, Disconnect, LimitExceeded

LEMMA LeaseStep == LeaseInv /\ [Next]_vars => LeaseInv'
<1> SUFFICES ASSUME LeaseInv, [Next]_vars
             PROVE  Superseded' /\ OneCarrier' /\ LeaseExclusive'
  BY TypeStep DEF LeaseInv
<1>1. CASE CalmStep
  BY <1>1, CalmSteps, LeaseCalm
<1>2. Epochs \subseteq Nat
  BY EpochBound DEF Epochs
<1>3. QED
  BY <1>1, <1>2, LeaseFetchNew, LeaseFetchResuming, LeaseFetchReplacing, LeaseJoin,
     LeaseTakeoverSocket, LeaseTakeoverRecord, LeaseClosedAbnormally, LeaseSessionValid
     DEF Next, CalmStep

LEMMA LeaseInit == Init => LeaseInv
<1> SUFFICES ASSUME Init PROVE Superseded /\ OneCarrier /\ LeaseExclusive
  BY TypeInit DEF LeaseInv
<1>1. \A u \in Users : SocketCalls(u) = {} /\ RecordCalls(u) = {}
  BY DEF Init, SocketCalls, RecordCalls, Carrier
<1>2. QED
  BY <1>1 DEF Init, Superseded, OneCarrier, LeaseExclusive, Carrier

LEMMA LeaseInvariant == Spec => []LeaseInv
BY LeaseInit, LeaseStep, PTL DEF Spec

(* One connection, one place: for any number of tabs and transports.        *)
THEOREM OneCarrierCorrect == Spec => []OneCarrier
<1>1. LeaseInv => OneCarrier
  BY DEF LeaseInv
<1>2. QED
  BY <1>1, LeaseInvariant, PTL

(* The lease: joining, taking over, suspending, resuming, replacing, losing *)
(* and refreshing leave an account with one call at most, counting the ones *)
(* the lookup cannot see.                                                   *)
THEOREM LeaseCorrect == Spec => []LeaseExclusive
<1>1. LeaseInv => LeaseExclusive
  BY DEF LeaseInv
<1>2. QED
  BY <1>1, LeaseInvariant, PTL

-----------------------------------------------------------------------------
(* What EpochAdvances says of one step. *)
EpochStep ==
  \A u \in Users, c \in Connections : u \notin blind' =>
    /\ \A j, k \in Sockets :
         Carries(j, u, c) /\ Carries(k, u, c)' =>
           att'[k].epoch > att[j].epoch \/ (j = k /\ att'[k].epoch = att[k].epoch)
    /\ \A k \in Sockets :
         /\ suspended[u][c] # NoRecord /\ Carries(k, u, c)' =>
              att'[k].epoch > suspended[u][c].epoch
         /\ Carries(k, u, c) /\ suspended'[u][c] # NoRecord =>
              suspended'[u][c].epoch = att[k].epoch

(* A connection that stays where it is, alone there, keeps its epoch. *)
LEMMA EpochSettled ==
  ASSUME LeaseInv, Settled
  PROVE  EpochStep
<1> SUFFICES ASSUME NEW u \in Users, NEW c \in Connections, u \notin blind'
             PROVE  /\ \A j, k \in Sockets : Carries(j, u, c) /\ Carries(k, u, c)' =>
                         j = k /\ att'[k].epoch = att[k].epoch
                    /\ \A k \in Sockets :
                         /\ ~(suspended[u][c] # NoRecord /\ Carries(k, u, c)')
                         /\ ~(Carries(k, u, c) /\ suspended'[u][c] # NoRecord)
  BY DEF EpochStep
<1>1. u \notin blind
  BY DEF Settled
<1>2. \A k \in Sockets : Carries(k, u, c)' => /\ Carries(k, u, c)
                                              /\ att'[k].epoch = att[k].epoch
  BY DEF Settled, Carries
<1>3. /\ \A j, k \in Sockets : Carries(j, u, c) /\ Carries(k, u, c) => j = k
      /\ \A k \in Sockets : Carries(k, u, c) => suspended[u][c] = NoRecord
  BY <1>1 DEF LeaseInv, OneCarrier, Carries
<1>4. suspended'[u][c] # NoRecord => suspended[u][c] # NoRecord
  BY DEF Settled
<1>5. QED
  BY <1>2, <1>3, <1>4

(* The calls: the connections of their sockets stay. *)
LEMMA CallsSettled ==
  ASSUME LeaseInv, NEW k \in Sockets, NEW ch \in Channels,
         \/ Join(k, ch)
         \/ \E j \in Sockets : TakeoverSocket(k, ch, j)
         \/ \E c \in Connections : TakeoverRecord(k, ch, c)
  PROVE  Settled
<1> DEFINE a == [att[k] EXCEPT !.channel = ch]
<1> USE DEF LeaseInv
<1>1. status[k] # "free"
  BY DEF Join, TakeoverSocket, TakeoverRecord, Listed
<1>2. a.user = att[k].user /\ a.conn = att[k].conn /\ a.epoch = att[k].epoch /\ a.dead = att[k].dead
  BY <1>1, SocketAttachment, AttachmentWithChannel
<1>3. UNCHANGED status /\ blind \subseteq blind'
  BY DEF Join, TakeoverSocket, TakeoverRecord, Overlooked, BlindIf
<1>4. CASE Join(k, ch)
  <2>1. /\ \A x \in Sockets : att'[x] = IF x = k THEN a ELSE att[x]
        /\ UNCHANGED suspended
    BY <1>4 DEF Join, TypeOK
  <2> HIDE DEF a
  <2>2. QED
    BY <1>2, <1>3, <2>1 DEF Settled, Carrier
<1>5. ASSUME NEW j \in Sockets, TakeoverSocket(k, ch, j)
      PROVE  Settled
  <2> DEFINE b == [att[j] EXCEPT !.channel = None]
  <2>1. status[j] = "open" /\ j # k
    BY <1>5 DEF TakeoverSocket, OpenCalls
  <2>2. b.user = att[j].user /\ b.conn = att[j].conn /\ b.epoch = att[j].epoch /\ b.dead = att[j].dead
    BY <2>1, SocketAttachment, AttachmentWithChannel
  <2>3. /\ \A x \in Sockets : att'[x] = IF x = k THEN a ELSE IF x = j THEN b ELSE att[x]
        /\ UNCHANGED suspended
    BY <1>5, <2>1 DEF TakeoverSocket, TypeOK
  <2> HIDE DEF a, b
  <2>4. QED
    BY <1>2, <1>3, <2>2, <2>3 DEF Settled, Carrier
<1>6. ASSUME NEW c \in Connections, TakeoverRecord(k, ch, c)
      PROVE  Settled
  <2>1. /\ \A x \in Sockets : att'[x] = IF x = k THEN a ELSE att[x]
        /\ \A v \in Users, d \in Connections :
             suspended'[v][d] # NoRecord => suspended'[v][d] = suspended[v][d]
    BY <1>6, <1>1, SocketAttachment DEF TakeoverRecord, TypeOK, Attachment
  <2> HIDE DEF a
  <2>2. QED
    BY <1>2, <1>3, <2>1 DEF Settled, Carrier
<1>7. QED
  BY <1>4, <1>5, <1>6

LEMMA EpochMoves ==
  ASSUME LeaseInv, NEW k \in Sockets,
         \/ \E u \in Users, c \in Connections :
              \/ FetchNew(u, k, c)
              \/ \E e \in Nat : FetchResuming(u, k, c, e)
         \/ \E j \in Sockets, e \in Nat : FetchReplacing(k, j, e)
         \/ ClosedAbnormally(k)
  PROVE  EpochStep
<1> USE DEF LeaseInv
<1>0. /\ \A x \in Sockets : Carrier(x) => /\ att[x].user \in Users
                                         /\ att[x].conn \in Connections
      /\ \A v \in Users \ blind, d \in Connections :
           /\ \A x, y \in Sockets : Carries(x, v, d) /\ Carries(y, v, d) => x = y
           /\ \A x \in Sockets : Carries(x, v, d) => suspended[v][d] = NoRecord
  BY SocketAttachment DEF OneCarrier, Carries, Carrier, Attachment
<1>1. ASSUME NEW u \in Users, NEW c \in Connections, FetchNew(u, k, c)
      PROVE  EpochStep
  <2> DEFINE a == [user |-> u, conn |-> c, epoch |-> 1, channel |-> None, dead |-> FALSE]
  <2>1. /\ status[k] = "free"
        /\ \A x \in Sockets : /\ att'[x] = IF x = k THEN a ELSE att[x]
                             /\ status'[x] = IF x = k THEN "pending" ELSE status[x]
        /\ UNCHANGED <<suspended, blind>>
    BY <1>1 DEF FetchNew, Upgrading, history, TypeOK
  <2>2. /\ \A x \in Sockets : ~Carries(x, u, c)
        /\ suspended[u][c] = NoRecord
    BY <1>1 DEF FetchNew, FreshConnection, Carries, Carrier
  <2>3. \A x \in Sockets, v \in Users, d \in Connections : Carries(x, v, d)' =>
          \/ v = u /\ d = c
          \/ Carries(x, v, d) /\ att'[x].epoch = att[x].epoch
    BY <2>1 DEF Carries, Carrier
  <2>4. QED
    BY <1>0, <2>1, <2>2, <2>3 DEF EpochStep
<1>2. ASSUME NEW u \in Users, NEW c \in Connections, NEW e \in Nat, FetchResuming(u, k, c, e)
      PROVE  EpochStep
  <2> DEFINE a == [user |-> u, conn |-> c, epoch |-> e,
                   channel |-> suspended[u][c].channel, dead |-> FALSE]
  <2>1. /\ status[k] = "free" /\ suspended[u][c] # NoRecord /\ e > suspended[u][c].epoch
        /\ \A x \in Sockets : /\ att'[x] = IF x = k THEN a ELSE att[x]
                             /\ status'[x] = IF x = k THEN "pending" ELSE status[x]
        /\ \A v \in Users, d \in Connections :
             suspended'[v][d] = IF v = u /\ d = c THEN NoRecord ELSE suspended[v][d]
        /\ UNCHANGED blind
    BY <1>2 DEF FetchResuming, LiveRecord, Upgrading, history, TypeOK
  <2>2. \A x \in Sockets, v \in Users, d \in Connections : Carries(x, v, d)' =>
          \/ v = u /\ d = c /\ x = k /\ att'[x].epoch = e
          \/ Carries(x, v, d) /\ att'[x].epoch = att[x].epoch
    BY <2>1 DEF Carries, Carrier
  <2>3. u \notin blind => \A x \in Sockets : ~Carries(x, u, c)
    BY <1>0, <2>1
  <2>4. QED
    BY <1>0, <2>1, <2>2, <2>3 DEF EpochStep
<1>3. ASSUME NEW j \in Sockets, NEW e \in Nat, FetchReplacing(k, j, e)
      PROVE  EpochStep
  <2> DEFINE a == [att[j] EXCEPT !.epoch = e, !.dead = FALSE]
             b == [att[j] EXCEPT !.dead = TRUE]
  <2>1. /\ status[j] = "open" /\ status[k] = "free" /\ j # k /\ e > att[j].epoch
        /\ \A x \in Sockets :
             /\ att'[x] = IF x = k THEN a ELSE IF x = j THEN b ELSE att[x]
             /\ status'[x] = IF x = k THEN "pending" ELSE IF x = j THEN "closing" ELSE status[x]
        /\ UNCHANGED <<suspended, blind>>
    BY <1>3 DEF FetchReplacing, history, TypeOK
  <2>2. a.user = att[j].user /\ a.conn = att[j].conn /\ a.epoch = e /\ b.dead
    BY <2>1, SocketAttachment, AttachmentDead, AttachmentWithEpoch
  <2>3. Carrier(j)
    BY <2>1 DEF Carrier, Superseded
  <2> HIDE DEF a, b
  <2>4. \A x \in Sockets, v \in Users, d \in Connections : Carries(x, v, d)' =>
          \/ x = k /\ Carries(j, v, d) /\ att'[x].epoch = e
          \/ x # j /\ Carries(x, v, d) /\ att'[x].epoch = att[x].epoch
    BY <2>1, <2>2, <2>3 DEF Carries, Carrier
  <2>5. QED
    BY <1>0, <2>1, <2>4 DEF EpochStep
<1>4. ASSUME ClosedAbnormally(k)
      PROVE  EpochStep
  <2>1. Carrier(k)
    BY <1>4 DEF ClosedAbnormally, Listed, Carrier
  <2> PICK u \in Users, c \in Connections : u = att[k].user /\ c = att[k].conn
    BY <1>0, <2>1
  <2>2. /\ \A x \in Sockets : x # k => att'[x] = att[x] /\ status'[x] = status[x]
        /\ status'[k] = "free"
        /\ \A v \in Users, d \in Connections :
             IF v = u /\ d = c THEN suspended'[v][d].epoch = att[k].epoch
                              ELSE suspended'[v][d] = suspended[v][d]
        /\ UNCHANGED blind
    BY <1>4 DEF ClosedAbnormally, Gone, history, TypeOK
  <2>3. \A x \in Sockets, v \in Users, d \in Connections : Carries(x, v, d)' =>
          x # k /\ Carries(x, v, d) /\ att'[x].epoch = att[x].epoch
    BY <2>2 DEF Carries, Carrier
  <2>4. Carries(k, u, c)
    BY <2>1 DEF Carries
  <2>5. QED
    BY <1>0, <2>2, <2>3, <2>4 DEF EpochStep
<1>5. QED
  BY <1>1, <1>2, <1>3, <1>4

LEMMA EpochSessionValid ==
  ASSUME LeaseInv, SessionValid
  PROVE  EpochStep
<1> USE DEF LeaseInv
<1>1. /\ UNCHANGED <<status, suspended>>
      /\ att' = IF held = None THEN att ELSE [att EXCEPT ![held] = copy]
      /\ blind' = IF held # None /\ att' # att THEN blind \cup {copy.user} ELSE blind
      /\ held # None => held \in Sockets /\ att[held].user = copy.user
  BY DEF SessionValid, BlindIf, HeldListed, TypeOK
<1>2. ASSUME NEW u \in Users, u \notin blind', NEW k \in Sockets, att[k].user = u \/ att'[k].user = u
      PROVE  att'[k] = att[k]
  BY <1>1, <1>2 DEF TypeOK
<1>3. \A u \in Users \ blind', c \in Connections, k \in Sockets :
        Carries(k, u, c)' => Carries(k, u, c) /\ att'[k].epoch = att[k].epoch
  BY <1>1, <1>2 DEF Carries, Carrier
<1>4. blind \subseteq blind'
  BY <1>1
<1>5. \A v \in Users \ blind, d \in Connections :
        /\ \A x, y \in Sockets : Carries(x, v, d) /\ Carries(y, v, d) => x = y
        /\ \A x \in Sockets : Carries(x, v, d) => suspended[v][d] = NoRecord
  BY DEF OneCarrier, Carries
<1>6. QED
  BY <1>1, <1>3, <1>4, <1>5 DEF EpochStep

(* A transport takes a connection over only with a greater epoch, and what  *)
(* is suspended keeps the epoch it had.                                     *)
THEOREM EpochsCorrect == Spec => EpochAdvances
<1>1. ASSUME LeaseInv, [Next]_vars
      PROVE  EpochStep \/ UNCHANGED vars
  <2>1. CASE CalmStep
    BY <1>1, <2>1, CalmSteps, EpochSettled DEF Calm
  <2>2. Epochs \subseteq Nat
    BY EpochBound DEF Epochs
  <2>3. QED
    BY <1>1, <2>1, <2>2, EpochMoves, CallsSettled, EpochSettled, EpochSessionValid
       DEF Next, CalmStep
<1>2. LeaseInv /\ [Next]_vars => [EpochStep]_vars
  BY <1>1
<1>3. Spec => [][EpochStep]_vars
  BY <1>2, LeaseInvariant, PTL DEF Spec
<1>4. QED
  BY <1>3 DEF EpochAdvances, EpochStep

-----------------------------------------------------------------------------
(* Between a record and its alarm only the handlers that write a record, or *)
(* that end an alarm, matter; both go through ensureAlarm.                  *)
LEMMA GraceStep == TypeOK /\ HeldListed /\ GraceCovered /\ [Next]_vars => GraceCovered'
<1> SUFFICES ASSUME TypeOK, HeldListed, GraceCovered, [Next]_vars
             PROVE  GraceCovered'
  OBVIOUS
<1> DEFINE NoNewRecord == /\ \A u \in Users, c \in Connections : LiveRecord(u, c)' => LiveRecord(u, c)
                          /\ graceAlarm => graceAlarm'
                          /\ alarm' = alarm
<1>1. ASSUME NoNewRecord
      PROVE  GraceCovered'
  BY <1>1 DEF GraceCovered
<1>2. ASSUME EnsureAlarm(graceAlarm, suspended') \/ EnsureAlarm(FALSE, suspended')
      PROVE  GraceCovered'
  BY <1>2 DEF EnsureAlarm, GraceCovered, LiveRecord
<1>3. ASSUME NEW rest \in SUBSET Sockets, NEW isSet \in BOOLEAN, NextCheck(rest, isSet)
      PROVE  GraceCovered'
  BY <1>3 DEF NextCheck, EnsureAlarm, GraceCovered, LiveRecord
<1>4. ASSUME NEW k \in Sockets, FetchAccept(k) \/ ClosedAbnormally(k)
      PROVE  GraceCovered'
  BY <1>2, <1>4 DEF FetchAccept, ClosedAbnormally
<1>5. ASSUME AlarmFires \/ SessionInvalid \/ SessionValid
      PROVE  GraceCovered'
  BY <1>3, <1>5 DEF AlarmFires, SessionInvalid, SessionValid, TypeOK
<1>6. ASSUME AlarmFails
      PROVE  GraceCovered'
  BY <1>6 DEF AlarmFails, GraceCovered
<1>7. ASSUME NEW u \in Users, NEW c \in Connections, Expire(u, c)
      PROVE  NoNewRecord
  <2>1. [suspended[u][c] EXCEPT !.expired = TRUE].expired
    BY <1>7 DEF Expire, LiveRecord, TypeOK, SuspendedRecord
  <2>2. \A v \in Users, d \in Connections :
          suspended'[v][d] = IF v = u /\ d = c THEN [suspended[u][c] EXCEPT !.expired = TRUE]
                                              ELSE suspended[v][d]
    BY <1>7 DEF Expire, TypeOK
  <2>3. QED
    BY <1>7, <2>1, <2>2 DEF Expire, alarmVars, LiveRecord
<1>8. ASSUME NEW u \in Users, NEW rooms \in SUBSET Channels, Refresh(u, rooms)
      PROVE  NoNewRecord
  <2> DEFINE ended == {c \in RecordCalls(u) : suspended[u][c].channel \notin rooms}
             kept == [c \in Connections |->
                        IF c \in ended THEN [suspended[u][c] EXCEPT !.channel = None]
                                       ELSE suspended[u][c]]
  <2>1. /\ suspended' = [suspended EXCEPT ![u] = kept]
        /\ UNCHANGED alarmVars
    BY <1>8 DEF Refresh
  <2>2. \A c \in ended : /\ suspended[u][c] # NoRecord
                         /\ [suspended[u][c] EXCEPT !.channel = None].expired
                               = suspended[u][c].expired
    BY DEF RecordCalls, TypeOK, SuspendedRecord
  <2> HIDE DEF ended
  <2>3. \A v \in Users, c \in Connections : LiveRecord(v, c)' => LiveRecord(v, c)
    BY <2>1, <2>2 DEF LiveRecord, TypeOK
  <2>4. QED
    BY <2>1, <2>3 DEF alarmVars
<1>9. ASSUME NEW k \in Sockets, NEW u \in Users, NEW c \in Connections, NEW e \in Epochs,
             FetchResuming(u, k, c, e)
      PROVE  NoNewRecord
  BY <1>9 DEF FetchResuming, LiveRecord, alarmVars, TypeOK
<1>10. ASSUME NEW k \in Sockets, NEW ch \in Channels, NEW c \in Connections,
              TakeoverRecord(k, ch, c)
       PROVE  NoNewRecord
  <2>1. att[k].user \in Users
    BY <1>10, SocketAttachment DEF TakeoverRecord, Listed, Attachment
  <2>2. QED
    BY <1>10, <2>1 DEF TakeoverRecord, LiveRecord, alarmVars, TypeOK
<1>11. ASSUME NEW k \in Sockets,
              \/ \E u \in Users, c \in Connections : FetchNew(u, k, c)
              \/ \E j \in Sockets, e \in Epochs : FetchReplacing(k, j, e)
              \/ \E ch \in Channels : Join(k, ch) \/ \E j \in Sockets : TakeoverSocket(k, ch, j)
              \/ FetchFail(k) \/ Leave(k) \/ LimitExceeded(k)
              \/ ClosedSuperseded(k) \/ ClosedNormally(k)
       PROVE  NoNewRecord
  <2>1. UNCHANGED <<suspended, graceAlarm, alarm>>
    BY <1>11 DEF FetchNew, FetchReplacing, Join, TakeoverSocket, FetchFail, Leave, LimitExceeded,
                 Close, ClosedSuperseded, ClosedNormally, Gone, alarmVars
  <2>2. QED
    BY <2>1 DEF LiveRecord
<1>12. ASSUME (\E u \in Users : Disconnect(u)) \/ Snapshot \/ UNCHANGED vars
       PROVE  NoNewRecord
  BY <1>12 DEF Disconnect, Close, Snapshot, vars, alarmVars, LiveRecord
<1> HIDE DEF NoNewRecord
<1>13. QED
  BY <1>1, <1>4, <1>5, <1>6, <1>7, <1>8, <1>9, <1>10, <1>11, <1>12 DEF Next

(* No live record waits out its grace period without an alarm. *)
THEOREM GraceCorrect == Spec => []GraceCovered
<1>1. Init => GraceCovered
  BY DEF Init, GraceCovered, LiveRecord
<1>2. Spec => [](TypeOK /\ HeldListed)
  BY TypeInit, TypeStep, PTL DEF Spec
<1>3. QED
  BY <1>1, <1>2, GraceStep, PTL DEF Spec
-----------------------------------------------------------------------------
(* The roster: what the other clients see of an account, proved from the lease: *)
(* since an account has one call, a broadcast that names the account and no   *)
(* connection cannot be about another call of it.                           *)

(* RosterFaithful, of one account. *)
Shown(u) ==
  /\ \A k \in SocketCalls(u) : roster[u] = att[k].channel
  /\ \A c \in RecordCalls(u) :
       \/ roster[u] = suspended[u][c].channel
       \/ suspended[u][c].expired /\ roster[u] = None
  /\ SocketCalls(u) = {} /\ RecordCalls(u) = {} => roster[u] = None

LEMMA RosterShown == RosterFaithful <=> \A u \in Users \ (blind \cup misled) : Shown(u)
BY DEF RosterFaithful, Shown

(* The accounts the proof is about, and what it may use of them. *)
Known(u) == u \in Users /\ u \notin blind /\ u \notin misled

RosterInv == LeaseInv /\ RosterFaithful

LEMMA OneCall ==
  ASSUME RosterInv, NEW u, Known(u)
  PROVE  /\ Shown(u)
         /\ \A k \in SocketCalls(u) : SocketCalls(u) = {k} /\ RecordCalls(u) = {}
         /\ \A c \in RecordCalls(u) : SocketCalls(u) = {} /\ RecordCalls(u) = {c}
BY RosterShown DEF RosterInv, LeaseInv, LeaseExclusive, Known

(* A step that touches neither the calls of u nor what is shown of it. *)
Untouched(u) ==
  /\ roster'[u] = roster[u]
  /\ \A k \in Sockets :
       /\ Carrier(k)' /\ att'[k].user = u <=> Carrier(k) /\ att[k].user = u
       /\ Carrier(k) /\ att[k].user = u => att'[k].channel = att[k].channel
  /\ \A c \in Connections : suspended'[u][c] = suspended[u][c]

LEMMA ShownUntouched ==
  ASSUME NEW u \in Users, Untouched(u), Shown(u)
  PROVE  Shown(u)'
<1>1. SocketCalls(u)' = SocketCalls(u) /\ RecordCalls(u)' = RecordCalls(u)
  BY DEF Untouched, SocketCalls, RecordCalls
<1>2. \A k \in SocketCalls(u) : att'[k].channel = att[k].channel
  BY DEF Untouched, SocketCalls
<1>3. \A c \in RecordCalls(u) : suspended'[u][c] = suspended[u][c]
  BY DEF Untouched, RecordCalls
<1>4. QED
  BY <1>1, <1>2, <1>3 DEF Shown, Untouched

(* The steps that change nothing anyone sees. *)
QuietStep ==
  \/ \E k \in Sockets : \/ \E u \in Users, c \in Connections : FetchNew(u, k, c)
                        \/ FetchAccept(k) \/ LimitExceeded(k) \/ ClosedSuperseded(k)
  \/ \E u \in Users : Disconnect(u)
  \/ SessionInvalid \/ AlarmFails \/ UNCHANGED vars

LEMMA RosterQuiet ==
  ASSUME RosterInv, QuietStep, NEW u, Known(u)'
  PROVE  Shown(u)'
<1> USE DEF RosterInv, LeaseInv
<1>1. ASSUME NEW k \in Sockets, NEW v \in Users, NEW c \in Connections, FetchNew(v, k, c)
      PROVE  /\ SocketCalls(u)' = SocketCalls(u)
             /\ \A x \in SocketCalls(u) : att'[x].channel = att[x].channel
             /\ UNCHANGED <<suspended, roster, history>>
  BY <1>1 DEF FetchNew, Upgrading, SocketCalls, Carrier, history, TypeOK
<1>2. ASSUME NEW k \in Sockets, FetchAccept(k) \/ ClosedSuperseded(k)
      PROVE  Untouched(u) /\ UNCHANGED history
  BY <1>2 DEF FetchAccept, ClosedSuperseded, Gone, Untouched, Carrier, TypeOK
<1>3. ASSUME NEW closed \in SUBSET Sockets, Close(closed), \A k \in closed : status[k] = "open"
      PROVE  Untouched(u) /\ UNCHANGED history
  BY <1>3 DEF Close, Untouched, Carrier, TypeOK
<1>4. ASSUME SessionInvalid \/ AlarmFails \/ UNCHANGED vars
      PROVE  Untouched(u) /\ UNCHANGED history
  BY <1>4 DEF SessionInvalid, AlarmFails, Untouched, Carrier, vars, socketVars, history, TypeOK
<1>5. UNCHANGED history => Known(u) /\ u \in Users /\ Shown(u)
  BY OneCall DEF Known, history
<1>6. ASSUME NEW k \in Sockets, NEW v \in Users, NEW c \in Connections, FetchNew(v, k, c)
      PROVE  Shown(u)'
  <2>1. RecordCalls(u)' = RecordCalls(u)
    BY <1>1, <1>6 DEF RecordCalls
  <2>2. QED
    BY <1>1, <1>5, <1>6, <2>1 DEF Shown
<1>7. QED
  BY <1>2, <1>3, <1>4, <1>5, <1>6, ShownUntouched DEF QuietStep, LimitExceeded, Disconnect

(* The upgrades: a call that moves keeps its room. *)
LEMMA RosterFetchFail ==
  ASSUME RosterInv, NEW k \in Sockets, FetchFail(k), NEW u, Known(u)'
  PROVE  Shown(u)'
<1> USE DEF RosterInv, LeaseInv
<1>1. /\ status[k] = "pending" /\ att[k] \in Attachment
      /\ \A x \in Sockets : x # k => att'[x] = att[x] /\ status'[x] = status[x]
      /\ status'[k] = "free"
      /\ UNCHANGED <<suspended, roster, blind>>
      /\ misled' = IF att[k].channel # None THEN misled \cup {att[k].user} ELSE misled
  BY SocketAttachment DEF FetchFail, MisledIf, TypeOK
<1>2. Known(u)
  BY <1>1 DEF Known
<1>3. SocketCalls(u)' = SocketCalls(u)
  BY <1>1 DEF SocketCalls, Carrier, Known
<1>4. RecordCalls(u)' = RecordCalls(u)
  BY <1>1 DEF RecordCalls
<1>5. \A x \in SocketCalls(u)' : att'[x] = att[x]
  BY <1>1 DEF SocketCalls, Carrier
<1>6. QED
  BY <1>1, <1>2, <1>3, <1>4, <1>5, OneCall DEF Shown

LEMMA RosterFetchReplacing ==
  ASSUME RosterInv, NEW k \in Sockets, NEW j \in Sockets, NEW e \in Nat,
         FetchReplacing(k, j, e), NEW u, Known(u)'
  PROVE  Shown(u)'
<1> DEFINE a == [att[j] EXCEPT !.epoch = e, !.dead = FALSE]
           b == [att[j] EXCEPT !.dead = TRUE]
<1> USE DEF RosterInv, LeaseInv
<1>1. /\ status[j] = "open" /\ status[k] = "free" /\ j # k
      /\ \A x \in Sockets :
           /\ att'[x] = IF x = k THEN a ELSE IF x = j THEN b ELSE att[x]
           /\ status'[x] = IF x = k THEN "pending" ELSE IF x = j THEN "closing" ELSE status[x]
      /\ UNCHANGED <<suspended, roster, blind, misled>>
  BY DEF FetchReplacing, history, TypeOK
<1>2. a.user = att[j].user /\ ~a.dead /\ a.channel = att[j].channel /\ b.dead
  BY <1>1, SocketAttachment, AttachmentDead, AttachmentWithEpoch
<1>3. Known(u) /\ ~att[j].dead
  BY <1>1 DEF Known, Superseded
<1> HIDE DEF a, b
<1>4. RecordCalls(u)' = RecordCalls(u)
  BY <1>1 DEF RecordCalls
<1>5. \A x \in Sockets : x \in SocketCalls(u)' =>
        \/ x \in SocketCalls(u) /\ att'[x].channel = att[x].channel
        \/ x = k /\ j \in SocketCalls(u) /\ att'[x].channel = att[j].channel
  BY <1>1, <1>2, <1>3 DEF SocketCalls, Carrier
<1>6. SocketCalls(u) # {} => SocketCalls(u)' # {}
  <2>1. j \in SocketCalls(u) => k \in SocketCalls(u)'
    BY <1>1, <1>2 DEF SocketCalls, Carrier
  <2>2. \A x \in SocketCalls(u) : x # j => x \in SocketCalls(u)'
    BY <1>1 DEF SocketCalls, Carrier
  <2>3. QED
    BY <2>1, <2>2
<1>7. SocketCalls(u)' \subseteq Sockets
  BY DEF SocketCalls
<1>8. QED
  BY <1>1, <1>3, <1>4, <1>5, <1>6, <1>7, OneCall DEF Shown

LEMMA RosterFetchResuming ==
  ASSUME RosterInv, NEW k \in Sockets, NEW v \in Users, NEW c \in Connections, NEW e \in Nat,
         FetchResuming(v, k, c, e), NEW u, Known(u)'
  PROVE  Shown(u)'
<1> DEFINE a == [user |-> v, conn |-> c, epoch |-> e,
                 channel |-> suspended[v][c].channel, dead |-> FALSE]
<1> USE DEF RosterInv, LeaseInv
<1>1. /\ status[k] = "free" /\ suspended[v][c] # NoRecord /\ ~suspended[v][c].expired
      /\ \A x \in Sockets : /\ att'[x] = IF x = k THEN a ELSE att[x]
                           /\ status'[x] = IF x = k THEN "pending" ELSE status[x]
      /\ \A w \in Users, d \in Connections :
           suspended'[w][d] = IF w = v /\ d = c THEN NoRecord ELSE suspended[w][d]
      /\ UNCHANGED <<roster, blind, misled>>
  BY DEF FetchResuming, LiveRecord, Upgrading, history, TypeOK
<1>2. Known(u)
  BY <1>1 DEF Known
<1>3. CASE u = v /\ suspended[v][c].channel # None
  <2>1. c \in RecordCalls(u)
    BY <1>1, <1>3 DEF RecordCalls
  <2>2. SocketCalls(u) = {} /\ RecordCalls(u) = {c} /\ roster[u] = suspended[u][c].channel
    BY <1>1, <1>2, <1>3, <2>1, OneCall DEF Shown
  <2>3. SocketCalls(u)' = {k} /\ RecordCalls(u)' = {} /\ att'[k].channel = roster[u]
    BY <1>1, <1>2, <1>3, <2>2 DEF SocketCalls, RecordCalls, Carrier, Known
  <2>4. QED
    BY <1>1, <2>3 DEF Shown
<1>4. CASE ~(u = v /\ suspended[v][c].channel # None)
  <2>1. SocketCalls(u)' = SocketCalls(u) /\ RecordCalls(u)' = RecordCalls(u)
    BY <1>1, <1>2, <1>4 DEF SocketCalls, RecordCalls, Carrier, Known
  <2>2. /\ \A x \in SocketCalls(u) : att'[x] = att[x]
        /\ \A d \in RecordCalls(u) : suspended'[u][d] = suspended[u][d]
    BY <1>1, <1>2, <1>4 DEF SocketCalls, RecordCalls, Carrier, Known
  <2>3. QED
    BY <1>1, <1>2, <2>1, <2>2, OneCall DEF Shown
<1>5. QED
  BY <1>3, <1>4

(* What a join leaves is alone: the lease after the step says so. *)
LEMMA ShownAlone ==
  ASSUME RosterInv, [Next]_vars, NEW u, Known(u)', NEW k \in SocketCalls(u)',
         roster'[u] = att'[k].channel
  PROVE  Shown(u)'
<1>1. LeaseInv'
  BY LeaseStep DEF RosterInv
<1>2. SocketCalls(u)' = {k} /\ RecordCalls(u)' = {}
  BY <1>1 DEF LeaseInv, LeaseExclusive, Known
<1>3. QED
  BY <1>2 DEF Shown

LEMMA RosterCalls ==
  ASSUME RosterInv, [Next]_vars, NEW k \in Sockets, NEW ch \in Channels,
         \/ Join(k, ch)
         \/ \E j \in Sockets : TakeoverSocket(k, ch, j)
         \/ \E c \in Connections : TakeoverRecord(k, ch, c),
         NEW u, Known(u)'
  PROVE  Shown(u)'
<1> DEFINE a == [att[k] EXCEPT !.channel = ch]
           v == att[k].user
<1> USE DEF RosterInv, LeaseInv
<1>1. status[k] # "free" /\ att[k] \in Attachment /\ v \in Users
  BY SocketAttachment DEF Join, TakeoverSocket, TakeoverRecord, Listed, Attachment
<1>2. a.user = v /\ a.dead = att[k].dead /\ a.channel = ch /\ ch # None
  BY <1>1, AttachmentWithChannel, Placeholders
<1>3. /\ UNCHANGED status
      /\ blind \subseteq blind'
      /\ misled' = IF att[k].dead THEN misled \cup {v} ELSE misled
      /\ \/ Announce(k, ch, FALSE)
         \/ Announce(k, ch, TRUE)
  BY DEF Join, TakeoverSocket, TakeoverRecord, Overlooked, BlindIf, MisledIf
<1>4. Known(u) /\ (v = u => ~att[k].dead)
  BY <1>3 DEF Known
<1>5. \A j \in Sockets : TakeoverSocket(k, ch, j) => j # k /\ j \in SocketCalls(v)
  BY DEF TakeoverSocket, OpenCalls, SocketCalls, Carrier, Superseded
<1>6. \A c \in Connections : TakeoverRecord(k, ch, c) => c \in RecordCalls(v)
  BY DEF TakeoverRecord, LiveRecordCalls
<1>7. att'[k] = a
  BY <1>1, <1>5 DEF Join, TakeoverSocket, TakeoverRecord, TypeOK
<1>8. CASE v = u
  <2>1. Carrier(k) /\ k \in SocketCalls(u)'
    BY <1>1, <1>2, <1>3, <1>4, <1>7, <1>8 DEF Carrier, SocketCalls
  <2>2. CASE att[k].channel # ch
    <3>1. roster'[u] = ch
      BY <1>3, <1>4, <1>8, <2>2 DEF Announce, Known, TypeOK
    <3>2. QED
      BY <1>2, <1>7, <2>1, <3>1, ShownAlone
  <2>3. CASE att[k].channel = ch
    <3>1. k \in SocketCalls(u)
      BY <1>2, <1>8, <2>1, <2>3 DEF SocketCalls
    <3>2. Join(k, ch)
      BY <1>4, <1>5, <1>6, <1>8, <3>1, OneCall
    <3>3. roster'[u] = roster[u] /\ roster[u] = ch
      BY <1>4, <1>8, <2>3, <3>1, <3>2, OneCall DEF Join, Announce, Known, Shown, TypeOK
    <3>4. QED
      BY <1>2, <1>7, <2>1, <3>3, ShownAlone
  <2>4. QED
    BY <2>2, <2>3
<1>9. CASE v # u
  <2>1. roster'[u] = roster[u]
    BY <1>3, <1>4, <1>9 DEF Announce, Known, TypeOK
  <2>2. \A c \in Connections : suspended'[u][c] = suspended[u][c]
    BY <1>1, <1>4, <1>9 DEF Join, TakeoverSocket, TakeoverRecord, Known, TypeOK
  <2>3. ASSUME NEW x \in Sockets, att'[x] # att[x], Carrier(x) \/ Carrier(x)'
        PROVE  att[x].user = v /\ att'[x].user = v
    <3>1. CASE x = k
      BY <1>2, <1>7, <3>1
    <3>2. CASE x # k
      <4>1. PICK j \in Sockets : TakeoverSocket(k, ch, j)
        BY <2>3, <3>2 DEF Join, TakeoverRecord, TypeOK
      <4>2. x = j /\ j # k
        BY <2>3, <3>2, <4>1 DEF TakeoverSocket, TypeOK
      <4>3. att'[x] = [att[x] EXCEPT !.channel = None]
        BY <4>1, <4>2 DEF TakeoverSocket, TypeOK
      <4>4. att[x] \in Attachment /\ att[x].user = v
        BY <1>3, <2>3, <4>1, <4>2, SocketAttachment DEF TakeoverSocket, OpenCalls, Carrier
      <4>5. QED
        BY <4>3, <4>4, AttachmentWithChannel
    <3>3. QED
      BY <3>1, <3>2
  <2>4. Untouched(u)
    <3>1. \A x \in Sockets : att'[x] = att[x] => (Carrier(x)' <=> Carrier(x))
      BY <1>3 DEF Carrier
    <3>2. QED
      BY <1>9, <2>1, <2>2, <2>3, <3>1 DEF Untouched
  <2>5. QED
    BY <1>4, <2>4, OneCall, ShownUntouched DEF Known
<1>10. QED
  BY <1>8, <1>9

(* The ends of a call: the account had no other. *)
LEMMA ShownGone ==
  ASSUME NEW u, SocketCalls(u)' = {}, RecordCalls(u)' = {}, roster'[u] = None
  PROVE  Shown(u)'
BY DEF Shown

LEMMA RosterLeave ==
  ASSUME RosterInv, NEW k \in Sockets, Leave(k), NEW u, Known(u)'
  PROVE  Shown(u)'
<1> DEFINE a == [att[k] EXCEPT !.channel = None]
<1> USE DEF RosterInv, LeaseInv
<1>1. status[k] # "free" /\ att[k] \in Attachment /\ att[k].user \in Users /\ att[k].channel # None
  BY SocketAttachment DEF Leave, Listed, Attachment
<1>2. a.user = att[k].user /\ a.dead = att[k].dead /\ a.channel = None
  BY <1>1, AttachmentWithChannel
<1>3. /\ \A x \in Sockets : att'[x] = IF x = k THEN a ELSE att[x]
      /\ UNCHANGED <<status, suspended, blind>>
      /\ misled' = IF att[k].dead THEN misled \cup {att[k].user} ELSE misled
      /\ roster' = [roster EXCEPT ![att[k].user] = None]
  BY DEF Leave, MisledIf, TypeOK
<1>4. Known(u) /\ (att[k].user = u => ~att[k].dead)
  BY <1>3 DEF Known
<1> HIDE DEF a
<1>5. CASE att[k].user = u
  <2>1. SocketCalls(u) = {k} /\ RecordCalls(u) = {}
    BY <1>1, <1>4, <1>5, OneCall DEF SocketCalls, Carrier
  <2>2. SocketCalls(u)' = {} /\ RecordCalls(u)' = {}
    BY <1>2, <1>3, <2>1 DEF SocketCalls, RecordCalls, Carrier
  <2>3. roster'[u] = None
    BY <1>3, <1>4, <1>5 DEF Known, TypeOK
  <2>4. QED
    BY <2>2, <2>3, ShownGone
<1>6. CASE att[k].user # u
  <2>1. Untouched(u)
    BY <1>1, <1>2, <1>3, <1>6 DEF Untouched, Carrier, TypeOK
  <2>2. QED
    BY <1>4, <2>1, OneCall, ShownUntouched DEF Known
<1>7. QED
  BY <1>5, <1>6

LEMMA RosterClosed ==
  ASSUME RosterInv, NEW k \in Sockets, ClosedAbnormally(k) \/ ClosedNormally(k), NEW u, Known(u)'
  PROVE  Shown(u)'
<1> USE DEF RosterInv, LeaseInv
<1>1. Carrier(k) /\ att[k].user \in Users /\ att[k].conn \in Connections /\ att[k] \in Attachment
  BY SocketAttachment DEF ClosedAbnormally, ClosedNormally, Listed, Carrier, Attachment
<1>2. /\ \A x \in Sockets : x # k => att'[x] = att[x] /\ status'[x] = status[x]
      /\ status'[k] = "free"
      /\ UNCHANGED history
  BY DEF ClosedAbnormally, ClosedNormally, Gone, TypeOK
<1>3. Known(u)
  BY <1>2 DEF Known, history
<1>4. /\ SocketCalls(u)' = SocketCalls(u) \ {k}
      /\ \A x \in SocketCalls(u)' : att'[x] = att[x]
      /\ k \in SocketCalls(u) <=> att[k].user = u /\ att[k].channel # None
  BY <1>1, <1>2 DEF SocketCalls, Carrier
<1>5. CASE ClosedAbnormally(k)
  <2> DEFINE r == [epoch |-> att[k].epoch, channel |-> att[k].channel, expired |-> FALSE]
  <2>1. r \in SuspendedRecord /\ r # NoRecord /\ r.channel = att[k].channel
    <3>1. r \in SuspendedRecord
      BY <1>1 DEF Attachment, SuspendedRecord
    <3>2. QED
      BY <3>1, Placeholders
  <2>2. /\ roster' = roster
        /\ \A v \in Users, d \in Connections :
             suspended'[v][d] = IF v = att[k].user /\ d = att[k].conn THEN r ELSE suspended[v][d]
    BY <1>5 DEF ClosedAbnormally, TypeOK
  <2>3. att[k].user = u => suspended[u][att[k].conn] = NoRecord
    BY <1>1, <1>3 DEF OneCarrier, Known
  <2> HIDE DEF r
  <2>4. CASE k \in SocketCalls(u)
    <3>1. SocketCalls(u) = {k} /\ RecordCalls(u) = {} /\ roster[u] = att[k].channel
      BY <1>3, <2>4, OneCall DEF Shown
    <3>2. RecordCalls(u)' = {att[k].conn}
      BY <1>1, <1>3, <1>4, <2>1, <2>2, <2>4, <3>1 DEF RecordCalls, Known
    <3>3. suspended'[u][att[k].conn].channel = roster'[u]
      BY <1>1, <1>3, <1>4, <2>1, <2>2, <2>4, <3>1 DEF Known
    <3>4. QED
      BY <1>4, <3>1, <3>2, <3>3 DEF Shown
  <2>5. CASE k \notin SocketCalls(u)
    <3>1. RecordCalls(u)' = RecordCalls(u)
      BY <1>1, <1>3, <1>4, <2>1, <2>2, <2>3, <2>5 DEF RecordCalls, Known
    <3>2. \A c \in RecordCalls(u) : suspended'[u][c] = suspended[u][c]
      BY <1>1, <1>3, <2>2, <2>3 DEF RecordCalls, Known
    <3>3. QED
      BY <1>3, <1>4, <2>2, <2>5, <3>1, <3>2, OneCall DEF Shown
  <2>6. QED
    BY <2>4, <2>5
<1>6. CASE ClosedNormally(k)
  <2>1. /\ UNCHANGED suspended
        /\ roster' = [roster EXCEPT ![att[k].user] = IF att[k].channel = None THEN @ ELSE None]
    BY <1>6 DEF ClosedNormally
  <2>2. RecordCalls(u)' = RecordCalls(u)
    BY <2>1 DEF RecordCalls
  <2>3. CASE k \in SocketCalls(u)
    <3>1. SocketCalls(u)' = {} /\ RecordCalls(u)' = {}
      BY <1>3, <1>4, <2>2, <2>3, OneCall
    <3>2. roster'[u] = None
      BY <1>1, <1>4, <2>1, <2>3 DEF TypeOK
    <3>3. QED
      BY <3>1, <3>2, ShownGone
  <2>4. CASE k \notin SocketCalls(u)
    <3>1. roster'[u] = roster[u]
      BY <1>1, <1>3, <1>4, <2>1, <2>4 DEF Known, TypeOK
    <3>2. QED
      BY <1>3, <1>4, <2>1, <2>2, <2>4, <3>1, OneCall DEF Shown
  <2>5. QED
    BY <2>3, <2>4
<1>7. QED
  BY <1>5, <1>6

(* The grace period: an expired call may still be shown, a live one is. *)
LEMMA RosterExpire ==
  ASSUME RosterInv, NEW v \in Users, NEW c \in Connections, Expire(v, c), NEW u, Known(u)'
  PROVE  Shown(u)'
<1> DEFINE r == [suspended[v][c] EXCEPT !.expired = TRUE]
<1> USE DEF RosterInv, LeaseInv
<1>1. /\ suspended[v][c] \in SuspendedRecord /\ suspended[v][c] # NoRecord
      /\ ~suspended[v][c].expired
  BY DEF Expire, LiveRecord, TypeOK
<1>2. r # NoRecord /\ r.channel = suspended[v][c].channel
  BY <1>1, RecordWith, Placeholders
<1>3. /\ \A w \in Users, d \in Connections :
           suspended'[w][d] = IF w = v /\ d = c THEN r ELSE suspended[w][d]
      /\ UNCHANGED <<status, att, roster, blind, misled>>
  BY DEF Expire, socketVars, history, TypeOK
<1> HIDE DEF r
<1>4. Known(u)
  BY <1>3 DEF Known
<1>5. SocketCalls(u)' = SocketCalls(u) /\ RecordCalls(u)' = RecordCalls(u)
  BY <1>1, <1>2, <1>3, <1>4 DEF SocketCalls, RecordCalls, Carrier, Known
<1>6. \A d \in RecordCalls(u) :
        \/ suspended'[u][d] = suspended[u][d]
        \/ /\ suspended'[u][d].channel = suspended[u][d].channel
           /\ ~suspended[u][d].expired
  BY <1>1, <1>2, <1>3, <1>4 DEF RecordCalls, Known
<1>7. QED
  BY <1>3, <1>4, <1>5, <1>6, OneCall DEF Shown

LEMMA RosterAlarmFires ==
  ASSUME RosterInv, AlarmFires, NEW u, Known(u)'
  PROVE  Shown(u)'
<1> USE DEF RosterInv, LeaseInv
<1>1. /\ \A d \in Connections :
           suspended'[u][d] = IF LiveRecord(u, d) THEN suspended[u][d] ELSE NoRecord
      /\ roster'[u] = IF \E c \in RecordCalls(u) : suspended[u][c].expired
                        THEN None ELSE roster[u]
      /\ UNCHANGED <<status, att, blind, misled>>
  BY DEF AlarmFires, socketVars, history, Known
<1>2. Known(u)
  BY <1>1 DEF Known
<1>3. SocketCalls(u)' = SocketCalls(u)
  BY <1>1 DEF SocketCalls, Carrier
<1>4. CASE \E c \in RecordCalls(u) : suspended[u][c].expired
  <2>1. PICK c \in RecordCalls(u) : suspended[u][c].expired
    BY <1>4
  <2>2. SocketCalls(u) = {} /\ RecordCalls(u) = {c}
    BY <1>2, OneCall
  <2>3. RecordCalls(u)' = {}
    BY <1>1, <2>1, <2>2 DEF RecordCalls, LiveRecord
  <2>4. QED
    BY <1>1, <1>3, <1>4, <2>2, <2>3, ShownGone
<1>5. CASE ~\E c \in RecordCalls(u) : suspended[u][c].expired
  <2>1. /\ RecordCalls(u)' = RecordCalls(u)
        /\ \A c \in RecordCalls(u) : suspended'[u][c] = suspended[u][c]
    BY <1>1, <1>5 DEF RecordCalls, LiveRecord
  <2>2. QED
    BY <1>1, <1>2, <1>3, <1>5, <2>1, OneCall DEF Shown
<1>6. QED
  BY <1>4, <1>5

LEMMA RosterSessionValid ==
  ASSUME RosterInv, SessionValid, NEW u, Known(u)'
  PROVE  Shown(u)'
<1> USE DEF RosterInv, LeaseInv
<1>1. /\ UNCHANGED <<status, suspended, roster, misled>>
      /\ att' = IF held = None THEN att ELSE [att EXCEPT ![held] = copy]
      /\ blind' = IF held # None /\ att' # att THEN blind \cup {copy.user} ELSE blind
      /\ held # None => held \in Sockets /\ att[held].user = copy.user
  BY DEF SessionValid, BlindIf, HeldListed, TypeOK
<1>2. \A x \in Sockets : att[x].user = u \/ att'[x].user = u => att'[x] = att[x]
  BY <1>1 DEF Known, TypeOK
<1>3. Known(u)
  BY <1>1 DEF Known
<1>4. Untouched(u)
  BY <1>1, <1>2 DEF Untouched, Carrier
<1>5. QED
  BY <1>3, <1>4, OneCall, ShownUntouched DEF Known

(* Losing the rooms: the call that ends is the only one. *)
LEMMA RosterRefresh ==
  ASSUME RosterInv, NEW v \in Users, NEW rooms \in SUBSET Channels, Refresh(v, rooms),
         NEW u, Known(u)'
  PROVE  Shown(u)'
<1> DEFINE evicted == {k \in Sockets : /\ Listed(k) /\ att[k].user = v
                                       /\ att[k].channel \notin rooms \cup {None}}
           ended == {c \in RecordCalls(v) : suspended[v][c].channel \notin rooms}
           kept == [c \in Connections |->
                      IF c \in ended THEN [suspended[v][c] EXCEPT !.channel = None]
                                     ELSE suspended[v][c]]
<1> USE DEF RosterInv, LeaseInv
<1>1. /\ att' = [k \in Sockets |-> IF k \in evicted THEN [att[k] EXCEPT !.channel = None]
                                                   ELSE att[k]]
      /\ suspended' = [suspended EXCEPT ![v] = kept]
      /\ roster' = [roster EXCEPT ![v] = IF evicted \cup ended = {} THEN @ ELSE None]
      /\ misled' = IF \E k \in evicted : att[k].dead THEN misled \cup {v} ELSE misled
      /\ UNCHANGED <<status, blind>>
  BY DEF Refresh, MisledIf
<1>2. Known(u)
  BY <1>1 DEF Known
<1>3. ASSUME NEW k \in evicted
      PROVE  /\ status[k] # "free" /\ att[k].user = v /\ att[k].channel # None
             /\ att'[k].user = att[k].user
             /\ att'[k].dead = att[k].dead
             /\ att'[k].channel = None
  BY <1>1, SocketAttachment, AttachmentWithChannel DEF Listed
<1>4. \A k \in Sockets : k \notin evicted => att'[k] = att[k]
  BY <1>1
<1>5. \A c \in ended : kept[c].channel = None
  BY RecordWith DEF RecordCalls, TypeOK
<1>6. \A c \in Connections : c \notin ended => kept[c] = suspended[v][c]
  OBVIOUS
<1>7. ended \subseteq RecordCalls(v) /\ evicted \subseteq Sockets
  OBVIOUS
<1> HIDE DEF evicted, ended, kept
<1>8. CASE u # v
  <2>1. roster'[u] = roster[u] /\ suspended'[u] = suspended[u]
    BY <1>1, <1>2, <1>8 DEF Known, TypeOK
  <2>2. Untouched(u)
    BY <1>1, <1>3, <1>4, <1>8, <2>1 DEF Untouched, Carrier
  <2>3. QED
    BY <1>2, <2>2, OneCall, ShownUntouched DEF Known
<1>9. CASE u = v /\ evicted \cup ended = {}
  <2>1. roster'[u] = roster[u] /\ \A c \in Connections : suspended'[u][c] = suspended[u][c]
    BY <1>1, <1>6, <1>9 DEF TypeOK
  <2>2. Untouched(u)
    BY <1>1, <1>4, <1>9, <2>1 DEF Untouched, Carrier
  <2>3. QED
    BY <1>2, <2>2, OneCall, ShownUntouched DEF Known
<1>10. CASE u = v /\ evicted # {}
  <2>1. PICK k \in evicted : TRUE
    BY <1>10
  <2>2. ~att[k].dead
    BY <1>1, <1>10, <2>1 DEF Known
  <2>3. k \in SocketCalls(u)
    BY <1>3, <1>7, <1>10, <2>1, <2>2 DEF SocketCalls, Carrier
  <2>4. SocketCalls(u) = {k} /\ RecordCalls(u) = {}
    BY <1>2, <2>3, OneCall
  <2>5. SocketCalls(u)' = {}
    BY <1>1, <1>3, <1>4, <2>1, <2>4 DEF SocketCalls, Carrier
  <2>6. RecordCalls(u)' = {}
    <3>1. \A c \in Connections : suspended'[u][c] = suspended[u][c]
      BY <1>1, <1>6, <1>7, <1>10, <2>4 DEF TypeOK
    <3>2. QED
      BY <2>4, <3>1 DEF RecordCalls
  <2>7. roster'[u] = None
    BY <1>1, <1>10 DEF TypeOK
  <2>8. QED
    BY <2>5, <2>6, <2>7, ShownGone
<1>11. CASE u = v /\ evicted = {} /\ ended # {}
  <2>1. PICK c \in ended : TRUE
    BY <1>11
  <2>2. SocketCalls(u) = {} /\ RecordCalls(u) = {c}
    BY <1>2, <1>7, <1>11, <2>1, OneCall
  <2>3. SocketCalls(u)' = {}
    BY <1>1, <1>4, <1>11, <2>2 DEF SocketCalls, Carrier
  <2>4. RecordCalls(u)' = {}
    <3>1. suspended'[u] = kept
      BY <1>1, <1>11 DEF TypeOK
    <3>2. suspended'[u][c].channel = None
      BY <1>5, <2>1, <3>1
    <3>3. \A d \in Connections : d # c => suspended'[u][d] = suspended[u][d]
      BY <1>6, <1>7, <1>11, <2>2, <3>1
    <3>4. QED
      BY <2>2, <3>2, <3>3 DEF RecordCalls
  <2>5. roster'[u] = None
    BY <1>1, <1>11 DEF TypeOK
  <2>6. QED
    BY <2>3, <2>4, <2>5, ShownGone
<1>12. QED
  BY <1>8, <1>9, <1>10, <1>11

(* A snapshot of calls that can all be seen is what the others believe.     *)
LEMMA RosterSnapshot ==
  ASSUME RosterInv, Snapshot, NEW u, Known(u)'
  PROVE  Shown(u)'
<1> USE DEF RosterInv, LeaseInv
<1>1. /\ UNCHANGED <<status, att, suspended, blind>>
      /\ roster'[u] \in SnapshotRooms(u)
      /\ u \notin misled
      /\ \A k \in SocketCalls(u) : status[k] = "open"
  BY DEF Snapshot, socketVars, Known
<1>2. Known(u)
  BY <1>1 DEF Known
<1>3. SocketCalls(u)' = SocketCalls(u) /\ RecordCalls(u)' = RecordCalls(u)
  BY <1>1 DEF SocketCalls, RecordCalls, Carrier
<1>4. OpenCalls(u) = SocketCalls(u)
  BY <1>1 DEF OpenCalls, SocketCalls, Carrier, Superseded
<1>5. CASE SocketCalls(u) # {}
  <2>1. PICK k \in SocketCalls(u) : TRUE
    BY <1>5
  <2>2. SocketCalls(u) = {k} /\ RecordCalls(u) = {}
    BY <1>2, OneCall
  <2>3. roster'[u] = att[k].channel
    BY <1>1, <1>4, <2>2 DEF SnapshotRooms
  <2>4. QED
    BY <1>1, <1>3, <2>2, <2>3 DEF Shown
<1>6. CASE SocketCalls(u) = {}
  <2>1. \A c \in LiveRecordCalls(u) : RecordCalls(u) = {c} /\ LiveRecordCalls(u) = {c}
    BY <1>2, OneCall DEF LiveRecordCalls
  <2>2. CASE LiveRecordCalls(u) # {}
    <3>1. PICK c \in LiveRecordCalls(u) : TRUE
      BY <2>2
    <3>2. roster'[u] = suspended[u][c].channel
      BY <1>1, <1>4, <1>6, <2>1, <3>1 DEF SnapshotRooms
    <3>3. QED
      BY <1>1, <1>3, <1>6, <2>1, <3>1, <3>2 DEF Shown
  <2>3. CASE LiveRecordCalls(u) = {}
    <3>1. roster'[u] = None
      BY <1>1, <1>4, <1>6, <2>3 DEF SnapshotRooms
    <3>2. \A c \in RecordCalls(u) : suspended[u][c].expired
      BY <2>3 DEF LiveRecordCalls
    <3>3. QED
      BY <1>1, <1>3, <1>6, <3>1, <3>2 DEF Shown
  <2>4. QED
    BY <2>2, <2>3
<1>7. QED
  BY <1>5, <1>6

LEMMA RosterStep == RosterInv /\ [Next]_vars => RosterInv'
<1> SUFFICES ASSUME RosterInv, [Next]_vars, NEW u, Known(u)'
             PROVE  Shown(u)'
  BY LeaseStep DEF RosterInv, RosterFaithful, Shown, Known
<1>1. Epochs \subseteq Nat
  BY EpochBound DEF Epochs
<1>2. CASE QuietStep
  BY <1>2, RosterQuiet
<1>3. QED
  BY <1>1, <1>2, RosterFetchFail, RosterFetchReplacing, RosterFetchResuming, RosterCalls,
     RosterLeave, RosterClosed, RosterExpire, RosterAlarmFires, RosterSessionValid,
     RosterRefresh, RosterSnapshot
     DEF Next, QuietStep

(* Everyone's roster shows an account in the room of its call, and nowhere   *)
(* when it has none, until someone is told something outdated.              *)
THEOREM RosterCorrect == Spec => []RosterFaithful
<1>1. Init => RosterInv
  BY LeaseInit DEF Init, RosterInv, RosterFaithful, SocketCalls, RecordCalls, Carrier
<1>2. RosterInv => RosterFaithful
  BY DEF RosterInv
<1>3. QED
  BY <1>1, <1>2, RosterStep, PTL DEF Spec
=============================================================================
