------------------------- MODULE RealtimeClientProofs -------------------------
(***************************************************************************)
(* Theorems about RealtimeClient, for any connections, transports, commands *)
(* and number of faults: a tab that asks for its connection under the next  *)
(* epoch gets it back unless it is excused, a connection has one carrier     *)
(* unless the alarm brought an old one back, and tab and server agree on the *)
(* connection and on the call once nothing is under way.                    *)
(***************************************************************************)
EXTENDS RealtimeClient, TLAPS

Clients == {"none", "connecting", "open", "closing", "gone"}
Servers == {"none", "loading", "open", "closing", "cut", "replaced", "closed"}
Message == [what : {"ready", "ended", "replaced", "evicted", "joined", "left", "conflict"},
            id : Commands \cup {None}]
Command == [what : {"join", "takeover", "leave"}, id : Commands]
Socket == [client : Clients, server : Servers, normal : BOOLEAN, broken : BOOLEAN,
           asks : Identity \cup {None}, carries : Carried \cup {None},
           down : Seq(Message), up : Seq(Command)]
Client == [active : BOOLEAN, unloading : BOOLEAN, online : BOOLEAN, timer : BOOLEAN,
           identity : Identity \cup {None}, current : Sockets \cup {None}, settled : BOOLEAN,
           shown : {"offline", "connecting", "reconnecting", "connected", "disconnected"}]

TypeOK ==
  /\ client \in Client
  /\ stored \in Identity \cup {None}
  /\ sockets \in [Sockets -> Socket]
  /\ records \in [Connections -> Suspended \cup {None}]
  /\ pending \subseteq Commands /\ told \in {"in", "out", "unknown"}
  /\ revoked \in BOOLEAN /\ faults \in Nat
  /\ excused \subseteq Connections /\ taken \subseteq Connections
  /\ saved \in Checked \cup {None} /\ astray \subseteq Connections

Live(x) == x.client \in {"connecting", "open"}
Holds(x) == x.server \in {"loading", "open", "closing", "cut"}

OneLive == \A k \in Sockets : Live(sockets[k]) => k = client.current

LEMMA TypeInit == ASSUME Init PROVE TypeOK
<1>1. client \in Client
  BY DEF Init, Client
<1>2. Unused \in Socket
  BY DEF Unused, Socket, Clients, Servers
<1>3. sockets \in [Sockets -> Socket]
  BY <1>2 DEF Init
<1> QED BY <1>1, <1>3, Bounded DEF Init, TypeOK

-----------------------------------------------------------------------------
(* What each step does to a transport, field by field.                      *)

(* One that both sides ended is as good as new.                             *)
Turns(k, client_, server_, broken_, asks_, carries_, down_, up_) ==
  \/ sockets'[k] = Unused /\ client_ = "gone" /\ server_ = "closed"
  \/ /\ sockets'[k].client = client_ /\ sockets'[k].server = server_
     /\ (sockets'[k].broken <=> broken_)
     /\ sockets'[k].asks = asks_ /\ sockets'[k].carries = carries_
     /\ sockets'[k].down = down_ /\ sockets'[k].up = up_

Becomes(k, client_, server_, broken_, asks_, carries_, down_, up_) ==
  /\ \A j \in Sockets \ {k} : sockets'[j] = sockets[j]
  /\ Turns(k, client_, server_, broken_, asks_, carries_, down_, up_)

LEMMA EmptyQueue == <<>> \in Seq(Message) /\ <<>> \in Seq(Command)
OBVIOUS

LEMMA UnusedIs ==
  /\ Unused \in Socket
  /\ Unused.client = "none" /\ Unused.server = "none" /\ ~Unused.broken
  /\ Unused.asks = None /\ Unused.carries = None /\ Unused.down = <<>> /\ Unused.up = <<>>
BY DEF Unused, Socket, Clients, Servers

LEMMA PutDoes ==
  ASSUME TypeOK, NEW k \in Sockets, NEW x, x \in Socket, Put(k, x)
  PROVE  /\ sockets' \in [Sockets -> Socket]
         /\ Becomes(k, x.client, x.server, x.broken, x.asks, x.carries, x.down, x.up)
<1>1. CASE x.client = "gone" /\ x.server = "closed"
  <2>1. sockets' = [sockets EXCEPT ![k] = Unused]
    BY <1>1 DEF Put, Released
  <2> QED BY <1>1, <2>1, UnusedIs DEF TypeOK, Becomes, Turns
<1>2. CASE ~(x.client = "gone" /\ x.server = "closed")
  <2>1. sockets' = [sockets EXCEPT ![k] = x]
    BY <1>2 DEF Put, Released
  <2> QED BY <2>1 DEF TypeOK, Becomes, Turns
<1> QED BY <1>1, <1>2

LEMMA SetDoes ==
  ASSUME TypeOK, NEW k \in Sockets, NEW x, x \in Socket, sockets' = [sockets EXCEPT ![k] = x]
  PROVE  /\ sockets' \in [Sockets -> Socket]
         /\ Becomes(k, x.client, x.server, x.broken, x.asks, x.carries, x.down, x.up)
BY DEF TypeOK, Becomes, Turns

LEMMA NextEpochIs ==
  ASSUME NEW i \in Identity \cup {None}
  PROVE  /\ NextEpoch(i) \in Identity \cup {None}
         /\ i = None <=> NextEpoch(i) = None
         /\ i # None => NextEpoch(i).connection = i.connection /\ NextEpoch(i).epoch = i.epoch + 1
BY NoneIsNone DEF NextEpoch, Identity

(* A new transport, for the connection before names.                        *)
Begins(k, identity) ==
  /\ client'.current = k /\ ~client'.settled /\ client'.identity = identity
  /\ sockets[k] = Unused
  /\ Becomes(k, "connecting", "none", FALSE, NextEpoch(identity), None, <<>>, <<>>)

LEMMA ConnectDoes ==
  ASSUME TypeOK, NEW before, before \in Client, NEW k \in Sockets, Connect(before, k)
  PROVE  /\ client' \in Client /\ client'.active = before.active /\ client'.timer = before.timer
         /\ sockets' \in [Sockets -> Socket] /\ Begins(k, before.identity)
<1>1. client' \in Client /\ client'.active = before.active /\ client'.timer = before.timer
      /\ client'.identity = before.identity /\ client'.current = k /\ ~client'.settled
  BY DEF Connect, Client
<1>2. NextEpoch(before.identity) \in Identity \cup {None}
  BY NextEpochIs DEF Client
<1>3. PICK x : x = [Unused EXCEPT !.client = "connecting", !.asks = NextEpoch(before.identity)]
  OBVIOUS
<1>4. /\ x \in Socket /\ x.client = "connecting" /\ x.server = "none" /\ ~x.broken
      /\ x.asks = NextEpoch(before.identity) /\ x.carries = None /\ x.down = <<>> /\ x.up = <<>>
  BY <1>2, <1>3, UnusedIs DEF Socket, Clients
<1>5. sockets' = [sockets EXCEPT ![k] = x]
  BY <1>3 DEF Connect
<1>6. /\ sockets' \in [Sockets -> Socket]
      /\ Becomes(k, x.client, x.server, x.broken, x.asks, x.carries, x.down, x.up)
  BY <1>4, <1>5, SetDoes
<1>7. Becomes(k, "connecting", "none", FALSE, NextEpoch(before.identity), None, <<>>, <<>>)
  BY <1>4, <1>6 DEF Becomes, Turns
<1> QED BY <1>1, <1>6, <1>7 DEF Begins, Connect

(* close() of the current transport, if it is open or opens.                *)
GivesUp(k) ==
  \/ /\ k # None /\ Live(sockets[k])
     /\ Becomes(k, "closing", sockets[k].server, sockets[k].broken, sockets[k].asks,
                sockets[k].carries, <<>>, sockets[k].up)
     /\ excused' = excused \cup Unheard(k)
  \/ /\ ~(k # None /\ Live(sockets[k]))
     /\ sockets' = sockets /\ excused' = excused

LEMMA ClosingDoes ==
  ASSUME TypeOK, NEW k \in Sockets \cup {None}, NEW normal, normal \in BOOLEAN, Closing(k, normal)
  PROVE  GivesUp(k) /\ sockets' \in [Sockets -> Socket]
<1>1. CASE k # None /\ Live(sockets[k])
  <2>1. k \in Sockets /\ sockets[k] \in Socket
    BY <1>1 DEF TypeOK
  <2>2. PICK x : x = [sockets[k] EXCEPT !.client = "closing", !.normal = normal, !.down = <<>>]
    OBVIOUS
  <2>3. /\ x \in Socket /\ x.client = "closing" /\ x.server = sockets[k].server
        /\ x.broken = sockets[k].broken /\ x.asks = sockets[k].asks
        /\ x.carries = sockets[k].carries /\ x.down = <<>> /\ x.up = sockets[k].up
    BY <2>1, <2>2, EmptyQueue DEF Socket, Clients
  <2>4. sockets' = [sockets EXCEPT ![k] = x] /\ excused' = excused \cup Unheard(k)
    BY <1>1, <2>1, <2>2 DEF Closing, Live, TypeOK, Socket
  <2>5. /\ sockets' \in [Sockets -> Socket]
        /\ Becomes(k, x.client, x.server, x.broken, x.asks, x.carries, x.down, x.up)
    BY <2>1, <2>3, <2>4, SetDoes
  <2>6. Becomes(k, "closing", sockets[k].server, sockets[k].broken, sockets[k].asks,
                sockets[k].carries, <<>>, sockets[k].up)
    BY <2>3, <2>5 DEF Becomes, Turns
  <2> QED BY <1>1, <2>4, <2>5, <2>6 DEF GivesUp
<1>2. CASE ~(k # None /\ Live(sockets[k]))
  BY <1>2 DEF Closing, Live, TypeOK, GivesUp
<1> QED BY <1>1, <1>2

LEMMA UnheardIs ==
  ASSUME TypeOK, NEW k \in Sockets
  PROVE  Unheard(k) \subseteq Connections
BY DEF TypeOK, Socket, Identity, Unheard
-----------------------------------------------------------------------------
(* What the tab does.                                                       *)

(* A step that begins a transport: an effect that starts, a timer, a command. *)
LEMMA MountsDoes ==
  ASSUME TypeOK, NEW k \in Sockets, Mounts(k)
  PROVE  TypeOK' /\ client'.active /\ client'.timer = client.timer /\ Begins(k, stored)
<1>1. PICK before : before = [client EXCEPT !.active = TRUE, !.identity = stored]
  OBVIOUS
<1>2. /\ before \in Client /\ before.active /\ before.timer = client.timer
      /\ before.identity = stored
  BY <1>1 DEF TypeOK, Client
<1>3. Connect(before, k)
  BY <1>1 DEF Mounts
<1> QED BY <1>2, <1>3, ConnectDoes DEF Mounts, history, check, TypeOK

LEMMA TimerFiresDoes ==
  ASSUME TypeOK, TimerFires
  PROVE  /\ TypeOK' /\ client.timer /\ client'.active = client.active /\ ~client'.timer
         /\ UNCHANGED <<stored, records, pending, told, revoked, faults, history, check>>
         /\ \/ /\ Transport \in {"connecting", "open"} /\ sockets' = sockets
               /\ client'.identity = client.identity /\ client'.current = client.current
               /\ client'.settled = client.settled /\ client'.shown = client.shown
            \/ /\ Transport \notin {"connecting", "open"}
               /\ \E k \in Sockets : Begins(k, client.identity)
<1>1. PICK fired : fired = [client EXCEPT !.timer = FALSE]
  OBVIOUS
<1>2. /\ fired \in Client /\ fired.active = client.active /\ ~fired.timer
      /\ fired.identity = client.identity /\ fired.current = client.current
      /\ fired.settled = client.settled /\ fired.shown = client.shown
  BY <1>1 DEF TypeOK, Client
<1>3. UNCHANGED <<stored, records, pending, told, revoked, faults, history, check>> /\ client.timer
  BY DEF TimerFires
<1>4. CASE Transport \in {"connecting", "open"}
  <2>1. client' = fired /\ sockets' = sockets
    BY <1>1, <1>4 DEF TimerFires
  <2> QED BY <1>2, <1>3, <1>4, <2>1 DEF TypeOK, history, check
<1>5. CASE Transport \notin {"connecting", "open"}
  <2>1. PICK k \in Sockets : Connect(fired, k)
    BY <1>1, <1>5 DEF TimerFires
  <2>2. /\ client' \in Client /\ client'.active = fired.active /\ client'.timer = fired.timer
        /\ sockets' \in [Sockets -> Socket] /\ Begins(k, fired.identity)
    BY <1>2, <2>1, ConnectDoes
  <2> QED BY <1>2, <1>3, <1>5, <2>2 DEF TypeOK, history, check
<1> QED BY <1>4, <1>5

LEMMA ReconcileDoes ==
  ASSUME TypeOK, Reconcile
  PROVE  /\ TypeOK' /\ client.active /\ client'.active /\ client'.timer = client.timer
         /\ Transport \notin {"connecting", "open"}
         /\ \E k \in Sockets : Begins(k, client.identity)
<1>1. PICK k \in Sockets : Connect(client, k)
  BY DEF Reconcile
<1>2. /\ client' \in Client /\ client'.active = client.active /\ client'.timer = client.timer
      /\ sockets' \in [Sockets -> Socket] /\ Begins(k, client.identity)
  BY <1>1, ConnectDoes DEF TypeOK
<1> QED BY <1>2 DEF Reconcile, Fault, TypeOK, history, check

LEMMA ScheduledIs ==
  ASSUME NEW x, x \in Client
  PROVE  /\ Scheduled(x) \in Client /\ Scheduled(x).active = x.active
         /\ Scheduled(x).identity = x.identity /\ Scheduled(x).current = x.current
         /\ Scheduled(x).settled = x.settled /\ Scheduled(x).shown = x.shown
         /\ Scheduled(x).timer => x.active \/ x.timer
<1>1. (x.timer \/ (x.active /\ x.online)) \in BOOLEAN
  BY DEF Client
<1>2. PICK y : y = [x EXCEPT !.timer = @ \/ (x.active /\ x.online)]
  OBVIOUS
<1>3. y \in Client
  BY <1>1, <1>2 DEF Client
<1> QED BY <1>2, <1>3 DEF Scheduled, Client

(* The transport that is current, if any, is given up.                      *)
LEMMA ReadyTimesOutDoes ==
  ASSUME TypeOK, ReadyTimesOut
  PROVE  /\ TypeOK' /\ GivesUp(client.current)
         /\ client'.active = client.active /\ client'.identity = client.identity
         /\ client'.current = client.current /\ client'.settled
         /\ client'.timer => client.active \/ client.timer
<1>1. PICK x : x = [client EXCEPT !.settled = TRUE]
  OBVIOUS
<1>2. /\ x \in Client /\ x.active = client.active /\ x.identity = client.identity
      /\ x.current = client.current /\ x.settled /\ x.timer = client.timer
  BY <1>1 DEF TypeOK, Client
<1>3. client' = Scheduled(x) /\ Closing(client.current, FALSE) /\ client.current \in Sockets \cup {None}
  BY <1>1 DEF ReadyTimesOut, TypeOK, Client
<1>4. GivesUp(client.current) /\ sockets' \in [Sockets -> Socket]
  BY <1>3, ClosingDoes
<1>5. excused' \subseteq Connections
  BY <1>3, <1>4, UnheardIs DEF GivesUp, TypeOK
<1> QED BY <1>2, <1>3, <1>4, <1>5, ScheduledIs DEF ReadyTimesOut, Fault, check, TypeOK

LEMMA PageHidesDoes ==
  ASSUME TypeOK, PageHides
  PROVE  /\ TypeOK' /\ GivesUp(client.current)
         /\ client'.active = client.active /\ client'.identity = client.identity
         /\ client'.current = client.current /\ client'.settled = client.settled
         /\ client'.timer = client.timer
<1>1. PICK x : x = [client EXCEPT !.unloading = TRUE]
  OBVIOUS
<1>2. /\ x \in Client /\ x.active = client.active /\ x.identity = client.identity
      /\ x.current = client.current /\ x.settled = client.settled /\ x.timer = client.timer
  BY <1>1 DEF TypeOK, Client
<1>3. client' = x /\ Closing(client.current, FALSE) /\ client.current \in Sockets \cup {None}
  BY <1>1 DEF PageHides, TypeOK, Client
<1>4. GivesUp(client.current) /\ sockets' \in [Sockets -> Socket]
  BY <1>3, ClosingDoes
<1>5. excused' \subseteq Connections
  BY <1>3, <1>4, UnheardIs DEF GivesUp, TypeOK
<1>6. faults' \in Nat /\ UNCHANGED <<stored, records, pending, told, revoked, taken, saved, astray>>
  BY DEF PageHides, Fault, check, TypeOK
<1>7. TypeOK'
  BY <1>2, <1>3, <1>4, <1>5, <1>6 DEF TypeOK
<1> QED BY <1>2, <1>3, <1>4, <1>7

LEMMA PageReloadsDoes ==
  ASSUME TypeOK, PageReloads
  PROVE  /\ TypeOK' /\ GivesUp(client.current)
         /\ ~client'.active /\ client'.identity = None /\ client'.current = None
         /\ client'.settled /\ ~client'.timer
<1>1. PICK x : x = [client EXCEPT !.active = FALSE, !.unloading = FALSE, !.timer = FALSE,
                      !.identity = None, !.current = None, !.settled = TRUE, !.shown = "offline"]
  OBVIOUS
<1>2. /\ x \in Client /\ ~x.active /\ x.identity = None /\ x.current = None
      /\ x.settled /\ ~x.timer
  BY <1>1 DEF TypeOK, Client
<1>3. client' = x /\ Closing(client.current, FALSE) /\ client.current \in Sockets \cup {None}
  BY <1>1 DEF PageReloads, TypeOK, Client
<1>4. GivesUp(client.current) /\ sockets' \in [Sockets -> Socket]
  BY <1>3, ClosingDoes
<1>5. excused' \subseteq Connections
  BY <1>3, <1>4, UnheardIs DEF GivesUp, TypeOK
<1> QED BY <1>2, <1>3, <1>4, <1>5 DEF PageReloads, check, TypeOK

LEMMA UnmountsDoes ==
  ASSUME TypeOK, Unmounts
  PROVE  /\ TypeOK' /\ GivesUp(client.current)
         /\ ~client'.active /\ client'.identity = None /\ client'.current = None
         /\ client'.settled /\ ~client'.timer
<1>1. PICK x : x = [client EXCEPT !.active = FALSE, !.timer = FALSE, !.identity = None,
                      !.current = None, !.settled = TRUE, !.shown = "offline"]
  OBVIOUS
<1>2. /\ x \in Client /\ ~x.active /\ x.identity = None /\ x.current = None
      /\ x.settled /\ ~x.timer
  BY <1>1 DEF TypeOK, Client
<1>3. /\ client' = x /\ Closing(client.current, ~client.unloading)
      /\ client.current \in Sockets \cup {None} /\ (~client.unloading) \in BOOLEAN
  BY <1>1 DEF Unmounts, TypeOK, Client
<1>4. GivesUp(client.current) /\ sockets' \in [Sockets -> Socket]
  BY <1>3, ClosingDoes
<1>5. excused' \subseteq Connections
  BY <1>3, <1>4, UnheardIs DEF GivesUp, TypeOK
<1> QED BY <1>2, <1>3, <1>4, <1>5 DEF Unmounts, Fault, check, TypeOK

(* A step that leaves transports, records and history alone.                *)
Quiet == /\ UNCHANGED <<sockets, records, history, check>>
         /\ client'.active = client.active /\ client'.identity = client.identity
         /\ client'.current = client.current /\ client'.settled = client.settled
         /\ client'.shown = client.shown
         /\ client'.timer => client.active \/ client.timer

LEMMA QuietDoes ==
  ASSUME TypeOK,
         \/ IdentityAges \/ GoesOffline \/ ComesOnline
         \/ \E id \in Commands : CommandTimesOut(id)
  PROVE  TypeOK' /\ Quiet
<1>1. CASE IdentityAges
  BY <1>1 DEF IdentityAges, TypeOK, Quiet, history, check
<1>2. CASE GoesOffline
  <2>1. PICK x : x = [client EXCEPT !.online = FALSE]
    OBVIOUS
  <2>2. /\ x \in Client /\ x.active = client.active /\ x.identity = client.identity
        /\ x.current = client.current /\ x.settled = client.settled /\ x.shown = client.shown
        /\ x.timer = client.timer
    BY <2>1 DEF TypeOK, Client
  <2> QED BY <1>2, <2>1, <2>2 DEF GoesOffline, Fault, TypeOK, Quiet, history, check
<1>3. CASE ComesOnline
  <2>1. PICK x : x = [client EXCEPT !.online = TRUE]
    OBVIOUS
  <2>2. /\ x \in Client /\ x.active = client.active /\ x.identity = client.identity
        /\ x.current = client.current /\ x.settled = client.settled /\ x.shown = client.shown
        /\ x.timer = client.timer
    BY <2>1 DEF TypeOK, Client
  <2> QED BY <1>3, <2>1, <2>2, ScheduledIs DEF ComesOnline, TypeOK, Quiet, history, check
<1>4. CASE \E id \in Commands : CommandTimesOut(id)
  BY <1>4 DEF CommandTimesOut, TypeOK, Quiet, history, check
<1> QED BY <1>1, <1>2, <1>3, <1>4
LEMMA CloseEventDoes ==
  ASSUME TypeOK, NEW k \in Sockets, CloseEvent(k)
  PROVE  /\ TypeOK'
         /\ Becomes(k, "gone", sockets[k].server, sockets[k].broken, sockets[k].asks,
                    sockets[k].carries, sockets[k].down, sockets[k].up)
         /\ client'.active = client.active /\ client'.identity = client.identity
         /\ client'.current = client.current /\ (client'.timer => client.active \/ client.timer)
         /\ IF k = client.current THEN client'.settled
            ELSE client'.settled = client.settled /\ client'.shown = client.shown
<1>1. PICK s : s = sockets[k]
  OBVIOUS
<1>2. s \in Socket
  BY <1>1 DEF TypeOK
<1>3. PICK x : x = [s EXCEPT !.client = "gone"]
  OBVIOUS
<1>4. /\ x \in Socket /\ x.client = "gone" /\ x.server = s.server /\ x.broken = s.broken
      /\ x.asks = s.asks /\ x.carries = s.carries /\ x.down = s.down /\ x.up = s.up
  BY <1>2, <1>3 DEF Socket, Clients
<1>5. Put(k, x) /\ excused' = excused \cup Unheard(k)
  BY <1>1, <1>3 DEF CloseEvent
<1>6. /\ sockets' \in [Sockets -> Socket]
      /\ Becomes(k, x.client, x.server, x.broken, x.asks, x.carries, x.down, x.up)
  BY <1>4, <1>5, PutDoes
<1>7. Becomes(k, "gone", sockets[k].server, sockets[k].broken, sockets[k].asks,
              sockets[k].carries, sockets[k].down, sockets[k].up)
  BY <1>1, <1>4, <1>6
<1>8. /\ client' \in Client /\ client'.active = client.active /\ client'.identity = client.identity
      /\ client'.current = client.current /\ (client'.timer => client.active \/ client.timer)
      /\ IF k = client.current THEN client'.settled
         ELSE client'.settled = client.settled /\ client'.shown = client.shown
  <2>1. PICK y : y = [client EXCEPT !.settled = TRUE, !.shown = "disconnected"]
    OBVIOUS
  <2>2. /\ y \in Client /\ y.active = client.active /\ y.identity = client.identity
        /\ y.current = client.current /\ y.settled /\ y.timer = client.timer
    BY <2>1 DEF TypeOK, Client
  <2>3. client' = IF k # client.current THEN client ELSE Scheduled(y)
    BY <2>1 DEF CloseEvent
  <2> QED BY <2>2, <2>3, ScheduledIs DEF TypeOK
<1>9. UNCHANGED <<stored, records, pending, told, revoked, faults, unexplained, taken, saved, astray>>
  BY DEF CloseEvent, check
<1> QED BY <1>5, <1>6, <1>7, <1>8, <1>9, UnheardIs DEF TypeOK

LEMMA OpensDoes ==
  ASSUME TypeOK, NEW k \in Sockets, Opens(k)
  PROVE  /\ TypeOK'
         /\ Becomes(k, "open", sockets[k].server, sockets[k].broken, sockets[k].asks,
                    sockets[k].carries, sockets[k].down, sockets[k].up)
<1>1. PICK s : s = sockets[k]
  OBVIOUS
<1>2. s \in Socket
  BY <1>1 DEF TypeOK
<1>3. PICK x : x = [s EXCEPT !.client = "open"]
  OBVIOUS
<1>4. /\ x \in Socket /\ x.client = "open" /\ x.server = s.server /\ x.broken = s.broken
      /\ x.asks = s.asks /\ x.carries = s.carries /\ x.down = s.down /\ x.up = s.up
  BY <1>2, <1>3 DEF Socket, Clients
<1>5. sockets' = [sockets EXCEPT ![k] = x]
  BY <1>1, <1>2, <1>3 DEF Opens, TypeOK, Socket
<1>6. /\ sockets' \in [Sockets -> Socket]
      /\ Becomes(k, x.client, x.server, x.broken, x.asks, x.carries, x.down, x.up)
  BY <1>4, <1>5, SetDoes
<1>7. Becomes(k, "open", sockets[k].server, sockets[k].broken, sockets[k].asks,
              sockets[k].carries, sockets[k].down, sockets[k].up)
  BY <1>1, <1>4, <1>6
<1> QED BY <1>6, <1>7 DEF Opens, TypeOK, history, check

LEMMA NetworkBreaksDoes ==
  ASSUME TypeOK, NEW k \in Sockets, NetworkBreaks(k)
  PROVE  /\ TypeOK'
         /\ Becomes(k, sockets[k].client, sockets[k].server, TRUE, sockets[k].asks,
                    sockets[k].carries, <<>>, <<>>)
<1>1. PICK s : s = sockets[k]
  OBVIOUS
<1>2. s \in Socket
  BY <1>1 DEF TypeOK
<1>3. PICK x : x = [s EXCEPT !.broken = TRUE, !.down = <<>>, !.up = <<>>]
  OBVIOUS
<1>4. /\ x \in Socket /\ x.client = s.client /\ x.server = s.server /\ x.broken
      /\ x.asks = s.asks /\ x.carries = s.carries /\ x.down = <<>> /\ x.up = <<>>
  BY <1>2, <1>3, EmptyQueue DEF Socket
<1>5. sockets' = [sockets EXCEPT ![k] = x]
  BY <1>1, <1>2, <1>3 DEF NetworkBreaks, TypeOK, Socket
<1>6. /\ sockets' \in [Sockets -> Socket]
      /\ Becomes(k, x.client, x.server, x.broken, x.asks, x.carries, x.down, x.up)
  BY <1>4, <1>5, SetDoes
<1>7. Becomes(k, sockets[k].client, sockets[k].server, TRUE, sockets[k].asks,
              sockets[k].carries, <<>>, <<>>)
  BY <1>1, <1>4, <1>6 DEF Becomes, Turns
<1>8. /\ faults' \in Nat
      /\ UNCHANGED <<client, stored, records, pending, told, revoked, excused, taken, saved, astray>>
  BY DEF NetworkBreaks, Fault, TypeOK, history, check
<1>9. TypeOK'
  BY <1>6, <1>8 DEF TypeOK
<1> QED BY <1>7, <1>9

(* A command is appended, unless the transport is broken.                   *)
LEMMA SendDoes ==
  ASSUME TypeOK, NEW id \in Commands, NEW what \in {"join", "takeover", "leave"}, Send(id, what)
  PROVE  /\ TypeOK'
         /\ client.current \in Sockets /\ sockets[client.current].client = "open"
         /\ Becomes(client.current, "open", sockets[client.current].server,
                    sockets[client.current].broken, sockets[client.current].asks,
                    sockets[client.current].carries, sockets[client.current].down,
                    IF sockets[client.current].broken THEN sockets[client.current].up
                    ELSE Append(sockets[client.current].up, [what |-> what, id |-> id]))
<1>1. PICK k : k = client.current
  OBVIOUS
<1>2. k \in Sockets /\ sockets[k].client = "open"
  BY <1>1 DEF Send, Transport, TypeOK, Client
<1>3. PICK s : s = sockets[k]
  OBVIOUS
<1>4. s \in Socket /\ s.client = "open"
  BY <1>2, <1>3 DEF TypeOK
<1>5. PICK c : c = [what |-> what, id |-> id]
  OBVIOUS
<1>6. PICK u : u = IF s.broken THEN s.up ELSE Append(s.up, c)
  OBVIOUS
<1>7. u \in Seq(Command)
  <2>1. c \in Command /\ s.up \in Seq(Command)
    BY <1>4, <1>5 DEF Command, Socket
  <2> QED BY <1>6, <2>1
<1>8. PICK x : x = [s EXCEPT !.up = u]
  OBVIOUS
<1>9. /\ x \in Socket /\ x.client = "open" /\ x.server = s.server /\ x.broken = s.broken
      /\ x.asks = s.asks /\ x.carries = s.carries /\ x.down = s.down /\ x.up = u
  BY <1>4, <1>7, <1>8 DEF Socket
<1>10. sockets' = [sockets EXCEPT ![k] = x]
  BY <1>1, <1>2, <1>3, <1>4, <1>5, <1>6, <1>8 DEF Send, TypeOK, Socket
<1>11. /\ sockets' \in [Sockets -> Socket]
       /\ Becomes(k, x.client, x.server, x.broken, x.asks, x.carries, x.down, x.up)
  BY <1>2, <1>9, <1>10, SetDoes
<1>12. TypeOK'
  BY <1>11 DEF Send, TypeOK, history, check
<1> QED BY <1>1, <1>2, <1>3, <1>5, <1>6, <1>9, <1>11, <1>12
(* What holds of one transport: its ends, what it is about and its queues.   *)
Plain(m) == m.what \in {"ready", "ended", "replaced", "evicted"}
Shape(x) ==
  /\ Holds(x) \/ x.down # <<>> => x.carries # None
  /\ x.server = "none" => x.carries = None
  /\ x.server \in {"none", "loading"} => x.down = <<>> /\ x.up = <<>> /\ x.client # "open"
  /\ x.client = "none" => x.server = "none" /\ x.asks = None
  /\ ~Listens(x) => x.down = <<>>
  /\ x.asks # None /\ (x.down # <<>> \/ (Listens(x) /\ x.server \in {"open", "closing", "cut"})) =>
       x.down # <<>> /\ x.down[1].what = "ready"
  /\ \A n \in DOMAIN x.down :
       /\ x.down[n].id = None <=> Plain(x.down[n])
       /\ x.down[n].what = "ready" => n = 1
       /\ x.down[n].what = "ended" => n = Len(x.down) /\ x.server # "open"
  /\ x.server = "replaced" => x.carries # None
Shapes == \A k \in Sockets : Shape(sockets[k])

Same == UNCHANGED <<client, stored, pending, told, excused, taken>>
HearsReady(k) ==
  /\ client'.active = client.active /\ client'.current = k /\ client'.settled /\ ~client'.timer
  /\ client'.identity = [connection |-> sockets[k].carries.connection,
                         epoch |-> sockets[k].carries.epoch]
  /\ stored' = client'.identity /\ excused' = excused \cap UnderWay
  /\ told' = IF \/ client.identity # None
                   /\ client.identity.connection = sockets[k].carries.connection
                \/ told = "unknown"
             THEN told ELSE "out"
  /\ UNCHANGED <<pending, taken>>
HearsEnded(k) ==
  /\ client'.active = client.active /\ client'.current = k /\ client'.settled
  /\ client'.timer = client.timer /\ client'.identity = None /\ stored' = None
  /\ UNCHANGED <<pending, told, excused, taken>>

LEMMA HearsDoes ==
  ASSUME TypeOK, Shapes, NEW k \in Sockets, Hears(k)
  PROVE  /\ TypeOK'
         /\ sockets[k].client = "open" /\ ~sockets[k].broken /\ sockets[k].down # <<>>
         /\ Head(sockets[k].down) \in Message
         /\ Becomes(k, IF Head(sockets[k].down).what = "ended" THEN "gone" ELSE "open",
                    sockets[k].server, FALSE, None, sockets[k].carries,
                    Tail(sockets[k].down), sockets[k].up)
         /\ UNCHANGED <<records, revoked, faults, unexplained, saved, astray>>
         /\ \/ k # client.current /\ Same
            \/ /\ k = client.current /\ Head(sockets[k].down).what = "ready"
               /\ HearsReady(k)
            \/ /\ k = client.current /\ Head(sockets[k].down).what = "ended"
               /\ HearsEnded(k)
            \/ /\ k = client.current /\ Head(sockets[k].down).what \notin {"ready", "ended"}
               /\ Learns(k, Head(sockets[k].down))
<1>1. PICK s : s = sockets[k]
  OBVIOUS
<1>2. /\ s \in Socket /\ s.client = "open" /\ ~s.broken /\ s.down # <<>>
      /\ s.down \in Seq(Message) /\ s.carries \in Carried
  BY <1>1 DEF TypeOK, Socket, Hears, Shapes, Shape
<1>3. PICK m : m = Head(s.down)
  OBVIOUS
<1>4. PICK rest : rest = Tail(s.down)
  OBVIOUS
<1>5. m \in Message /\ rest \in Seq(Message)
  BY <1>2, <1>3, <1>4
<1>6. PICK x : x = [s EXCEPT !.down = rest, !.asks = None,
                             !.client = IF m.what = "ended" THEN "gone" ELSE @]
  OBVIOUS
<1>7. /\ x \in Socket /\ x.client = (IF m.what = "ended" THEN "gone" ELSE "open")
      /\ x.server = s.server /\ ~x.broken /\ x.asks = None /\ x.carries = s.carries
      /\ x.down = rest /\ x.up = s.up
  BY <1>2, <1>5, <1>6 DEF Socket, Clients
<1>8. Put(k, x)
  BY <1>1, <1>2, <1>3, <1>4, <1>6 DEF Hears, Socket
<1>9. /\ sockets' \in [Sockets -> Socket]
      /\ Becomes(k, x.client, x.server, x.broken, x.asks, x.carries, x.down, x.up)
  BY <1>7, <1>8, PutDoes
<1>10. Becomes(k, IF m.what = "ended" THEN "gone" ELSE "open", s.server, FALSE, None, s.carries,
               rest, s.up)
  BY <1>7, <1>9 DEF Becomes, Turns
<1>11. UNCHANGED <<records, revoked, faults, unexplained, saved, astray>>
  BY DEF Hears, check
<1>12. CASE k # client.current
  <2>1. Same
    BY <1>12 DEF Hears, Same
  <2> QED BY <1>1, <1>2, <1>3, <1>4, <1>5, <1>9, <1>10, <1>11, <1>12, <2>1 DEF Same, TypeOK
<1>13. CASE k = client.current /\ m.what = "ready"
  <2>1. Ready(k)
    BY <1>1, <1>3, <1>13 DEF Hears
  <2>2. PICK now : now = [connection |-> s.carries.connection, epoch |-> s.carries.epoch]
    OBVIOUS
  <2>3. now \in Identity
    BY <1>2, <2>2 DEF Carried, Identity
  <2>4. PICK y : y = [client EXCEPT !.identity = now, !.timer = FALSE, !.settled = TRUE,
                                    !.shown = "connected"]
    OBVIOUS
  <2>5. /\ y \in Client /\ y.active = client.active /\ y.current = client.current /\ y.settled
        /\ ~y.timer /\ y.identity = now
    BY <2>3, <2>4 DEF TypeOK, Client
  <2>6. /\ client' = y /\ stored' = now /\ excused' = excused \cap UnderWay
        /\ told' = IF \/ client.identity # None /\ client.identity.connection = s.carries.connection
                      \/ told = "unknown"
                   THEN told ELSE "out"
        /\ UNCHANGED <<pending, taken>>
    BY <1>1, <2>1, <2>2, <2>4 DEF Ready
  <2>7. HearsReady(k)
    BY <1>1, <1>13, <2>2, <2>5, <2>6 DEF HearsReady
  <2>8. TypeOK'
    BY <1>9, <1>11, <2>3, <2>5, <2>6 DEF TypeOK
  <2> QED BY <1>1, <1>2, <1>3, <1>4, <1>5, <1>10, <1>11, <1>13, <2>7, <2>8
<1>14. CASE k = client.current /\ m.what = "ended"
  <2>1. Ended
    BY <1>1, <1>3, <1>14 DEF Hears
  <2>2. PICK y : y = [client EXCEPT !.identity = None, !.settled = TRUE, !.shown = "offline"]
    OBVIOUS
  <2>3. /\ y \in Client /\ y.active = client.active /\ y.current = client.current /\ y.settled
        /\ y.timer = client.timer /\ y.identity = None
    BY <2>2 DEF TypeOK, Client
  <2>4. /\ client' = y /\ stored' = None /\ UNCHANGED <<pending, told, excused, taken>>
    BY <2>1, <2>2 DEF Ended
  <2>5. HearsEnded(k)
    BY <1>14, <2>3, <2>4 DEF HearsEnded
  <2>6. TypeOK'
    BY <1>9, <1>11, <2>3, <2>4 DEF TypeOK
  <2> QED BY <1>1, <1>2, <1>3, <1>4, <1>5, <1>10, <1>11, <1>14, <2>5, <2>6
<1>15. CASE k = client.current /\ m.what \notin {"ready", "ended"}
  <2>1. Learns(k, m)
    BY <1>1, <1>3, <1>15 DEF Hears
  <2>2. TypeOK'
    BY <1>9, <1>11, <2>1 DEF Learns, TypeOK
  <2> QED BY <1>1, <1>2, <1>3, <1>4, <1>5, <1>10, <1>11, <1>15, <2>1, <2>2
<1> QED BY <1>12, <1>13, <1>14, <1>15
-----------------------------------------------------------------------------
(* What the server does.                                                    *)

LEMMA LoadingIs ==
  ASSUME TypeOK, NEW k \in Sockets, sockets[k].asks # None, NEW call, call \in BOOLEAN
  PROVE  /\ Loading(k, call) \in Socket
         /\ Loading(k, call).client = sockets[k].client /\ Loading(k, call).server = "loading"
         /\ Loading(k, call).broken = sockets[k].broken /\ Loading(k, call).asks = sockets[k].asks
         /\ Loading(k, call).carries = [connection |-> sockets[k].asks.connection,
                                        epoch |-> sockets[k].asks.epoch, call |-> call]
         /\ Loading(k, call).carries \in Carried
         /\ Loading(k, call).down = sockets[k].down /\ Loading(k, call).up = sockets[k].up
<1>1. PICK s : s = sockets[k]
  OBVIOUS
<1>2. s \in Socket /\ s.asks \in Identity
  BY <1>1 DEF TypeOK, Socket
<1>3. PICK c : c = [connection |-> s.asks.connection, epoch |-> s.asks.epoch, call |-> call]
  OBVIOUS
<1>4. c \in Carried
  BY <1>2, <1>3 DEF Carried, Identity
<1>5. PICK x : x = [s EXCEPT !.server = "loading", !.carries = c]
  OBVIOUS
<1>6. /\ x \in Socket /\ x.client = s.client /\ x.server = "loading" /\ x.broken = s.broken
      /\ x.asks = s.asks /\ x.carries = c /\ x.down = s.down /\ x.up = s.up
  BY <1>2, <1>4, <1>5 DEF Socket, Servers
<1> QED BY <1>1, <1>3, <1>4, <1>5, <1>6 DEF Loading

(* An open socket of the connection is taken over, and closed.              *)
LEMMA FetchReplacingDoes ==
  ASSUME TypeOK, Shapes, NEW k \in Sockets, FetchReplacing(k)
  PROVE  /\ TypeOK'
         /\ sockets'[k].carries \in Carried
         /\ \E j \in Replaceable(k) :
              /\ j # k /\ \A i \in Sockets \ {k, j} : sockets'[i] = sockets[i]
              /\ Turns(k, sockets[k].client, "loading", sockets[k].broken, sockets[k].asks,
                       [connection |-> sockets[k].asks.connection,
                        epoch |-> sockets[k].asks.epoch, call |-> sockets[j].carries.call],
                       sockets[k].down, sockets[k].up)
              /\ Turns(j, sockets[j].client, "replaced", sockets[j].broken, sockets[j].asks,
                       sockets[j].carries, sockets[j].down, <<>>)
              /\ saved' = IF From(j) THEN [saved EXCEPT !.socket = None] ELSE saved
<1>1. PICK j \in Replaceable(k) :
        /\ sockets' = [sockets EXCEPT ![k] = Loading(k, sockets[j].carries.call),
                                      ![j] = [@ EXCEPT !.server = "replaced", !.up = <<>>]]
        /\ saved' = IF From(j) THEN [saved EXCEPT !.socket = None] ELSE saved
  BY DEF FetchReplacing
<1>2. j \in Sockets /\ j # k /\ sockets[k].asks # None /\ Open(j)
  BY DEF FetchReplacing, Arriving, Open, Replaceable
<1>3. PICK s : s = sockets[j]
  OBVIOUS
<1>4. s \in Socket /\ s.server = "open"
  BY <1>2, <1>3 DEF TypeOK, Open
<1>5. PICK call : call = s.carries.call
  OBVIOUS
<1>6. PICK y : y = [s EXCEPT !.server = "replaced", !.up = <<>>]
  OBVIOUS
<1>7. /\ y \in Socket /\ y.client = s.client /\ y.server = "replaced" /\ y.broken = s.broken
      /\ y.asks = s.asks /\ y.carries = s.carries /\ y.down = s.down /\ y.up = <<>>
  BY <1>4, <1>6, EmptyQueue DEF Socket, Servers
<1>8. sockets' = [sockets EXCEPT ![k] = Loading(k, call), ![j] = y]
  BY <1>1, <1>2, <1>3, <1>5, <1>6 DEF TypeOK
<1>9. call \in BOOLEAN
  BY <1>2, <1>3, <1>4, <1>5 DEF Shapes, Shape, Holds, Socket, Carried
<1>10. PICK x : x = Loading(k, call)
  OBVIOUS
<1>11. /\ x \in Socket /\ x.client = sockets[k].client /\ x.server = "loading"
       /\ x.broken = sockets[k].broken /\ x.asks = sockets[k].asks
       /\ x.carries = [connection |-> sockets[k].asks.connection,
                       epoch |-> sockets[k].asks.epoch, call |-> call]
       /\ x.carries \in Carried /\ x.down = sockets[k].down /\ x.up = sockets[k].up
  BY <1>2, <1>9, <1>10, LoadingIs
<1>15. /\ sockets' \in [Sockets -> Socket] /\ sockets'[k] = x /\ sockets'[j] = y
       /\ \A i \in Sockets \ {k, j} : sockets'[i] = sockets[i]
  BY <1>2, <1>7, <1>8, <1>10, <1>11 DEF TypeOK
<1>16. Turns(j, sockets[j].client, "replaced", sockets[j].broken, sockets[j].asks,
             sockets[j].carries, sockets[j].down, <<>>)
  BY <1>3, <1>7, <1>15 DEF Turns
<1>17. Turns(k, sockets[k].client, "loading", sockets[k].broken, sockets[k].asks,
             [connection |-> sockets[k].asks.connection,
              epoch |-> sockets[k].asks.epoch, call |-> sockets[j].carries.call],
             sockets[k].down, sockets[k].up)
  BY <1>3, <1>5, <1>11, <1>15 DEF Turns
<1>18. saved' \in Checked \cup {None}
  <2>1. CASE saved = None
    BY <1>1, <2>1 DEF From
  <2>2. CASE saved # None
    BY <1>1, <2>2 DEF From, TypeOK, Checked
  <2> QED BY <2>1, <2>2
<1>19. TypeOK'
  BY <1>15, <1>18 DEF FetchReplacing, TypeOK, history
<1> QED BY <1>1, <1>2, <1>11, <1>15, <1>16, <1>17, <1>19

(* The record of the connection is taken over.                              *)
LEMMA FetchResumingDoes ==
  ASSUME TypeOK, NEW k \in Sockets, FetchResuming(k)
  PROVE  /\ TypeOK'
         /\ sockets[k].asks # None /\ records[sockets[k].asks.connection] # None
         /\ sockets'[k].carries \in Carried
         /\ Becomes(k, sockets[k].client, "loading", sockets[k].broken, sockets[k].asks,
                    [connection |-> sockets[k].asks.connection, epoch |-> sockets[k].asks.epoch,
                     call |-> records[sockets[k].asks.connection].call],
                    sockets[k].down, sockets[k].up)
         /\ records' = [records EXCEPT ![sockets[k].asks.connection] = None]
<1>1. sockets[k].asks # None /\ records[sockets[k].asks.connection] # None
  BY DEF FetchResuming, Recorded
<1>2. PICK c : c = sockets[k].asks.connection
  OBVIOUS
<1>3. c \in Connections /\ records[c] \in Suspended /\ records[c].call \in BOOLEAN
  BY <1>1, <1>2 DEF TypeOK, Socket, Identity, Suspended
<1>4. PICK x : x = Loading(k, records[c].call)
  OBVIOUS
<1>5. /\ x \in Socket /\ x.client = sockets[k].client /\ x.server = "loading"
      /\ x.broken = sockets[k].broken /\ x.asks = sockets[k].asks
      /\ x.carries = [connection |-> c, epoch |-> sockets[k].asks.epoch, call |-> records[c].call]
      /\ x.carries \in Carried /\ x.down = sockets[k].down /\ x.up = sockets[k].up
  BY <1>1, <1>2, <1>3, <1>4, LoadingIs
<1>6. sockets' = [sockets EXCEPT ![k] = x] /\ records' = [records EXCEPT ![c] = None]
  BY <1>2, <1>4 DEF FetchResuming
<1>7. /\ sockets' \in [Sockets -> Socket]
      /\ Becomes(k, x.client, x.server, x.broken, x.asks, x.carries, x.down, x.up)
  BY <1>5, <1>6, SetDoes
<1>8. TypeOK'
  BY <1>3, <1>6, <1>7 DEF FetchResuming, TypeOK, history, check
<1>9. sockets'[k] = x
  BY <1>6 DEF TypeOK
<1> QED BY <1>1, <1>2, <1>5, <1>6, <1>7, <1>8, <1>9

LEMMA FreshConnectionIs ==
  ASSUME \E x \in Connections : x \notin Held /\ records[x] = None
  PROVE  FreshConnection \in Connections /\ FreshConnection \notin Held
         /\ records[FreshConnection] = None
BY DEF FreshConnection

LEMMA FetchNewDoes ==
  ASSUME TypeOK, NEW k \in Sockets, FetchNew(k)
  PROVE  /\ TypeOK'
         /\ FreshConnection \in Connections /\ FreshConnection \notin Held
         /\ records[FreshConnection] = None /\ sockets'[k].carries \in Carried
         /\ Becomes(k, sockets[k].client, "loading", sockets[k].broken, sockets[k].asks,
                    [connection |-> FreshConnection, epoch |-> 1, call |-> FALSE],
                    sockets[k].down, sockets[k].up)
<1>1. PICK c : c = FreshConnection
  OBVIOUS
<1>2. c \in Connections /\ c \notin Held /\ records[c] = None
  BY <1>1, FreshConnectionIs DEF FetchNew
<1>3. PICK d : d = [connection |-> c, epoch |-> 1, call |-> FALSE]
  OBVIOUS
<1>4. d \in Carried
  BY <1>2, <1>3 DEF Carried
<1>5. PICK s : s = sockets[k]
  OBVIOUS
<1>6. s \in Socket
  BY <1>5 DEF TypeOK
<1>7. PICK x : x = [s EXCEPT !.server = "loading", !.carries = d]
  OBVIOUS
<1>8. /\ x \in Socket /\ x.client = s.client /\ x.server = "loading" /\ x.broken = s.broken
      /\ x.asks = s.asks /\ x.carries = d /\ x.down = s.down /\ x.up = s.up
  BY <1>4, <1>6, <1>7 DEF Socket, Servers
<1>9. sockets' = [sockets EXCEPT ![k] = x]
  BY <1>1, <1>3, <1>5, <1>6, <1>7 DEF FetchNew, TypeOK, Socket
<1>10. /\ sockets' \in [Sockets -> Socket]
       /\ Becomes(k, x.client, x.server, x.broken, x.asks, x.carries, x.down, x.up)
  BY <1>8, <1>9, SetDoes
<1>11. TypeOK'
  BY <1>10 DEF FetchNew, TypeOK
<1>12. sockets'[k] = x
  BY <1>9 DEF TypeOK
<1> QED BY <1>1, <1>2, <1>3, <1>4, <1>5, <1>8, <1>10, <1>11, <1>12

LEMMA NotUpgradedDoes ==
  ASSUME TypeOK, NEW k \in Sockets, NotUpgraded(k)
  PROVE  /\ TypeOK'
         /\ Becomes(k, sockets[k].client, "closed", sockets[k].broken, sockets[k].asks,
                    sockets[k].carries, sockets[k].down, sockets[k].up)
<1>1. PICK s : s = sockets[k]
  OBVIOUS
<1>2. s \in Socket
  BY <1>1 DEF TypeOK
<1>3. PICK x : x = [s EXCEPT !.server = "closed"]
  OBVIOUS
<1>4. /\ x \in Socket /\ x.client = s.client /\ x.server = "closed" /\ x.broken = s.broken
      /\ x.asks = s.asks /\ x.carries = s.carries /\ x.down = s.down /\ x.up = s.up
  BY <1>2, <1>3 DEF Socket, Servers
<1>5. Put(k, x)
  BY <1>1, <1>3 DEF NotUpgraded
<1>6. /\ sockets' \in [Sockets -> Socket]
      /\ Becomes(k, x.client, x.server, x.broken, x.asks, x.carries, x.down, x.up)
  BY <1>4, <1>5, PutDoes
<1>7. TypeOK'
  BY <1>6 DEF NotUpgraded, TypeOK, history, check
<1> QED BY <1>1, <1>4, <1>6, <1>7

LEMMA AcceptFailsDoes ==
  ASSUME TypeOK, Shapes, NEW k \in Sockets, AcceptFails(k)
  PROVE  /\ TypeOK'
         /\ Becomes(k, sockets[k].client, "closed", sockets[k].broken, sockets[k].asks,
                    sockets[k].carries, sockets[k].down, sockets[k].up)
<1>1. PICK s : s = sockets[k]
  OBVIOUS
<1>2. s \in Socket /\ s.carries \in Carried
  BY <1>1 DEF TypeOK, AcceptFails, Shapes, Shape, Holds, Socket
<1>3. PICK x : x = [s EXCEPT !.server = "closed"]
  OBVIOUS
<1>4. /\ x \in Socket /\ x.client = s.client /\ x.server = "closed" /\ x.broken = s.broken
      /\ x.asks = s.asks /\ x.carries = s.carries /\ x.down = s.down /\ x.up = s.up
  BY <1>2, <1>3 DEF Socket, Servers
<1>5. Put(k, x)
  BY <1>1, <1>3 DEF AcceptFails
<1>6. /\ sockets' \in [Sockets -> Socket]
      /\ Becomes(k, x.client, x.server, x.broken, x.asks, x.carries, x.down, x.up)
  BY <1>4, <1>5, PutDoes
<1>7. s.carries.connection \in Connections
  BY <1>2 DEF Carried
<1>8. /\ faults' \in Nat
      /\ UNCHANGED <<client, stored, records, pending, told, revoked, taken, saved, astray>>
      /\ excused' = excused \cup {s.carries.connection}
  BY <1>1 DEF AcceptFails, Fault, check, TypeOK
<1>9. TypeOK'
  BY <1>6, <1>7, <1>8 DEF TypeOK
<1> QED BY <1>1, <1>4, <1>6, <1>9
LEMMA SentIs ==
  ASSUME NEW x, x \in Socket, NEW m, m \in Message
  PROVE  Sent(x, m) \in Seq(Message)
BY DEF Sent, Socket

LEMMA NoticeIs ==
  /\ Notice("ready") \in Message /\ Notice("ended") \in Message
  /\ Notice("replaced") \in Message /\ Notice("evicted") \in Message
  /\ \A what : Notice(what).what = what /\ Notice(what).id = None
BY DEF Notice, Message

LEMMA AcceptsDoes ==
  ASSUME TypeOK, NEW k \in Sockets, Accepts(k)
  PROVE  /\ TypeOK'
         /\ Becomes(k, sockets[k].client, "open", sockets[k].broken, sockets[k].asks,
                    sockets[k].carries,
                    IF Listens(sockets[k]) THEN <<Notice("ready")>> ELSE sockets[k].down,
                    sockets[k].up)
<1>1. PICK s : s = sockets[k]
  OBVIOUS
<1>2. s \in Socket
  BY <1>1 DEF TypeOK
<1>3. PICK d : d = IF Listens(s) THEN <<Notice("ready")>> ELSE s.down
  OBVIOUS
<1>4. d \in Seq(Message)
  <2>1. <<Notice("ready")>> \in Seq(Message)
    BY NoticeIs
  <2>2. s.down \in Seq(Message)
    BY <1>2 DEF Socket
  <2> QED BY <1>3, <2>1, <2>2
<1>5. PICK x : x = [s EXCEPT !.server = "open", !.down = d]
  OBVIOUS
<1>6. /\ x \in Socket /\ x.client = s.client /\ x.server = "open" /\ x.broken = s.broken
      /\ x.asks = s.asks /\ x.carries = s.carries /\ x.down = d /\ x.up = s.up
  BY <1>2, <1>4, <1>5 DEF Socket, Servers
<1>7. sockets' = [sockets EXCEPT ![k] = x]
  BY <1>1, <1>2, <1>3, <1>5 DEF Accepts, TypeOK, Socket
<1>8. /\ sockets' \in [Sockets -> Socket]
      /\ Becomes(k, x.client, x.server, x.broken, x.asks, x.carries, x.down, x.up)
  BY <1>6, <1>7, SetDoes
<1>9. TypeOK'
  BY <1>8 DEF Accepts, TypeOK, history, check
<1> QED BY <1>1, <1>3, <1>6, <1>8, <1>9

(* A command is answered on its transport, and leaves it in the call or out.  *)
Answered(k, what, call) ==
  Turns(k, sockets[k].client, sockets[k].server, sockets[k].broken, sockets[k].asks,
        [sockets[k].carries EXCEPT !.call = call],
        Sent(sockets[k], [what |-> what, id |-> Head(sockets[k].up).id]), Tail(sockets[k].up))

LEMMA AnsweringIs ==
  ASSUME TypeOK, Shapes, NEW k \in Sockets, Holds(sockets[k]), sockets[k].up # <<>>,
         NEW what, what \in {"joined", "left", "conflict"}, NEW call, call \in BOOLEAN
  PROVE  /\ Head(sockets[k].up) \in Command /\ sockets[k].carries \in Carried
         /\ Answering(k, what, call) \in Socket
         /\ sockets'[k] = Answering(k, what, call) => Answered(k, what, call)
<1>1. PICK s : s = sockets[k]
  OBVIOUS
<1>2. s \in Socket /\ s.carries \in Carried /\ s.up \in Seq(Command) /\ s.up # <<>>
  BY <1>1 DEF TypeOK, Shapes, Shape, Holds, Socket
<1>3. Head(s.up) \in Command /\ Tail(s.up) \in Seq(Command)
  BY <1>2
<1>4. PICK m : m = [what |-> what, id |-> Head(s.up).id]
  OBVIOUS
<1>5. m \in Message
  BY <1>3, <1>4 DEF Command, Message
<1>6. PICK d : d = Sent(s, m)
  OBVIOUS
<1>7. d \in Seq(Message)
  BY <1>2, <1>5, <1>6, SentIs
<1>8. PICK u : u = Tail(s.up)
  OBVIOUS
<1>9. PICK c : c = [s.carries EXCEPT !.call = call]
  OBVIOUS
<1>10. c \in Carried
  BY <1>2, <1>9 DEF Carried
<1>11. PICK x : x = [s EXCEPT !.up = u, !.carries = c, !.down = d]
  OBVIOUS
<1>12. /\ x \in Socket /\ x.client = s.client /\ x.server = s.server /\ x.broken = s.broken
       /\ x.asks = s.asks /\ x.carries = c /\ x.down = d /\ x.up = u
  BY <1>2, <1>3, <1>7, <1>8, <1>10, <1>11 DEF Socket
<1>13. Answering(k, what, call) = x
  BY <1>1, <1>2, <1>4, <1>6, <1>8, <1>9, <1>11 DEF Answering, Socket
<1> QED BY <1>1, <1>2, <1>3, <1>4, <1>6, <1>8, <1>9, <1>12, <1>13 DEF Answered, Turns

(* The call of a transport is another's now, or nobody's.                     *)
Losing(j) ==
  \E what \in {"replaced", "evicted"} :
    Turns(j, sockets[j].client, sockets[j].server, sockets[j].broken, sockets[j].asks,
          [sockets[j].carries EXCEPT !.call = FALSE], Sent(sockets[j], Notice(what)),
          sockets[j].up)

LEMMA OustedIs ==
  ASSUME TypeOK, Shapes, NEW j \in Sockets, Holds(sockets[j]),
         NEW what, what \in {"replaced", "evicted"}
  PROVE  /\ sockets[j].carries \in Carried /\ Ousted(j, what) \in Socket
         /\ sockets'[j] = Ousted(j, what) => Losing(j)
<1>1. PICK s : s = sockets[j]
  OBVIOUS
<1>2. s \in Socket /\ s.carries \in Carried
  BY <1>1 DEF TypeOK, Shapes, Shape, Holds, Socket
<1>3. PICK d : d = Sent(s, Notice(what))
  OBVIOUS
<1>4. d \in Seq(Message)
  BY <1>2, <1>3, NoticeIs, SentIs
<1>5. PICK c : c = [s.carries EXCEPT !.call = FALSE]
  OBVIOUS
<1>6. c \in Carried
  BY <1>2, <1>5 DEF Carried
<1>7. PICK x : x = [s EXCEPT !.carries = c, !.down = d]
  OBVIOUS
<1>8. /\ x \in Socket /\ x.client = s.client /\ x.server = s.server /\ x.broken = s.broken
      /\ x.asks = s.asks /\ x.carries = c /\ x.down = d /\ x.up = s.up
  BY <1>2, <1>4, <1>6, <1>7 DEF Socket
<1>9. Ousted(j, what) = x
  BY <1>1, <1>2, <1>3, <1>5, <1>7 DEF Ousted, Socket
<1> QED BY <1>1, <1>2, <1>3, <1>5, <1>8, <1>9 DEF Losing, Turns
(* The server answers the command at the head, and may take the call away     *)
(* from a transport or from a record.                                       *)
AnswersAlone(k) ==
  /\ \E what \in {"joined", "left", "conflict"} :
       Answered(k, what, IF what = "conflict" THEN sockets[k].carries.call ELSE what = "joined")
  /\ \A i \in Sockets \ {k} : sockets'[i] = sockets[i]
  /\ taken' = taken \cup Unanswered(k)
  /\ UNCHANGED <<records, excused>>
AnswersTaking(k, j) ==
  /\ j # k /\ Open(j) /\ sockets[j].carries.connection # sockets[k].carries.connection
  /\ Answered(k, "joined", TRUE) /\ Losing(j)
  /\ \A i \in Sockets \ {k, j} : sockets'[i] = sockets[i]
  /\ taken' = taken \cup Unanswered(k) \cup {sockets[j].carries.connection}
  /\ UNCHANGED <<records, excused>>
AnswersTakingRecord(k, c) ==
  /\ records[c] # None /\ sockets[k].carries.connection # c
  /\ Answered(k, "joined", TRUE)
  /\ \A i \in Sockets \ {k} : sockets'[i] = sockets[i]
  /\ records' = [records EXCEPT ![c] = None] /\ excused' = excused \cup {c}
  /\ taken' = taken \cup Unanswered(k)

LEMMA AnswersDoes ==
  ASSUME TypeOK, Shapes, NEW k \in Sockets, Holds(sockets[k]), sockets[k].up # <<>>,
         NEW what, what \in {"joined", "left", "conflict"}, NEW call, call \in BOOLEAN,
         sockets' = [sockets EXCEPT ![k] = Answering(k, what, call)]
  PROVE  /\ sockets' \in [Sockets -> Socket] /\ Answered(k, what, call)
         /\ \A i \in Sockets \ {k} : sockets'[i] = sockets[i]
<1>1. PICK x : x = Answering(k, what, call)
  OBVIOUS
<1>2. x \in Socket /\ (sockets'[k] = x => Answered(k, what, call))
  BY <1>1, AnsweringIs
<1>3. sockets' = [sockets EXCEPT ![k] = x]
  BY <1>1
<1> QED BY <1>2, <1>3 DEF TypeOK

LEMMA ServerHearsDoes ==
  ASSUME TypeOK, Shapes, NEW k \in Sockets, ServerHears(k)
  PROVE  /\ TypeOK'
         /\ sockets[k].server \in {"open", "closing", "cut"} /\ sockets[k].up # <<>> /\ ~sockets[k].broken
         /\ Head(sockets[k].up) \in Command /\ sockets[k].carries \in Carried
         /\ UNCHANGED <<client, stored, pending, told, revoked, faults, unexplained,
                        saved, astray>>
         /\ \/ AnswersAlone(k)
            \/ \E j \in Sockets : AnswersTaking(k, j)
            \/ \E c \in Connections : AnswersTakingRecord(k, c)
<1>1. /\ sockets[k].server \in {"open", "closing", "cut"} /\ sockets[k].up # <<>> /\ ~sockets[k].broken
      /\ UNCHANGED <<client, stored, pending, told, revoked, faults, unexplained,
                        saved, astray>>
      /\ Holds(sockets[k])
  BY DEF ServerHears, Attached, Holds, check
<1>2. "joined" \in {"joined", "left", "conflict"} /\ TRUE \in BOOLEAN
  OBVIOUS
<1>3. /\ Head(sockets[k].up) \in Command /\ sockets[k].carries \in Carried
      /\ Unanswered(k) \subseteq Connections
  BY <1>1, <1>2, AnsweringIs DEF Unanswered, Carried
<1>4. CASE Leaves(k)
  <2>1. sockets' = [sockets EXCEPT ![k] = Answering(k, "left", FALSE)]
    BY <1>4 DEF Leaves
  <2>2. /\ sockets' \in [Sockets -> Socket] /\ Answered(k, "left", FALSE)
        /\ \A i \in Sockets \ {k} : sockets'[i] = sockets[i]
    BY <1>1, <2>1, AnswersDoes
  <2>3. AnswersAlone(k)
    <3>1. Answered(k, "left", "left" = "joined")
      BY <2>2 DEF Answered
    <3> QED BY <1>4, <2>2, <3>1 DEF AnswersAlone, Leaves
  <2> QED BY <1>1, <1>3, <1>4, <2>2, <2>3 DEF Leaves, TypeOK
<1>5. CASE Conflicts(k)
  <2>1. sockets' = [sockets EXCEPT ![k] = Answering(k, "conflict", sockets[k].carries.call)]
    BY <1>5 DEF Conflicts
  <2>2. sockets[k].carries.call \in BOOLEAN
    BY <1>3 DEF Carried
  <2>3. /\ sockets' \in [Sockets -> Socket] /\ Answered(k, "conflict", sockets[k].carries.call)
        /\ \A i \in Sockets \ {k} : sockets'[i] = sockets[i]
    BY <1>1, <2>1, <2>2, AnswersDoes
  <2>4. AnswersAlone(k)
    BY <1>5, <2>3 DEF AnswersAlone, Conflicts
  <2> QED BY <1>1, <1>3, <1>5, <2>3, <2>4 DEF Conflicts, TypeOK
<1>6. CASE Joins(k)
  <2>1. sockets' = [sockets EXCEPT ![k] = Answering(k, "joined", TRUE)]
    BY <1>6 DEF Joins
  <2>2. /\ sockets' \in [Sockets -> Socket] /\ Answered(k, "joined", TRUE)
        /\ \A i \in Sockets \ {k} : sockets'[i] = sockets[i]
    BY <1>1, <2>1, AnswersDoes
  <2>3. AnswersAlone(k)
    <3>1. Answered(k, "joined", "joined" = "joined")
      BY <2>2 DEF Answered
    <3> QED BY <1>6, <2>2, <3>1 DEF AnswersAlone, Joins
  <2> QED BY <1>1, <1>3, <1>6, <2>2, <2>3 DEF Joins, TypeOK
<1>7. ASSUME NEW j \in Sockets, TakesOver(k, j)
      PROVE  TypeOK' /\ AnswersTaking(k, j)
  <2>1. /\ Open(j) /\ Holds(sockets[j]) /\ j # k
        /\ sockets[j].carries.connection # sockets[k].carries.connection
    BY <1>7 DEF TakesOver, InCallOpen, Open, Holds
  <2>2. PICK x : x = Answering(k, "joined", TRUE)
    OBVIOUS
  <2>3. x \in Socket /\ (sockets'[k] = x => Answered(k, "joined", TRUE))
    BY <1>1, <2>2, AnsweringIs
  <2>4. PICK y : y = Taken(j)
    OBVIOUS
  <2>5. y \in Socket /\ (sockets'[j] = y => Losing(j)) /\ sockets[j].carries \in Carried
    BY <2>1, <2>4, OustedIs DEF Taken
  <2>6. sockets' = [sockets EXCEPT ![k] = x, ![j] = y]
    BY <1>7, <2>2, <2>4 DEF TakesOver
  <2>7. /\ sockets' \in [Sockets -> Socket] /\ sockets'[k] = x /\ sockets'[j] = y
        /\ \A i \in Sockets \ {k, j} : sockets'[i] = sockets[i]
    BY <2>1, <2>3, <2>5, <2>6 DEF TypeOK
  <2>8. /\ taken' = taken \cup Unanswered(k) \cup {sockets[j].carries.connection}
        /\ UNCHANGED <<records, excused>>
    BY <1>7 DEF TakesOver
  <2>9. AnswersTaking(k, j)
    BY <2>1, <2>3, <2>5, <2>7, <2>8 DEF AnswersTaking
  <2>10. sockets[j].carries.connection \in Connections
    BY <2>5 DEF Carried
  <2> QED BY <1>1, <1>3, <2>7, <2>8, <2>9, <2>10 DEF TypeOK
<1>8. ASSUME NEW c \in Connections, TakesOverSuspended(k, c)
      PROVE  TypeOK' /\ AnswersTakingRecord(k, c)
  <2>1. sockets' = [sockets EXCEPT ![k] = Answering(k, "joined", TRUE)]
    BY <1>8 DEF TakesOverSuspended
  <2>2. /\ sockets' \in [Sockets -> Socket] /\ Answered(k, "joined", TRUE)
        /\ \A i \in Sockets \ {k} : sockets'[i] = sockets[i]
    BY <1>1, <2>1, AnswersDoes
  <2>3. AnswersTakingRecord(k, c)
    BY <1>8, <2>2 DEF AnswersTakingRecord, TakesOverSuspended, InCallSuspended
  <2> QED BY <1>1, <1>3, <2>2, <2>3 DEF AnswersTakingRecord, TypeOK
<1> QED BY <1>1, <1>3, <1>4, <1>5, <1>6, <1>7, <1>8 DEF ServerHears

LEMMA TakenElsewhereDoes ==
  ASSUME TypeOK, Shapes, NEW j \in Sockets, TakenElsewhere(j)
  PROVE  /\ TypeOK' /\ Open(j) /\ Losing(j)
         /\ \A i \in Sockets \ {j} : sockets'[i] = sockets[i]
         /\ taken' = taken \cup {sockets[j].carries.connection}
<1>1. Open(j) /\ Holds(sockets[j])
  BY DEF TakenElsewhere, InCallOpen, Open, Holds
<1>2. PICK y : y = Taken(j)
  OBVIOUS
<1>3. y \in Socket /\ (sockets'[j] = y => Losing(j)) /\ sockets[j].carries \in Carried
  BY <1>1, <1>2, OustedIs DEF Taken
<1>4. /\ sockets' = [sockets EXCEPT ![j] = y] /\ taken' = taken \cup {sockets[j].carries.connection}
      /\ faults' \in Nat
      /\ UNCHANGED <<client, stored, records, pending, told, revoked, excused, saved, astray>>
  BY <1>2 DEF TakenElsewhere, Fault, check, TypeOK
<1>5. sockets' \in [Sockets -> Socket] /\ Losing(j) /\ \A i \in Sockets \ {j} : sockets'[i] = sockets[i]
  BY <1>3, <1>4 DEF TypeOK
<1>6. sockets[j].carries.connection \in Connections
  BY <1>3 DEF Carried
<1> QED BY <1>1, <1>4, <1>5, <1>6 DEF TypeOK

(* Every open transport is told, and closing.                               *)
LEMMA SessionEndsDoes ==
  ASSUME TypeOK, Shapes, SessionEnds
  PROVE  /\ TypeOK'
         /\ \A k \in Sockets :
              IF Open(k)
              THEN Turns(k, sockets[k].client, "closing", sockets[k].broken, sockets[k].asks,
                         sockets[k].carries, Sent(sockets[k], Notice("ended")), sockets[k].up)
              ELSE sockets'[k] = sockets[k]
<1>1. ASSUME NEW k \in Sockets
      PROVE  /\ sockets'[k] \in Socket
             /\ IF Open(k)
                THEN Turns(k, sockets[k].client, "closing", sockets[k].broken, sockets[k].asks,
                           sockets[k].carries, Sent(sockets[k], Notice("ended")), sockets[k].up)
                ELSE sockets'[k] = sockets[k]
  <2>1. PICK s : s = sockets[k]
    OBVIOUS
  <2>2. s \in Socket
    BY <2>1 DEF TypeOK
  <2>3. PICK d : d = Sent(s, Notice("ended"))
    OBVIOUS
  <2>4. d \in Seq(Message)
    BY <2>2, <2>3, NoticeIs, SentIs
  <2>5. PICK x : x = [s EXCEPT !.server = "closing", !.down = d]
    OBVIOUS
  <2>6. /\ x \in Socket /\ x.client = s.client /\ x.server = "closing" /\ x.broken = s.broken
        /\ x.asks = s.asks /\ x.carries = s.carries /\ x.down = d /\ x.up = s.up
    BY <2>2, <2>4, <2>5 DEF Socket, Servers
  <2>7. sockets'[k] = IF Open(k) THEN x ELSE s
    BY <2>1, <2>3, <2>5 DEF SessionEnds
  <2> QED BY <2>1, <2>2, <2>3, <2>6, <2>7 DEF Turns
<1>2. sockets' = [k \in Sockets |-> sockets'[k]]
  BY DEF SessionEnds
<1>3. sockets' \in [Sockets -> Socket]
  BY <1>1, <1>2
<1>4. {sockets[k].carries.connection : k \in {j \in Sockets : Open(j)}} \subseteq Connections
  BY DEF Shapes, Shape, Holds, Open, TypeOK, Socket, Carried
<1>5. excused' = excused \cup {sockets[k].carries.connection : k \in {j \in Sockets : Open(j)}}
  BY DEF SessionEnds
<1>6. revoked' \in BOOLEAN /\ UNCHANGED <<client, stored, records, pending, told, taken, saved, astray>>
  BY DEF SessionEnds, check
<1>7. faults' \in Nat
  <2>1. faults \in Nat /\ faults > 0 /\ faults' = faults - 1
    BY DEF SessionEnds, Fault, TypeOK
  <2> QED BY <2>1
<1> QED BY <1>1, <1>3, <1>4, <1>5, <1>6, <1>7 DEF TypeOK

LEMMA ServerLosesDoes ==
  ASSUME TypeOK, Shapes, NEW k \in Sockets, ServerLoses(k)
  PROVE  /\ TypeOK' /\ sockets[k].server \in {"open", "closing", "cut"} /\ sockets[k].carries \in Carried
         /\ Becomes(k, sockets[k].client, "closed", sockets[k].broken, sockets[k].asks, None,
                    sockets[k].down, sockets[k].up)
         /\ \/ records' = records /\ excused' = excused \cup {sockets[k].carries.connection}
            \/ /\ sockets[k].broken \/ sockets[k].server \in {"open", "cut"}
               /\ records' = [records EXCEPT ![sockets[k].carries.connection] =
                    [epoch |-> sockets[k].carries.epoch, call |-> sockets[k].carries.call]]
               /\ excused' = excused
         /\ saved' = IF From(k) THEN None ELSE saved
<1>1. PICK s : s = sockets[k]
  OBVIOUS
<1>2. s \in Socket /\ s.carries \in Carried /\ s.server \in {"open", "closing", "cut"}
  BY <1>1 DEF TypeOK, ServerLoses, Attached, Shapes, Shape, Holds, Socket
<1>3. PICK x : x = [s EXCEPT !.server = "closed", !.carries = None]
  OBVIOUS
<1>4. /\ x \in Socket /\ x.client = s.client /\ x.server = "closed" /\ x.broken = s.broken
      /\ x.asks = s.asks /\ x.carries = None /\ x.down = s.down /\ x.up = s.up
  BY <1>2, <1>3 DEF Socket, Servers
<1>5. Put(k, x)
  BY <1>1, <1>3 DEF ServerLoses
<1>6. /\ sockets' \in [Sockets -> Socket]
      /\ Becomes(k, x.client, x.server, x.broken, x.asks, x.carries, x.down, x.up)
  BY <1>4, <1>5, PutDoes
<1>7. PICK r : r = [epoch |-> s.carries.epoch, call |-> s.carries.call]
  OBVIOUS
<1>8. s.carries.connection \in Connections /\ r \in Suspended
  BY <1>2, <1>7 DEF Carried, Suspended
<1>9. /\ UNCHANGED <<client, stored, pending, told, revoked, faults, taken, astray>>
      /\ \/ records' = records /\ excused' = excused \cup {s.carries.connection}
         \/ /\ s.broken \/ s.server \in {"open", "cut"}
            /\ records' = [records EXCEPT ![s.carries.connection] = r] /\ excused' = excused
      /\ saved' = IF From(k) THEN None ELSE saved
  BY <1>1, <1>2, <1>7 DEF ServerLoses
<1>10. records' \in [Connections -> Suspended \cup {None}] /\ excused' \subseteq Connections
  BY <1>8, <1>9 DEF TypeOK
<1>11. TypeOK'
  BY <1>6, <1>9, <1>10 DEF TypeOK
<1> QED BY <1>1, <1>2, <1>4, <1>6, <1>7, <1>9, <1>11

LEMMA GracePassesDoes ==
  ASSUME TypeOK, NEW c \in Connections, GracePasses(c)
  PROVE  TypeOK' /\ records' = [records EXCEPT ![c] = None] /\ sockets' = sockets
BY DEF GracePasses, TypeOK, check

(* A refresh ends the call of a transport, or of a record.                  *)
LEMMA EvictsDoes ==
  ASSUME TypeOK, Shapes, NEW j \in Sockets, Evicts(j)
  PROVE  /\ TypeOK' /\ sockets[j].server \in {"open", "closing", "cut"}
         /\ sockets[j].carries \in Carried /\ Losing(j)
         /\ \A i \in Sockets \ {j} : sockets'[i] = sockets[i]
         /\ taken' = taken \cup {sockets[j].carries.connection}
         /\ UNCHANGED <<client, stored, records, pending, told, excused, unexplained,
                        saved, astray>>
<1>1. sockets[j].server \in {"open", "closing", "cut"} /\ Holds(sockets[j])
  BY DEF Evicts, Attached, Holds
<1>2. PICK y : y = Ousted(j, "evicted")
  OBVIOUS
<1>3. y \in Socket /\ (sockets'[j] = y => Losing(j)) /\ sockets[j].carries \in Carried
  BY <1>1, <1>2, OustedIs
<1>4. /\ sockets' = [sockets EXCEPT ![j] = y] /\ taken' = taken \cup {sockets[j].carries.connection}
      /\ faults' \in Nat
      /\ UNCHANGED <<client, stored, records, pending, told, revoked, excused, unexplained,
                     saved, astray>>
  BY <1>2 DEF Evicts, Fault, check, TypeOK
<1>5. sockets' \in [Sockets -> Socket] /\ Losing(j) /\ \A i \in Sockets \ {j} : sockets'[i] = sockets[i]
  BY <1>3, <1>4 DEF TypeOK
<1>6. sockets[j].carries.connection \in Connections
  BY <1>3 DEF Carried
<1> QED BY <1>1, <1>3, <1>4, <1>5, <1>6 DEF TypeOK

LEMMA EvictsSuspendedDoes ==
  ASSUME TypeOK, NEW c \in Connections, EvictsSuspended(c)
  PROVE  /\ TypeOK' /\ records[c] # None /\ records'[c] # None
         /\ records'[c].epoch = records[c].epoch /\ ~records'[c].call
         /\ \A d \in Connections \ {c} : records'[d] = records[d]
         /\ taken' = taken \cup {c}
         /\ UNCHANGED <<client, stored, sockets, pending, told, excused, unexplained, saved, astray>>
<1>1. records[c] # None /\ records[c] \in Suspended
  BY DEF EvictsSuspended, InCallSuspended, TypeOK
<1>2. PICK r : r = [records[c] EXCEPT !.call = FALSE]
  OBVIOUS
<1>3. r \in Suspended /\ r.epoch = records[c].epoch /\ ~r.call
  BY <1>1, <1>2 DEF Suspended
<1>4. r # None
  BY <1>3, NoneIsNone
<1>5. records' = [records EXCEPT ![c] = r]
  BY <1>2 DEF EvictsSuspended
<1>6. /\ taken' = taken \cup {c} /\ faults' \in Nat
      /\ UNCHANGED <<client, stored, sockets, pending, told, revoked, excused, unexplained,
                     saved, astray>>
  BY DEF EvictsSuspended, Fault, check, TypeOK
<1> QED BY <1>1, <1>3, <1>4, <1>5, <1>6 DEF TypeOK

(* The alarm reads an attachment, and leaves it at that or writes it back.  *)
LEMMA AlarmReadsDoes ==
  ASSUME TypeOK, Shapes, NEW k \in Sockets, AlarmReads(k)
  PROVE  /\ TypeOK' /\ Open(k) /\ sockets[k].carries \in Carried
         /\ saved' = [socket |-> k, carries |-> sockets[k].carries]
         /\ UNCHANGED <<client, stored, sockets, records, pending, told, revoked, history, astray>>
<1>1. Open(k) /\ sockets[k].carries \in Carried
  BY DEF AlarmReads, Open, Shapes, Shape, Holds, TypeOK, Socket
<1>2. PICK x : x = [socket |-> k, carries |-> sockets[k].carries]
  OBVIOUS
<1>3. x \in Checked
  BY <1>1, <1>2 DEF Checked
<1>4. /\ saved' = x /\ faults' \in Nat
      /\ UNCHANGED <<client, stored, sockets, records, pending, told, revoked, history, astray>>
  BY <1>2 DEF AlarmReads, Fault, TypeOK
<1> QED BY <1>1, <1>2, <1>3, <1>4 DEF TypeOK, history

LEMMA AlarmLeavesDoes ==
  ASSUME TypeOK, AlarmLeaves
  PROVE  /\ TypeOK' /\ saved' = None
         /\ UNCHANGED <<client, stored, sockets, records, pending, told, revoked, history, astray>>
BY DEF AlarmLeaves, TypeOK, history

LEMMA AlarmWritesDoes ==
  ASSUME TypeOK, NEW k \in Sockets, AlarmWrites(k)
  PROVE  /\ TypeOK' /\ saved # None /\ saved.socket = k /\ saved.carries \in Carried
         /\ saved.carries # None /\ saved' = None
         /\ Becomes(k, sockets[k].client, sockets[k].server, sockets[k].broken, sockets[k].asks,
                    saved.carries, sockets[k].down, sockets[k].up)
         /\ astray' = IF saved.carries = sockets[k].carries THEN astray
                      ELSE astray \cup {saved.carries.connection}
         /\ UNCHANGED <<client, stored, records, pending, told, revoked, history>>
<1>1. saved # None /\ saved \in Checked /\ saved.socket = k
  BY DEF AlarmWrites, From, TypeOK
<1>2. saved.carries \in Carried /\ saved.carries # None
  BY <1>1, NoneIsNone DEF Checked
<1>3. PICK s : s = sockets[k]
  OBVIOUS
<1>4. s \in Socket
  BY <1>3 DEF TypeOK
<1>5. PICK x : x = [s EXCEPT !.carries = saved.carries]
  OBVIOUS
<1>6. /\ x \in Socket /\ x.client = s.client /\ x.server = s.server /\ x.broken = s.broken
      /\ x.asks = s.asks /\ x.carries = saved.carries /\ x.down = s.down /\ x.up = s.up
  BY <1>2, <1>4, <1>5 DEF Socket
<1>7. sockets' = [sockets EXCEPT ![k] = x]
  BY <1>3, <1>5 DEF AlarmWrites, TypeOK
<1>8. /\ sockets' \in [Sockets -> Socket]
      /\ Becomes(k, x.client, x.server, x.broken, x.asks, x.carries, x.down, x.up)
  BY <1>6, <1>7, SetDoes
<1>9. /\ saved' = None
      /\ astray' = IF saved.carries = s.carries THEN astray
                   ELSE astray \cup {saved.carries.connection}
      /\ UNCHANGED <<client, stored, records, pending, told, revoked, faults, history>>
  BY <1>3 DEF AlarmWrites
<1>10. astray' \subseteq Connections
  BY <1>2, <1>9 DEF Carried, TypeOK
<1>11. TypeOK'
  BY <1>8, <1>9, <1>10 DEF TypeOK, history
<1> QED BY <1>1, <1>2, <1>3, <1>6, <1>8, <1>9, <1>11

LEMMA AlarmRevivesDoes ==
  ASSUME TypeOK, AlarmRevives
  PROVE  /\ TypeOK' /\ saved # None /\ saved.socket = None /\ saved.carries \in Carried
         /\ saved' = None
         /\ records' = [records EXCEPT ![saved.carries.connection] =
                          [epoch |-> saved.carries.epoch, call |-> saved.carries.call]]
         /\ astray' = astray \cup {saved.carries.connection}
         /\ UNCHANGED <<client, stored, sockets, pending, told, revoked, history>>
<1>1. saved # None /\ saved \in Checked /\ saved.socket = None
  BY DEF AlarmRevives, From, TypeOK
<1>2. saved.carries \in Carried
  BY <1>1 DEF Checked
<1>3. PICK r : r = [epoch |-> saved.carries.epoch, call |-> saved.carries.call]
  OBVIOUS
<1>4. r \in Suspended /\ saved.carries.connection \in Connections
  BY <1>2, <1>3 DEF Carried, Suspended
<1>5. /\ saved' = None /\ records' = [records EXCEPT ![saved.carries.connection] = r]
      /\ astray' = astray \cup {saved.carries.connection}
      /\ UNCHANGED <<client, stored, sockets, pending, told, revoked, faults, history>>
  BY <1>3 DEF AlarmRevives
<1>6. TypeOK'
  BY <1>4, <1>5 DEF TypeOK, history
<1> QED BY <1>1, <1>2, <1>3, <1>5, <1>6

LEMMA CutsDoes ==
  ASSUME TypeOK, Shapes, NEW k \in Sockets, Cuts(k)
  PROVE  /\ TypeOK' /\ Open(k) /\ sockets[k].carries \in Carried
         /\ Becomes(k, sockets[k].client, "cut", sockets[k].broken, sockets[k].asks,
                    sockets[k].carries, sockets[k].down, sockets[k].up)
         /\ excused' = excused \cup {sockets[k].carries.connection}
         /\ UNCHANGED <<client, stored, records, pending, told, revoked, unexplained, taken,
                        saved, astray>>
<1>1. PICK s : s = sockets[k]
  OBVIOUS
<1>2. s \in Socket /\ Open(k) /\ s.carries \in Carried
  BY <1>1 DEF Cuts, Open, Shapes, Shape, Holds, TypeOK, Socket
<1>3. PICK x : x = [s EXCEPT !.server = "cut"]
  OBVIOUS
<1>4. /\ x \in Socket /\ x.client = s.client /\ x.server = "cut" /\ x.broken = s.broken
      /\ x.asks = s.asks /\ x.carries = s.carries /\ x.down = s.down /\ x.up = s.up
  BY <1>2, <1>3 DEF Socket, Servers
<1>5. sockets' = [sockets EXCEPT ![k] = x]
  BY <1>1, <1>3 DEF Cuts, TypeOK
<1>6. /\ sockets' \in [Sockets -> Socket]
      /\ Becomes(k, x.client, x.server, x.broken, x.asks, x.carries, x.down, x.up)
  BY <1>4, <1>5, SetDoes
<1>7. /\ excused' = excused \cup {s.carries.connection} /\ faults' \in Nat
      /\ UNCHANGED <<client, stored, records, pending, told, revoked, unexplained, taken,
                     saved, astray>>
  BY <1>1 DEF Cuts, Fault, check, TypeOK
<1>8. excused' \subseteq Connections
  BY <1>2, <1>7 DEF Carried, TypeOK
<1>9. TypeOK'
  BY <1>6, <1>7, <1>8 DEF TypeOK
<1> QED BY <1>1, <1>2, <1>4, <1>6, <1>7, <1>9

LEMMA ReplacedGoesDoes ==
  ASSUME TypeOK, NEW k \in Sockets, ReplacedGoes(k)
  PROVE  /\ TypeOK' /\ sockets[k].server = "replaced"
         /\ Becomes(k, sockets[k].client, "closed", sockets[k].broken, sockets[k].asks, None,
                    sockets[k].down, sockets[k].up)
         /\ UNCHANGED <<client, stored, records, pending, told, revoked, history, check>>
<1>1. PICK s : s = sockets[k]
  OBVIOUS
<1>2. s \in Socket /\ s.server = "replaced"
  BY <1>1 DEF TypeOK, ReplacedGoes
<1>3. PICK x : x = [s EXCEPT !.server = "closed", !.carries = None]
  OBVIOUS
<1>4. /\ x \in Socket /\ x.client = s.client /\ x.server = "closed" /\ x.broken = s.broken
      /\ x.asks = s.asks /\ x.carries = None /\ x.down = s.down /\ x.up = s.up
  BY <1>2, <1>3 DEF Socket, Servers
<1>5. Put(k, x)
  BY <1>1, <1>3 DEF ReplacedGoes
<1>6. /\ sockets' \in [Sockets -> Socket]
      /\ Becomes(k, x.client, x.server, x.broken, x.asks, x.carries, x.down, x.up)
  BY <1>4, <1>5, PutDoes
<1>7. TypeOK'
  BY <1>6 DEF ReplacedGoes, TypeOK, history, check
<1> QED BY <1>1, <1>2, <1>4, <1>6, <1>7 DEF ReplacedGoes
-----------------------------------------------------------------------------
(* The shape of a transport.                                                *)

LEMMA SentHas ==
  ASSUME NEW x, x \in Socket, NEW m, m \in Message
  PROVE  /\ x.server = "open" /\ Listens(x) =>
              /\ Len(Sent(x, m)) = Len(x.down) + 1 /\ Sent(x, m)[Len(x.down) + 1] = m
              /\ \A n \in DOMAIN Sent(x, m) :
                   n # Len(x.down) + 1 => n \in DOMAIN x.down /\ Sent(x, m)[n] = x.down[n]
         /\ ~(x.server = "open" /\ Listens(x)) => Sent(x, m) = x.down
         /\ x.down # <<>> => Sent(x, m) # <<>> /\ Sent(x, m)[1] = x.down[1]
BY DEF Sent, Socket

LEMMA EmptyIs == ASSUME NEW S, NEW s \in Seq(S), Len(s) = 0 PROVE s = <<>>
OBVIOUS

LEMMA TailHas ==
  ASSUME NEW S, NEW q \in Seq(S), q # <<>>
  PROVE  /\ Head(q) = q[1] /\ Head(q) \in S /\ 1 \in DOMAIN q
         /\ Len(Tail(q)) = Len(q) - 1 /\ (Len(q) = 1 => Tail(q) = <<>>)
         /\ \A n \in DOMAIN Tail(q) : n + 1 \in DOMAIN q /\ n + 1 # 1 /\ Tail(q)[n] = q[n + 1]
<1>1. /\ Head(q) = q[1] /\ Head(q) \in S /\ 1 \in DOMAIN q
      /\ Len(Tail(q)) = Len(q) - 1
      /\ \A n \in DOMAIN Tail(q) : n + 1 \in DOMAIN q /\ n + 1 # 1 /\ Tail(q)[n] = q[n + 1]
  OBVIOUS
<1>2. Len(q) = 1 => Tail(q) = <<>>
  <2>1. Tail(q) \in Seq(S)
    OBVIOUS
  <2>2. Len(q) = 1 => Len(Tail(q)) = 0
    BY <1>1
  <2> QED BY <2>1, <2>2, EmptyIs
<1> QED BY <1>1, <1>2

LEMMA SentShape ==
  ASSUME NEW x, x \in Socket, Shape(x), NEW m, m \in Message, NEW server,
         m.id = None <=> Plain(m), m.what # "ready",
         server = "open" => x.server = "open" /\ m.what # "ended"
  PROVE  \A n \in DOMAIN Sent(x, m) :
           /\ Sent(x, m)[n].id = None <=> Plain(Sent(x, m)[n])
           /\ Sent(x, m)[n].what = "ready" => n = 1
           /\ Sent(x, m)[n].what = "ended" => n = Len(Sent(x, m)) /\ server # "open"
<1>1. CASE x.server = "open" /\ Listens(x)
  <2> SUFFICES ASSUME NEW n \in DOMAIN Sent(x, m)
               PROVE  /\ Sent(x, m)[n].id = None <=> Plain(Sent(x, m)[n])
                      /\ Sent(x, m)[n].what = "ready" => n = 1
                      /\ Sent(x, m)[n].what = "ended" => n = Len(Sent(x, m)) /\ server # "open"
    OBVIOUS
  <2>1. CASE n = Len(x.down) + 1
    BY <1>1, <2>1, SentHas
  <2>2. CASE n # Len(x.down) + 1
    BY <1>1, <2>2, SentHas DEF Shape
  <2> QED BY <2>1, <2>2
<1>2. CASE ~(x.server = "open" /\ Listens(x))
  <2>1. Sent(x, m) = x.down
    BY <1>2 DEF Sent
  <2> QED BY <1>2, <2>1 DEF Shape
<1> QED BY <1>1, <1>2

LEMMA CallSet ==
  ASSUME NEW c, c \in Carried, NEW call, call \in BOOLEAN
  PROVE  /\ [c EXCEPT !.call = call] \in Carried /\ [c EXCEPT !.call = call] # None
         /\ [c EXCEPT !.call = call].connection = c.connection
         /\ [c EXCEPT !.call = call].epoch = c.epoch
         /\ [c EXCEPT !.call = call].call = call
BY NoneIsNone DEF Carried

LEMMA UnusedShape == Shape(Unused)
BY UnusedIs DEF Shape, Holds, Listens

(* What the alarm has read of a transport is its connection and its epoch.   *)
SavedFits == saved # None /\ saved.socket # None =>
  /\ Attached(saved.socket)
  /\ sockets[saved.socket].carries.connection = saved.carries.connection
  /\ sockets[saved.socket].carries.epoch = saved.carries.epoch

LEMMA ShapesStep ==
  ASSUME TypeOK, Shapes, SavedFits, [Next]_vars
  PROVE  Shapes'
<1> SUFFICES ASSUME NEW i \in Sockets PROVE Shape(sockets[i])'
  BY DEF Shapes
<1>a. Shape(sockets[i]) /\ sockets[i] \in Socket
  BY DEF Shapes, TypeOK
<1>b. sockets'[i] = sockets[i] \/ sockets'[i] = Unused => Shape(sockets[i])'
  BY <1>a, UnusedShape
<1>c. ASSUME Len(sockets[i].down) = 0 PROVE sockets[i].down = <<>>
  BY <1>a, <1>c DEF Socket
<1>1. ASSUME NEW k \in Sockets, NEW identity, Begins(k, identity)
      PROVE  Shape(sockets[i])'
  BY <1>b, <1>1 DEF Begins, Becomes, Turns, Shape, Holds, Listens
<1>2. ASSUME GivesUp(client.current), client.current \in Sockets \cup {None}
      PROVE  Shape(sockets[i])'
  BY <1>a, <1>b, <1>2 DEF GivesUp, Becomes, Turns, Shape, Holds, Listens, Live
<1>3. CASE UNCHANGED sockets
  BY <1>b, <1>3
<1>4. ASSUME NEW k \in Sockets, CloseEvent(k) PROVE Shape(sockets[i])'
  <2>1. Becomes(k, "gone", sockets[k].server, sockets[k].broken, sockets[k].asks,
                sockets[k].carries, sockets[k].down, sockets[k].up)
    BY <1>4, CloseEventDoes
  <2>2. sockets[k].client \in {"connecting", "open", "closing"}
        /\ (sockets[k].client = "closing" \/ sockets[k].broken \/ sockets[k].down = <<>>)
    BY <1>4 DEF CloseEvent
  <2> QED BY <1>a, <1>b, <2>1, <2>2 DEF Becomes, Turns, Shape, Holds, Listens
<1>5. ASSUME NEW k \in Sockets, Opens(k) PROVE Shape(sockets[i])'
  <2>1. Becomes(k, "open", sockets[k].server, sockets[k].broken, sockets[k].asks,
                sockets[k].carries, sockets[k].down, sockets[k].up)
    BY <1>5, OpensDoes
  <2> QED BY <1>5, <1>a, <1>b, <2>1 DEF Opens, Becomes, Turns, Shape, Holds, Listens
<1>6. ASSUME NEW k \in Sockets, Hears(k) PROVE Shape(sockets[i])'
  <2>1. /\ sockets[k].client = "open" /\ ~sockets[k].broken /\ sockets[k].down # <<>>
        /\ Becomes(k, IF Head(sockets[k].down).what = "ended" THEN "gone" ELSE "open",
                   sockets[k].server, FALSE, None, sockets[k].carries,
                   Tail(sockets[k].down), sockets[k].up)
    BY <1>6, HearsDoes
  <2>2. i # k => Shape(sockets[i])'
    BY <1>b, <2>1 DEF Becomes
  <2>3. SUFFICES ASSUME i = k, sockets'[i] # Unused PROVE Shape(sockets[i])'
    BY <1>b, <2>2
  <2>4. PICK q : q = sockets[i].down
    OBVIOUS
  <2>5. q \in Seq(Message) /\ q # <<>>
    BY <1>a, <2>1, <2>3, <2>4 DEF Socket
  <2>6. /\ Head(q) = q[1] /\ 1 \in DOMAIN q /\ Len(Tail(q)) = Len(q) - 1
        /\ Tail(q) \in Seq(Message)
        /\ \A n \in DOMAIN Tail(q) : n + 1 \in DOMAIN q /\ n + 1 # 1 /\ Tail(q)[n] = q[n + 1]
    BY <2>5, TailHas
  <2>7. /\ sockets'[i].client = (IF Head(q).what = "ended" THEN "gone" ELSE "open")
        /\ sockets'[i].server = sockets[i].server /\ ~sockets'[i].broken /\ sockets'[i].asks = None
        /\ sockets'[i].carries = sockets[i].carries /\ sockets'[i].down = Tail(q)
        /\ sockets'[i].up = sockets[i].up
    BY <2>1, <2>3, <2>4 DEF Becomes, Turns
  <2>8. Head(q).what = "ended" => Tail(q) = <<>>
    <3>1. Head(q).what = "ended" => Len(q) = 1
      BY <1>a, <2>4, <2>6 DEF Shape
    <3>2. Len(q) = 1 => Tail(q) = <<>>
      BY <2>5, TailHas
    <3> QED BY <3>1, <3>2
  <2>9. \A n \in DOMAIN Tail(q) :
          /\ Tail(q)[n].id = None <=> Plain(Tail(q)[n])
          /\ Tail(q)[n].what = "ready" => n = 1
          /\ Tail(q)[n].what = "ended" => n = Len(Tail(q)) /\ sockets[i].server # "open"
    <3> SUFFICES ASSUME NEW n \in DOMAIN Tail(q)
                 PROVE  /\ Tail(q)[n].id = None <=> Plain(Tail(q)[n])
                        /\ Tail(q)[n].what = "ready" => n = 1
                        /\ Tail(q)[n].what = "ended" => n = Len(Tail(q)) /\ sockets[i].server # "open"
      OBVIOUS
    <3>1. n \in Nat /\ n + 1 \in DOMAIN q /\ n + 1 # 1 /\ Tail(q)[n] = q[n + 1] /\ Len(q) \in Nat
      BY <2>5, <2>6
    <3> QED BY <1>a, <2>4, <2>6, <3>1 DEF Shape, Plain
  <2> QED BY <1>a, <2>1, <2>3, <2>4, <2>5, <2>7, <2>8, <2>9 DEF Shape, Holds, Listens
<1>7. ASSUME NEW id \in Commands, NEW what \in {"join", "takeover", "leave"}, Send(id, what)
      PROVE  Shape(sockets[i])'
  <2>1. PICK k, up_ :
          /\ sockets[k].client = "open"
          /\ Becomes(k, "open", sockets[k].server, sockets[k].broken, sockets[k].asks,
                     sockets[k].carries, sockets[k].down, up_)
    BY <1>7, SendDoes
  <2> QED BY <1>a, <1>b, <2>1 DEF Becomes, Turns, Shape, Holds, Listens
<1>8. ASSUME NEW k \in Sockets, NetworkBreaks(k) PROVE Shape(sockets[i])'
  <2>1. sockets[k].client \in {"connecting", "open"}
    BY <1>8 DEF NetworkBreaks
  <2>2. Becomes(k, sockets[k].client, sockets[k].server, TRUE, sockets[k].asks,
                sockets[k].carries, <<>>, <<>>)
    BY <1>8, NetworkBreaksDoes
  <2> QED BY <1>a, <1>b, <2>1, <2>2 DEF Becomes, Turns, Shape, Holds, Listens
<1>9. ASSUME NEW k \in Sockets, FetchReplacing(k) PROVE Shape(sockets[i])'
  <2>1. /\ sockets'[k].carries \in Carried
        /\ \E j \in Replaceable(k) :
             /\ j # k /\ \A h \in Sockets \ {k, j} : sockets'[h] = sockets[h]
             /\ Turns(k, sockets[k].client, "loading", sockets[k].broken, sockets[k].asks,
                      [connection |-> sockets[k].asks.connection,
                       epoch |-> sockets[k].asks.epoch, call |-> sockets[j].carries.call],
                      sockets[k].down, sockets[k].up)
             /\ Turns(j, sockets[j].client, "replaced", sockets[j].broken, sockets[j].asks,
                      sockets[j].carries, sockets[j].down, <<>>)
    BY <1>9, FetchReplacingDoes
  <2>2. /\ sockets[k].server = "none" /\ sockets[k].client # "none"
        /\ \A j \in Replaceable(k) : sockets[j].server = "open"
    BY <1>9 DEF FetchReplacing, Arriving, Replaceable, Open
  <2>3. sockets'[k].carries # None
    BY <2>1, NoneIsNone
  <2> QED BY <1>a, <1>b, <2>1, <2>2, <2>3 DEF Turns, Shape, Holds, Listens
<1>10. ASSUME NEW k \in Sockets, FetchResuming(k) \/ FetchNew(k) PROVE Shape(sockets[i])'
  <2>1. PICK carries_ :
          /\ sockets'[k].carries \in Carried
          /\ Becomes(k, sockets[k].client, "loading", sockets[k].broken, sockets[k].asks,
                     carries_, sockets[k].down, sockets[k].up)
    BY <1>10, FetchResumingDoes, FetchNewDoes
  <2>2. sockets[k].server = "none" /\ sockets[k].client # "none"
    BY <1>10 DEF FetchResuming, FetchNew, Arriving
  <2>3. sockets'[k].carries # None
    BY <2>1, NoneIsNone
  <2> QED BY <1>a, <1>b, <2>1, <2>2, <2>3 DEF Becomes, Turns, Shape, Holds, Listens
<1>11. ASSUME NEW k \in Sockets, NotUpgraded(k) \/ AcceptFails(k) PROVE Shape(sockets[i])'
  <2>1. Becomes(k, sockets[k].client, "closed", sockets[k].broken, sockets[k].asks,
                sockets[k].carries, sockets[k].down, sockets[k].up)
    BY <1>11, NotUpgradedDoes, AcceptFailsDoes
  <2>2. sockets[k].server \in {"none", "loading"} /\ sockets[k].client # "none"
    BY <1>11, <1>a DEF NotUpgraded, AcceptFails, Arriving, Shapes, Shape
  <2> QED BY <1>a, <1>b, <2>1, <2>2 DEF Becomes, Turns, Shape, Holds, Listens
<1>12. ASSUME NEW k \in Sockets, Accepts(k) PROVE Shape(sockets[i])'
  <2>1. PICK d : d = IF Listens(sockets[k]) THEN <<Notice("ready")>> ELSE sockets[k].down
    OBVIOUS
  <2>2. Becomes(k, sockets[k].client, "open", sockets[k].broken, sockets[k].asks,
                sockets[k].carries, d, sockets[k].up)
    BY <1>12, <2>1, AcceptsDoes
  <2>3. sockets[k].server = "loading" /\ Shape(sockets[k])
    BY <1>12 DEF Accepts, Shapes
  <2>4. \A n \in DOMAIN d :
          /\ d[n].id = None <=> Plain(d[n])
          /\ d[n].what = "ready" => n = 1
          /\ d[n].what # "ended"
    <3>1. CASE Listens(sockets[k])
      <4>1. d = <<Notice("ready")>>
        BY <2>1, <3>1
      <4>2. DOMAIN d = {1} /\ d[1] = Notice("ready")
        BY <4>1
      <4> QED BY <4>2, NoticeIs DEF Plain
    <3>2. CASE ~Listens(sockets[k])
      <4>1. d = <<>>
        BY <2>1, <2>3, <3>2 DEF Shape
      <4> QED BY <4>1
    <3> QED BY <3>1, <3>2
  <2>5. Listens(sockets[k]) => d # <<>> /\ d[1].what = "ready"
    BY <2>1, NoticeIs
  <2>6. Shape(sockets[k])'
    BY <1>b, <2>1, <2>2, <2>3, <2>4, <2>5 DEF Becomes, Turns, Shape, Holds, Listens
  <2> QED BY <1>b, <2>2, <2>6 DEF Becomes
<1>13. ASSUME NEW k \in Sockets, Answered(k, "joined", TRUE) \/ AnswersAlone(k),
              sockets[k].server \in {"open", "closing", "cut"}, Head(sockets[k].up) \in Command, sockets[k].carries \in Carried
       PROVE  Shape(sockets[k])'
  <2>1. PICK what \in {"joined", "left", "conflict"}, call \in BOOLEAN : Answered(k, what, call)
    BY <1>13 DEF AnswersAlone, Carried
  <2>2. PICK m : m = [what |-> what, id |-> Head(sockets[k].up).id]
    OBVIOUS
  <2>3. /\ m \in Message /\ ~(m.id = None) /\ ~Plain(m) /\ m.what # "ready" /\ m.what # "ended"
    BY <1>13, <2>1, <2>2, NoneIsNone DEF Command, Message, Plain
  <2>4. PICK s : s = sockets[k]
    OBVIOUS
  <2>5. s \in Socket /\ Shape(s) /\ Holds(s) /\ s.server \in {"open", "closing", "cut"}
    BY <1>13, <2>4 DEF TypeOK, Shapes, Holds
  <2>6. \A n \in DOMAIN Sent(s, m) :
           /\ Sent(s, m)[n].id = None <=> Plain(Sent(s, m)[n])
           /\ Sent(s, m)[n].what = "ready" => n = 1
           /\ Sent(s, m)[n].what = "ended" => n = Len(Sent(s, m)) /\ s.server # "open"
    BY <2>3, <2>5, SentShape
  <2>7. PICK c : c = [s.carries EXCEPT !.call = call]
    OBVIOUS
  <2>8. c # None
    BY <1>13, <2>1, <2>4, <2>7, CallSet
  <2>9. PICK d : d = Sent(s, m)
    OBVIOUS
  <2>10. /\ d # <<>> => s.down # <<>> \/ (s.server = "open" /\ Listens(s))
         /\ ~Listens(s) => d = s.down
         /\ s.down # <<>> => d # <<>> /\ d[1] = s.down[1]
    BY <2>3, <2>5, <2>9, SentHas DEF Sent
  <2>11. Turns(k, s.client, s.server, s.broken, s.asks, c, d, Tail(s.up))
    BY <2>1, <2>2, <2>4, <2>7, <2>9 DEF Answered
  <2> QED BY <1>b, <2>5, <2>6, <2>8, <2>9, <2>10, <2>11, UnusedShape
         DEF Turns, Shape, Holds, Listens
<1>14. ASSUME NEW j \in Sockets, Losing(j), Attached(j), sockets[j].carries \in Carried
       PROVE  Shape(sockets[j])'
  <2>0. PICK what \in {"replaced", "evicted"} :
          Turns(j, sockets[j].client, sockets[j].server, sockets[j].broken, sockets[j].asks,
                [sockets[j].carries EXCEPT !.call = FALSE], Sent(sockets[j], Notice(what)),
                sockets[j].up)
    BY <1>14 DEF Losing
  <2>1. PICK m : m = Notice(what)
    OBVIOUS
  <2>2. /\ m \in Message /\ m.id = None /\ Plain(m) /\ m.what # "ready" /\ m.what # "ended"
    BY <2>1, NoticeIs DEF Plain
  <2>3. PICK s : s = sockets[j]
    OBVIOUS
  <2>4. s \in Socket /\ Shape(s) /\ s.server \in {"open", "closing", "cut"}
    BY <1>14, <2>3 DEF TypeOK, Shapes, Attached
  <2>5. \A n \in DOMAIN Sent(s, m) :
           /\ Sent(s, m)[n].id = None <=> Plain(Sent(s, m)[n])
           /\ Sent(s, m)[n].what = "ready" => n = 1
           /\ Sent(s, m)[n].what = "ended" => n = Len(Sent(s, m)) /\ s.server # "open"
    BY <2>2, <2>4, SentShape
  <2>6. PICK c : c = [s.carries EXCEPT !.call = FALSE]
    OBVIOUS
  <2>7. c # None
    BY <1>14, <2>3, <2>6, CallSet
  <2>8. PICK d : d = Sent(s, m)
    OBVIOUS
  <2>9. /\ ~Listens(s) => d = s.down
        /\ s.down # <<>> => d # <<>> /\ d[1] = s.down[1]
    BY <2>2, <2>4, <2>8, SentHas DEF Sent
  <2>10. Turns(j, s.client, s.server, s.broken, s.asks, c, d, s.up)
    BY <2>0, <2>1, <2>3, <2>6, <2>8
  <2> QED BY <1>b, <2>4, <2>5, <2>7, <2>8, <2>9, <2>10, UnusedShape DEF Turns, Shape, Holds, Listens
<1>15. ASSUME NEW k \in Sockets, ServerHears(k) PROVE Shape(sockets[i])'
  <2>1. /\ sockets[k].server \in {"open", "closing", "cut"}
        /\ Head(sockets[k].up) \in Command /\ sockets[k].carries \in Carried
        /\ \/ AnswersAlone(k)
           \/ \E j \in Sockets : AnswersTaking(k, j)
           \/ \E c \in Connections : AnswersTakingRecord(k, c)
    BY <1>15, ServerHearsDoes
  <2>2. Shape(sockets[k])'
    BY <1>13, <2>1 DEF AnswersTaking, AnswersTakingRecord
  <2>3. ASSUME NEW j \in Sockets, AnswersTaking(k, j) PROVE Shape(sockets[i])'
    <3>1. sockets[j].carries \in Carried /\ Attached(j) /\ Losing(j)
      BY <2>3 DEF AnswersTaking, Open, Attached, Shapes, Shape, Holds, TypeOK, Socket
    <3>2. Shape(sockets[j])'
      BY <1>14, <3>1
    <3> QED BY <1>b, <2>2, <2>3, <3>2 DEF AnswersTaking
  <2> QED BY <1>b, <2>1, <2>2, <2>3 DEF AnswersAlone, AnswersTakingRecord
<1>16. ASSUME NEW j \in Sockets, TakenElsewhere(j) \/ Evicts(j) PROVE Shape(sockets[i])'
  <2>1. Attached(j) /\ Losing(j) /\ \A h \in Sockets \ {j} : sockets'[h] = sockets[h]
    BY <1>16, TakenElsewhereDoes, EvictsDoes DEF Open, Attached
  <2>2. sockets[j].carries \in Carried
    BY <2>1 DEF Attached, Shapes, Shape, Holds, TypeOK, Socket
  <2> QED BY <1>b, <1>14, <2>1, <2>2
<1>17. CASE SessionEnds
  <2>1. IF Open(i)
        THEN Turns(i, sockets[i].client, "closing", sockets[i].broken, sockets[i].asks,
                   sockets[i].carries, Sent(sockets[i], Notice("ended")), sockets[i].up)
        ELSE sockets'[i] = sockets[i]
    BY <1>17, SessionEndsDoes
  <2>2. SUFFICES ASSUME Open(i) PROVE Shape(sockets[i])'
    BY <1>b, <2>1
  <2>3. PICK s : s = sockets[i]
    OBVIOUS
  <2>4. PICK m : m = Notice("ended")
    OBVIOUS
  <2>5. m \in Message /\ m.id = None /\ Plain(m) /\ m.what # "ready"
    BY <2>4, NoticeIs DEF Plain
  <2>6. s \in Socket /\ Shape(s) /\ s.server = "open"
    BY <1>a, <2>2, <2>3 DEF Open
  <2>7. \A n \in DOMAIN Sent(s, m) :
           /\ Sent(s, m)[n].id = None <=> Plain(Sent(s, m)[n])
           /\ Sent(s, m)[n].what = "ready" => n = 1
           /\ Sent(s, m)[n].what = "ended" => n = Len(Sent(s, m)) /\ "closing" # "open"
    BY <2>5, <2>6, SentShape
  <2>8. PICK d : d = Sent(s, m)
    OBVIOUS
  <2>9. /\ ~Listens(s) => d = s.down
        /\ s.down # <<>> => d # <<>> /\ d[1] = s.down[1]
    BY <2>5, <2>6, <2>8, SentHas DEF Sent
  <2>10. Turns(i, s.client, "closing", s.broken, s.asks, s.carries, d, s.up)
    BY <2>1, <2>2, <2>3, <2>4, <2>8
  <2> QED BY <1>b, <2>3, <2>6, <2>7, <2>8, <2>9, <2>10 DEF Turns, Shape, Holds, Listens
<1>18. ASSUME NEW k \in Sockets, ServerLoses(k) \/ ReplacedGoes(k) PROVE Shape(sockets[i])'
  <2>1. /\ sockets[k].server \in {"open", "closing", "cut", "replaced"}
        /\ Becomes(k, sockets[k].client, "closed", sockets[k].broken, sockets[k].asks, None,
                   sockets[k].down, sockets[k].up)
    BY <1>18, ServerLosesDoes, ReplacedGoesDoes
  <2>2. ~Listens(sockets[k]) /\ Shape(sockets[k])
    BY <1>18 DEF ServerLoses, ReplacedGoes, Listens, Shapes
  <2> QED BY <1>b, <2>1, <2>2 DEF Becomes, Turns, Shape, Holds, Listens
<1>19. CASE Quiet \/ \E c \in Connections : GracePasses(c)
  BY <1>b, <1>19 DEF Quiet, GracePasses
<1>20. client.current \in Sockets \cup {None}
  BY DEF TypeOK, Client
<1>21. CASE UNCHANGED vars
  BY <1>b, <1>21 DEF vars
<1>22. ASSUME NEW k \in Sockets, Cuts(k) PROVE Shape(sockets[i])'
  <2>1. /\ Open(k)
        /\ Becomes(k, sockets[k].client, "cut", sockets[k].broken, sockets[k].asks,
                   sockets[k].carries, sockets[k].down, sockets[k].up)
    BY <1>22, CutsDoes
  <2> QED BY <1>a, <1>b, <2>1 DEF Open, Becomes, Turns, Shape, Holds, Listens
<1>23. ASSUME NEW k \in Sockets, AlarmWrites(k) PROVE Shape(sockets[i])'
  <2>1. /\ saved # None /\ saved.socket = k /\ saved.carries # None
        /\ Becomes(k, sockets[k].client, sockets[k].server, sockets[k].broken, sockets[k].asks,
                   saved.carries, sockets[k].down, sockets[k].up)
    BY <1>23, AlarmWritesDoes
  <2>2. Attached(k)
    BY <2>1, NoneIsNone DEF SavedFits
  <2> QED BY <1>a, <1>b, <2>1, <2>2 DEF Attached, Becomes, Turns, Shape, Holds, Listens
<1>24. ASSUME \/ AlarmLeaves \/ AlarmRevives \/ \E k \in Sockets : AlarmReads(k)
              \/ \E c \in Connections : EvictsSuspended(c)
       PROVE  Shape(sockets[i])'
  BY <1>3, <1>24 DEF AlarmLeaves, AlarmRevives, AlarmReads, EvictsSuspended
<1> QED BY <1>1, <1>2, <1>3, <1>4, <1>5, <1>6, <1>7, <1>8, <1>9, <1>10, <1>11, <1>12, <1>15, <1>16,
            <1>17, <1>18, <1>19, <1>20, <1>21, <1>22, <1>23, <1>24, MountsDoes, TimerFiresDoes, ReconcileDoes,
            ReadyTimesOutDoes, PageHidesDoes, PageReloadsDoes, UnmountsDoes, QuietDoes DEF Next
-----------------------------------------------------------------------------
(* The invariant: why a connection that is asked for is still there.         *)

(* What the tab knows is what is stored, and only while it is mounted.       *)
Tab ==
  /\ client.active => client.identity = stored
  /\ ~client.active => client.identity = None /\ client.current = None /\ ~client.timer
  /\ client.current = None => client.settled

(* Only the current transport, not heard of yet, asks for a connection that   *)
(* is not excused.                                                          *)
Asked == \A k \in Sockets :
  sockets[k].asks # None /\ sockets[k].asks.connection \notin excused =>
    k = client.current /\ ~client.settled /\ Live(sockets[k])

(* One transport carries a connection, and its record is gone; unless the alarm *)
(* put back what a transport of it had been.                                *)
Carries(k, c) == Holds(sockets[k]) /\ sockets[k].carries.connection = c
OneHolder == \A c \in Connections \ astray : \A j \in Sockets : Carries(j, c) =>
  /\ records[c] = None
  /\ \A i \in Sockets : Carries(i, c) => i = j

(* Even then, of a connection that is not excused one transport at most is left, *)
(* and what the server has besides is older.                                *)
Newest == \A c \in Connections \ excused : \A j \in Sockets : Carries(j, c) =>
  /\ \A i \in Sockets : Carries(i, c) => i = j
  /\ records[c] # None => records[c].epoch < sockets[j].carries.epoch
  /\ saved # None /\ saved.carries.connection = c =>
       /\ saved.carries.epoch <= sockets[j].carries.epoch
       /\ saved.socket = None => saved.carries.epoch < sockets[j].carries.epoch

(* A connection that the server ends, or ended under a tab that listens.      *)
Gone == \A k \in Sockets :
  \/ sockets[k].server \in {"closing", "cut"}
  \/ Listens(sockets[k]) /\ sockets[k].server \in {"closed", "replaced"} /\ sockets[k].carries # None
  => sockets[k].carries.connection \in excused

(* The server has c under an epoch before e.                                 *)
Keeps(c, e) ==
  \/ \E j \in Sockets : Open(j) /\ sockets[j].carries.connection = c /\ sockets[j].carries.epoch < e
  \/ records[c] # None /\ records[c].epoch < e

(* And under none from e on, on an open transport if on any.                 *)
Below(c, e) ==
  /\ \A j \in Sockets : Carries(j, c) => Open(j) /\ sockets[j].carries.epoch < e
  /\ records[c] # None => records[c].epoch < e
  /\ saved # None /\ saved.carries.connection = c => saved.carries.epoch < e

(* The current transport has asked for c, and was heard by the server.        *)
Resuming(c) ==
  /\ client.current # None /\ ~client.settled
  /\ sockets[client.current].asks # None /\ sockets[client.current].asks.connection = c
  /\ Live(sockets[client.current]) /\ sockets[client.current].server # "none"

StoredKept ==
  stored # None /\ stored.connection \notin excused =>
    \/ Resuming(stored.connection)
    \/ Keeps(stored.connection, stored.epoch + 1) /\ Below(stored.connection, stored.epoch + 1)
AskedKept == \A k \in Sockets :
  Arriving(k) /\ sockets[k].asks # None /\ sockets[k].asks.connection \notin excused =>
    /\ Keeps(sockets[k].asks.connection, sockets[k].asks.epoch)
    /\ Below(sockets[k].asks.connection, sockets[k].asks.epoch)

Kept == /\ TypeOK /\ Shapes /\ Tab /\ OneLive /\ Asked /\ OneHolder /\ Newest /\ SavedFits
        /\ Gone /\ StoredKept /\ AskedKept

-----------------------------------------------------------------------------
(* The kinds of steps, as far as that invariant can tell.                   *)

Still == Quiet /\ (stored' = stored \/ (~client.active /\ stored' = None))

Begun(k) ==
  /\ Begins(k, stored) /\ client'.active /\ Transport \notin {"connecting", "open"}
  /\ UNCHANGED <<stored, records, history, check>>

GaveUp ==
  /\ GivesUp(client.current) /\ UNCHANGED <<records, unexplained, taken, check>>
  /\ \/ /\ client'.active = client.active /\ client'.identity = client.identity
        /\ client'.current = client.current /\ (client'.settled = client.settled \/ client'.settled)
        /\ (client'.timer => client.active \/ client.timer) /\ stored' = stored
     \/ /\ ~client'.active /\ client'.identity = None /\ client'.current = None
        /\ client'.settled /\ ~client'.timer /\ stored' \in {stored, None}

(* Transports go on: opened, accepted, broken, spoken on, cut; a record may go, *)
(* and so may what the alarm has read.                                      *)
GoesOn(i) ==
  /\ Live(sockets[i])' <=> Live(sockets[i])
  /\ \/ sockets'[i].server = sockets[i].server
     \/ sockets[i].server = "loading" /\ sockets'[i].server = "open"
     \/ /\ sockets[i].server = "open" /\ sockets'[i].server = "cut"
        /\ sockets[i].carries.connection \in excused'
  /\ sockets'[i].asks = sockets[i].asks
  /\ sockets'[i].client = "none" <=> sockets[i].client = "none"
  /\ sockets[i].broken => sockets'[i].broken
  /\ sockets'[i].carries = None <=> sockets[i].carries = None
  /\ sockets[i].carries # None =>
       /\ sockets'[i].carries.connection = sockets[i].carries.connection
       /\ sockets'[i].carries.epoch = sockets[i].carries.epoch
RecordGoesOn(c) ==
  \/ records'[c] = None /\ (records[c] = None \/ c \in excused')
  \/ records'[c] # None /\ records[c] # None /\ records'[c].epoch = records[c].epoch
Mild ==
  /\ UNCHANGED <<client, stored, unexplained>>
  /\ excused \subseteq excused' /\ astray \subseteq astray'
  /\ \A i \in Sockets : GoesOn(i)
  /\ \A c \in Connections : RecordGoesOn(c)
  /\ saved' \in {saved, None}

LEMMA SameGoesOn ==
  ASSUME NEW i \in Sockets, sockets'[i] = sockets[i]
  PROVE  GoesOn(i)
BY DEF GoesOn, Live

LEMMA Mildly ==
  ASSUME TypeOK, Shapes, SavedFits,
         NEW k \in Sockets,
         \/ Opens(k) \/ NetworkBreaks(k) \/ Accepts(k) \/ ServerHears(k) \/ TakenElsewhere(k)
         \/ Evicts(k) \/ Cuts(k) \/ AlarmWrites(k)
         \/ \E id \in Commands, what \in {"join", "takeover", "leave"} : Send(id, what)
  PROVE  Mild
<1>a. UNCHANGED records => \A c \in Connections : RecordGoesOn(c)
  BY DEF RecordGoesOn
<1>1. CASE Opens(k)
  <2>1. /\ sockets[k].client = "connecting" /\ UNCHANGED <<client, stored, records, history, check>>
        /\ Becomes(k, "open", sockets[k].server, sockets[k].broken, sockets[k].asks,
                   sockets[k].carries, sockets[k].down, sockets[k].up)
    BY <1>1, OpensDoes DEF Opens
  <2>2. GoesOn(k)
    BY <2>1 DEF Becomes, Turns, GoesOn, Live
  <2> QED BY <1>a, <2>1, <2>2, SameGoesOn DEF Becomes, Mild, history, check
<1>2. CASE NetworkBreaks(k)
  <2>1. /\ sockets[k].client \in {"connecting", "open"}
        /\ UNCHANGED <<client, stored, records, history, check>>
        /\ Becomes(k, sockets[k].client, sockets[k].server, TRUE, sockets[k].asks,
                   sockets[k].carries, <<>>, <<>>)
    BY <1>2, NetworkBreaksDoes DEF NetworkBreaks
  <2>2. GoesOn(k)
    BY <2>1 DEF Becomes, Turns, GoesOn, Live
  <2> QED BY <1>a, <2>1, <2>2, SameGoesOn DEF Becomes, Mild, history, check
<1>3. CASE Accepts(k)
  <2>1. PICK d : /\ sockets[k].server = "loading" /\ UNCHANGED <<client, stored, records, history, check>>
                 /\ Becomes(k, sockets[k].client, "open", sockets[k].broken, sockets[k].asks,
                            sockets[k].carries, d, sockets[k].up)
    BY <1>3, AcceptsDoes DEF Accepts
  <2>2. GoesOn(k)
    BY <2>1 DEF Becomes, Turns, GoesOn, Live
  <2> QED BY <1>a, <2>1, <2>2, SameGoesOn DEF Becomes, Mild, history, check
<1>4. CASE \E id \in Commands, what \in {"join", "takeover", "leave"} : Send(id, what)
  <2>1. PICK j, up_ :
          /\ sockets[j].client = "open" /\ UNCHANGED <<client, stored, records, history, check>>
          /\ Becomes(j, "open", sockets[j].server, sockets[j].broken, sockets[j].asks,
                     sockets[j].carries, sockets[j].down, up_)
    BY <1>4, SendDoes DEF Send
  <2>2. GoesOn(j)
    BY <2>1 DEF Becomes, Turns, GoesOn, Live
  <2> QED BY <1>a, <2>1, <2>2, SameGoesOn DEF Becomes, Mild, history, check
<1>5. ASSUME NEW j \in Sockets, Losing(j), Attached(j)
      PROVE  GoesOn(j)
  <2>1. sockets[j].carries \in Carried
    BY <1>5 DEF Attached, Shapes, Shape, Holds, TypeOK, Socket
  <2>2. PICK c : c = [sockets[j].carries EXCEPT !.call = FALSE]
    OBVIOUS
  <2>3. /\ c # None /\ c.connection = sockets[j].carries.connection
        /\ c.epoch = sockets[j].carries.epoch
    BY <2>1, <2>2, CallSet
  <2> QED BY <1>5, <2>1, <2>2, <2>3, NoneIsNone DEF Losing, Turns, GoesOn, Live, Attached
<1>6. CASE TakenElsewhere(k) \/ Evicts(k)
  <2>1. /\ Attached(k) /\ Losing(k)
        /\ UNCHANGED <<client, stored, records, excused, unexplained, saved, astray>>
        /\ \A i \in Sockets \ {k} : sockets'[i] = sockets[i]
    BY <1>6, TakenElsewhereDoes, EvictsDoes DEF TakenElsewhere, Open, Attached, check
  <2> QED BY <1>a, <1>5, <2>1, SameGoesOn DEF Mild
<1>7. CASE ServerHears(k)
  <2>1. /\ sockets[k].server \in {"open", "closing", "cut"} /\ sockets[k].carries \in Carried
        /\ UNCHANGED <<client, stored, unexplained, saved, astray>>
        /\ \/ AnswersAlone(k)
           \/ \E j \in Sockets : AnswersTaking(k, j)
           \/ \E c \in Connections : AnswersTakingRecord(k, c)
    BY <1>7, ServerHearsDoes
  <2>2. PICK what, call : call \in BOOLEAN /\ Answered(k, what, call)
    <3>1. CASE AnswersAlone(k)
      <4>1. PICK w \in {"joined", "left", "conflict"} :
              Answered(k, w, IF w = "conflict" THEN sockets[k].carries.call ELSE w = "joined")
        BY <3>1 DEF AnswersAlone
      <4>2. (IF w = "conflict" THEN sockets[k].carries.call ELSE w = "joined") \in BOOLEAN
        BY <2>1 DEF Carried
      <4> QED BY <4>1, <4>2
    <3> QED BY <2>1, <3>1 DEF AnswersTaking, AnswersTakingRecord
  <2>3. PICK c : c = [sockets[k].carries EXCEPT !.call = call]
    OBVIOUS
  <2>4. /\ c # None /\ c.connection = sockets[k].carries.connection
        /\ c.epoch = sockets[k].carries.epoch
    BY <2>1, <2>2, <2>3, CallSet
  <2>5. GoesOn(k)
    BY <2>1, <2>2, <2>3, <2>4, NoneIsNone DEF Answered, Turns, GoesOn, Live
  <2>6. CASE AnswersAlone(k)
    BY <1>a, <2>1, <2>5, <2>6, SameGoesOn DEF AnswersAlone, Mild
  <2>7. ASSUME NEW j \in Sockets, AnswersTaking(k, j) PROVE Mild
    <3>1. GoesOn(j)
      BY <1>5, <2>7 DEF AnswersTaking, Open, Attached
    <3> QED BY <1>a, <2>1, <2>5, <2>7, <3>1, SameGoesOn DEF AnswersTaking, Mild
  <2>8. ASSUME NEW d \in Connections, AnswersTakingRecord(k, d) PROVE Mild
    <3>1. \A e \in Connections : RecordGoesOn(e)
      BY <2>8 DEF AnswersTakingRecord, RecordGoesOn, TypeOK
    <3> QED BY <2>1, <2>5, <2>8, <3>1, SameGoesOn DEF AnswersTakingRecord, Mild
  <2> QED BY <2>1, <2>6, <2>7, <2>8
<1>8. CASE Cuts(k)
  <2>1. /\ Open(k) /\ sockets[k].carries \in Carried
        /\ Becomes(k, sockets[k].client, "cut", sockets[k].broken, sockets[k].asks,
                   sockets[k].carries, sockets[k].down, sockets[k].up)
        /\ excused' = excused \cup {sockets[k].carries.connection}
        /\ UNCHANGED <<client, stored, records, unexplained, saved, astray>>
    BY <1>8, CutsDoes
  <2>2. GoesOn(k)
    BY <2>1 DEF Open, Becomes, Turns, GoesOn, Live
  <2> QED BY <1>a, <2>1, <2>2, SameGoesOn DEF Becomes, Mild
<1>9. CASE AlarmWrites(k)
  <2>1. /\ saved # None /\ saved.socket = k /\ saved.carries # None /\ saved' = None
        /\ Becomes(k, sockets[k].client, sockets[k].server, sockets[k].broken, sockets[k].asks,
                   saved.carries, sockets[k].down, sockets[k].up)
        /\ UNCHANGED <<client, stored, records, history>> /\ astray \subseteq astray'
    BY <1>9, AlarmWritesDoes
  <2>2. /\ Attached(k)
        /\ sockets[k].carries.connection = saved.carries.connection
        /\ sockets[k].carries.epoch = saved.carries.epoch
    BY <2>1, NoneIsNone DEF SavedFits
  <2>3. sockets[k].carries # None
    BY <2>2 DEF Attached, Shapes, Shape, Holds
  <2>4. GoesOn(k)
    BY <2>1, <2>2, <2>3 DEF Attached, Becomes, Turns, GoesOn, Live
  <2> QED BY <1>a, <2>1, <2>4, SameGoesOn DEF Becomes, Mild, history
<1> QED BY <1>1, <1>2, <1>3, <1>4, <1>6, <1>7, <1>8, <1>9

LEMMA Steps ==
  ASSUME TypeOK, Shapes, SavedFits, Tab, [Next]_vars
  PROVE  \/ Still \/ GaveUp \/ Mild \/ SessionEnds \/ AlarmRevives
         \/ \E k \in Sockets :
              \/ Begun(k) \/ CloseEvent(k) \/ Hears(k) \/ AlarmReads(k)
              \/ FetchReplacing(k) \/ FetchResuming(k) \/ FetchNew(k)
              \/ NotUpgraded(k) \/ AcceptFails(k) \/ ServerLoses(k) \/ ReplacedGoes(k)
         \/ \E c \in Connections : GracePasses(c)
<1>1. CASE UNCHANGED vars
  BY <1>1 DEF vars, Still, Quiet
<1>2. ASSUME NEW k \in Sockets, Mounts(k) PROVE Begun(k)
  BY <1>2, MountsDoes DEF Mounts, Begun, Tab, Transport
<1>3. CASE TimerFires
  BY <1>3, TimerFiresDoes DEF Begun, Still, Quiet, Tab
<1>4. CASE Reconcile
  BY <1>4, ReconcileDoes DEF Reconcile, Begun, Tab, history, check
<1>5. CASE ReadyTimesOut \/ PageHides
  BY <1>5, ReadyTimesOutDoes, PageHidesDoes DEF ReadyTimesOut, PageHides, GaveUp
<1>6. CASE PageReloads \/ Unmounts
  BY <1>6, PageReloadsDoes, UnmountsDoes DEF PageReloads, Unmounts, GaveUp
<1>7. CASE \/ IdentityAges \/ GoesOffline \/ ComesOnline
           \/ \E id \in Commands : CommandTimesOut(id)
  <2>1. Quiet
    BY <1>7, QuietDoes
  <2> QED BY <1>7, <2>1 DEF IdentityAges, GoesOffline, ComesOnline, CommandTimesOut, Still
<1>8. ASSUME NEW id \in Commands, NEW what \in {"join", "takeover", "leave"}, Send(id, what)
      PROVE  Mild
  BY <1>8, SendDoes, Mildly
<1>9. ASSUME NEW k \in Sockets,
             \/ Opens(k) \/ NetworkBreaks(k) \/ Accepts(k) \/ ServerHears(k) \/ TakenElsewhere(k)
             \/ Evicts(k) \/ Cuts(k) \/ AlarmWrites(k)
      PROVE  Mild
  BY <1>9, Mildly
<1>10. ASSUME NEW c \in Connections, EvictsSuspended(c) PROVE Mild
  <2>1. \A d \in Connections : RecordGoesOn(d)
    BY <1>10, EvictsSuspendedDoes DEF RecordGoesOn
  <2> QED BY <1>10, <2>1, EvictsSuspendedDoes, SameGoesOn DEF Mild
<1>11. CASE AlarmLeaves
  BY <1>11, AlarmLeavesDoes, SameGoesOn DEF Mild, RecordGoesOn, history
<1> QED BY <1>1, <1>2, <1>3, <1>4, <1>5, <1>6, <1>7, <1>8, <1>9, <1>10, <1>11 DEF Next
-----------------------------------------------------------------------------
LEMMA TypeStep ==
  ASSUME TypeOK, Shapes, [Next]_vars
  PROVE  TypeOK'
<1>1. CASE UNCHANGED vars
  BY <1>1 DEF vars, history, check, TypeOK
<1>2. CASE \/ \E k \in Sockets : Mounts(k)
           \/ IdentityAges \/ TimerFires \/ Reconcile \/ ReadyTimesOut
           \/ GoesOffline \/ ComesOnline \/ PageHides \/ PageReloads \/ Unmounts
           \/ \E id \in Commands : CommandTimesOut(id)
  BY <1>2, MountsDoes, TimerFiresDoes, ReconcileDoes, ReadyTimesOutDoes, PageHidesDoes,
     PageReloadsDoes, UnmountsDoes, QuietDoes
<1>3. ASSUME NEW id \in Commands, NEW what \in {"join", "takeover", "leave"}, Send(id, what)
      PROVE  TypeOK'
  BY <1>3, SendDoes
<1>4. ASSUME NEW k \in Sockets,
             CloseEvent(k) \/ Opens(k) \/ Hears(k) \/ NetworkBreaks(k)
      PROVE  TypeOK'
  BY <1>4, CloseEventDoes, OpensDoes, HearsDoes, NetworkBreaksDoes
<1>5. ASSUME NEW k \in Sockets,
             \/ FetchReplacing(k) \/ FetchResuming(k) \/ FetchNew(k) \/ NotUpgraded(k)
             \/ Accepts(k) \/ AcceptFails(k) \/ ServerHears(k) \/ ServerLoses(k)
             \/ TakenElsewhere(k) \/ Evicts(k) \/ Cuts(k) \/ ReplacedGoes(k)
             \/ AlarmReads(k) \/ AlarmWrites(k)
      PROVE  TypeOK'
  BY <1>5, FetchReplacingDoes, FetchResumingDoes, FetchNewDoes, NotUpgradedDoes, AcceptsDoes,
     AcceptFailsDoes, ServerHearsDoes, ServerLosesDoes, TakenElsewhereDoes, EvictsDoes,
     CutsDoes, ReplacedGoesDoes, AlarmReadsDoes, AlarmWritesDoes
<1>6. CASE SessionEnds \/ AlarmLeaves \/ AlarmRevives
           \/ \E c \in Connections : GracePasses(c) \/ EvictsSuspended(c)
  BY <1>6, SessionEndsDoes, AlarmLeavesDoes, AlarmRevivesDoes, GracePassesDoes,
     EvictsSuspendedDoes
<1> QED BY <1>1, <1>2, <1>3, <1>4, <1>5, <1>6 DEF Next

(* What only the server does leaves the tab as it is.                        *)
LEMMA ServerSteps ==
  ASSUME NEW k \in Sockets,
         \/ FetchReplacing(k) \/ FetchResuming(k) \/ FetchNew(k) \/ NotUpgraded(k)
         \/ AcceptFails(k) \/ ServerLoses(k) \/ ReplacedGoes(k) \/ AlarmReads(k)
         \/ SessionEnds \/ AlarmRevives \/ \E c \in Connections : GracePasses(c)
  PROVE  UNCHANGED <<client, stored, pending, told>>
BY DEF FetchReplacing, FetchResuming, FetchNew, NotUpgraded, AcceptFails, ServerLoses,
       ReplacedGoes, AlarmReads, SessionEnds, AlarmRevives, GracePasses

LEMMA TabStep ==
  ASSUME TypeOK, Shapes, SavedFits, Tab, [Next]_vars
  PROVE  Tab'
<1>1. CASE Still
  BY <1>1 DEF Still, Quiet, Tab
<1>2. CASE GaveUp
  BY <1>2 DEF GaveUp, Tab
<1>3. CASE Mild
  BY <1>3 DEF Mild, Tab
<1>4. ASSUME NEW k \in Sockets, Begun(k) PROVE Tab'
  BY <1>4, NoneIsNone DEF Begun, Begins, Tab
<1>5. ASSUME NEW k \in Sockets, CloseEvent(k) PROVE Tab'
  BY <1>5, CloseEventDoes, NoneIsNone DEF CloseEvent, Tab
<1>6. ASSUME NEW k \in Sockets, Hears(k) PROVE Tab'
  <2>1. CASE Same
    BY <2>1 DEF Same, Tab
  <2>2. CASE k = client.current /\ HearsReady(k)
    BY <2>2, NoneIsNone DEF HearsReady, Tab
  <2>3. CASE k = client.current /\ HearsEnded(k)
    BY <2>3, NoneIsNone DEF HearsEnded, Tab
  <2>4. CASE Learns(k, Head(sockets[k].down))
    BY <2>4 DEF Learns, Tab
  <2> QED BY <1>6, <2>1, <2>2, <2>3, <2>4, HearsDoes
<1>7. CASE UNCHANGED <<client, stored>>
  BY <1>7 DEF Tab
<1>8. CASE SessionEnds \/ AlarmRevives \/ \E c \in Connections : GracePasses(c)
  BY <1>8, <1>7 DEF SessionEnds, AlarmRevives, GracePasses
<1> QED BY <1>1, <1>2, <1>3, <1>4, <1>5, <1>6, <1>7, <1>8, Steps, ServerSteps

(* The upgrade is refused or fails, or the server learns of the end.          *)
LEMMA ServerCloses ==
  ASSUME TypeOK, Shapes, NEW k \in Sockets,
         NotUpgraded(k) \/ AcceptFails(k) \/ ServerLoses(k) \/ ReplacedGoes(k)
  PROVE  /\ sockets[k].server \in {"none", "loading", "open", "closing", "cut", "replaced"}
         /\ \E carries_ \in {None, sockets[k].carries} :
              Becomes(k, sockets[k].client, "closed", sockets[k].broken, sockets[k].asks,
                      carries_, sockets[k].down, sockets[k].up)
<1>1. CASE NotUpgraded(k)
  BY <1>1, NotUpgradedDoes DEF NotUpgraded, Arriving
<1>2. CASE AcceptFails(k)
  BY <1>2, AcceptFailsDoes DEF AcceptFails
<1>3. CASE ServerLoses(k)
  BY <1>3, ServerLosesDoes
<1>4. CASE ReplacedGoes(k)
  BY <1>4, ReplacedGoesDoes
<1> QED BY <1>1, <1>2, <1>3, <1>4

LEMMA OneLiveStep ==
  ASSUME TypeOK, Shapes, SavedFits, Tab, OneLive, [Next]_vars
  PROVE  OneLive'
<1>a. ~Live(Unused)
  BY UnusedIs DEF Live
<1>1. CASE Still
  BY <1>1 DEF Still, Quiet, OneLive
<1>2. CASE GaveUp
  BY <1>2, <1>a DEF GaveUp, GivesUp, Becomes, Turns, OneLive, Live
<1>3. CASE Mild
  BY <1>3 DEF Mild, GoesOn, OneLive
<1>4. ASSUME NEW k \in Sockets, Begun(k) PROVE OneLive'
  <2>1. \A i \in Sockets : ~Live(sockets[i])
    BY <1>4, NoneIsNone DEF Begun, OneLive, Transport, Live
  <2> QED BY <1>4, <2>1 DEF Begun, Begins, Becomes, OneLive
<1>5. ASSUME NEW k \in Sockets, CloseEvent(k) PROVE OneLive'
  BY <1>5, <1>a, CloseEventDoes DEF Becomes, Turns, OneLive, Live
<1>6. ASSUME NEW k \in Sockets, Hears(k) PROVE OneLive'
  <2>1. client'.current = client.current
    BY <1>6, HearsDoes DEF Same, HearsReady, HearsEnded, Learns
  <2>2. /\ Live(sockets[k]) /\ \A i \in Sockets \ {k} : sockets'[i] = sockets[i]
    BY <1>6, HearsDoes DEF Becomes, Live
  <2> QED BY <2>1, <2>2 DEF OneLive
<1>7. ASSUME UNCHANGED client, \A i \in Sockets : Live(sockets[i])' => Live(sockets[i])
      PROVE  OneLive'
  BY <1>7 DEF OneLive
<1>8. ASSUME NEW k \in Sockets,
             FetchReplacing(k) \/ FetchResuming(k) \/ FetchNew(k) \/ NotUpgraded(k)
             \/ AcceptFails(k) \/ ServerLoses(k) \/ ReplacedGoes(k)
      PROVE  OneLive'
  <2>1. UNCHANGED client
    BY <1>8, ServerSteps
  <2>2. \A i \in Sockets : Live(sockets[i])' => Live(sockets[i])
    <3>1. CASE FetchReplacing(k)
      <4>1. PICK j, carries_ :
              /\ \A i \in Sockets \ {k, j} : sockets'[i] = sockets[i]
              /\ Turns(k, sockets[k].client, "loading", sockets[k].broken, sockets[k].asks,
                       carries_, sockets[k].down, sockets[k].up)
              /\ Turns(j, sockets[j].client, "replaced", sockets[j].broken, sockets[j].asks,
                       sockets[j].carries, sockets[j].down, <<>>)
        BY <3>1, FetchReplacingDoes
      <4> QED BY <1>a, <4>1 DEF Turns, Live
    <3>2. CASE FetchResuming(k) \/ FetchNew(k)
      BY <3>2, <1>a, FetchResumingDoes, FetchNewDoes DEF Becomes, Turns, Live
    <3>3. CASE NotUpgraded(k) \/ AcceptFails(k) \/ ServerLoses(k) \/ ReplacedGoes(k)
      BY <3>3, <1>a, ServerCloses DEF Becomes, Turns, Live
    <3> QED BY <1>8, <3>1, <3>2, <3>3
  <2> QED BY <1>7, <2>1, <2>2
<1>9. CASE SessionEnds
  BY <1>7, <1>9, <1>a, SessionEndsDoes DEF SessionEnds, Turns, Live
<1>10. CASE AlarmRevives \/ (\E k \in Sockets : AlarmReads(k)) \/ \E c \in Connections : GracePasses(c)
  BY <1>7, <1>10 DEF AlarmRevives, AlarmReads, GracePasses
<1> QED BY <1>1, <1>2, <1>3, <1>4, <1>5, <1>6, <1>8, <1>9, <1>10, Steps

LEMMA AskedStep ==
  ASSUME TypeOK, Shapes, SavedFits, Tab, OneLive, Asked, [Next]_vars
  PROVE  Asked'
<1>a. Unused.asks = None
  BY UnusedIs
<1>1. CASE Still
  BY <1>1 DEF Still, Quiet, history, check, Asked
<1>2. CASE GaveUp
  <2>1. CASE sockets' = sockets /\ excused' = excused
             /\ ~(client.current # None /\ Live(sockets[client.current]))
    BY <1>2, <2>1, NoneIsNone DEF Asked
  <2>2. CASE /\ client.current # None /\ Live(sockets[client.current])
             /\ Becomes(client.current, "closing", sockets[client.current].server,
                        sockets[client.current].broken, sockets[client.current].asks,
                        sockets[client.current].carries, <<>>, sockets[client.current].up)
             /\ excused' = excused \cup Unheard(client.current)
    BY <2>2, <1>a DEF Asked, Unheard, Becomes, Turns
  <2> QED BY <1>2, <2>1, <2>2 DEF GaveUp, GivesUp
<1>3. CASE Mild
  BY <1>3 DEF Mild, GoesOn, Asked
<1>4. ASSUME NEW k \in Sockets, Begun(k) PROVE Asked'
  <2>1. \A i \in Sockets : sockets[i].asks # None => sockets[i].asks.connection \in excused
    BY <1>4, NoneIsNone DEF Begun, Asked, Transport, Live
  <2>2. /\ \A i \in Sockets \ {k} : sockets'[i] = sockets[i]
        /\ sockets'[k].client = "connecting" /\ client'.current = k /\ ~client'.settled
        /\ excused' = excused
    BY <1>4 DEF Begun, Begins, Becomes, Turns, history, check
  <2> QED BY <2>1, <2>2 DEF Asked, Live
<1>5. ASSUME NEW k \in Sockets, CloseEvent(k) PROVE Asked'
  <2>1. excused' = excused \cup Unheard(k)
    BY <1>5 DEF CloseEvent
  <2> QED BY <1>5, <2>1, <1>a, CloseEventDoes DEF Becomes, Turns, Asked, Unheard, Live
<1>6. ASSUME NEW k \in Sockets, Hears(k) PROVE Asked'
  <2>1. \A i \in Sockets : sockets'[i].asks # None => i # k /\ sockets'[i] = sockets[i]
    BY <1>6, <1>a, HearsDoes DEF Becomes, Turns
  <2>2. Live(sockets[k])
    BY <1>6, HearsDoes DEF Live
  <2>3. k = client.current
    BY <2>2 DEF OneLive
  <2>4. \A i \in Sockets : sockets'[i].asks # None => sockets'[i].asks.connection \in excused
    BY <2>1, <2>3 DEF Asked
  <2>5. \A i \in Sockets : sockets'[i].asks # None => sockets'[i].asks.connection \in UnderWay
    BY <2>1 DEF UnderWay, Named
  <2>6. excused' \in {excused, excused \cap UnderWay}
    BY <1>6, HearsDoes DEF Same, HearsReady, HearsEnded, Learns
  <2> QED BY <2>4, <2>5, <2>6 DEF Asked
<1>7. ASSUME UNCHANGED client, excused \subseteq excused',
             \A i \in Sockets : \/ sockets'[i].asks = None
                                \/ /\ sockets'[i].asks = sockets[i].asks
                                   /\ Live(sockets[i]) => Live(sockets[i])'
      PROVE  Asked'
  BY <1>7 DEF Asked
<1>8. ASSUME NEW k \in Sockets,
             FetchReplacing(k) \/ FetchResuming(k) \/ NotUpgraded(k) \/ AcceptFails(k)
             \/ ServerLoses(k) \/ ReplacedGoes(k)
      PROVE  Asked'
  <2>1. UNCHANGED client /\ excused \subseteq excused'
    BY <1>8 DEF FetchReplacing, FetchResuming, NotUpgraded, AcceptFails, ServerLoses, ReplacedGoes,
                  history, check
  <2>2. \A i \in Sockets : \/ sockets'[i].asks = None
                           \/ /\ sockets'[i].asks = sockets[i].asks
                              /\ Live(sockets[i]) => Live(sockets[i])'
    <3>1. CASE FetchReplacing(k)
      <4>1. PICK j, carries_ :
              /\ j \in Sockets /\ \A i \in Sockets \ {k, j} : sockets'[i] = sockets[i]
              /\ Turns(k, sockets[k].client, "loading", sockets[k].broken, sockets[k].asks,
                       carries_, sockets[k].down, sockets[k].up)
              /\ Turns(j, sockets[j].client, "replaced", sockets[j].broken, sockets[j].asks,
                       sockets[j].carries, sockets[j].down, <<>>)
        BY <3>1, FetchReplacingDoes DEF Replaceable
      <4> QED BY <4>1, <1>a DEF Turns, Live
    <3>2. CASE FetchResuming(k)
      BY <3>2, <1>a, FetchResumingDoes DEF Becomes, Turns, Live
    <3>3. CASE NotUpgraded(k) \/ AcceptFails(k) \/ ServerLoses(k) \/ ReplacedGoes(k)
      BY <3>3, <1>a, ServerCloses DEF Becomes, Turns, Live
    <3> QED BY <1>8, <3>1, <3>2, <3>3
  <2> QED BY <1>7, <2>1, <2>2
<1>9. ASSUME NEW k \in Sockets, FetchNew(k) PROVE Asked'
  <2>1. FreshConnection \notin UnderWay /\ excused' = excused \ {FreshConnection}
        /\ UNCHANGED client
    BY <1>9, FetchNewDoes DEF FetchNew, Held
  <2>2. \A i \in Sockets : \/ sockets'[i].asks = None
                           \/ /\ sockets'[i].asks = sockets[i].asks
                              /\ Live(sockets[i]) => Live(sockets[i])'
    BY <1>9, <1>a, FetchNewDoes DEF Becomes, Turns, Live
  <2>3. \A i \in Sockets : sockets[i].asks # None => sockets[i].asks.connection # FreshConnection
    BY <2>1 DEF UnderWay, Named
  <2> QED BY <2>1, <2>2, <2>3 DEF Asked
<1>10. CASE SessionEnds
  BY <1>7, <1>10, <1>a, SessionEndsDoes DEF SessionEnds, Turns, Live
<1>11. CASE AlarmRevives \/ (\E k \in Sockets : AlarmReads(k)) \/ \E c \in Connections : GracePasses(c)
  BY <1>7, <1>11 DEF AlarmRevives, AlarmReads, GracePasses, history
<1> QED BY <1>1, <1>2, <1>3, <1>4, <1>5, <1>6, <1>8, <1>9, <1>10, <1>11, Steps
(* What fetch does to the transport that asks, and to the one it replaces.    *)
LEMMA FetchReplaces ==
  ASSUME TypeOK, Shapes, NEW k \in Sockets, FetchReplacing(k)
  PROVE  \E j \in Sockets :
           /\ j # k /\ Open(j) /\ sockets[k].asks # None
           /\ sockets[j].carries.connection = sockets[k].asks.connection
           /\ sockets[k].asks.epoch > sockets[j].carries.epoch
           /\ \A i \in Sockets \ {k, j} : sockets'[i] = sockets[i]
           /\ sockets'[k].client = sockets[k].client /\ sockets'[k].server = "loading"
           /\ sockets'[k].asks = sockets[k].asks
           /\ sockets'[k].carries = [connection |-> sockets[k].asks.connection,
                                     epoch |-> sockets[k].asks.epoch,
                                     call |-> sockets[j].carries.call]
           /\ Turns(j, sockets[j].client, "replaced", sockets[j].broken, sockets[j].asks,
                    sockets[j].carries, sockets[j].down, <<>>)
           /\ saved' = IF From(j) THEN [saved EXCEPT !.socket = None] ELSE saved
<1>1. \A j \in Replaceable(k) :
        /\ j \in Sockets /\ Open(j) /\ sockets[k].asks # None
        /\ sockets[j].carries.connection = sockets[k].asks.connection
        /\ sockets[k].asks.epoch > sockets[j].carries.epoch
  BY DEF Replaceable
<1>2. PICK j \in Replaceable(k) :
        /\ j # k /\ \A i \in Sockets \ {k, j} : sockets'[i] = sockets[i]
        /\ Turns(k, sockets[k].client, "loading", sockets[k].broken, sockets[k].asks,
                 [connection |-> sockets[k].asks.connection,
                  epoch |-> sockets[k].asks.epoch, call |-> sockets[j].carries.call],
                 sockets[k].down, sockets[k].up)
        /\ Turns(j, sockets[j].client, "replaced", sockets[j].broken, sockets[j].asks,
                 sockets[j].carries, sockets[j].down, <<>>)
        /\ saved' = IF From(j) THEN [saved EXCEPT !.socket = None] ELSE saved
  BY FetchReplacingDoes
<1>3. /\ sockets'[k].client = sockets[k].client /\ sockets'[k].server = "loading"
      /\ sockets'[k].asks = sockets[k].asks
      /\ sockets'[k].carries = [connection |-> sockets[k].asks.connection,
                                epoch |-> sockets[k].asks.epoch, call |-> sockets[j].carries.call]
  BY <1>2 DEF Turns
<1> QED BY <1>1, <1>2, <1>3

LEMMA Fetches ==
  ASSUME TypeOK, NEW k \in Sockets, FetchResuming(k) \/ FetchNew(k)
  PROVE  /\ \A i \in Sockets \ {k} : sockets'[i] = sockets[i]
         /\ sockets'[k].client = sockets[k].client /\ sockets'[k].server = "loading"
         /\ sockets'[k].asks = sockets[k].asks
         /\ sockets'[k].carries.connection =
              IF FetchResuming(k) THEN sockets[k].asks.connection ELSE FreshConnection
<1>1. CASE FetchResuming(k)
  <2>1. PICK carries_ :
          /\ carries_.connection = sockets[k].asks.connection
          /\ Becomes(k, sockets[k].client, "loading", sockets[k].broken, sockets[k].asks,
                     carries_, sockets[k].down, sockets[k].up)
    BY <1>1, FetchResumingDoes
  <2> QED BY <1>1, <2>1 DEF Becomes, Turns
<1>2. CASE ~FetchResuming(k)
  <2>1. PICK carries_ :
          /\ carries_.connection = FreshConnection
          /\ Becomes(k, sockets[k].client, "loading", sockets[k].broken, sockets[k].asks,
                     carries_, sockets[k].down, sockets[k].up)
    BY <1>2, FetchNewDoes
  <2> QED BY <1>2, <2>1 DEF Becomes, Turns
<1> QED BY <1>1, <1>2

(* Nothing is carried, recorded or read that was not before.                *)
Rests ==
  /\ \A i \in Sockets : Holds(sockets[i])' =>
       /\ Holds(sockets[i])
       /\ sockets'[i].carries.connection = sockets[i].carries.connection
       /\ sockets'[i].carries.epoch = sockets[i].carries.epoch
       /\ Open(i) => sockets'[i].server = "open" \/ sockets[i].carries.connection \in excused'
  /\ \A i \in Sockets : Attached(i) => Attached(i)'
  /\ \A c \in Connections : records'[c] # None =>
       records[c] # None /\ records'[c].epoch = records[c].epoch
  /\ saved' \in {saved, None} /\ astray \subseteq astray'
  /\ \A c \in UnderWay : c \in excused => c \in excused'

LEMMA RestsIf ==
  ASSUME NEW k \in Sockets, NEW server_, NEW broken_, NEW asks_, NEW down_, NEW up_, NEW client_,
         NEW carries_,
         Becomes(k, client_, server_, broken_, asks_, carries_, down_, up_),
         server_ = sockets[k].server \/ (~Attached(k) /\ server_ = "closed"),
         Holds(sockets[k]) => carries_ = sockets[k].carries,
         UNCHANGED <<records, saved, astray>>, \A c \in UnderWay : c \in excused => c \in excused',
         sockets'[k] = Unused => ~Attached(k)
  PROVE  Rests
<1>1. ~Holds(Unused)
  BY UnusedIs DEF Holds
<1>2. \A i \in Sockets \ {k} : sockets'[i] = sockets[i]
  BY DEF Becomes
<1>3. /\ Holds(sockets[k])' => Holds(sockets[k]) /\ sockets'[k].carries = sockets[k].carries
                              /\ sockets'[k].server = sockets[k].server
      /\ Attached(k) => Attached(k)'
  BY <1>1 DEF Becomes, Turns, Holds, Attached
<1> QED BY <1>2, <1>3 DEF Rests, Open, Attached

LEMMA RestsStep ==
  ASSUME TypeOK, Shapes, SavedFits, Tab, [Next]_vars
  PROVE  \/ Rests \/ AlarmRevives
         \/ \E k \in Sockets : \/ FetchReplacing(k) \/ FetchResuming(k) \/ FetchNew(k)
                               \/ ServerLoses(k) \/ AlarmReads(k)
<1>a. ~Holds(Unused) /\ Unused.client = "none" /\ Unused.server = "none"
  BY UnusedIs DEF Holds
<1>1. CASE Still
  BY <1>1 DEF Still, Quiet, Rests, Open, Attached, history, check
<1>2. ASSUME GaveUp PROVE Rests
  <2>1. excused \subseteq excused' /\ UNCHANGED <<records, saved, astray>>
    BY <1>2 DEF GaveUp, GivesUp, check
  <2>2. CASE UNCHANGED sockets
    BY <2>1, <2>2 DEF Rests, Open, Attached
  <2>3. CASE /\ client.current # None
             /\ Becomes(client.current, "closing", sockets[client.current].server,
                        sockets[client.current].broken, sockets[client.current].asks,
                        sockets[client.current].carries, <<>>, sockets[client.current].up)
    <3>1. PICK k \in Sockets : k = client.current
      BY <2>3 DEF TypeOK, Client
    <3>2. sockets'[k] # Unused
      BY <2>3, <3>1, <1>a DEF Becomes, Turns
    <3> QED BY <2>1, <2>3, <3>1, <3>2, RestsIf
  <2> QED BY <1>2, <2>2, <2>3 DEF GaveUp, GivesUp
<1>3. CASE Mild
  <2>1. \A i \in Sockets : Holds(sockets[i])' =>
          /\ Holds(sockets[i])
          /\ sockets'[i].carries.connection = sockets[i].carries.connection
          /\ sockets'[i].carries.epoch = sockets[i].carries.epoch
          /\ Open(i) => sockets'[i].server = "open" \/ sockets[i].carries.connection \in excused'
    BY <1>3 DEF Mild, GoesOn, Holds, Open, Shapes, Shape
  <2>2. \A i \in Sockets : Attached(i) => Attached(i)'
    BY <1>3 DEF Mild, GoesOn, Attached
  <2> QED BY <1>3, <2>1, <2>2 DEF Mild, RecordGoesOn, Rests
<1>4. ASSUME NEW k \in Sockets, Begun(k) PROVE Rests
  BY <1>4, <1>a DEF Begun, Begins, Becomes, Turns, Rests, Holds, Open, Attached, history, check
<1>5. ASSUME NEW k \in Sockets, CloseEvent(k) PROVE Rests
  <2>1. /\ UNCHANGED <<records, saved, astray>> /\ excused \subseteq excused'
    BY <1>5 DEF CloseEvent, check
  <2>2. Becomes(k, "gone", sockets[k].server, sockets[k].broken, sockets[k].asks,
                sockets[k].carries, sockets[k].down, sockets[k].up)
    BY <1>5, CloseEventDoes
  <2>3. sockets'[k] = Unused => ~Attached(k)
    BY <2>2, <1>a DEF Becomes, Turns, Attached
  <2> QED BY <2>1, <2>2, <2>3, RestsIf
<1>6. ASSUME NEW k \in Sockets, Hears(k) PROVE Rests
  <2>1. excused' \in {excused, excused \cap UnderWay} /\ UNCHANGED <<records, saved, astray>>
    BY <1>6, HearsDoes DEF Same, HearsReady, HearsEnded, Learns, Hears, check
  <2>2. Becomes(k, IF Head(sockets[k].down).what = "ended" THEN "gone" ELSE "open",
                sockets[k].server, FALSE, None, sockets[k].carries,
                Tail(sockets[k].down), sockets[k].up)
    BY <1>6, HearsDoes
  <2>3. sockets'[k] = Unused => ~Attached(k)
    BY <2>2, <1>a DEF Becomes, Turns, Attached
  <2> QED BY <2>1, <2>2, <2>3, RestsIf
<1>7. ASSUME NEW k \in Sockets, NotUpgraded(k) \/ AcceptFails(k) \/ ReplacedGoes(k) PROVE Rests
  <2>1. /\ UNCHANGED <<records, saved, astray>> /\ excused \subseteq excused'
    BY <1>7 DEF NotUpgraded, AcceptFails, ReplacedGoes, history, check
  <2>2. ~Attached(k)
    BY <1>7 DEF NotUpgraded, Arriving, AcceptFails, ReplacedGoes, Attached
  <2>3. PICK carries_ : Becomes(k, sockets[k].client, "closed", sockets[k].broken, sockets[k].asks,
                                carries_, sockets[k].down, sockets[k].up)
    BY <1>7, ServerCloses
  <2>4. /\ ~Holds(sockets[k])' /\ \A i \in Sockets \ {k} : sockets'[i] = sockets[i]
    BY <2>3, <1>a DEF Becomes, Turns, Holds
  <2> QED BY <2>1, <2>2, <2>4 DEF Rests, Open, Attached
<1>8. CASE SessionEnds
  <2>1. UNCHANGED <<records, saved, astray>> /\ excused \subseteq excused'
        /\ \A i \in Sockets : Open(i) => sockets[i].carries.connection \in excused'
    BY <1>8 DEF SessionEnds, check
  <2>2. \A i \in Sockets :
          IF Open(i) THEN /\ sockets'[i].server = "closing"
                          /\ sockets'[i].carries = sockets[i].carries
          ELSE sockets'[i] = sockets[i]
    BY <1>8, SessionEndsDoes DEF Turns
  <2> QED BY <2>1, <2>2 DEF Rests, Holds, Open, Attached
<1>9. ASSUME NEW c \in Connections, GracePasses(c) PROVE Rests
  <2>1. UNCHANGED <<sockets, saved, astray>> /\ excused \subseteq excused'
        /\ records' = [records EXCEPT ![c] = None]
    BY <1>9 DEF GracePasses, check
  <2> QED BY <2>1 DEF Rests, Open, Attached, TypeOK
<1> QED BY <1>1, <1>2, <1>3, <1>4, <1>5, <1>6, <1>7, <1>8, <1>9, Steps

(* What is carried is a connection, and under way.                          *)
LEMMA CarriesIs ==
  ASSUME TypeOK, Shapes, NEW j \in Sockets, NEW c, Carries(j, c)
  PROVE  c \in Connections /\ c \in UnderWay /\ sockets[j].carries \in Carried
BY DEF Carries, Shapes, Shape, TypeOK, Socket, Carried, UnderWay, Named

LEMMA RestsCarries ==
  ASSUME Rests, NEW j \in Sockets, NEW c, Carries(j, c)'
  PROVE  Carries(j, c) /\ sockets'[j].carries.epoch = sockets[j].carries.epoch
BY DEF Rests, Carries

(* A transport that takes a predecessor over carries what it carried.       *)
LEMMA Replacing ==
  ASSUME TypeOK, Shapes, SavedFits, NEW k \in Sockets, FetchReplacing(k)
  PROVE  \E j \in Sockets : \E c \in Connections :
           /\ j # k /\ Open(j) /\ Carries(j, c)
           /\ sockets[k].asks # None /\ sockets[k].asks.connection = c
           /\ sockets[k].asks.epoch > sockets[j].carries.epoch
           /\ Holds(sockets[k])' /\ sockets'[k].carries.connection = c
           /\ sockets'[k].carries.epoch = sockets[k].asks.epoch
           /\ ~Holds(sockets[j])' /\ \A i \in Sockets \ {k, j} : sockets'[i] = sockets[i]
           /\ ~Attached(k)
           /\ \/ saved' = saved /\ ~(saved # None /\ saved.socket = j)
              \/ /\ saved # None /\ saved.socket = j /\ saved.carries.connection = c
                 /\ saved.carries.epoch = sockets[j].carries.epoch
                 /\ saved' # None /\ saved'.socket = None /\ saved'.carries = saved.carries
           /\ UNCHANGED <<records, excused, astray>>
<1>1. PICK j \in Sockets :
        /\ j # k /\ Open(j) /\ sockets[k].asks # None
        /\ sockets[j].carries.connection = sockets[k].asks.connection
        /\ sockets[k].asks.epoch > sockets[j].carries.epoch
        /\ \A i \in Sockets \ {k, j} : sockets'[i] = sockets[i]
        /\ sockets'[k].server = "loading"
        /\ sockets'[k].carries = [connection |-> sockets[k].asks.connection,
                                  epoch |-> sockets[k].asks.epoch,
                                  call |-> sockets[j].carries.call]
        /\ Turns(j, sockets[j].client, "replaced", sockets[j].broken, sockets[j].asks,
                 sockets[j].carries, sockets[j].down, <<>>)
        /\ saved' = IF From(j) THEN [saved EXCEPT !.socket = None] ELSE saved
  BY FetchReplaces
<1>2. PICK c : c = sockets[k].asks.connection
  OBVIOUS
<1>3. Carries(j, c) /\ c \in Connections
  BY <1>1, <1>2, CarriesIs DEF Open, Carries, Holds
<1>4. ~Holds(sockets[j])' /\ Holds(sockets[k])'
  BY <1>1, UnusedIs DEF Turns, Holds
<1>5. /\ sockets'[k].carries.connection = c /\ sockets'[k].carries.epoch = sockets[k].asks.epoch
  BY <1>1, <1>2
<1>6. ~Attached(k) /\ UNCHANGED <<records, excused, astray>>
  BY DEF FetchReplacing, Arriving, Attached, history
<1>7. \/ saved' = saved /\ ~(saved # None /\ saved.socket = j)
      \/ /\ saved # None /\ saved.socket = j /\ saved.carries.connection = c
         /\ saved.carries.epoch = sockets[j].carries.epoch
         /\ saved' # None /\ saved'.socket = None /\ saved'.carries = saved.carries
  <2>1. CASE ~From(j)
    BY <1>1, <2>1 DEF From
  <2>2. CASE From(j)
    <3>1. saved # None /\ saved.socket = j /\ saved \in Checked
      BY <2>2 DEF From, TypeOK
    <3>2. PICK x : x = [saved EXCEPT !.socket = None]
      OBVIOUS
    <3>3. x \in Checked /\ x.socket = None /\ x.carries = saved.carries
      BY <3>1, <3>2 DEF Checked
    <3>4. saved' = x /\ x # None
      BY <1>1, <2>2, <3>2, <3>3, NoneIsNone
    <3>5. saved.carries.connection = c /\ saved.carries.epoch = sockets[j].carries.epoch
      BY <1>1, <1>2, <3>1, NoneIsNone DEF SavedFits
    <3> QED BY <3>1, <3>3, <3>4, <3>5
  <2> QED BY <2>1, <2>2
<1> QED BY <1>1, <1>2, <1>3, <1>4, <1>5, <1>6, <1>7

(* One that resumes a record, or gets a new connection.                     *)
LEMMA Taking ==
  ASSUME TypeOK, Shapes, NEW k \in Sockets, FetchResuming(k) \/ FetchNew(k)
  PROVE  \E c \in Connections :
           /\ Holds(sockets[k])' /\ sockets'[k].carries.connection = c
           /\ records'[c] = None /\ \A d \in Connections \ {c} : records'[d] = records[d]
           /\ \A i \in Sockets \ {k} : sockets'[i] = sockets[i]
           /\ ~Attached(k) /\ saved' = saved
           /\ \/ /\ FetchResuming(k) /\ records[c] # None /\ UNCHANGED <<excused, astray>>
                 /\ sockets[k].asks # None /\ sockets[k].asks.connection = c
                 /\ sockets'[k].carries.epoch = sockets[k].asks.epoch
              \/ /\ FetchNew(k) /\ c \notin Held /\ records[c] = None
                 /\ excused' = excused \ {c} /\ astray' = astray \ {c}
<1>1. ~Attached(k)
  BY DEF FetchResuming, FetchNew, Arriving, Attached
<1>2. CASE FetchResuming(k)
  <2>1. PICK carries_ :
          /\ carries_.connection = sockets[k].asks.connection
          /\ carries_.epoch = sockets[k].asks.epoch
          /\ Becomes(k, sockets[k].client, "loading", sockets[k].broken, sockets[k].asks,
                     carries_, sockets[k].down, sockets[k].up)
    BY <1>2, FetchResumingDoes
  <2>2. PICK c : c = sockets[k].asks.connection
    OBVIOUS
  <2>3. /\ sockets[k].asks # None /\ records[c] # None
        /\ records' = [records EXCEPT ![c] = None] /\ UNCHANGED <<saved, excused, astray>>
    BY <1>2, <2>2, FetchResumingDoes DEF FetchResuming, history, check
  <2>4. c \in Connections
    BY <2>2, <2>3 DEF TypeOK, Socket, Identity
  <2>5. /\ sockets'[k].carries = carries_ /\ Holds(sockets[k])'
        /\ \A i \in Sockets \ {k} : sockets'[i] = sockets[i]
    BY <2>1 DEF Becomes, Turns, Holds
  <2>6. records'[c] = None /\ \A d \in Connections \ {c} : records'[d] = records[d]
    BY <2>3, <2>4 DEF TypeOK
  <2> QED BY <1>1, <1>2, <2>1, <2>2, <2>3, <2>4, <2>5, <2>6
<1>3. CASE FetchNew(k) /\ ~FetchResuming(k)
  <2>1. PICK c \in Connections : c = FreshConnection /\ c \notin Held /\ records[c] = None
    BY <1>3, FetchNewDoes
  <2>2. /\ \A i \in Sockets \ {k} : sockets'[i] = sockets[i]
        /\ sockets'[k].server = "loading" /\ sockets'[k].carries.connection = c
    BY <1>3, <2>1, Fetches
  <2>3. /\ records' = records /\ saved' = saved /\ excused' = excused \ {c}
        /\ astray' = astray \ {c}
    BY <1>3, <2>1 DEF FetchNew
  <2> QED BY <1>1, <1>3, <2>1, <2>2, <2>3 DEF Holds
<1> QED BY <1>2, <1>3

(* The server learns of the end of a transport: its record, if it goes on.  *)
LEMMA Losses ==
  ASSUME TypeOK, Shapes, NEW k \in Sockets, ServerLoses(k)
  PROVE  /\ Attached(k) /\ Carries(k, sockets[k].carries.connection)
         /\ sockets[k].carries \in Carried /\ ~Holds(sockets[k])'
         /\ \A i \in Sockets \ {k} : sockets'[i] = sockets[i]
         /\ \A d \in Connections \ {sockets[k].carries.connection} : records'[d] = records[d]
         /\ \/ records' = records /\ sockets[k].carries.connection \in excused'
            \/ /\ records'[sockets[k].carries.connection] # None
               /\ records'[sockets[k].carries.connection].epoch = sockets[k].carries.epoch
               /\ excused' = excused
         /\ saved' = (IF From(k) THEN None ELSE saved)
         /\ excused \subseteq excused' /\ astray' = astray
<1>1. PICK c : c = sockets[k].carries.connection
  OBVIOUS
<1>2. PICK r : r = [epoch |-> sockets[k].carries.epoch, call |-> sockets[k].carries.call]
  OBVIOUS
<1>3. /\ sockets[k].server \in {"open", "closing", "cut"} /\ sockets[k].carries \in Carried
      /\ Becomes(k, sockets[k].client, "closed", sockets[k].broken, sockets[k].asks, None,
                 sockets[k].down, sockets[k].up)
      /\ \/ records' = records /\ excused' = excused \cup {c}
         \/ records' = [records EXCEPT ![c] = r] /\ excused' = excused
      /\ saved' = (IF From(k) THEN None ELSE saved)
  BY <1>1, <1>2, ServerLosesDoes
<1>4. c \in Connections /\ r \in Suspended /\ r # None /\ r.epoch = sockets[k].carries.epoch
  BY <1>1, <1>2, <1>3, NoneIsNone DEF Carried, Suspended
<1>5. ~Holds(sockets[k])' /\ \A i \in Sockets \ {k} : sockets'[i] = sockets[i]
  BY <1>3, UnusedIs DEF Becomes, Turns, Holds
<1>6. /\ \A d \in Connections \ {c} : records'[d] = records[d]
      /\ \/ records' = records /\ c \in excused'
         \/ records'[c] # None /\ records'[c].epoch = sockets[k].carries.epoch /\ excused' = excused
  BY <1>3, <1>4 DEF TypeOK
<1>7. excused \subseteq excused' /\ astray' = astray
  BY <1>3 DEF ServerLoses
<1> QED BY <1>1, <1>3, <1>5, <1>6, <1>7 DEF Attached, Carries, Holds

LEMMA Reviving ==
  ASSUME TypeOK, AlarmRevives
  PROVE  \E c \in Connections :
           /\ saved # None /\ saved.socket = None /\ saved.carries.connection = c
           /\ saved' = None /\ astray' = astray \cup {c}
           /\ records'[c] # None /\ records'[c].epoch = saved.carries.epoch
           /\ \A d \in Connections \ {c} : records'[d] = records[d]
           /\ UNCHANGED <<sockets, excused>>
<1>1. /\ saved # None /\ saved.socket = None /\ saved.carries \in Carried /\ saved' = None
      /\ records' = [records EXCEPT ![saved.carries.connection] =
                       [epoch |-> saved.carries.epoch, call |-> saved.carries.call]]
      /\ astray' = astray \cup {saved.carries.connection} /\ UNCHANGED <<sockets, excused>>
  BY AlarmRevivesDoes DEF history
<1>2. PICK c : c = saved.carries.connection
  OBVIOUS
<1>3. PICK x : x = [epoch |-> saved.carries.epoch, call |-> saved.carries.call]
  OBVIOUS
<1>4. c \in Connections /\ x \in Suspended /\ x # None /\ x.epoch = saved.carries.epoch
  BY <1>1, <1>2, <1>3, NoneIsNone DEF Carried, Suspended
<1>5. records' = [records EXCEPT ![c] = x]
  BY <1>1, <1>2, <1>3
<1> QED BY <1>1, <1>2, <1>4, <1>5 DEF TypeOK

LEMMA OneHolderStep ==
  ASSUME TypeOK, Shapes, SavedFits, Tab, OneHolder, [Next]_vars
  PROVE  OneHolder'
<1> SUFFICES ASSUME NEW c \in Connections, c \notin astray', NEW j \in Sockets, Carries(j, c)'
             PROVE  /\ records'[c] = None
                    /\ \A i \in Sockets : Carries(i, c)' => i = j
  BY DEF OneHolder
<1>1. CASE Rests
  <2>1. c \notin astray
    BY <1>1 DEF Rests
  <2> QED BY <1>1, <2>1, RestsCarries DEF OneHolder, Rests
<1>2. ASSUME NEW k \in Sockets, FetchReplacing(k)
      PROVE  records'[c] = None /\ \A i \in Sockets : Carries(i, c)' => i = j
  BY <1>2, Replacing DEF OneHolder, Carries
<1>3. ASSUME NEW k \in Sockets, FetchResuming(k) \/ FetchNew(k)
      PROVE  records'[c] = None /\ \A i \in Sockets : Carries(i, c)' => i = j
  <2>1. PICK d \in Connections :
          /\ Holds(sockets[k])' /\ sockets'[k].carries.connection = d
          /\ records'[d] = None /\ \A x \in Connections \ {d} : records'[x] = records[x]
          /\ \A i \in Sockets \ {k} : sockets'[i] = sockets[i]
          /\ \/ records[d] # None /\ astray' = astray
             \/ d \notin Held /\ astray' = astray \ {d}
    BY <1>3, Taking
  <2>2. CASE c # d
    BY <2>1, <2>2 DEF OneHolder, Carries
  <2>3. CASE c = d
    <3>1. \A i \in Sockets : ~Carries(i, d)
      BY <2>1, <2>3, CarriesIs DEF OneHolder, Held
    <3> QED BY <2>1, <2>3, <3>1 DEF Carries
  <2> QED BY <2>2, <2>3
<1>4. ASSUME NEW k \in Sockets, ServerLoses(k)
      PROVE  records'[c] = None /\ \A i \in Sockets : Carries(i, c)' => i = j
  BY <1>4, Losses DEF OneHolder, Carries
<1>5. ASSUME NEW k \in Sockets, AlarmReads(k)
      PROVE  records'[c] = None /\ \A i \in Sockets : Carries(i, c)' => i = j
  BY <1>5, AlarmReadsDoes DEF OneHolder, Carries
<1>6. CASE AlarmRevives
  BY <1>6, Reviving DEF OneHolder, Carries
<1> QED BY <1>1, <1>2, <1>3, <1>4, <1>5, <1>6, RestsStep

LEMMA NewestStep ==
  ASSUME TypeOK, Shapes, SavedFits, Tab, Newest, AskedKept, [Next]_vars
  PROVE  Newest'
<1> DEFINE Fine(c, j) ==
      /\ \A i \in Sockets : Carries(i, c)' => i = j
      /\ records'[c] # None => records'[c].epoch < sockets'[j].carries.epoch
      /\ saved' # None /\ saved'.carries.connection = c =>
           /\ saved'.carries.epoch <= sockets'[j].carries.epoch
           /\ saved'.socket = None => saved'.carries.epoch < sockets'[j].carries.epoch
<1> SUFFICES ASSUME NEW c \in Connections, c \notin excused', NEW j \in Sockets, Carries(j, c)'
             PROVE  Fine(c, j)
  BY DEF Newest
<1>a. \A i \in Sockets : Carries(i, c) => /\ c \in UnderWay /\ c \in Held
                                         /\ sockets[i].carries.epoch \in Nat
  BY CarriesIs DEF Held, Carried
<1>b. /\ records[c] # None => records[c].epoch \in Nat
      /\ saved # None => saved.carries.epoch \in Nat
  BY DEF TypeOK, Suspended, Checked, Carried
<1>1. CASE Rests
  <2>1. Carries(j, c) /\ sockets'[j].carries.epoch = sockets[j].carries.epoch
    BY <1>1, RestsCarries
  <2>2. c \notin excused
    BY <1>1, <1>a, <2>1 DEF Rests
  <2>3. \A i \in Sockets : Carries(i, c)' => i = j
    BY <1>1, <2>1, <2>2, RestsCarries DEF Newest
  <2> QED BY <1>1, <2>1, <2>2, <2>3 DEF Newest, Rests
<1>2. ASSUME NEW k \in Sockets, FetchReplacing(k) PROVE Fine(c, j)
  <2>1. PICK h \in Sockets, d \in Connections :
          /\ h # k /\ Carries(h, d)
          /\ sockets[k].asks # None /\ sockets[k].asks.epoch > sockets[h].carries.epoch
          /\ Holds(sockets[k])' /\ sockets'[k].carries.connection = d
          /\ sockets'[k].carries.epoch = sockets[k].asks.epoch
          /\ ~Holds(sockets[h])' /\ \A i \in Sockets \ {k, h} : sockets'[i] = sockets[i]
          /\ \/ saved' = saved
             \/ /\ saved # None /\ saved.carries.connection = d
                /\ saved' # None /\ saved'.carries = saved.carries
          /\ UNCHANGED <<records, excused>>
    BY <1>2, Replacing
  <2>2. CASE c # d
    <3>1. Carries(j, c) /\ sockets'[j] = sockets[j]
      BY <2>1, <2>2 DEF Carries
    <3>2. \A i \in Sockets : Carries(i, c)' => i = j
      BY <2>1, <2>2, <3>1 DEF Carries, Newest
    <3> QED BY <2>1, <2>2, <3>1, <3>2 DEF Newest
  <2>3. CASE c = d
    <3>1. /\ \A i \in Sockets : Carries(i, c) => i = h
          /\ records[c] # None => records[c].epoch < sockets[h].carries.epoch
          /\ saved # None /\ saved.carries.connection = c =>
               saved.carries.epoch <= sockets[h].carries.epoch
      BY <2>1, <2>3 DEF Newest
    <3>2. \A i \in Sockets : Carries(i, c)' => i = k
      BY <2>1, <2>3, <3>1 DEF Carries
    <3>3. sockets[k].asks.epoch \in Nat /\ sockets[h].carries.epoch \in Nat
      BY <1>a, <2>1, <2>3 DEF TypeOK, Socket, Identity
    <3> QED BY <1>b, <2>1, <2>3, <3>1, <3>2, <3>3
  <2> QED BY <2>2, <2>3
<1>3. ASSUME NEW k \in Sockets, FetchResuming(k) \/ FetchNew(k) PROVE Fine(c, j)
  <2>1. PICK d \in Connections :
          /\ Holds(sockets[k])' /\ sockets'[k].carries.connection = d
          /\ records'[d] = None /\ \A x \in Connections \ {d} : records'[x] = records[x]
          /\ \A i \in Sockets \ {k} : sockets'[i] = sockets[i]
          /\ saved' = saved
          /\ \/ /\ FetchResuming(k) /\ excused' = excused
                /\ sockets[k].asks # None /\ sockets[k].asks.connection = d
                /\ sockets'[k].carries.epoch = sockets[k].asks.epoch
             \/ /\ FetchNew(k) /\ d \notin Held /\ excused' = excused \ {d}
    BY <1>3, Taking
  <2>2. CASE c # d
    <3>1. Carries(j, c) /\ sockets'[j] = sockets[j] /\ c \notin excused
      BY <2>1, <2>2 DEF Carries
    <3>2. \A i \in Sockets : Carries(i, c)' => i = j
      BY <2>1, <2>2, <3>1 DEF Carries, Newest
    <3> QED BY <2>1, <2>2, <3>1, <3>2 DEF Newest
  <2>3. CASE c = d /\ d \notin Held
    <3>1. \A i \in Sockets : ~Carries(i, c)
      BY <1>a, <2>3
    <3>2. saved # None => saved.carries.connection # c
      <4>1. saved # None => saved.carries # None
        BY NoneIsNone DEF TypeOK, Checked
      <4> QED BY <2>3, <4>1 DEF Held, Read, Named
    <3> QED BY <2>1, <2>3, <3>1, <3>2 DEF Carries
  <2>4. CASE c = d /\ FetchResuming(k) /\ d \in Held
    <3>1. /\ sockets[k].asks # None /\ sockets[k].asks.connection = c /\ c \notin excused
          /\ sockets'[k].carries.epoch = sockets[k].asks.epoch
      BY <2>1, <2>4
    <3>2. Below(c, sockets[k].asks.epoch)
      BY <2>4, <3>1 DEF AskedKept, FetchResuming
    <3>3. \A i \in Sockets : ~Carries(i, c)
      BY <2>4, <3>1, <3>2 DEF Below, Carries, FetchResuming, Replaceable
    <3>4. j = k /\ \A i \in Sockets : Carries(i, c)' => i = k
      BY <2>1, <3>3 DEF Carries
    <3>5. sockets[k].asks.epoch \in Nat
      BY <3>1 DEF TypeOK, Socket, Identity
    <3> QED BY <1>b, <2>1, <2>4, <3>1, <3>2, <3>4, <3>5 DEF Below
  <2> QED BY <2>1, <2>2, <2>3, <2>4
<1>4. ASSUME NEW k \in Sockets, ServerLoses(k) PROVE Fine(c, j)
  <2>1. /\ Carries(k, sockets[k].carries.connection) /\ ~Holds(sockets[k])'
        /\ \A i \in Sockets \ {k} : sockets'[i] = sockets[i]
        /\ \A d \in Connections \ {sockets[k].carries.connection} : records'[d] = records[d]
        /\ saved' \in {saved, None} /\ excused \subseteq excused'
    BY <1>4, Losses
  <2>2. Carries(j, c) /\ j # k /\ sockets'[j] = sockets[j] /\ c \notin excused
    BY <2>1 DEF Carries
  <2>3. c # sockets[k].carries.connection
    BY <2>1, <2>2 DEF Newest
  <2>4. \A i \in Sockets : Carries(i, c)' => i = j
    BY <2>1, <2>2 DEF Newest, Carries
  <2> QED BY <2>1, <2>2, <2>3, <2>4 DEF Newest
<1>5. ASSUME NEW k \in Sockets, AlarmReads(k) PROVE Fine(c, j)
  <2>1. /\ Open(k) /\ saved' = [socket |-> k, carries |-> sockets[k].carries]
        /\ UNCHANGED <<sockets, records, excused>>
    BY <1>5, AlarmReadsDoes DEF history
  <2>2. Carries(j, c) /\ sockets'[j] = sockets[j]
    BY <2>1 DEF Carries
  <2>3. saved'.carries = sockets[k].carries /\ saved'.socket = k /\ k # None
    BY <2>1, NoneIsNone
  <2>4. sockets[k].carries.connection = c => k = j
    BY <2>1, <2>2 DEF Newest, Carries, Open, Holds
  <2>5. \A i \in Sockets : Carries(i, c)' => i = j
    BY <2>1, <2>2 DEF Newest, Carries
  <2> QED BY <1>a, <2>1, <2>2, <2>3, <2>4, <2>5 DEF Newest
<1>6. CASE AlarmRevives
  <2>1. PICK d \in Connections :
          /\ saved # None /\ saved.socket = None /\ saved.carries.connection = d
          /\ saved' = None /\ records'[d].epoch = saved.carries.epoch
          /\ \A x \in Connections \ {d} : records'[x] = records[x]
          /\ UNCHANGED <<sockets, excused>>
    BY <1>6, Reviving
  <2>2. Carries(j, c) /\ \A i \in Sockets : Carries(i, c)' => i = j
    BY <2>1 DEF Newest, Carries
  <2> QED BY <2>1, <2>2 DEF Newest
<1> QED BY <1>1, <1>2, <1>3, <1>4, <1>5, <1>6, RestsStep

LEMMA SavedFitsStep ==
  ASSUME TypeOK, Shapes, SavedFits, Tab, [Next]_vars
  PROVE  SavedFits'
<1> SUFFICES ASSUME saved' # None, saved'.socket # None
             PROVE  /\ Attached(saved.socket)'
                    /\ sockets'[saved'.socket].carries.connection = saved'.carries.connection
                    /\ sockets'[saved'.socket].carries.epoch = saved'.carries.epoch
  BY DEF SavedFits
<1> DEFINE Fits == /\ Attached(saved.socket)'
                   /\ sockets'[saved'.socket].carries.connection = saved'.carries.connection
                   /\ sockets'[saved'.socket].carries.epoch = saved'.carries.epoch
<1>1. ASSUME saved' = saved, sockets'[saved.socket] = sockets[saved.socket] PROVE Fits
  BY <1>1 DEF SavedFits, Attached
<1>2. saved # None => saved.socket \in Sockets \cup {None}
  BY DEF TypeOK, Checked
<1>3. CASE Rests
  <2>1. saved' = saved /\ saved.socket \in Sockets /\ Attached(saved.socket)
    BY <1>2, <1>3 DEF Rests, SavedFits
  <2>2. Attached(saved.socket)' /\ Holds(sockets[saved.socket])'
    BY <1>3, <2>1 DEF Rests, Attached, Holds
  <2> QED BY <1>3, <2>1, <2>2 DEF Rests, SavedFits
<1>4. ASSUME NEW k \in Sockets, FetchReplacing(k) PROVE Fits
  <2>1. PICK j \in Sockets :
          /\ \A i \in Sockets \ {k, j} : sockets'[i] = sockets[i]
          /\ ~Attached(k)
          /\ \/ saved' = saved /\ ~(saved # None /\ saved.socket = j)
             \/ saved'.socket = None
    BY <1>4, Replacing
  <2>2. saved' = saved /\ saved.socket # j /\ saved.socket \in Sockets
    BY <1>2, <2>1
  <2>3. saved.socket # k
    BY <2>1, <2>2 DEF SavedFits
  <2> QED BY <1>1, <2>1, <2>2, <2>3
<1>5. ASSUME NEW k \in Sockets, FetchResuming(k) \/ FetchNew(k) PROVE Fits
  <2>1. \A i \in Sockets \ {k} : sockets'[i] = sockets[i]
    BY <1>5, Taking
  <2>2. ~Attached(k) /\ saved' = saved
    BY <1>5, Taking
  <2>3. saved.socket \in Sockets \ {k}
    BY <1>2, <2>2 DEF SavedFits
  <2> QED BY <1>1, <2>1, <2>2, <2>3
<1>6. ASSUME NEW k \in Sockets, ServerLoses(k) PROVE Fits
  <2>1. /\ \A i \in Sockets \ {k} : sockets'[i] = sockets[i]
        /\ saved' = IF From(k) THEN None ELSE saved
    BY <1>6, Losses
  <2> QED BY <1>1, <1>2, <2>1 DEF From
<1>7. ASSUME NEW k \in Sockets, AlarmReads(k) PROVE Fits
  <2>1. /\ Open(k) /\ saved' = [socket |-> k, carries |-> sockets[k].carries] /\ UNCHANGED sockets
    BY <1>7, AlarmReadsDoes
  <2>2. saved'.socket = k /\ saved'.carries = sockets[k].carries
    BY <2>1
  <2> QED BY <2>1, <2>2 DEF Open, Attached
<1>8. CASE AlarmRevives
  BY <1>8, Reviving
<1> QED BY <1>3, <1>4, <1>5, <1>6, <1>7, <1>8, RestsStep

LEMMA GoneStep ==
  ASSUME TypeOK, Shapes, SavedFits, Tab, OneLive, Asked, Gone, [Next]_vars
  PROVE  Gone'
<1> DEFINE Over(x) == \/ x.server \in {"closing", "cut"}
                      \/ Listens(x) /\ x.server \in {"closed", "replaced"} /\ x.carries # None
<1>a. ~Over(Unused)
  BY UnusedIs DEF Listens
<1>b. ASSUME \A i \in Sockets : Over(sockets[i])' =>
               \/ sockets'[i].carries.connection \in excused'
               \/ /\ Over(sockets[i]) /\ sockets'[i].carries = sockets[i].carries
                  /\ sockets[i].carries.connection \in excused
                       => sockets[i].carries.connection \in excused'
      PROVE  Gone'
  BY <1>b DEF Gone
<1>1. CASE Still
  BY <1>1 DEF Still, Quiet, history, check, Gone
<1>2. CASE GaveUp
  <2>1. excused \subseteq excused'
    BY <1>2 DEF GaveUp, GivesUp
  <2> QED BY <1>2, <1>a, <1>b, <2>1 DEF GaveUp, GivesUp, Becomes, Turns, Listens
<1>3. CASE Mild
  <2>1. excused \subseteq excused'
    BY <1>3 DEF Mild
  <2>2. \A i \in Sockets : Over(sockets[i])' =>
          /\ Over(sockets[i]) \/ sockets[i].carries.connection \in excused'
          /\ sockets'[i].carries.connection = sockets[i].carries.connection
    BY <1>3 DEF Mild, GoesOn, Listens, Live, Shapes, Shape, Holds
  <2> QED BY <2>1, <2>2 DEF Gone
<1>4. ASSUME NEW k \in Sockets, Begun(k) PROVE Gone'
  BY <1>4, <1>a, <1>b DEF Begun, Begins, Becomes, Turns, history, check, Listens
<1>5. ASSUME NEW k \in Sockets, CloseEvent(k) PROVE Gone'
  <2>1. excused \subseteq excused'
    BY <1>5 DEF CloseEvent
  <2> QED BY <1>5, <1>a, <1>b, <2>1, CloseEventDoes DEF Becomes, Turns, Listens
<1>6. ASSUME NEW k \in Sockets, Hears(k) PROVE Gone'
  <2>1. excused' \in {excused, excused \cap UnderWay}
    BY <1>6, HearsDoes DEF Same, HearsReady, HearsEnded, Learns
  <2>2. \A i \in Sockets : sockets[i].carries # None => sockets[i].carries.connection \in UnderWay
    BY DEF UnderWay, Named
  <2>3. \A i \in Sockets : Over(sockets[i]) => sockets[i].carries # None
    BY DEF Shapes, Shape, Holds
  <2>4. \A i \in Sockets : Over(sockets[i])' =>
          Over(sockets[i]) /\ sockets'[i].carries = sockets[i].carries
    BY <1>6, <1>a, HearsDoes DEF Becomes, Turns, Listens
  <2> QED BY <1>b, <2>1, <2>2, <2>3, <2>4
<1>7. ASSUME NEW k \in Sockets, FetchReplacing(k) PROVE Gone'
  <2>1. PICK j \in Sockets :
          /\ j # k /\ sockets[k].asks # None
          /\ sockets[j].carries.connection = sockets[k].asks.connection
          /\ \A i \in Sockets \ {k, j} : sockets'[i] = sockets[i]
          /\ sockets'[k].server = "loading"
          /\ Turns(j, sockets[j].client, "replaced", sockets[j].broken, sockets[j].asks,
                   sockets[j].carries, sockets[j].down, <<>>)
    BY <1>7, FetchReplaces
  <2>2. excused' = excused
    BY <1>7 DEF FetchReplacing, history, check
  <2>3. Listens(sockets[j])' => Live(sockets[j]) /\ sockets'[j].carries = sockets[j].carries
    BY <2>1, UnusedIs DEF Turns, Listens, Live
  <2>4. Live(sockets[j]) => sockets[j].carries.connection \in excused
    BY <2>1 DEF OneLive, Asked
  <2>5. sockets'[j].server \notin {"closing", "cut"}
    BY <2>1, UnusedIs DEF Turns
  <2> QED BY <1>b, <2>1, <2>2, <2>3, <2>4, <2>5
<1>8. ASSUME NEW k \in Sockets, FetchResuming(k) \/ FetchNew(k) PROVE Gone'
  <2>1. /\ \A i \in Sockets \ {k} : sockets'[i] = sockets[i]
        /\ sockets'[k].server = "loading"
    BY <1>8, Fetches
  <2>2. excused' = excused \/ (excused' = excused \ {FreshConnection} /\ FreshConnection \notin UnderWay)
    BY <1>8, FetchNewDoes DEF FetchResuming, FetchNew, history, check, Held
  <2>3. \A i \in Sockets : sockets[i].carries # None => sockets[i].carries.connection \in UnderWay
    BY DEF UnderWay, Named
  <2>4. \A i \in Sockets : Over(sockets[i]) => sockets[i].carries # None
    BY DEF Shapes, Shape, Holds
  <2> QED BY <1>b, <2>1, <2>2, <2>3, <2>4
<1>9. ASSUME NEW k \in Sockets, NotUpgraded(k) PROVE Gone'
  <2>1. sockets[k].carries = None /\ excused' = excused
    BY <1>9 DEF NotUpgraded, Arriving, Shapes, Shape, history, check
  <2> QED BY <1>9, <1>a, <1>b, <2>1, NotUpgradedDoes DEF Becomes, Turns
<1>10. ASSUME NEW k \in Sockets, AcceptFails(k) PROVE Gone'
  <2>1. excused' = excused \cup {sockets[k].carries.connection}
    BY <1>10 DEF AcceptFails
  <2> QED BY <1>10, <1>a, <1>b, <2>1, AcceptFailsDoes DEF Becomes, Turns
<1>11. ASSUME NEW k \in Sockets, ServerLoses(k) PROVE Gone'
  <2>1. excused \subseteq excused'
    BY <1>11, ServerLosesDoes
  <2> QED BY <1>11, <1>a, <1>b, <2>1, ServerLosesDoes DEF Becomes, Turns
<1>12. CASE SessionEnds
  <2>1. excused' = excused \cup {sockets[k].carries.connection : k \in {j \in Sockets : Open(j)}}
    BY <1>12 DEF SessionEnds
  <2>2. \A i \in Sockets : \/ sockets'[i] = Unused
                           \/ Open(i) /\ sockets'[i].carries = sockets[i].carries
                           \/ sockets'[i] = sockets[i]
    BY <1>12, SessionEndsDoes DEF Turns
  <2> QED BY <1>a, <1>b, <2>1, <2>2
<1>13. CASE AlarmRevives \/ (\E k \in Sockets : AlarmReads(k)) \/ \E c \in Connections : GracePasses(c)
  BY <1>13, <1>b DEF AlarmRevives, AlarmReads, GracePasses, history
<1>14. ASSUME NEW k \in Sockets, ReplacedGoes(k) PROVE Gone'
  <2>1. excused' = excused
    BY <1>14 DEF ReplacedGoes, history
  <2> QED BY <1>14, <1>a, <1>b, <2>1, ReplacedGoesDoes DEF Becomes, Turns
<1> QED BY <1>1, <1>2, <1>3, <1>4, <1>5, <1>6, <1>7, <1>8, <1>9, <1>10, <1>11, <1>12, <1>13, <1>14, Steps

(* The server goes on keeping a connection, unless it is excused or resumed.  *)
LEMMA KeepsOn ==
  ASSUME NEW c, NEW e, Keeps(c, e),
         \A j \in Sockets : Open(j) /\ sockets[j].carries.connection = c =>
           /\ sockets'[j].server = "open" /\ sockets'[j].carries.connection = c
           /\ sockets'[j].carries.epoch = sockets[j].carries.epoch,
         records'[c] = records[c]
  PROVE  Keeps(c, e)'
BY DEF Keeps, Open

LEMMA KeepsStep ==
  ASSUME TypeOK, Shapes, SavedFits, Tab, [Next]_vars,
         NEW c, c \in Connections, c \in Held, NEW e, Keeps(c, e), Below(c, e), c \notin excused'
  PROVE  \/ Keeps(c, e)'
         \/ \E k \in Sockets : /\ FetchReplacing(k) \/ FetchResuming(k)
                               /\ sockets[k].asks # None /\ sockets[k].asks.connection = c
<1>a. ASSUME records'[c] = records[c],
             \A j \in Sockets : Open(j) /\ sockets[j].carries.connection = c =>
               sockets'[j].server = "open" /\ sockets'[j].carries = sockets[j].carries
      PROVE  Keeps(c, e)'
  BY <1>a, KeepsOn
<1>1. CASE Still
  BY <1>1, <1>a DEF Still, Quiet, Open
<1>2. CASE GaveUp
  BY <1>2, <1>a DEF GaveUp, GivesUp, Becomes, Turns, Open
<1>3. CASE Mild
  <2>1. records[c] # None => records'[c] # None /\ records'[c].epoch = records[c].epoch
    BY <1>3 DEF Mild, RecordGoesOn
  <2>2. \A j \in Sockets : Open(j) /\ sockets[j].carries.connection = c =>
           /\ sockets'[j].server = "open" /\ sockets'[j].carries.connection = c
           /\ sockets'[j].carries.epoch = sockets[j].carries.epoch
    BY <1>3 DEF Mild, GoesOn, Open, Shapes, Shape, Holds
  <2> QED BY <2>1, <2>2 DEF Keeps, Open
<1>4. ASSUME NEW k \in Sockets, Begun(k) PROVE Keeps(c, e)'
  BY <1>4, <1>a, UnusedIs DEF Begun, Begins, Becomes, Open
<1>5. ASSUME NEW k \in Sockets, CloseEvent(k) PROVE Keeps(c, e)'
  <2>1. UNCHANGED records
    BY <1>5 DEF CloseEvent
  <2> QED BY <1>5, <1>a, <2>1, CloseEventDoes DEF Becomes, Turns, Open
<1>6. ASSUME NEW k \in Sockets, Hears(k) PROVE Keeps(c, e)'
  BY <1>6, <1>a, HearsDoes DEF Becomes, Turns, Open
<1>7. ASSUME NEW k \in Sockets, FetchReplacing(k),
             ~(sockets[k].asks # None /\ sockets[k].asks.connection = c)
      PROVE  Keeps(c, e)'
  <2>1. sockets[k].server = "none" /\ UNCHANGED records
    BY <1>7 DEF FetchReplacing, Arriving
  <2>2. PICK j \in Sockets :
          /\ sockets[k].asks # None
          /\ sockets[j].carries.connection = sockets[k].asks.connection
          /\ \A i \in Sockets \ {k, j} : sockets'[i] = sockets[i]
    BY <1>7, FetchReplaces
  <2> QED BY <1>7, <1>a, <2>1, <2>2 DEF Open
<1>8. ASSUME NEW k \in Sockets, FetchResuming(k),
             ~(sockets[k].asks # None /\ sockets[k].asks.connection = c)
      PROVE  Keeps(c, e)'
  <2>1. sockets[k].server = "none" /\ records'[c] = records[c]
    BY <1>8, FetchResumingDoes DEF FetchResuming, Arriving, TypeOK
  <2> QED BY <1>8, <1>a, <2>1, Fetches DEF Open
<1>9. ASSUME NEW k \in Sockets, FetchNew(k) PROVE Keeps(c, e)'
  <2>1. sockets[k].server = "none" /\ UNCHANGED records
    BY <1>9 DEF FetchNew, Arriving
  <2> QED BY <1>9, <1>a, <2>1, Fetches DEF Open
<1>10. ASSUME NEW k \in Sockets, NotUpgraded(k) \/ AcceptFails(k) \/ ReplacedGoes(k)
       PROVE  Keeps(c, e)'
  <2>1. sockets[k].server \in {"none", "loading", "replaced"} /\ UNCHANGED records
    BY <1>10 DEF NotUpgraded, AcceptFails, ReplacedGoes, Arriving
  <2> QED BY <1>10, <1>a, <2>1, ServerCloses DEF Becomes, Open
<1>11. ASSUME NEW k \in Sockets, ServerLoses(k) PROVE Keeps(c, e)'
  <2>1. /\ \A i \in Sockets \ {k} : sockets'[i] = sockets[i]
        /\ Carries(k, sockets[k].carries.connection)
    BY <1>11, Losses
  <2>2. CASE c # sockets[k].carries.connection
    <3>1. records'[c] = records[c]
      BY <1>11, <2>2, Losses
    <3> QED BY <1>a, <2>1, <2>2, <3>1 DEF Open
  <2>3. CASE c = sockets[k].carries.connection
    <3>1. sockets[k].carries.epoch < e
      BY <2>1, <2>3 DEF Below
    <3>2. records'[c] # None /\ records'[c].epoch = sockets[k].carries.epoch
      BY <1>11, <2>3, Losses
    <3> QED BY <3>1, <3>2 DEF Keeps
  <2> QED BY <2>2, <2>3
<1>12. CASE SessionEnds
  <2>1. \A j \in Sockets : Open(j) => sockets[j].carries.connection \in excused'
    BY <1>12 DEF SessionEnds
  <2> QED BY <1>12, <1>a, <2>1 DEF SessionEnds
<1>13. ASSUME NEW d \in Connections, GracePasses(d), c # d PROVE Keeps(c, e)'
  BY <1>13, <1>a DEF GracePasses, TypeOK, Open
<1>14. ASSUME GracePasses(c), c \in Held PROVE FALSE
  BY <1>14 DEF GracePasses
<1>15. CASE \E k \in Sockets : AlarmReads(k)
  BY <1>15, <1>a, AlarmReadsDoes DEF Open
<1>16. CASE AlarmRevives
  <2>1. PICK d \in Connections :
          /\ saved # None /\ saved.carries.connection = d
          /\ records'[d] # None /\ records'[d].epoch = saved.carries.epoch
          /\ \A x \in Connections \ {d} : records'[x] = records[x]
          /\ UNCHANGED sockets
    BY <1>16, Reviving
  <2>2. CASE c = d
    BY <2>1, <2>2 DEF Keeps, Below
  <2>3. CASE c # d
    BY <1>a, <2>1, <2>3 DEF Open
  <2> QED BY <2>2, <2>3
<1> QED BY <1>1, <1>2, <1>3, <1>4, <1>5, <1>6, <1>7, <1>8, <1>9, <1>10, <1>11, <1>12, <1>13, <1>14,
          <1>15, <1>16, Steps

(* And under no later epoch, unless the tab asked for one.                   *)
LEMMA BelowStep ==
  ASSUME TypeOK, Shapes, SavedFits, Tab, [Next]_vars,
         NEW c, c \in Connections, c \in Held, NEW e, Below(c, e), c \notin excused'
  PROVE  \/ Below(c, e)'
         \/ \E k \in Sockets : /\ FetchReplacing(k) \/ FetchResuming(k)
                               /\ sockets[k].asks # None /\ sockets[k].asks.connection = c
<1>1. CASE Rests
  <2>1. ASSUME NEW j \in Sockets, Carries(j, c)'
        PROVE  Open(j)' /\ sockets'[j].carries.epoch < e
    <3>1. Carries(j, c) /\ sockets'[j].carries.epoch = sockets[j].carries.epoch
      BY <1>1, <2>1, RestsCarries
    <3>2. Open(j) /\ sockets[j].carries.epoch < e /\ sockets[j].carries.connection = c
      BY <3>1 DEF Below, Carries
    <3>3. Holds(sockets[j])'
      BY <2>1 DEF Carries
    <3> QED BY <1>1, <3>1, <3>2, <3>3 DEF Rests, Open
  <2>2. records'[c] # None => records'[c].epoch < e
    BY <1>1 DEF Rests, Below
  <2>3. saved' # None /\ saved'.carries.connection = c => saved'.carries.epoch < e
    BY <1>1 DEF Rests, Below
  <2> QED BY <2>1, <2>2, <2>3 DEF Below
<1>2. ASSUME NEW k \in Sockets, FetchReplacing(k), sockets[k].asks.connection # c
      PROVE  Below(c, e)'
  <2>1. PICK j \in Sockets :
          /\ sockets'[k].carries.connection = sockets[k].asks.connection
          /\ ~Holds(sockets[j])' /\ \A i \in Sockets \ {k, j} : sockets'[i] = sockets[i]
          /\ \/ saved' = saved
             \/ saved' # None /\ saved # None /\ saved'.carries = saved.carries
          /\ UNCHANGED records
    BY <1>2, Replacing
  <2>2. \A i \in Sockets : Carries(i, c)' => Carries(i, c) /\ sockets'[i] = sockets[i]
    BY <1>2, <2>1 DEF Carries
  <2> QED BY <2>1, <2>2 DEF Below, Open
<1>3. ASSUME NEW k \in Sockets, FetchResuming(k) \/ FetchNew(k),
             ~(FetchResuming(k) /\ sockets[k].asks # None /\ sockets[k].asks.connection = c)
      PROVE  Below(c, e)'
  <2>1. PICK d \in Connections :
          /\ sockets'[k].carries.connection = d
          /\ \A x \in Connections \ {d} : records'[x] = records[x]
          /\ \A i \in Sockets \ {k} : sockets'[i] = sockets[i]
          /\ saved' = saved /\ d # c
    BY <1>3, Taking
  <2>2. \A i \in Sockets : Carries(i, c)' => Carries(i, c) /\ sockets'[i] = sockets[i]
    BY <2>1 DEF Carries
  <2> QED BY <2>1, <2>2 DEF Below, Open
<1>4. ASSUME NEW k \in Sockets, ServerLoses(k) PROVE Below(c, e)'
  <2>1. /\ Carries(k, sockets[k].carries.connection) /\ ~Holds(sockets[k])'
        /\ \A i \in Sockets \ {k} : sockets'[i] = sockets[i]
        /\ saved' \in {saved, None}
    BY <1>4, Losses
  <2>2. \A i \in Sockets : Carries(i, c)' => Carries(i, c) /\ sockets'[i] = sockets[i]
    BY <2>1 DEF Carries
  <2>3. records'[c] # None => records'[c].epoch < e
    <3>1. CASE c = sockets[k].carries.connection
      <4>1. sockets[k].carries.epoch < e
        BY <2>1, <3>1 DEF Below
      <4> QED BY <1>4, <3>1, <4>1, Losses
    <3>2. CASE c # sockets[k].carries.connection
      BY <1>4, <3>2, Losses DEF Below
    <3> QED BY <3>1, <3>2
  <2> QED BY <2>1, <2>2, <2>3 DEF Below, Open
<1>5. ASSUME NEW k \in Sockets, AlarmReads(k) PROVE Below(c, e)'
  <2>1. /\ Open(k) /\ saved' = [socket |-> k, carries |-> sockets[k].carries]
        /\ UNCHANGED <<sockets, records>>
    BY <1>5, AlarmReadsDoes
  <2>2. saved'.carries.connection = c => saved'.carries.epoch < e
    BY <2>1 DEF Below, Carries, Open, Holds
  <2> QED BY <2>1, <2>2 DEF Below, Carries, Open
<1>6. CASE AlarmRevives
  <2>1. PICK d \in Connections :
          /\ saved # None /\ saved.carries.connection = d
          /\ saved' = None /\ records'[d].epoch = saved.carries.epoch
          /\ \A x \in Connections \ {d} : records'[x] = records[x]
          /\ UNCHANGED sockets
    BY <1>6, Reviving
  <2> QED BY <2>1 DEF Below, Carries, Open
<1>7. ASSUME NEW k \in Sockets, FetchReplacing(k) PROVE sockets[k].asks # None
  BY <1>7, Replacing
<1> QED BY <1>1, <1>2, <1>3, <1>4, <1>5, <1>6, <1>7, RestsStep

LEMMA ServerStepsOn ==
  ASSUME TypeOK, Shapes, NEW c,
         \/ SessionEnds
         \/ \E k \in Sockets : \/ FetchReplacing(k) \/ FetchResuming(k) \/ FetchNew(k)
                             \/ NotUpgraded(k) \/ AcceptFails(k) \/ ServerLoses(k)
                             \/ ReplacedGoes(k)
  PROVE  Resuming(c) => Resuming(c)'
<1> SUFFICES ASSUME Resuming(c) PROVE Resuming(c)'
  OBVIOUS
<1>1. UNCHANGED client
  BY ServerSteps DEF SessionEnds
<1>2. PICK i \in Sockets : i = client.current
  BY DEF Resuming, TypeOK, Client
<1>3. Live(sockets[i]) /\ sockets[i].server # "none"
  BY <1>2 DEF Resuming
<1>4. /\ sockets'[i].client = sockets[i].client /\ sockets'[i].asks = sockets[i].asks
      /\ sockets'[i].server # "none"
  <2>1. ASSUME NEW k \in Sockets, FetchReplacing(k)
        PROVE  /\ sockets'[i].client = sockets[i].client /\ sockets'[i].asks = sockets[i].asks
               /\ sockets'[i].server # "none"
    <3>1. PICK j \in Sockets :
            /\ \A h \in Sockets \ {k, j} : sockets'[h] = sockets[h]
            /\ sockets'[k].client = sockets[k].client /\ sockets'[k].server = "loading"
            /\ sockets'[k].asks = sockets[k].asks
            /\ Turns(j, sockets[j].client, "replaced", sockets[j].broken, sockets[j].asks,
                     sockets[j].carries, sockets[j].down, <<>>)
      BY <2>1, FetchReplaces
    <3> QED BY <1>3, <3>1 DEF Turns, Live
  <2>2. ASSUME NEW k \in Sockets, FetchResuming(k) \/ FetchNew(k)
        PROVE  /\ sockets'[i].client = sockets[i].client /\ sockets'[i].asks = sockets[i].asks
               /\ sockets'[i].server # "none"
    BY <1>3, <2>2, Fetches
  <2>3. ASSUME NEW k \in Sockets,
               NotUpgraded(k) \/ AcceptFails(k) \/ ServerLoses(k) \/ ReplacedGoes(k)
        PROVE  /\ sockets'[i].client = sockets[i].client /\ sockets'[i].asks = sockets[i].asks
               /\ sockets'[i].server # "none"
    BY <1>3, <2>3, ServerCloses DEF Becomes, Turns, Live
  <2>4. CASE SessionEnds
    BY <1>3, <2>4, SessionEndsDoes DEF Turns, Live
  <2> QED BY <2>1, <2>2, <2>3, <2>4
<1> QED BY <1>1, <1>2, <1>4 DEF Resuming, Live

LEMMA StoredKeptStep ==
  ASSUME Kept, [Next]_vars
  PROVE  StoredKept'
<1> USE DEF Kept
<1> SUFFICES ASSUME NEW c, NEW e, stored' # None, stored'.connection = c, stored'.epoch + 1 = e,
                    c \notin excused'
             PROVE  Resuming(c)' \/ (Keeps(c, e)' /\ Below(c, e)')
  BY DEF StoredKept
<1>1. CASE stored' = stored /\ c \notin excused /\ (Resuming(c) => Resuming(c)')
  <2>1. c \in Connections /\ c \in Held
    BY <1>1 DEF TypeOK, Identity, Held, Named
  <2>2. Resuming(c) \/ (Keeps(c, e) /\ Below(c, e))
    BY <1>1 DEF StoredKept
  <2>3. CASE Resuming(c)
    BY <1>1, <2>3
  <2>4. CASE Keeps(c, e) /\ Below(c, e)
    <3>1. \/ Keeps(c, e)' /\ Below(c, e)'
          \/ \E k \in Sockets : /\ FetchReplacing(k) \/ FetchResuming(k)
                                /\ sockets[k].asks # None /\ sockets[k].asks.connection = c
      BY <2>1, <2>4, KeepsStep, BelowStep
    <3>2. ASSUME NEW k \in Sockets, FetchReplacing(k) \/ FetchResuming(k),
                 sockets[k].asks # None, sockets[k].asks.connection = c
          PROVE  Resuming(c)'
      <4>1. k = client.current /\ ~client.settled /\ Live(sockets[k])
        BY <1>1, <3>2 DEF Asked
      <4>2. UNCHANGED client
        BY <3>2, ServerSteps
      <4>3. /\ sockets'[k].client = sockets[k].client /\ sockets'[k].server = "loading"
            /\ sockets'[k].asks = sockets[k].asks
        BY <3>2, FetchReplaces, Fetches
      <4> QED BY <3>2, <4>1, <4>2, <4>3, NoneIsNone DEF Resuming, Live
    <3> QED BY <3>1, <3>2
  <2> QED BY <2>2, <2>3, <2>4
<1>2. CASE Still
  BY <1>1, <1>2 DEF Still, Quiet, history, check, Resuming, Live
<1>3. CASE GaveUp
  <2>1. stored' = stored /\ excused \subseteq excused'
    BY <1>3 DEF GaveUp, GivesUp
  <2>2. ~Resuming(c)
    BY <1>3, <2>1 DEF GaveUp, GivesUp, Resuming, Unheard
  <2> QED BY <1>1, <2>1, <2>2
<1>4. CASE Mild
  <2>1. stored' = stored /\ excused \subseteq excused' /\ UNCHANGED client
    BY <1>4 DEF Mild
  <2>2. Resuming(c) => Resuming(c)'
    BY <1>4, <2>1 DEF Mild, GoesOn, Resuming, TypeOK, Client
  <2> QED BY <1>1, <2>1, <2>2
<1>5. ASSUME NEW k \in Sockets, Begun(k) PROVE Resuming(c)' \/ (Keeps(c, e)' /\ Below(c, e)')
  BY <1>1, <1>5 DEF Begun, history, check, Resuming, Transport, Live
<1>6. ASSUME NEW k \in Sockets, CloseEvent(k) PROVE Resuming(c)' \/ (Keeps(c, e)' /\ Below(c, e)')
  <2>1. stored' = stored /\ excused' = excused \cup Unheard(k)
    BY <1>6 DEF CloseEvent
  <2>2. Resuming(c) => Resuming(c)'
    <3> SUFFICES ASSUME Resuming(c) PROVE Resuming(c)'
      OBVIOUS
    <3>1. k # client.current
      BY <2>1 DEF Resuming, Unheard
    <3> QED BY <1>6, <3>1, CloseEventDoes DEF Becomes, Resuming, TypeOK, Client
  <2> QED BY <1>1, <2>1, <2>2
<1>7. ASSUME NEW k \in Sockets, Hears(k) PROVE Resuming(c)' \/ (Keeps(c, e)' /\ Below(c, e)')
  <2>1. /\ sockets[k].client = "open" /\ ~sockets[k].broken /\ sockets[k].down # <<>>
        /\ sockets[k].down \in Seq(Message) /\ Listens(sockets[k])
    BY <1>7, HearsDoes DEF TypeOK, Socket, Listens
  <2>2. k = client.current
    BY <2>1 DEF OneLive, Live
  <2>3. Head(sockets[k].down) = sockets[k].down[1]
    BY <2>1, TailHas
  <2>4. CASE HearsReady(k)
    <3>1. /\ stored'.connection = sockets[k].carries.connection
          /\ stored'.epoch = sockets[k].carries.epoch
          /\ excused' = excused \cap UnderWay
      BY <2>4 DEF HearsReady
    <3>2. sockets[k].carries # None /\ sockets[k].carries.connection \in UnderWay
      BY <2>1 DEF Shapes, Shape, UnderWay, Named
    <3>3. sockets[k].carries.connection \notin excused
      BY <3>1, <3>2
    <3>4. sockets[k].server = "open"
      <4>1. sockets[k].server \notin {"none", "loading"}
        BY <2>1 DEF Shapes, Shape
      <4> QED BY <2>1, <3>2, <3>3, <4>1 DEF Gone, TypeOK, Socket, Servers
    <3>5. sockets'[k].server = "open" /\ sockets'[k].carries = sockets[k].carries
      BY <1>7, <3>4, HearsDoes DEF Becomes, Turns
    <3>6. /\ sockets[k].carries.epoch \in Nat /\ c \in Connections
          /\ records[c] # None => records[c].epoch \in Nat
          /\ saved # None => saved.carries.epoch \in Nat
      BY <3>1, <3>2 DEF TypeOK, Socket, Carried, Suspended, Checked
    <3>7. Carries(k, c) /\ e = sockets[k].carries.epoch + 1
      BY <3>1, <3>4 DEF Carries, Holds
    <3>8. /\ \A j \in Sockets : Carries(j, c) => j = k
          /\ records[c] # None => records[c].epoch < e
          /\ saved # None /\ saved.carries.connection = c => saved.carries.epoch < e
      BY <3>1, <3>3, <3>6, <3>7 DEF Newest
    <3>9. /\ \A j \in Sockets \ {k} : sockets'[j] = sockets[j]
          /\ UNCHANGED <<records, saved>>
      BY <1>7, HearsDoes DEF Becomes, Hears, check
    <3>10. Below(c, e)'
      BY <3>1, <3>5, <3>6, <3>7, <3>8, <3>9 DEF Below, Carries, Open
    <3> QED BY <3>1, <3>5, <3>6, <3>7, <3>10 DEF Keeps, Open
  <2>5. CASE HearsEnded(k)
    BY <2>5 DEF HearsEnded
  <2>6. CASE /\ Head(sockets[k].down).what \notin {"ready", "ended"}
             /\ Learns(k, Head(sockets[k].down))
    <3>1. UNCHANGED <<client, stored, excused>>
      BY <2>6 DEF Learns
    <3>2. sockets[k].asks = None
      BY <2>1, <2>3, <2>6 DEF Shapes, Shape
    <3>3. ~Resuming(c)
      BY <2>2, <3>2 DEF Resuming
    <3> QED BY <1>1, <3>1, <3>3
  <2> QED BY <1>7, <2>2, <2>4, <2>5, <2>6, HearsDoes
<1>8. ASSUME NEW k \in Sockets,
             \/ FetchReplacing(k) \/ FetchResuming(k) \/ FetchNew(k)
             \/ NotUpgraded(k) \/ AcceptFails(k) \/ ServerLoses(k) \/ ReplacedGoes(k)
      PROVE  Resuming(c)' \/ (Keeps(c, e)' /\ Below(c, e)')
  <2>1. UNCHANGED <<client, stored>>
    BY <1>8, ServerSteps
  <2>2. c \notin excused
    <3>1. CASE FetchNew(k)
      <4>1. c \in Held /\ FreshConnection \notin Held /\ excused' = excused \ {FreshConnection}
        BY <2>1, <3>1, FetchNewDoes DEF FetchNew, Held, Named
      <4> QED BY <4>1
    <3>2. CASE \/ FetchReplacing(k) \/ FetchResuming(k)
               \/ NotUpgraded(k) \/ AcceptFails(k) \/ ServerLoses(k) \/ ReplacedGoes(k)
      BY <3>2 DEF FetchReplacing, FetchResuming, NotUpgraded, AcceptFails, ServerLoses, ReplacedGoes,
                  history
    <3> QED BY <1>8, <3>1, <3>2
  <2> QED BY <1>1, <1>8, <2>1, <2>2, ServerStepsOn
<1>9. CASE SessionEnds
  BY <1>1, <1>9, ServerStepsOn DEF SessionEnds
<1>10. CASE \E d \in Connections : GracePasses(d)
  BY <1>1, <1>10 DEF GracePasses, Resuming, Live
<1>11. CASE AlarmRevives \/ \E k \in Sockets : AlarmReads(k)
  BY <1>1, <1>11 DEF AlarmRevives, AlarmReads, history, Resuming, Live
<1> QED BY <1>2, <1>3, <1>4, <1>5, <1>6, <1>7, <1>8, <1>9, <1>10, <1>11, Steps

LEMMA AskedKeptStep ==
  ASSUME Kept, [Next]_vars
  PROVE  AskedKept'
<1> USE DEF Kept
<1> SUFFICES ASSUME NEW i \in Sockets, NEW c, NEW e, Arriving(i)', sockets'[i].asks # None,
                    sockets'[i].asks.connection = c, sockets'[i].asks.epoch = e, c \notin excused'
             PROVE  Keeps(c, e)' /\ Below(c, e)'
  BY DEF AskedKept
<1>a. sockets'[i] # Unused
  BY UnusedIs
<1>1. CASE /\ Arriving(i) /\ sockets'[i].asks = sockets[i].asks
           /\ c \in excused => FreshConnection = c /\ \E k \in Sockets : FetchNew(k)
  <2>1. c \in Connections /\ c \in UnderWay
    BY <1>1 DEF TypeOK, Socket, Identity, UnderWay, Named
  <2>2. c \in Held /\ c \notin excused
    BY <1>1, <2>1, FetchNewDoes DEF Held
  <2>3. Keeps(c, e) /\ Below(c, e)
    BY <1>1, <2>2 DEF AskedKept
  <2>4. i = client.current
    BY <1>1, <2>2 DEF Asked
  <2>5. ASSUME NEW k \in Sockets, FetchReplacing(k) \/ FetchResuming(k),
               sockets[k].asks # None, sockets[k].asks.connection = c
        PROVE  FALSE
    <3>1. k = i
      BY <2>2, <2>4, <2>5 DEF Asked
    <3>2. sockets'[k].server = "loading"
      BY <2>5, FetchReplaces, Fetches
    <3> QED BY <3>1, <3>2 DEF Arriving
  <2> QED BY <2>1, <2>2, <2>3, <2>5, KeepsStep, BelowStep
<1>2. CASE Still
  BY <1>1, <1>2 DEF Still, Quiet, history, check, Arriving
<1>3. CASE GaveUp
  BY <1>1, <1>3, <1>a DEF GaveUp, GivesUp, Becomes, Turns, Arriving, Live
<1>4. CASE Mild
  <2>1. excused \subseteq excused'
    BY <1>4 DEF Mild
  <2> QED BY <1>1, <1>4, <2>1 DEF Mild, GoesOn, Arriving
<1>5. ASSUME NEW k \in Sockets, Begun(k) PROVE Keeps(c, e)' /\ Below(c, e)'
  <2>1. excused' = excused /\ records' = records /\ saved' = saved
    BY <1>5 DEF Begun, history, check
  <2>2. CASE i # k
    BY <1>1, <1>5, <2>1, <2>2 DEF Begun, Begins, Becomes, Arriving
  <2>3. CASE i = k
    <3>1. sockets'[i].asks = NextEpoch(stored)
      BY <1>5, <1>a, <2>3 DEF Begun, Begins, Becomes, Turns
    <3>2. stored # None /\ stored.connection = c /\ stored.epoch + 1 = e
      BY <3>1, NextEpochIs DEF TypeOK
    <3>3. ~Resuming(c)
      BY <1>5 DEF Begun, Resuming, Transport, Live
    <3>4. Keeps(c, e) /\ Below(c, e)
      BY <2>1, <3>2, <3>3 DEF StoredKept
    <3>5. \A j \in Sockets : Holds(sockets[j]) \/ Holds(sockets[j])' => sockets'[j] = sockets[j]
      BY <1>5, UnusedIs DEF Begun, Begins, Becomes, Turns, Holds
    <3>6. Keeps(c, e)'
      BY <2>1, <3>4, <3>5, KeepsOn DEF Open, Holds
    <3>7. Below(c, e)'
      BY <2>1, <3>4, <3>5 DEF Below, Carries, Open
    <3> QED BY <3>6, <3>7
  <2> QED BY <2>2, <2>3
<1>6. ASSUME NEW k \in Sockets, CloseEvent(k) PROVE Keeps(c, e)' /\ Below(c, e)'
  <2>1. excused \subseteq excused' /\ sockets[k].client # "none"
    BY <1>6 DEF CloseEvent
  <2> QED BY <1>1, <1>6, <1>a, <2>1, CloseEventDoes DEF Becomes, Turns, Arriving
<1>7. ASSUME NEW k \in Sockets, Hears(k) PROVE Keeps(c, e)' /\ Below(c, e)'
  <2>1. i # k /\ sockets'[i] = sockets[i] /\ Live(sockets[k])
    BY <1>7, <1>a, HearsDoes DEF Becomes, Turns, Live
  <2>2. excused' \in {excused, excused \cap UnderWay}
    BY <1>7, HearsDoes DEF Same, HearsReady, HearsEnded, Learns
  <2>3. c \in UnderWay
    BY <2>1 DEF UnderWay, Named
  <2> QED BY <1>1, <2>1, <2>2, <2>3 DEF Arriving
<1>8. ASSUME NEW k \in Sockets, FetchReplacing(k) PROVE Keeps(c, e)' /\ Below(c, e)'
  <2>1. PICK j \in Sockets :
          /\ Open(j) /\ \A h \in Sockets \ {k, j} : sockets'[h] = sockets[h]
          /\ sockets'[k].server = "loading"
          /\ Turns(j, sockets[j].client, "replaced", sockets[j].broken, sockets[j].asks,
                   sockets[j].carries, sockets[j].down, <<>>)
    BY <1>8, FetchReplaces
  <2>2. i # k /\ i # j
    BY <1>a, <2>1 DEF Turns, Arriving
  <2> QED BY <1>1, <1>8, <2>1, <2>2 DEF FetchReplacing, history, check, Arriving
<1>9. ASSUME NEW k \in Sockets, FetchResuming(k) \/ FetchNew(k) PROVE Keeps(c, e)' /\ Below(c, e)'
  <2>1. i # k /\ sockets'[i] = sockets[i]
    BY <1>9, Fetches DEF Arriving
  <2> QED BY <1>1, <1>9, <2>1 DEF FetchResuming, FetchNew, history, check, Arriving
<1>10. ASSUME NEW k \in Sockets, NotUpgraded(k) \/ AcceptFails(k) \/ ServerLoses(k) \/ ReplacedGoes(k)
       PROVE  Keeps(c, e)' /\ Below(c, e)'
  <2>1. excused \subseteq excused'
    BY <1>10 DEF NotUpgraded, AcceptFails, ServerLoses, ReplacedGoes, history
  <2>2. i # k /\ sockets'[i] = sockets[i]
    BY <1>10, <1>a, ServerCloses DEF Becomes, Turns, Arriving
  <2> QED BY <1>1, <2>1, <2>2 DEF Arriving
<1>11. CASE SessionEnds
  <2>1. excused \subseteq excused'
    BY <1>11 DEF SessionEnds
  <2>2. sockets'[i] = sockets[i]
    BY <1>11, <1>a, SessionEndsDoes DEF Turns, Arriving
  <2> QED BY <1>1, <2>1, <2>2 DEF Arriving
<1>12. CASE \E d \in Connections : GracePasses(d)
  BY <1>1, <1>12 DEF GracePasses, Arriving
<1>13. CASE AlarmRevives \/ \E k \in Sockets : AlarmReads(k)
  BY <1>1, <1>13 DEF AlarmRevives, AlarmReads, history, Arriving
<1> QED BY <1>2, <1>3, <1>4, <1>5, <1>6, <1>7, <1>8, <1>9, <1>10, <1>11, <1>12, <1>13, Steps

LEMMA ResumesStep ==
  ASSUME Kept, Resumes, [Next]_vars
  PROVE  Resumes'
<1> USE DEF Kept
<1>1. ASSUME NEW k \in Sockets, FetchNew(k) PROVE Resumes'
  <2>1. /\ Arriving(k) /\ Replaceable(k) = {} /\ ~Recorded(k)
        /\ unexplained' = Named(sockets[k].asks) \ excused
    BY <1>1 DEF FetchNew
  <2>2. ASSUME sockets[k].asks # None, sockets[k].asks.connection \notin excused
        PROVE  FALSE
    <3>1. Keeps(sockets[k].asks.connection, sockets[k].asks.epoch)
      BY <2>1, <2>2 DEF AskedKept
    <3>2. CASE \E j \in Sockets : /\ Open(j) /\ sockets[j].carries.connection = sockets[k].asks.connection
                                  /\ sockets[j].carries.epoch < sockets[k].asks.epoch
      <4>1. PICK j \in Sockets : /\ Open(j) /\ sockets[j].carries.connection = sockets[k].asks.connection
                                 /\ sockets[j].carries.epoch < sockets[k].asks.epoch
        BY <3>2
      <4>2. sockets[j].carries.epoch \in Nat /\ sockets[k].asks.epoch \in Nat
        BY <2>2, <4>1 DEF Open, Shapes, Shape, Holds, TypeOK, Socket, Carried, Identity
      <4> QED BY <2>1, <2>2, <4>1, <4>2 DEF Replaceable
    <3>3. CASE /\ records[sockets[k].asks.connection] # None
               /\ records[sockets[k].asks.connection].epoch < sockets[k].asks.epoch
      <4>1. /\ records[sockets[k].asks.connection].epoch \in Nat /\ sockets[k].asks.epoch \in Nat
        BY <2>2, <3>3 DEF TypeOK, Socket, Identity, Suspended
      <4> QED BY <2>1, <2>2, <3>3, <4>1 DEF Recorded
    <3> QED BY <3>1, <3>2, <3>3 DEF Keeps
  <2> QED BY <2>1, <2>2 DEF Resumes, Named
<1>2. CASE UNCHANGED unexplained
  BY <1>2 DEF Resumes
<1>3. ASSUME NEW k \in Sockets,
             CloseEvent(k) \/ FetchReplacing(k) \/ FetchResuming(k) \/ NotUpgraded(k)
             \/ AcceptFails(k) \/ ServerLoses(k) \/ ReplacedGoes(k) \/ AlarmReads(k)
      PROVE  UNCHANGED unexplained
  BY <1>3 DEF CloseEvent, FetchReplacing, FetchResuming, NotUpgraded, AcceptFails, ServerLoses,
              ReplacedGoes, AlarmReads, history
<1>4. ASSUME NEW k \in Sockets, Begun(k) \/ Hears(k)
      PROVE  UNCHANGED unexplained
  BY <1>4, HearsDoes DEF Begun, history, check
<1>5. CASE Still \/ GaveUp \/ Mild \/ SessionEnds \/ AlarmRevives \/ \E c \in Connections : GracePasses(c)
  BY <1>5, <1>2 DEF Still, Quiet, history, GaveUp, Mild, SessionEnds, AlarmRevives, GracePasses
<1> QED BY <1>1, <1>2, <1>3, <1>4, <1>5, Steps

LEMMA KeptInit == Init => Kept /\ Resumes
<1> SUFFICES ASSUME Init PROVE Kept /\ Resumes
  OBVIOUS
<1>1. \A k \in Sockets : sockets[k] = Unused
  BY DEF Init
<1>2. Shapes
  BY <1>1, UnusedShape DEF Shapes
<1> QED BY <1>1, <1>2, TypeInit, UnusedIs
        DEF Init, Kept, Resumes, Tab, OneLive, Asked, OneHolder, Newest, SavedFits, Gone, StoredKept,
            AskedKept, Carries, Live, Holds, Listens, Arriving

LEMMA KeptStep == Kept /\ Resumes /\ [Next]_vars => (Kept /\ Resumes)'
BY TypeStep, ShapesStep, TabStep, OneLiveStep, AskedStep, OneHolderStep, NewestStep, SavedFitsStep, GoneStep, StoredKeptStep,
   AskedKeptStep, ResumesStep DEF Kept

LEMMA KeptHolds == Spec => [](Kept /\ Resumes)
BY KeptInit, KeptStep, PTL DEF Spec

(* The tab, the transports and the records have the type of the model, and what *)
(* is known of a transport only from its state (its queues are empty before it  *)
(* is accepted, server.ready comes first, what comes after a close is dropped). *)
THEOREM TypeCorrect == Spec => [](TypeOK /\ Shapes)
<1>1. Kept => TypeOK /\ Shapes
  BY DEF Kept
<1> QED BY <1>1, KeptHolds, PTL

(* One connection is held by one transport at most, or by a record, never both: *)
(* resumeConnection closes the predecessor, or deletes the record, in the step  *)
(* that takes the connection over, and webSocketClose makes the record in the   *)
(* step that gives it up; unless alarm wrote back what it had read of one of   *)
(* its transports, and another had its place or its call had changed.         *)
THEOREM OneHolderHolds == Spec => []OneHolder
<1>1. Kept => OneHolder
  BY DEF Kept
<1> QED BY <1>1, KeptHolds, PTL

(* A connection is resumed whenever the tab asks for it under the next epoch    *)
(* and has no excuse (connect, resumeConnection).                            *)
THEOREM ResumesHolds == Spec => []Resumes
BY KeptHolds, PTL
-----------------------------------------------------------------------------
(***************************************************************************)
(* The theorem about the call of RealtimeClient: tab and server agree on it  *)
(* whenever nothing is under way.  The invariant Understood says what they   *)
(* agree on in between; it rests on Kept.                                   *)
(***************************************************************************)

Current(k) == k = client.current /\ Live(sockets[k])
Hearing(k) == k = client.current /\ Listens(sockets[k])
Known(k) == client.identity # None /\ client.identity.connection = sockets[k].carries.connection
IdsOf(x) == Ids(x.up) \cup Ids(x.down)
Strays(k) == sockets[k].carries.connection \in astray

(* Nothing is left unsaid on a transport that the server closed.            *)
Unheeded == \A k \in Sockets :
  Listens(sockets[k]) /\ sockets[k].server \in {"closed", "replaced"} => sockets[k].down = <<>>

(* No request is ahead of the tab: what asks for the connection of the      *)
(* current transport never replaces it.                                     *)
Asks(j, c) == sockets[j].asks # None /\ sockets[j].asks.connection = c
AsksNext == \A k \in Sockets : Current(k) /\ sockets[k].asks # None =>
  client.identity # None /\ sockets[k].asks = NextEpoch(client.identity)
NoneAhead == stored # None => \A j \in Sockets :
  Asks(j, stored.connection) => sockets[j].asks.epoch <= stored.epoch + 1
NoneReplaces == \A k, j \in Sockets :
  Current(k) /\ Holds(sockets[k]) /\ Asks(j, sockets[k].carries.connection) =>
    sockets[j].asks.epoch <= sockets[k].carries.epoch

(* Once server.ready is heard the tab knows the connection and its epoch.   *)
HeardOn(k) ==
  Hearing(k) /\ sockets[k].server \in {"open", "closing", "cut"} /\ "ready" \notin Kinds(sockets[k].down) =>
    client.identity = [connection |-> sockets[k].carries.connection,
                       epoch |-> sockets[k].carries.epoch]
Heard == \A k \in Sockets : HeardOn(k)

(* While the tab is sure of its call, whatever may change it is waited for. *)
Waits == told # "unknown" => \A j \in Sockets :
  \/ j = client.current
  \/ Holds(sockets[j]) /\ Known(j) /\ ~Strays(j)
  => IdsOf(sockets[j]) \subseteq pending

(* A page that is not mounted and may be resumed is not sure.               *)
Away == ~client.active => told = "unknown" \/ stored = None

(* The last message about the call says what it is, unless the alarm put back *)
(* what it had been.                                                        *)
Effective(m) == m.what \in {"joined", "left", "replaced", "evicted"}
Silent(s) == \A n \in DOMAIN s : ~Effective(s[n])
Speaks(k) == Open(k) \/ (sockets[k].server = "cut" /\ sockets[k].carries.connection \notin taken)
LastWordOn(k) == Speaks(k) /\ ~Strays(k) => \A n \in DOMAIN sockets[k].down :
  Effective(sockets[k].down[n])
    /\ (\A i \in DOMAIN sockets[k].down : i > n => ~Effective(sockets[k].down[i]))
  => (sockets[k].carries.call <=> sockets[k].down[n].what = "joined")
LastWord == \A k \in Sockets : LastWordOn(k)

(* call.replaced and call.member.left are on their way only to a connection    *)
(* whose call was taken or ended.                                           *)
ToldOn(k) == Holds(sockets[k]) /\ {"replaced", "evicted"} \cap Kinds(sockets[k].down) # {} =>
  sockets[k].carries.connection \in taken
Told == \A k \in Sockets : ToldOn(k)

(* Only the end of the session closes the current transport.                *)
EndingOn(k) == Current(k) /\ sockets[k].server = "closing" => revoked
Ending == \A k \in Sockets : EndingOn(k)

(* On the transport itself: every command that is waited for is under way    *)
(* and was not answered with effect.                                        *)
Sure == /\ told # "unknown"
        /\ client.identity # None /\ client.identity.connection \notin taken \cup astray
SpeakingOn(k) ==
  /\ Sure /\ Hearing(k) /\ Speaks(k) /\ Known(k)
  /\ pending \subseteq IdsOf(sockets[k]) /\ Silent(sockets[k].down)
  => (sockets[k].carries.call <=> told = "in")
Speaking == \A k \in Sockets : SpeakingOn(k)

(* A connection the tab has not heard of yet begins without a call.         *)
FreshOn(k) ==
  /\ Hearing(k) /\ (sockets[k].server = "loading" \/ Speaks(k))
  /\ ~Known(k) /\ ~Strays(k) /\ Silent(sockets[k].down)
  => ~sockets[k].carries.call
Fresh == \A k \in Sockets : FreshOn(k)

(* With nothing to wait for, the server has the connection the tab knows in  *)
(* the call or out of it as the tab was told, wherever it keeps it.  Once the  *)
(* session has ended that is promised of what it is yet to accept alone.     *)
Counts(x) == Holds(x) /\ (revoked => x.server # "closing")
Agreed == Sure /\ pending = {} =>
  /\ ~revoked /\ records[client.identity.connection] # None =>
       (records[client.identity.connection].call <=> told = "in")
  /\ \A j \in Sockets : Counts(sockets[j]) /\ Known(j)
       => (sockets[j].carries.call <=> told = "in")

Understood ==
  /\ Unheeded /\ AsksNext /\ NoneAhead /\ NoneReplaces /\ Heard /\ Waits /\ Away
  /\ LastWord /\ Told /\ Ending /\ Speaking /\ Fresh /\ Agreed
-----------------------------------------------------------------------------
LEMMA IdsEmpty == Ids(<<>>) = {} /\ Kinds(<<>>) = {}
BY DEF Ids, Kinds

LEMMA UnusedIsIdle ==
  /\ ~Live(Unused) /\ ~Listens(Unused) /\ ~Holds(Unused) /\ IdsOf(Unused) = {}
BY UnusedIs, IdsEmpty DEF Live, Listens, Holds, IdsOf

(* Steps in which nothing begins and nothing is said: transports end, break,    *)
(* open or are cut, and a record is kept, dropped or brought back.            *)
PutBack(i) ==
  /\ sockets'[i].carries.connection = sockets[i].carries.connection
  /\ sockets'[i].carries.epoch = sockets[i].carries.epoch
  /\ Strays(i)'
Wanes(i) ==
  \/ sockets'[i] = Unused
  \/ /\ Live(sockets'[i]) => Live(sockets[i])
     /\ Listens(sockets'[i]) => Listens(sockets[i]) /\ sockets'[i].down = sockets[i].down
     /\ \/ /\ sockets'[i].server = sockets[i].server \/ (Open(i) /\ sockets'[i].server = "cut")
           /\ sockets'[i].carries = sockets[i].carries \/ PutBack(i)
        \/ /\ sockets'[i].server \in {"closed", "replaced"}
           /\ Listens(sockets'[i]) => sockets'[i].down = <<>>
     /\ sockets'[i].asks = sockets[i].asks
     /\ sockets'[i].down \in {sockets[i].down, <<>>}
     /\ sockets'[i].up \in {sockets[i].up, <<>>}
RecordsStay == \A c \in Connections :
  \/ records'[c] \in {records[c], None} \/ c \in taken' \cup astray'
  \/ \E k \in Sockets : /\ Holds(sockets[k]) /\ sockets[k].carries.connection = c
                        /\ records'[c].call = sockets[k].carries.call
Waning ==
  /\ \A i \in Sockets : Wanes(i)
  /\ RecordsStay /\ UNCHANGED revoked /\ taken \subseteq taken' /\ astray \subseteq astray'
  /\ \/ /\ client'.active = client.active /\ client'.current = client.current
        /\ client'.identity = client.identity /\ stored' \in {stored, None}
        /\ told' = "unknown" \/ UNCHANGED <<told, pending>>
     \/ /\ ~client'.active /\ client'.current = None /\ client'.identity = None
        /\ told' = "unknown" /\ stored' \in {stored, None}

LEMMA SameWanes ==
  ASSUME NEW i \in Sockets, sockets'[i] = sockets[i]
  PROVE  Wanes(i)
BY DEF Wanes

LEMMA GivesUpWanes ==
  ASSUME NEW k, GivesUp(k)
  PROVE  \A i \in Sockets : Wanes(i)
<1>1. CASE sockets' = sockets
  BY <1>1, SameWanes
<1>2. CASE sockets' # sockets
  <2>1. Becomes(k, "closing", sockets[k].server, sockets[k].broken, sockets[k].asks,
                sockets[k].carries, <<>>, sockets[k].up)
    BY <1>2 DEF GivesUp
  <2>2. k \in Sockets => Wanes(k)
    BY <2>1 DEF Becomes, Turns, Wanes, Live, Listens
  <2> QED BY <2>1, <2>2, SameWanes DEF Becomes
<1> QED BY <1>1, <1>2

LEMMA TabWanes ==
  ASSUME TypeOK, Tab,
         \/ UNCHANGED vars \/ (TimerFires /\ UNCHANGED sockets)
         \/ IdentityAges \/ GoesOffline \/ ComesOnline \/ ReadyTimesOut \/ PageHides
         \/ PageReloads \/ Unmounts \/ \E id \in Commands : CommandTimesOut(id)
         \/ AlarmLeaves \/ \E k \in Sockets : AlarmReads(k)
  PROVE  Waning
<1>1. CASE \/ UNCHANGED vars \/ (TimerFires /\ UNCHANGED sockets)
           \/ AlarmLeaves \/ \E k \in Sockets : AlarmReads(k)
  <2>1. /\ UNCHANGED <<sockets, records, taken, revoked, stored, told, pending, astray>>
        /\ client'.active = client.active /\ client'.current = client.current
        /\ client'.identity = client.identity
    BY <1>1, TimerFiresDoes, UnusedIs
       DEF vars, history, check, Begins, Becomes, Turns, AlarmLeaves, AlarmReads
  <2> QED BY <2>1, SameWanes DEF Waning, RecordsStay
<1>2. CASE IdentityAges \/ GoesOffline \/ ComesOnline \/ \E id \in Commands : CommandTimesOut(id)
  <2>1. Quiet
    BY <1>2, QuietDoes
  <2>2. /\ UNCHANGED revoked /\ stored' \in {stored, None}
        /\ told' = "unknown" \/ UNCHANGED <<told, pending>>
    BY <1>2 DEF IdentityAges, GoesOffline, ComesOnline, CommandTimesOut
  <2> QED BY <2>1, <2>2, SameWanes DEF Waning, RecordsStay, Quiet, history, check
<1>3. CASE ReadyTimesOut \/ PageHides
  <2>1. /\ GivesUp(client.current) /\ client'.active = client.active
        /\ client'.identity = client.identity /\ client'.current = client.current
    BY <1>3, ReadyTimesOutDoes, PageHidesDoes
  <2>2. UNCHANGED <<records, taken, revoked, stored, told, pending, astray>>
    BY <1>3 DEF ReadyTimesOut, PageHides, check
  <2> QED BY <2>1, <2>2, GivesUpWanes DEF Waning, RecordsStay
<1>4. CASE PageReloads \/ Unmounts
  <2>1. /\ GivesUp(client.current) /\ ~client'.active
        /\ client'.identity = None /\ client'.current = None
    BY <1>4, PageReloadsDoes, UnmountsDoes
  <2>2. /\ UNCHANGED <<records, taken, revoked, astray>> /\ told' = "unknown"
        /\ stored' \in {stored, None}
    BY <1>4 DEF PageReloads, Unmounts, check
  <2> QED BY <2>1, <2>2, GivesUpWanes DEF Waning, RecordsStay
<1> QED BY <1>1, <1>2, <1>3, <1>4

LEMMA OneWanes ==
  ASSUME NEW k \in Sockets, Wanes(k), \A i \in Sockets \ {k} : sockets'[i] = sockets[i],
         UNCHANGED <<taken, revoked, told, pending, stored>>, astray \subseteq astray',
         RecordsStay, client'.active = client.active, client'.current = client.current,
         client'.identity = client.identity
  PROVE  Waning
BY SameWanes DEF Waning

LEMMA TransportWanes ==
  ASSUME TypeOK, Shapes, SavedFits, NEW k \in Sockets,
         \/ CloseEvent(k) \/ Opens(k) \/ NetworkBreaks(k) \/ NotUpgraded(k) \/ AcceptFails(k)
         \/ Cuts(k) \/ ReplacedGoes(k) \/ AlarmWrites(k)
  PROVE  Waning
<1>1. UNCHANGED <<taken, revoked, told, pending, stored, records>> /\ astray \subseteq astray'
  BY AlarmWritesDoes DEF CloseEvent, Opens, NetworkBreaks, NotUpgraded, AcceptFails, Cuts,
                         ReplacedGoes, history, check
<1>2. /\ client'.active = client.active /\ client'.current = client.current
      /\ client'.identity = client.identity
  BY CloseEventDoes DEF Opens, NetworkBreaks, NotUpgraded, AcceptFails, Cuts, ReplacedGoes,
                        AlarmWrites
<1>3. RecordsStay
  BY <1>1 DEF RecordsStay
<1>4. CASE CloseEvent(k)
  <2>1. Becomes(k, "gone", sockets[k].server, sockets[k].broken, sockets[k].asks,
                sockets[k].carries, sockets[k].down, sockets[k].up)
    BY <1>4, CloseEventDoes
  <2>2. Wanes(k)
    BY <2>1 DEF Becomes, Turns, Wanes, Live, Listens
  <2> QED BY <1>1, <1>2, <1>3, <2>1, <2>2, OneWanes DEF Becomes
<1>5. CASE Opens(k)
  <2>1. /\ Becomes(k, "open", sockets[k].server, sockets[k].broken, sockets[k].asks,
                   sockets[k].carries, sockets[k].down, sockets[k].up)
        /\ sockets[k].client = "connecting"
    BY <1>5, OpensDoes DEF Opens
  <2>2. Wanes(k)
    BY <2>1 DEF Becomes, Turns, Wanes, Live, Listens
  <2> QED BY <1>1, <1>2, <1>3, <2>1, <2>2, OneWanes DEF Becomes
<1>6. CASE NetworkBreaks(k)
  <2>1. /\ Becomes(k, sockets[k].client, sockets[k].server, TRUE, sockets[k].asks,
                   sockets[k].carries, <<>>, <<>>)
        /\ sockets[k].client \in {"connecting", "open"}
    BY <1>6, NetworkBreaksDoes DEF NetworkBreaks
  <2>2. Wanes(k)
    BY <2>1 DEF Becomes, Turns, Wanes, Live, Listens
  <2> QED BY <1>1, <1>2, <1>3, <2>1, <2>2, OneWanes DEF Becomes
<1>7. CASE NotUpgraded(k) \/ AcceptFails(k)
  <2>1. /\ Becomes(k, sockets[k].client, "closed", sockets[k].broken, sockets[k].asks,
                   sockets[k].carries, sockets[k].down, sockets[k].up)
        /\ sockets[k].down = <<>>
    BY <1>7, NotUpgradedDoes, AcceptFailsDoes
       DEF NotUpgraded, AcceptFails, Arriving, Shapes, Shape
  <2>2. Wanes(k)
    BY <2>1 DEF Becomes, Turns, Wanes, Live, Listens
  <2> QED BY <1>1, <1>2, <1>3, <2>1, <2>2, OneWanes DEF Becomes
<1>8. CASE Cuts(k)
  <2>1. Becomes(k, sockets[k].client, "cut", sockets[k].broken, sockets[k].asks,
                sockets[k].carries, sockets[k].down, sockets[k].up) /\ Open(k)
    BY <1>8, CutsDoes
  <2>2. Wanes(k)
    BY <2>1 DEF Becomes, Turns, Wanes, Live, Listens
  <2> QED BY <1>1, <1>2, <1>3, <2>1, <2>2, OneWanes DEF Becomes
<1>9. CASE ReplacedGoes(k)
  <2>1. Becomes(k, sockets[k].client, "closed", sockets[k].broken, sockets[k].asks, None,
                sockets[k].down, sockets[k].up)
    BY <1>9, ReplacedGoesDoes
  <2>2. sockets[k].broken \/ sockets[k].client \in {"closing", "gone"}
    BY <1>9 DEF ReplacedGoes
  <2>3. Wanes(k)
    BY <2>1, <2>2 DEF Becomes, Turns, Wanes, Live, Listens
  <2> QED BY <1>1, <1>2, <1>3, <2>1, <2>3, OneWanes DEF Becomes
<1>10. CASE AlarmWrites(k)
  <2>1. /\ saved # None /\ saved.socket = k
        /\ Becomes(k, sockets[k].client, sockets[k].server, sockets[k].broken, sockets[k].asks,
                   saved.carries, sockets[k].down, sockets[k].up)
        /\ astray' = IF saved.carries = sockets[k].carries THEN astray
                     ELSE astray \cup {saved.carries.connection}
    BY <1>10, AlarmWritesDoes
  <2>2. /\ sockets[k].carries.connection = saved.carries.connection
        /\ sockets[k].carries.epoch = saved.carries.epoch
    BY <2>1, NoneIsNone DEF SavedFits
  <2>3. sockets'[k] = Unused \/ sockets'[k].carries = sockets[k].carries \/ PutBack(k)
    BY <2>1, <2>2 DEF Becomes, Turns, PutBack, Strays
  <2>4. Wanes(k)
    BY <2>1, <2>3 DEF Becomes, Turns, Wanes, Live, Listens
  <2> QED BY <1>1, <1>2, <1>3, <2>1, <2>4, OneWanes DEF Becomes
<1> QED BY <1>4, <1>5, <1>6, <1>7, <1>8, <1>9, <1>10

LEMMA ServerWanes ==
  ASSUME TypeOK, Shapes,
         \/ \E k \in Sockets : ServerLoses(k)
         \/ \E c \in Connections : GracePasses(c) \/ EvictsSuspended(c)
         \/ AlarmRevives
  PROVE  Waning
<1>1. ASSUME NEW k \in Sockets, ServerLoses(k) PROVE Waning
  <2>1. UNCHANGED <<client, taken, revoked, told, pending, stored, astray>>
    BY <1>1 DEF ServerLoses
  <2>2. /\ Becomes(k, sockets[k].client, "closed", sockets[k].broken, sockets[k].asks, None,
                   sockets[k].down, sockets[k].up)
        /\ sockets[k].server \in {"open", "closing", "cut"}
    BY <1>1, ServerLosesDoes
  <2>3. sockets[k].broken \/ sockets[k].client \in {"closing", "gone"}
    BY <1>1 DEF ServerLoses
  <2>4. Wanes(k)
    BY <2>2, <2>3 DEF Becomes, Turns, Wanes, Live, Listens
  <2>5. RecordsStay
    <3>1. CASE records' = records
      BY <3>1 DEF RecordsStay
    <3>2. CASE records' # records
      <4>1. PICK r : r = [epoch |-> sockets[k].carries.epoch, call |-> sockets[k].carries.call]
        OBVIOUS
      <4>2. records' = [records EXCEPT ![sockets[k].carries.connection] = r]
        BY <1>1, <3>2, <4>1, ServerLosesDoes
      <4>3. Holds(sockets[k]) /\ r.call = sockets[k].carries.call
        BY <2>2, <4>1 DEF Holds
      <4> QED BY <4>2, <4>3 DEF RecordsStay, TypeOK
    <3> QED BY <3>1, <3>2
  <2> QED BY <2>1, <2>2, <2>4, <2>5, OneWanes DEF Becomes
<1>2. ASSUME NEW c \in Connections, GracePasses(c) PROVE Waning
  <2>1. UNCHANGED <<client, sockets, taken, revoked, told, pending, stored, astray>>
    BY <1>2 DEF GracePasses, check
  <2>2. RecordsStay
    BY <1>2 DEF GracePasses, RecordsStay, TypeOK
  <2> QED BY <2>1, <2>2, SameWanes DEF Waning
<1>3. ASSUME NEW c \in Connections, EvictsSuspended(c) PROVE Waning
  <2>1. /\ UNCHANGED <<client, sockets, revoked, told, pending, stored, astray>>
        /\ taken' = taken \cup {c} /\ \A d \in Connections \ {c} : records'[d] = records[d]
    BY <1>3, EvictsSuspendedDoes DEF EvictsSuspended
  <2>2. RecordsStay
    BY <2>1 DEF RecordsStay
  <2> QED BY <2>1, <2>2, SameWanes DEF Waning
<1>4. CASE AlarmRevives
  <2>1. /\ UNCHANGED <<client, sockets, taken, revoked, told, pending, stored>>
        /\ \E r : records' = [records EXCEPT ![saved.carries.connection] = r]
        /\ astray' = astray \cup {saved.carries.connection}
    BY <1>4, AlarmRevivesDoes DEF history
  <2>2. RecordsStay
    BY <2>1 DEF RecordsStay, TypeOK
  <2> QED BY <2>1, <2>2, SameWanes DEF Waning
<1> QED BY <1>1, <1>2, <1>3, <1>4

HeldOn(i) ==
  /\ Holds(sockets[i])
  /\ sockets'[i].carries.connection = sockets[i].carries.connection
  /\ sockets'[i].carries.epoch = sockets[i].carries.epoch
  /\ sockets'[i].carries = sockets[i].carries \/ Strays(i)'
  /\ sockets'[i].server = sockets[i].server \/ (Open(i) /\ sockets'[i].server = "cut")

LEMMA WanesHolds ==
  ASSUME Shapes, NEW i \in Sockets, Wanes(i)
  PROVE  /\ Holds(sockets'[i]) => HeldOn(i)
         /\ Live(sockets'[i]) => Live(sockets[i])
         /\ Listens(sockets'[i]) => Listens(sockets[i]) /\ sockets'[i].down = sockets[i].down
         /\ sockets'[i].asks \in {sockets[i].asks, None}
         /\ sockets'[i].down \in {sockets[i].down, <<>>}
         /\ IdsOf(sockets'[i]) \subseteq IdsOf(sockets[i])
<1>1. CASE sockets'[i] = Unused
  BY <1>1, UnusedIs, UnusedIsIdle
<1>2. CASE sockets'[i] # Unused
  <2>1. IdsOf(sockets'[i]) \subseteq IdsOf(sockets[i])
    BY <1>2, IdsEmpty DEF Wanes, IdsOf
  <2>2. Holds(sockets'[i]) => HeldOn(i)
    BY <1>2 DEF Wanes, Holds, HeldOn, PutBack, Open
  <2> QED BY <1>2, <2>1, <2>2 DEF Wanes
<1> QED BY <1>1, <1>2

LEMMA WaningHolds ==
  ASSUME Shapes, Waning, NEW i \in Sockets
  PROVE  /\ Holds(sockets'[i]) => HeldOn(i)
         /\ Live(sockets'[i]) => Live(sockets[i])
         /\ Listens(sockets'[i]) => Listens(sockets[i]) /\ sockets'[i].down = sockets[i].down
         /\ sockets'[i].asks \in {sockets[i].asks, None}
         /\ sockets'[i].down \in {sockets[i].down, <<>>}
         /\ IdsOf(sockets'[i]) \subseteq IdsOf(sockets[i])
BY WanesHolds DEF Waning

LEMMA WaningTab ==
  ASSUME Shapes, Unheeded, AsksNext, NoneAhead, NoneReplaces, Away, Ending, Waning, NoneIsNone
  PROVE  Unheeded' /\ AsksNext' /\ NoneAhead' /\ NoneReplaces' /\ Away' /\ Ending'
<1>1. Unheeded'
  <2> SUFFICES ASSUME NEW k \in Sockets, Listens(sockets'[k]),
                      sockets'[k].server \in {"closed", "replaced"}
               PROVE  sockets'[k].down = <<>>
    BY DEF Unheeded
  <2> QED BY WaningHolds, UnusedIs DEF Waning, Wanes, Unheeded
<1>2. \A k \in Sockets : Current(k)' => /\ Current(k) /\ client'.identity = client.identity
                                        /\ client'.active = client.active
  BY WaningHolds, NoneIsNone DEF Waning, Current
<1>3. AsksNext'
  BY <1>2, WaningHolds DEF AsksNext
<1>4. NoneAhead'
  <2>1. stored' \in {stored, None}
    BY DEF Waning
  <2> QED BY <2>1, WaningHolds DEF NoneAhead, Asks
<1>5. NoneReplaces'
  <2> SUFFICES ASSUME NEW k \in Sockets, NEW j \in Sockets, Current(k)', Holds(sockets'[k]),
                      Asks(j, sockets[k].carries.connection)'
               PROVE  sockets'[j].asks.epoch <= sockets'[k].carries.epoch
    BY DEF NoneReplaces, Asks
  <2> QED BY <1>2, WaningHolds DEF NoneReplaces, Asks, HeldOn
<1>6. Away'
  BY DEF Waning, Away
<1>7. Ending'
  <2> SUFFICES ASSUME NEW k \in Sockets, Current(k)', sockets'[k].server = "closing"
               PROVE  revoked'
    BY DEF Ending, EndingOn
  <2>1. sockets[k].server = "closing"
    BY WaningHolds DEF Holds, HeldOn
  <2> QED BY <1>2, <2>1 DEF Waning, Ending, EndingOn
<1> QED BY <1>1, <1>3, <1>4, <1>5, <1>6, <1>7

LEMMA WaningCall ==
  ASSUME Shapes, Heard, Waits, LastWord, Told, Speaking, Fresh, Agreed, Waning, NoneIsNone, TypeOK
  PROVE  Heard' /\ Waits' /\ LastWord' /\ Told' /\ Speaking' /\ Fresh' /\ Agreed'
<1>1. \A k \in Sockets : Hearing(k)' =>
        /\ Hearing(k) /\ client'.identity = client.identity
        /\ sockets'[k].down = sockets[k].down
  BY WaningHolds, NoneIsNone DEF Waning, Hearing
<1>2. Sure' => Sure /\ UNCHANGED <<told, pending>> /\ client'.identity = client.identity
                    /\ client'.current = client.current
  BY DEF Waning, Sure
<1>a. \A k \in Sockets : Holds(sockets'[k]) => HeldOn(k)
  BY WaningHolds
<1>b. \A k \in Sockets : Holds(sockets'[k]) /\ ~Strays(k)' =>
        ~Strays(k) /\ sockets'[k].carries = sockets[k].carries
  BY <1>a DEF HeldOn, Strays, Waning
<1>c. \A k \in Sockets : Speaks(k)' => Speaks(k) /\ Holds(sockets'[k])
  BY <1>a DEF HeldOn, Speaks, Open, Holds, Waning
<1>3. Heard'
  <2> SUFFICES ASSUME NEW k \in Sockets, Hearing(k)',
                      sockets'[k].server \in {"open", "closing", "cut"},
                      "ready" \notin Kinds(sockets'[k].down)
               PROVE  client'.identity = [connection |-> sockets'[k].carries.connection,
                                          epoch |-> sockets'[k].carries.epoch]
    BY DEF Heard, HeardOn
  <2>1. /\ sockets[k].server \in {"open", "closing", "cut"}
        /\ sockets'[k].carries.connection = sockets[k].carries.connection
        /\ sockets'[k].carries.epoch = sockets[k].carries.epoch
    BY <1>a DEF Holds, HeldOn, Open
  <2> QED BY <1>1, <2>1 DEF Heard, HeardOn
<1>4. Waits'
  <2> SUFFICES ASSUME told' # "unknown", NEW j \in Sockets,
                      \/ j = client'.current
                      \/ Holds(sockets'[j]) /\ Known(j)' /\ ~Strays(j)'
               PROVE  IdsOf(sockets'[j]) \subseteq pending'
    BY DEF Waits
  <2>1. UNCHANGED <<told, pending>> /\ client'.identity = client.identity
        /\ client'.current = client.current
    BY DEF Waning
  <2>2. \/ j = client.current
        \/ Holds(sockets[j]) /\ Known(j) /\ ~Strays(j)
    BY <1>a, <1>b, <2>1 DEF Known, HeldOn
  <2> QED BY <2>1, <2>2, WaningHolds DEF Waits
<1>5. LastWord'
  <2> SUFFICES ASSUME NEW k \in Sockets, Speaks(k)', ~Strays(k)' PROVE LastWordOn(k)'
    BY DEF LastWord, LastWordOn
  <2>1. /\ sockets'[k].carries = sockets[k].carries /\ Speaks(k) /\ ~Strays(k)
        /\ sockets'[k].down \in {sockets[k].down, <<>>}
    BY <1>b, <1>c, WaningHolds
  <2>2. CASE sockets'[k].down = <<>>
    BY <2>2 DEF LastWordOn
  <2>3. CASE sockets'[k].down = sockets[k].down
    BY <2>1, <2>3 DEF LastWord, LastWordOn
  <2> QED BY <2>1, <2>2, <2>3
<1>6. Told'
  <2> SUFFICES ASSUME NEW k \in Sockets, Holds(sockets'[k]),
                      {"replaced", "evicted"} \cap Kinds(sockets'[k].down) # {}
               PROVE  sockets'[k].carries.connection \in taken'
    BY DEF Told, ToldOn
  <2>1. /\ Holds(sockets[k]) /\ taken \subseteq taken'
        /\ sockets'[k].carries.connection = sockets[k].carries.connection
        /\ sockets'[k].down = sockets[k].down
    BY <1>a, WaningHolds, IdsEmpty DEF HeldOn, Waning
  <2> QED BY <2>1 DEF Told, ToldOn
<1>7. Speaking'
  <2> SUFFICES ASSUME NEW k \in Sockets, Sure', Hearing(k)', Speaks(k)', Known(k)',
                      pending' \subseteq IdsOf(sockets'[k]), Silent(sockets'[k].down)
               PROVE  sockets'[k].carries.call <=> told' = "in"
    BY DEF Speaking, SpeakingOn
  <2>1. ~Strays(k)'
    BY DEF Sure, Known, Strays
  <2>2. /\ sockets'[k].carries = sockets[k].carries /\ Speaks(k)
        /\ pending \subseteq IdsOf(sockets[k])
    BY <1>2, <1>b, <1>c, <2>1, WaningHolds
  <2>3. Known(k)
    BY <1>1, <2>2 DEF Known
  <2> QED BY <1>1, <1>2, <2>2, <2>3 DEF Speaking, SpeakingOn
<1>8. Fresh'
  <2> SUFFICES ASSUME NEW k \in Sockets, Hearing(k)', sockets'[k].server = "loading" \/ Speaks(k)',
                      ~Known(k)', ~Strays(k)', Silent(sockets'[k].down)
               PROVE  ~sockets'[k].carries.call
    BY DEF Fresh, FreshOn
  <2>1. Holds(sockets'[k]) /\ (sockets[k].server = "loading" \/ Speaks(k))
    BY <1>a, <1>c DEF Holds, HeldOn
  <2>2. sockets'[k].carries = sockets[k].carries /\ ~Strays(k)
    BY <1>b, <2>1
  <2>3. ~Known(k)
    BY <1>1, <2>2 DEF Known
  <2> QED BY <1>1, <2>1, <2>2, <2>3 DEF Fresh, FreshOn
<1>9. Agreed'
  <2> SUFFICES ASSUME Sure', pending' = {} PROVE Agreed'
    BY DEF Agreed
  <2>1. /\ Sure /\ pending = {} /\ UNCHANGED told /\ client'.identity = client.identity
        /\ client.identity # None /\ client.identity.connection \in Connections
        /\ client.identity.connection \notin taken' \cup astray' /\ UNCHANGED revoked
    BY <1>2 DEF Sure, TypeOK, Client, Identity, Waning
  <2>2. \A j \in Sockets : Counts(sockets[j])' /\ Known(j)'
          => (sockets'[j].carries.call <=> told' = "in")
    <3> SUFFICES ASSUME NEW j \in Sockets, Counts(sockets[j])', Known(j)'
                 PROVE  sockets'[j].carries.call <=> told' = "in"
      OBVIOUS
    <3>1. Holds(sockets'[j]) /\ ~Strays(j)'
      BY <2>1 DEF Counts, Known, Strays
    <3>2. sockets'[j].carries = sockets[j].carries /\ Known(j)
      BY <1>b, <2>1, <3>1 DEF Known
    <3>3. Counts(sockets[j])
      BY <1>a, <2>1, <3>1 DEF Counts, HeldOn, Open
    <3> QED BY <2>1, <3>2, <3>3 DEF Agreed
  <2>3. ~revoked' /\ records'[client.identity.connection] # None =>
          (records'[client.identity.connection].call <=> told' = "in")
    BY <2>1 DEF Agreed, Known, Waning, RecordsStay, Counts
  <2> QED BY <2>1, <2>2, <2>3 DEF Agreed
<1> QED BY <1>3, <1>4, <1>5, <1>6, <1>7, <1>8, <1>9
-----------------------------------------------------------------------------
(* A transport begins.                                                      *)
Starting(k) ==
  /\ client'.current = k /\ client'.active /\ client'.identity = stored
  /\ UNCHANGED <<stored, records, pending, taken, astray>>
  /\ \A i \in Sockets \ {k} : sockets'[i] = sockets[i]
  /\ sockets'[k].server = "none" /\ sockets'[k].asks = NextEpoch(stored)
  /\ sockets'[k].down = <<>> /\ sockets'[k].up = <<>>
  /\ \/ client'.identity = None \/ told' = "unknown"
     \/ UNCHANGED <<told, revoked>> /\ client'.identity = client.identity

LEMMA BeginsStarting ==
  ASSUME NEW k \in Sockets, Begins(k, stored)
  PROVE  /\ client'.current = k /\ client'.identity = stored
         /\ \A i \in Sockets \ {k} : sockets'[i] = sockets[i]
         /\ sockets'[k].server = "none" /\ sockets'[k].asks = NextEpoch(stored)
         /\ sockets'[k].down = <<>> /\ sockets'[k].up = <<>>
BY DEF Begins, Becomes, Turns

LEMMA StartingDoes ==
  ASSUME TypeOK, Tab, Away,
         \/ \E k \in Sockets : Mounts(k)
         \/ TimerFires /\ Transport \notin {"connecting", "open"}
         \/ Reconcile
  PROVE  \E k \in Sockets : Starting(k)
<1>1. ASSUME NEW k \in Sockets, Mounts(k) PROVE Starting(k)
  <2>1. Begins(k, stored) /\ client'.active
    BY <1>1, MountsDoes
  <2>2. UNCHANGED <<stored, records, pending, taken, astray>> /\ ~client.active
        /\ told' = IF stored = None THEN "out" ELSE told
    BY <1>1 DEF Mounts, history, check
  <2> QED BY <2>1, <2>2, BeginsStarting DEF Starting, Away
<1>2. CASE TimerFires /\ Transport \notin {"connecting", "open"}
  <2>1. /\ client.timer /\ client'.active = client.active
        /\ UNCHANGED <<stored, records, pending, told, revoked, taken, astray>>
        /\ \E k \in Sockets : Begins(k, client.identity)
    BY <1>2, TimerFiresDoes DEF history, check
  <2>2. client.active /\ client.identity = stored
    BY <2>1 DEF Tab
  <2> QED BY <2>1, <2>2, BeginsStarting DEF Starting
<1>3. CASE Reconcile
  <2>1. /\ client.active /\ client'.active /\ \E k \in Sockets : Begins(k, client.identity)
    BY <1>3, ReconcileDoes
  <2>2. /\ client.identity = stored
        /\ UNCHANGED <<stored, records, pending, told, revoked, taken, astray>>
    BY <1>3, <2>1 DEF Tab, Reconcile, history, check
  <2> QED BY <2>1, <2>2, BeginsStarting DEF Starting
<1> QED BY <1>1, <1>2, <1>3

LEMMA StartingUnderstood ==
  ASSUME TypeOK, Shapes, OneLive', NEW k \in Sockets, Starting(k), Understood
  PROVE  Understood'
<1> USE DEF Understood
<1>1. \A i \in Sockets : /\ i # k => sockets'[i] = sockets[i] /\ ~Current(i)' /\ ~Hearing(i)'
                         /\ i = k => sockets'[i].server = "none" /\ sockets'[i].down = <<>>
                                     /\ sockets'[i].up = <<>>
  BY DEF Starting, Current, Hearing
<1>2. ~Holds(sockets'[k]) /\ IdsOf(sockets'[k]) = {}
  BY <1>1, IdsEmpty DEF Holds, IdsOf
<1>3. Unheeded'
  BY <1>1 DEF Unheeded
<1>4. AsksNext'
  <2>1. stored # None <=> NextEpoch(stored) # None
    BY NextEpochIs DEF TypeOK
  <2> QED BY <1>1, <2>1 DEF AsksNext, Starting
<1>5. NoneAhead'
  <2>1. stored # None => NextEpoch(stored).epoch = stored.epoch + 1 /\ stored.epoch + 1 \in Nat
    BY NextEpochIs, NoneIsNone DEF TypeOK, Identity
  <2> QED BY <1>1, <2>1 DEF NoneAhead, Asks, Starting
<1>6. NoneReplaces'
  BY <1>1, <1>2 DEF NoneReplaces
<1>7. Heard'
  BY <1>1 DEF Heard, HeardOn
<1>8. Waits'
  <2> SUFFICES ASSUME told' # "unknown", NEW j \in Sockets, j # k, Holds(sockets'[j]), Known(j)',
                      ~Strays(j)'
               PROVE  IdsOf(sockets'[j]) \subseteq pending'
    BY <1>2 DEF Waits, Starting
  <2>1. /\ Known(j) /\ Holds(sockets[j]) /\ told # "unknown" /\ sockets'[j] = sockets[j]
        /\ ~Strays(j)
    BY <1>1 DEF Starting, Known, Strays
  <2> QED BY <2>1 DEF Waits, Starting
<1>9. Away'
  BY DEF Away, Starting
<1>10. LastWord'
  BY <1>1 DEF LastWord, LastWordOn, Speaks, Open, Strays, Starting
<1>11. Told'
  BY <1>1, <1>2 DEF Told, ToldOn, Starting
<1>12. Ending'
  BY <1>1 DEF Ending, EndingOn
<1>13. Speaking' /\ Fresh'
  BY <1>1 DEF Speaking, SpeakingOn, Fresh, FreshOn, Speaks, Open
<1>14. Agreed'
  <2> SUFFICES ASSUME Sure', pending' = {} PROVE Agreed'
    BY DEF Agreed
  <2>1. /\ Sure /\ pending = {} /\ UNCHANGED <<told, records, revoked>>
        /\ client'.identity = client.identity
    BY DEF Sure, Starting
  <2>2. \A j \in Sockets : Counts(sockets[j])' /\ Known(j)'
          => (sockets'[j].carries.call <=> told' = "in")
    BY <1>1, <1>2, <2>1 DEF Agreed, Known, Counts
  <2> QED BY <2>1, <2>2 DEF Agreed
<1> QED BY <1>3, <1>4, <1>5, <1>6, <1>7, <1>8, <1>9, <1>10, <1>11, <1>12, <1>13, <1>14

-----------------------------------------------------------------------------
(* A command is sent.                                                       *)
LEMMA IdsAppend ==
  ASSUME NEW S, NEW q, q \in Seq(S), NEW m
  PROVE  /\ Ids(Append(q, m)) = Ids(q) \cup ({m.id} \ {None})
         /\ Kinds(Append(q, m)) = Kinds(q) \cup {m.what}
<1>1. \A n \in DOMAIN q : n \in DOMAIN Append(q, m) /\ Append(q, m)[n] = q[n]
  OBVIOUS
<1>2. Len(q) + 1 \in DOMAIN Append(q, m) /\ Append(q, m)[Len(q) + 1] = m
  OBVIOUS
<1>3. \A n \in DOMAIN Append(q, m) : n \in DOMAIN q \/ n = Len(q) + 1
  OBVIOUS
<1> QED BY <1>1, <1>2, <1>3 DEF Ids, Kinds

LEMMA SendUnderstood ==
  ASSUME TypeOK, Shapes, NEW id \in Commands, NEW what \in {"join", "takeover", "leave"},
         Send(id, what), Understood
  PROVE  Understood'
<1> USE DEF Understood
<1>1. PICK k \in Sockets : k = client.current /\ sockets[k].client = "open"
  BY SendDoes
<1>2. /\ Becomes(k, "open", sockets[k].server, sockets[k].broken, sockets[k].asks,
                 sockets[k].carries, sockets[k].down,
                 IF sockets[k].broken THEN sockets[k].up
                 ELSE Append(sockets[k].up, [what |-> what, id |-> id]))
  BY <1>1, SendDoes
<1>3. /\ UNCHANGED <<client, stored, records, told, revoked, taken, astray>>
      /\ pending' = pending \cup {id}
      /\ id \notin pending
      /\ \A j \in Sockets : id \notin IdsOf(sockets[j])
  BY DEF Send, history, check, IdsOf
<1>4. \A i \in Sockets :
        /\ sockets'[i].client = sockets[i].client /\ sockets'[i].server = sockets[i].server
        /\ (sockets'[i].broken <=> sockets[i].broken)
        /\ sockets'[i].asks = sockets[i].asks /\ sockets'[i].carries = sockets[i].carries
        /\ sockets'[i].down = sockets[i].down
  BY <1>1, <1>2 DEF Becomes, Turns
<1>5. \A i \in Sockets : IdsOf(sockets'[i]) \subseteq IdsOf(sockets[i]) \cup {id}
  <2>1. PICK m : m = [what |-> what, id |-> id]
    OBVIOUS
  <2>2. sockets'[k].up \in {sockets[k].up, Append(sockets[k].up, m)}
    BY <1>1, <1>2, <2>1 DEF Becomes, Turns
  <2>3. Ids(Append(sockets[k].up, m)) \subseteq Ids(sockets[k].up) \cup {id}
    <3>1. sockets[k].up \in Seq(Command) /\ m.id = id
      BY <2>1 DEF TypeOK, Socket
    <3> QED BY <3>1, IdsAppend
  <2>4. IdsOf(sockets'[k]) \subseteq IdsOf(sockets[k]) \cup {id}
    BY <1>4, <2>2, <2>3 DEF IdsOf
  <2> QED BY <1>2, <2>4 DEF Becomes
<1>6. \A i \in Sockets : /\ Live(sockets'[i]) <=> Live(sockets[i])
                         /\ Listens(sockets'[i]) <=> Listens(sockets[i])
                         /\ Holds(sockets'[i]) <=> Holds(sockets[i])
  BY <1>4 DEF Live, Listens, Holds
<1>7. Unheeded' /\ AsksNext' /\ NoneAhead' /\ NoneReplaces'
  BY <1>3, <1>4, <1>6 DEF Unheeded, AsksNext, NoneAhead, NoneReplaces, Current, Asks
<1>8. Heard' /\ Away' /\ Told' /\ Ending'
  BY <1>3, <1>4, <1>6 DEF Heard, HeardOn, Away, Told, ToldOn, Ending, EndingOn, Current, Hearing
<1>9. Waits'
  BY <1>3, <1>4, <1>5, <1>6 DEF Waits, Known, Strays
<1>10. LastWord'
  BY <1>3, <1>4, <1>6 DEF LastWord, LastWordOn, Speaks, Open, Strays
<1>11. Speaking'
  <2> SUFFICES ASSUME NEW i \in Sockets, Sure', Hearing(i)', Speaks(i)', Known(i)',
                      pending' \subseteq IdsOf(sockets'[i]), Silent(sockets'[i].down)
               PROVE  sockets'[i].carries.call <=> told' = "in"
    BY DEF Speaking, SpeakingOn
  <2>1. pending \subseteq IdsOf(sockets[i])
    BY <1>3, <1>5
  <2>2. Sure /\ Hearing(i) /\ Speaks(i) /\ Known(i)
    BY <1>3, <1>4, <1>6 DEF Sure, Hearing, Speaks, Open, Known
  <2> QED BY <1>3, <1>4, <2>1, <2>2 DEF Speaking, SpeakingOn
<1>12. Fresh'
  BY <1>3, <1>4, <1>6 DEF Fresh, FreshOn, Hearing, Known, Speaks, Open, Strays
<1>13. Agreed'
  BY <1>3 DEF Agreed
<1> QED BY <1>7, <1>8, <1>9, <1>10, <1>11, <1>12, <1>13
-----------------------------------------------------------------------------
(* The server begins to carry a connection.                                 *)
Stays(c) == (c \in taken => c \in taken') /\ (c \in astray => c \in astray')
FetchesIt(k) ==
  /\ UNCHANGED <<client, stored, pending, told, revoked>>
  /\ taken' \subseteq taken /\ astray' \subseteq astray
  /\ sockets[k].server = "none"
  /\ sockets'[k].client = sockets[k].client /\ (sockets'[k].broken <=> sockets[k].broken)
  /\ sockets'[k].server = "loading" /\ sockets'[k].asks = sockets[k].asks
  /\ sockets'[k].down = <<>> /\ sockets'[k].up = <<>>
  /\ \A i \in Sockets \ {k} :
       /\ Wanes(i) /\ sockets'[i].carries = sockets[i].carries
       /\ Holds(sockets[i]) => Stays(sockets[i].carries.connection)
  /\ client.identity # None => Stays(client.identity.connection)
  /\ \A c \in Connections : records'[c] \in {records[c], None}

LEMMA FetchesUnderstood ==
  ASSUME TypeOK, Shapes, NEW k \in Sockets, FetchesIt(k), Understood,
         \A j \in Sockets : Current(k) /\ Asks(j, sockets'[k].carries.connection) =>
           sockets[j].asks.epoch <= sockets'[k].carries.epoch,
         Known(k)' /\ Sure' /\ pending = {} => (sockets'[k].carries.call <=> told = "in"),
         Hearing(k) /\ ~Known(k)' => ~sockets'[k].carries.call
  PROVE  Understood'
<1> USE DEF Understood
<1>1. \A i \in Sockets : i # k =>
         /\ Holds(sockets'[i]) => /\ Holds(sockets[i]) /\ sockets'[i].carries = sockets[i].carries
                                  /\ \/ sockets'[i].server = sockets[i].server
                                     \/ Open(i) /\ sockets'[i].server = "cut"
                                  /\ Stays(sockets[i].carries.connection)
         /\ Live(sockets'[i]) => Live(sockets[i])
         /\ Listens(sockets'[i]) => Listens(sockets[i]) /\ sockets'[i].down = sockets[i].down
         /\ sockets'[i].down \in {sockets[i].down, <<>>}
         /\ IdsOf(sockets'[i]) \subseteq IdsOf(sockets[i])
  BY WanesHolds DEF FetchesIt, HeldOn
<1>2. /\ IdsOf(sockets'[k]) = {} /\ Kinds(sockets'[k].down) = {} /\ sockets'[k].down = <<>>
      /\ sockets'[k].server = "loading"
      /\ Live(sockets'[k]) <=> Live(sockets[k])
      /\ Listens(sockets'[k]) <=> Listens(sockets[k])
  BY IdsEmpty DEF FetchesIt, IdsOf, Live, Listens
<1>3. \A i \in Sockets : sockets'[i].asks \in {sockets[i].asks, None}
  BY WanesHolds DEF FetchesIt
<1>4. /\ UNCHANGED <<client, stored, pending, told, revoked>>
      /\ taken' \subseteq taken /\ astray' \subseteq astray
  BY DEF FetchesIt
<1>5. \A i \in Sockets : /\ Current(i)' => Current(i)
                         /\ Hearing(i)' => Hearing(i)
  BY <1>1, <1>2, <1>4 DEF Current, Hearing
<1>a. \A i \in Sockets : i # k /\ Holds(sockets'[i]) =>
        /\ Strays(i)' <=> Strays(i)
        /\ Speaks(i)' => Speaks(i)
  BY <1>1, <1>4 DEF Strays, Speaks, Open, Stays
<1>6. Unheeded'
  <2> SUFFICES ASSUME NEW i \in Sockets, i # k, Listens(sockets'[i]),
                      sockets'[i].server \in {"closed", "replaced"}
               PROVE  sockets'[i].down = <<>>
    BY <1>2 DEF Unheeded
  <2>1. Wanes(i)
    BY DEF FetchesIt
  <2> QED BY <2>1, UnusedIsIdle DEF Wanes, Unheeded
<1>7. AsksNext' /\ NoneAhead'
  BY <1>3, <1>4, <1>5 DEF AsksNext, NoneAhead, Asks
<1>8. NoneReplaces'
  <2> SUFFICES ASSUME NEW i \in Sockets, NEW j \in Sockets, Current(i)', Holds(sockets'[i]),
                      sockets'[j].asks # None,
                      sockets'[j].asks.connection = sockets'[i].carries.connection
               PROVE  sockets'[j].asks.epoch <= sockets'[i].carries.epoch
    BY DEF NoneReplaces, Asks
  <2>1. sockets'[j].asks = sockets[j].asks
    BY <1>3
  <2>2. CASE i = k
    BY <1>5, <2>1, <2>2 DEF Asks
  <2>3. CASE i # k
    BY <1>1, <1>5, <2>1, <2>3 DEF NoneReplaces, Asks
  <2> QED BY <2>2, <2>3
<1>9. Heard'
  <2> SUFFICES ASSUME NEW i \in Sockets, i # k, Hearing(i)',
                      sockets'[i].server \in {"open", "closing", "cut"},
                      "ready" \notin Kinds(sockets'[i].down)
               PROVE  client'.identity = [connection |-> sockets'[i].carries.connection,
                                          epoch |-> sockets'[i].carries.epoch]
    BY <1>2 DEF Heard, HeardOn
  <2>1. /\ Hearing(i) /\ sockets'[i].carries = sockets[i].carries
        /\ sockets[i].server \in {"open", "closing", "cut"} /\ sockets'[i].down = sockets[i].down
    BY <1>1, <1>5 DEF Holds, Hearing, Open
  <2> QED BY <1>4, <2>1 DEF Heard, HeardOn
<1>10. Waits'
  <2> SUFFICES ASSUME told' # "unknown", NEW j \in Sockets, j # k,
                      \/ j = client'.current
                      \/ Holds(sockets'[j]) /\ Known(j)' /\ ~Strays(j)'
               PROVE  IdsOf(sockets'[j]) \subseteq pending'
    BY <1>2 DEF Waits
  <2>1. \/ j = client.current
        \/ Holds(sockets[j]) /\ Known(j) /\ ~Strays(j)
    BY <1>1, <1>4, <1>a DEF Known
  <2> QED BY <1>1, <1>4, <2>1 DEF Waits
<1>11. Away'
  BY <1>4 DEF Away
<1>12. LastWord'
  <2> SUFFICES ASSUME NEW i \in Sockets, i # k, Speaks(i)', ~Strays(i)' PROVE LastWordOn(i)'
    BY <1>2 DEF LastWord, LastWordOn, Speaks, Open
  <2>1. /\ sockets'[i].carries = sockets[i].carries /\ Speaks(i) /\ ~Strays(i)
        /\ sockets'[i].down \in {sockets[i].down, <<>>}
    BY <1>1, <1>a DEF Holds, Speaks, Open
  <2>2. CASE sockets'[i].down = <<>>
    BY <2>2 DEF LastWordOn
  <2>3. CASE sockets'[i].down = sockets[i].down
    BY <2>1, <2>3 DEF LastWord, LastWordOn
  <2> QED BY <2>1, <2>2, <2>3
<1>13. Told'
  <2> SUFFICES ASSUME NEW i \in Sockets, i # k, Holds(sockets'[i]),
                      {"replaced", "evicted"} \cap Kinds(sockets'[i].down) # {}
               PROVE  sockets'[i].carries.connection \in taken'
    BY <1>2 DEF Told, ToldOn
  <2>1. sockets'[i].down = sockets[i].down
    BY <1>1, IdsEmpty
  <2> QED BY <1>1, <2>1 DEF Told, ToldOn, Stays
<1>14. Ending'
  <2> SUFFICES ASSUME NEW i \in Sockets, i # k, Current(i)', sockets'[i].server = "closing"
               PROVE  revoked'
    BY <1>2 DEF Ending, EndingOn
  <2> QED BY <1>1, <1>4, <1>5 DEF Ending, EndingOn, Holds
<1>15. Sure' => Sure
  BY <1>4 DEF Sure, FetchesIt, Stays
<1>16. Speaking'
  <2> SUFFICES ASSUME NEW i \in Sockets, i # k, Sure', Hearing(i)', Speaks(i)',
                      Known(i)', pending' \subseteq IdsOf(sockets'[i]), Silent(sockets'[i].down)
               PROVE  sockets'[i].carries.call <=> told' = "in"
    BY <1>2 DEF Speaking, SpeakingOn, Speaks, Open
  <2>1. /\ sockets'[i].carries = sockets[i].carries /\ Speaks(i)
        /\ sockets'[i].down = sockets[i].down
        /\ pending \subseteq IdsOf(sockets[i])
    BY <1>1, <1>4, <1>a DEF Holds, Hearing, Speaks, Open
  <2>2. Known(i)
    BY <1>4, <2>1 DEF Known
  <2> QED BY <1>4, <1>5, <1>15, <2>1, <2>2 DEF Speaking, SpeakingOn
<1>17. Fresh'
  <2> SUFFICES ASSUME NEW i \in Sockets, Hearing(i)', sockets'[i].server = "loading" \/ Speaks(i)',
                      ~Known(i)', ~Strays(i)', Silent(sockets'[i].down)
               PROVE  ~sockets'[i].carries.call
    BY DEF Fresh, FreshOn
  <2>1. CASE i = k
    BY <1>5, <2>1
  <2>2. CASE i # k
    <3>1. Holds(sockets'[i])
      BY DEF Holds, Speaks, Open
    <3>2. /\ sockets[i].server = "loading" \/ Speaks(i)
          /\ sockets'[i].carries = sockets[i].carries
          /\ sockets'[i].down = sockets[i].down /\ ~Strays(i)
      BY <1>1, <1>a, <2>2, <3>1 DEF Hearing
    <3>3. ~Known(i)
      BY <1>4, <3>2 DEF Known
    <3> QED BY <1>5, <3>2, <3>3 DEF Fresh, FreshOn
  <2> QED BY <2>1, <2>2
<1>18. Agreed'
  <2> SUFFICES ASSUME Sure', pending = {} PROVE Agreed'
    BY <1>4 DEF Agreed
  <2>1. /\ Sure /\ client.identity # None /\ client.identity.connection \in Connections
    BY <1>15 DEF Sure, TypeOK, Client, Identity
  <2>2. \A j \in Sockets : Counts(sockets[j])' /\ Known(j)'
          => (sockets'[j].carries.call <=> told' = "in")
    <3> SUFFICES ASSUME NEW j \in Sockets, j # k, Counts(sockets[j])', Known(j)'
                 PROVE  sockets'[j].carries.call <=> told' = "in"
      BY <1>4
    <3>1. /\ sockets'[j].carries = sockets[j].carries /\ Counts(sockets[j]) /\ Known(j)
      BY <1>1, <1>4 DEF Known, Counts, Open
    <3> QED BY <1>4, <2>1, <3>1 DEF Agreed
  <2>3. ~revoked' /\ records'[client.identity.connection] # None =>
          (records'[client.identity.connection].call <=> told' = "in")
    BY <1>4, <2>1 DEF Agreed, FetchesIt
  <2> QED BY <1>4, <2>1, <2>2, <2>3 DEF Agreed
<1> QED BY <1>6, <1>7, <1>8, <1>9, <1>10, <1>11, <1>12, <1>13, <1>14, <1>16, <1>17, <1>18
(* What is asked for on the current transport is what the tab knows.         *)
LEMMA AsksKnown ==
  ASSUME TypeOK, Tab, AsksNext, NoneAhead, NEW k \in Sockets, Current(k), sockets[k].asks # None
  PROVE  /\ client.identity # None /\ client.identity.connection = sockets[k].asks.connection
         /\ \A j \in Sockets : Asks(j, sockets[k].asks.connection) =>
              sockets[j].asks.epoch <= sockets[k].asks.epoch
<1>1. client.identity # None /\ sockets[k].asks = NextEpoch(client.identity)
  BY DEF AsksNext
<1>2. client.identity = stored
  BY <1>1 DEF Tab
<1>3. /\ sockets[k].asks.connection = stored.connection
      /\ sockets[k].asks.epoch = stored.epoch + 1
  BY <1>1, <1>2, NextEpochIs DEF TypeOK
<1> QED BY <1>1, <1>2, <1>3 DEF NoneAhead

LEMMA FetchReplacingUnderstood ==
  ASSUME Kept, NEW k \in Sockets, FetchReplacing(k), Understood
  PROVE  Understood'
<1> USE DEF Kept
<1>1. /\ UNCHANGED <<client, stored, records, pending, told, revoked, taken, astray>>
      /\ sockets[k].server = "none" /\ sockets[k].down = <<>> /\ sockets[k].up = <<>>
  BY DEF FetchReplacing, Arriving, history, check, Shapes, Shape
<1>2. PICK j \in Replaceable(k) :
        /\ j # k /\ \A i \in Sockets \ {k, j} : sockets'[i] = sockets[i]
        /\ Turns(k, sockets[k].client, "loading", sockets[k].broken, sockets[k].asks,
                 [connection |-> sockets[k].asks.connection, epoch |-> sockets[k].asks.epoch,
                  call |-> sockets[j].carries.call], sockets[k].down, sockets[k].up)
        /\ Turns(j, sockets[j].client, "replaced", sockets[j].broken, sockets[j].asks,
                 sockets[j].carries, sockets[j].down, <<>>)
  BY FetchReplacingDoes
<1>3. /\ j \in Sockets /\ Open(j) /\ Holds(sockets[j]) /\ sockets[k].asks # None
      /\ sockets[j].carries.connection = sockets[k].asks.connection
      /\ sockets[k].asks.epoch > sockets[j].carries.epoch
  BY <1>2 DEF Replaceable, Open, Holds
<1>4. ~Live(sockets[j])
  <2> SUFFICES ASSUME Live(sockets[j]) PROVE FALSE
    OBVIOUS
  <2>1. Current(j) /\ Asks(k, sockets[j].carries.connection)
    BY <1>3 DEF OneLive, Current, Asks
  <2>2. sockets[k].asks.epoch <= sockets[j].carries.epoch
    BY <1>3, <2>1 DEF Understood, NoneReplaces
  <2>3. sockets[k].asks.epoch \in Nat /\ sockets[j].carries.epoch \in Nat
    BY <1>3 DEF Shapes, Shape, TypeOK, Socket, Identity, Carried
  <2> QED BY <1>3, <2>2, <2>3
<1>5. Wanes(j)
  BY <1>2, <1>3, <1>4 DEF Turns, Wanes, Live, Listens
<1>6. /\ sockets'[k].client = sockets[k].client /\ (sockets'[k].broken <=> sockets[k].broken)
      /\ sockets'[k].server = "loading" /\ sockets'[k].asks = sockets[k].asks
      /\ sockets'[k].down = <<>> /\ sockets'[k].up = <<>>
      /\ sockets'[k].carries = [connection |-> sockets[k].asks.connection,
                                epoch |-> sockets[k].asks.epoch, call |-> sockets[j].carries.call]
  BY <1>1, <1>2 DEF Turns
<1>7. FetchesIt(k)
  BY <1>1, <1>2, <1>5, <1>6, SameWanes DEF FetchesIt, Stays, Turns
<1>8. /\ sockets'[k].carries.connection = sockets[k].asks.connection
      /\ sockets'[k].carries.epoch = sockets[k].asks.epoch
      /\ sockets'[k].carries.call = sockets[j].carries.call
  BY <1>6
<1>9. Known(k)' /\ Sure' /\ pending = {} => (sockets'[k].carries.call <=> told = "in")
  <2> SUFFICES ASSUME Known(k)', Sure', pending = {}
               PROVE  sockets'[k].carries.call <=> told = "in"
    OBVIOUS
  <2>1. Sure /\ Known(j)
    BY <1>1, <1>3, <1>8 DEF Sure, Known
  <2>2. Counts(sockets[j])
    BY <1>3 DEF Counts, Open
  <2> QED BY <1>3, <1>8, <2>1, <2>2 DEF Understood, Agreed
<1>10. Hearing(k) => Known(k)'
  BY <1>1, <1>3, <1>8, AsksKnown DEF Understood, Hearing, Current, Listens, Live, Known
<1>11. \A i \in Sockets : Current(k) /\ Asks(i, sockets'[k].carries.connection) =>
         sockets[i].asks.epoch <= sockets'[k].carries.epoch
  BY <1>3, <1>8, AsksKnown DEF Understood
<1> QED BY <1>1, <1>7, <1>9, <1>10, <1>11, FetchesUnderstood

LEMMA FetchResumingUnderstood ==
  ASSUME Kept, NEW k \in Sockets, FetchResuming(k), Understood
  PROVE  Understood'
<1> USE DEF Kept
<1>1. /\ UNCHANGED <<client, stored, pending, told, revoked, taken, astray>>
      /\ sockets[k].server = "none" /\ sockets[k].down = <<>> /\ sockets[k].up = <<>>
  BY DEF FetchResuming, Arriving, history, check, Shapes, Shape
<1> DEFINE c == sockets[k].asks.connection
<1>2. /\ sockets[k].asks # None /\ records[c] # None
      /\ records' = [records EXCEPT ![c] = None]
      /\ Becomes(k, sockets[k].client, "loading", sockets[k].broken, sockets[k].asks,
                 [connection |-> c, epoch |-> sockets[k].asks.epoch, call |-> records[c].call],
                 sockets[k].down, sockets[k].up)
  BY FetchResumingDoes
<1>3. /\ sockets'[k].client = sockets[k].client /\ (sockets'[k].broken <=> sockets[k].broken)
      /\ sockets'[k].server = "loading" /\ sockets'[k].asks = sockets[k].asks
      /\ sockets'[k].down = <<>> /\ sockets'[k].up = <<>>
      /\ sockets'[k].carries = [connection |-> c, epoch |-> sockets[k].asks.epoch,
                                call |-> records[c].call]
      /\ \A i \in Sockets \ {k} : sockets'[i] = sockets[i]
  BY <1>1, <1>2 DEF Becomes, Turns
<1>4. FetchesIt(k)
  <2>1. \A d \in Connections : records'[d] \in {records[d], None}
    BY <1>2 DEF TypeOK
  <2> QED BY <1>1, <1>3, <2>1, SameWanes DEF FetchesIt, Stays
<1>5. /\ sockets'[k].carries.connection = c /\ sockets'[k].carries.epoch = sockets[k].asks.epoch
      /\ sockets'[k].carries.call = records[c].call
  BY <1>3
<1>6. Known(k)' /\ Sure' /\ pending = {} => (sockets'[k].carries.call <=> told = "in")
  <2> SUFFICES ASSUME Known(k)', Sure', pending = {}
               PROVE  sockets'[k].carries.call <=> told = "in"
    OBVIOUS
  <2>1. Sure /\ client.identity.connection = c
    BY <1>1, <1>5 DEF Sure, Known
  <2>2. ~revoked
    BY DEF FetchResuming
  <2> QED BY <1>2, <1>5, <2>1, <2>2 DEF Understood, Agreed
<1>7. Hearing(k) => Known(k)'
  BY <1>1, <1>2, <1>5, AsksKnown DEF Understood, Hearing, Current, Listens, Live, Known
<1>8. \A i \in Sockets : Current(k) /\ Asks(i, sockets'[k].carries.connection) =>
        sockets[i].asks.epoch <= sockets'[k].carries.epoch
  BY <1>2, <1>5, AsksKnown DEF Understood
<1> QED BY <1>1, <1>4, <1>6, <1>7, <1>8, FetchesUnderstood

LEMMA FetchNewUnderstood ==
  ASSUME Kept, NEW k \in Sockets, FetchNew(k), Understood
  PROVE  Understood'
<1> USE DEF Kept
<1> DEFINE c == FreshConnection
<1>1. /\ UNCHANGED <<client, stored, records, pending, told, revoked>>
      /\ taken' = taken \ {c} /\ astray' = astray \ {c}
      /\ sockets[k].server = "none" /\ sockets[k].down = <<>> /\ sockets[k].up = <<>>
  BY DEF FetchNew, Arriving, Shapes, Shape
<1>2. /\ c \notin Held
      /\ Becomes(k, sockets[k].client, "loading", sockets[k].broken, sockets[k].asks,
                 [connection |-> c, epoch |-> 1, call |-> FALSE], sockets[k].down, sockets[k].up)
  BY FetchNewDoes
<1>3. /\ sockets'[k].client = sockets[k].client /\ (sockets'[k].broken <=> sockets[k].broken)
      /\ sockets'[k].server = "loading" /\ sockets'[k].asks = sockets[k].asks
      /\ sockets'[k].down = <<>> /\ sockets'[k].up = <<>>
      /\ sockets'[k].carries = [connection |-> c, epoch |-> 1, call |-> FALSE]
      /\ \A i \in Sockets \ {k} : sockets'[i] = sockets[i]
  BY <1>1, <1>2 DEF Becomes, Turns
<1>4. sockets'[k].carries.connection = c /\ ~sockets'[k].carries.call
  BY <1>3
<1>5. /\ client.identity # None => client.identity.connection # c
      /\ \A i \in Sockets : ~Asks(i, c)
      /\ \A i \in Sockets : Holds(sockets[i]) => sockets[i].carries.connection # c
  BY <1>2 DEF Held, UnderWay, Named, Asks, Shapes, Shape
<1>6. FetchesIt(k)
  BY <1>1, <1>3, <1>5, SameWanes DEF FetchesIt, Stays
<1>7. ~Known(k)'
  BY <1>1, <1>4, <1>5 DEF Known
<1> HIDE DEF c
<1> QED BY <1>4, <1>5, <1>6, <1>7, FetchesUnderstood
-----------------------------------------------------------------------------
(* The upgrade is accepted.                                                 *)
LEMMA AcceptsUnderstood ==
  ASSUME Kept, NEW k \in Sockets, Accepts(k), Understood
  PROVE  Understood'
<1> USE DEF Kept, Understood
<1>1. /\ UNCHANGED <<client, stored, records, pending, told, revoked, taken, astray>>
      /\ sockets[k].server = "loading" /\ sockets[k].down = <<>> /\ sockets[k].up = <<>>
  BY DEF Accepts, history, check, Shapes, Shape
<1>2. PICK ready : ready = Notice("ready")
  OBVIOUS
<1>3. ready.what = "ready" /\ ready.id = None
  BY <1>2, NoticeIs
<1>4. /\ sockets'[k].client = sockets[k].client /\ (sockets'[k].broken <=> sockets[k].broken)
      /\ sockets'[k].server = "open" /\ sockets'[k].asks = sockets[k].asks
      /\ sockets'[k].carries = sockets[k].carries
      /\ sockets'[k].down = IF Listens(sockets[k]) THEN <<ready>> ELSE <<>>
      /\ sockets'[k].up = <<>>
      /\ \A i \in Sockets \ {k} : sockets'[i] = sockets[i]
  <2>1. Becomes(k, sockets[k].client, "open", sockets[k].broken, sockets[k].asks,
                sockets[k].carries, IF Listens(sockets[k]) THEN <<ready>> ELSE sockets[k].down,
                sockets[k].up)
    BY <1>2, AcceptsDoes
  <2> QED BY <1>1, <2>1 DEF Becomes, Turns
<1>5. IdsOf(sockets'[k]) = {}
  BY <1>3, <1>4, IdsEmpty DEF IdsOf, Ids
<1>6. /\ Silent(sockets'[k].down)
      /\ Listens(sockets[k]) => "ready" \in Kinds(sockets'[k].down)
      /\ {"replaced", "evicted"} \cap Kinds(sockets'[k].down) = {}
  BY <1>3, <1>4 DEF Silent, Effective, Kinds
<1>7. \A i \in Sockets : /\ Live(sockets'[i]) <=> Live(sockets[i])
                         /\ Listens(sockets'[i]) <=> Listens(sockets[i])
                         /\ Holds(sockets'[i]) <=> Holds(sockets[i])
                         /\ sockets'[i].carries = sockets[i].carries
                         /\ sockets'[i].asks = sockets[i].asks
                         /\ IdsOf(sockets'[i]) \subseteq IdsOf(sockets[i])
  BY <1>1, <1>4, <1>5 DEF Live, Listens, Holds
<1>8. Unheeded' /\ Ending'
  BY <1>1, <1>4 DEF Unheeded, Ending, EndingOn, Current
<1>9. AsksNext' /\ NoneAhead' /\ NoneReplaces'
  BY <1>1, <1>7 DEF AsksNext, NoneAhead, NoneReplaces, Current, Asks
<1>10. Heard'
  BY <1>1, <1>4, <1>6 DEF Heard, HeardOn, Hearing, Listens
<1>11. Waits' /\ Away'
  BY <1>1, <1>7 DEF Waits, Away, Known, Strays
<1>12. LastWord'
  <2>1. \A i \in Sockets \ {k} : LastWordOn(i)'
    BY <1>1, <1>4 DEF LastWord, LastWordOn, Speaks, Open, Strays
  <2>2. LastWordOn(k)'
    BY <1>6 DEF Silent, LastWordOn
  <2> QED BY <2>1, <2>2 DEF LastWord
<1>13. Told'
  BY <1>1, <1>4, <1>6 DEF Told, ToldOn
<1>14. Speaking'
  <2>1. \A i \in Sockets \ {k} : SpeakingOn(i)'
    BY <1>1, <1>4 DEF Speaking, SpeakingOn, Sure, Hearing, Speaks, Open, Known
  <2>2. SpeakingOn(k)'
    <3> SUFFICES ASSUME Sure', Known(k)', pending' \subseteq IdsOf(sockets'[k])
                 PROVE  sockets'[k].carries.call <=> told' = "in"
      BY DEF SpeakingOn
    <3>1. Sure /\ pending = {} /\ Known(k) /\ Holds(sockets[k])
      BY <1>1, <1>4, <1>5 DEF Sure, Known, Holds
    <3>2. Counts(sockets[k])
      BY <1>1, <3>1 DEF Counts
    <3> QED BY <1>1, <1>4, <3>1, <3>2 DEF Agreed
  <2> QED BY <2>1, <2>2 DEF Speaking
<1>15. Fresh'
  <2>1. \A i \in Sockets \ {k} : FreshOn(i)'
    BY <1>1, <1>4 DEF Fresh, FreshOn, Hearing, Known, Speaks, Open, Strays
  <2>2. FreshOn(k)'
    <3> SUFFICES ASSUME Hearing(k)', ~Known(k)', ~Strays(k)' PROVE ~sockets'[k].carries.call
      BY DEF FreshOn
    <3>1. Hearing(k) /\ ~Known(k) /\ ~Strays(k) /\ Silent(sockets[k].down)
      BY <1>1, <1>4, <1>7 DEF Hearing, Known, Silent, Strays
    <3> QED BY <1>1, <1>4, <3>1 DEF Fresh, FreshOn
  <2> QED BY <2>1, <2>2 DEF Fresh
<1>16. Agreed'
  <2> SUFFICES ASSUME Sure, pending = {} PROVE Agreed'
    BY <1>1 DEF Agreed, Sure
  <2>1. \A j \in Sockets : Counts(sockets[j])' /\ Known(j)' => Counts(sockets[j]) /\ Known(j)
    BY <1>1, <1>4, <1>7 DEF Counts, Known
  <2> QED BY <1>1, <1>7, <2>1 DEF Agreed
<1> QED BY <1>8, <1>9, <1>10, <1>11, <1>12, <1>13, <1>14, <1>15, <1>16

-----------------------------------------------------------------------------
(* What the server says.                                                    *)
LEMMA SentSays ==
  ASSUME NEW x, x \in Socket, NEW m, m \in Message
  PROVE  /\ Kinds(x.down) \subseteq Kinds(Sent(x, m))
         /\ Kinds(Sent(x, m)) \subseteq Kinds(x.down) \cup {m.what}
         /\ Ids(Sent(x, m)) \subseteq Ids(x.down) \cup ({m.id} \ {None})
         /\ Silent(Sent(x, m)) => Silent(x.down)
         /\ x.server = "open" /\ Listens(x) /\ Silent(Sent(x, m)) => ~Effective(m)
<1>1. CASE x.server = "open" /\ Listens(x)
  <2>1. Sent(x, m) = Append(x.down, m) /\ x.down \in Seq(Message)
    BY <1>1 DEF Sent, Socket
  <2>2. /\ Kinds(Append(x.down, m)) = Kinds(x.down) \cup {m.what}
        /\ Ids(Append(x.down, m)) = Ids(x.down) \cup ({m.id} \ {None})
    BY <2>1, IdsAppend
  <2>3. /\ \A n \in DOMAIN x.down : n \in DOMAIN Append(x.down, m) /\ Append(x.down, m)[n] = x.down[n]
        /\ Len(x.down) + 1 \in DOMAIN Append(x.down, m) /\ Append(x.down, m)[Len(x.down) + 1] = m
    BY <2>1
  <2> QED BY <2>1, <2>2, <2>3 DEF Silent
<1>2. CASE ~(x.server = "open" /\ Listens(x))
  BY <1>2 DEF Sent
<1> QED BY <1>1, <1>2

(* The last word stays, or is the new one.                                  *)
LEMMA SentLast ==
  ASSUME NEW x, x \in Socket, x.server = "open", Shape(x), NEW m, m \in Message, NEW s, s = Sent(x, m),
         NEW n \in DOMAIN s, Effective(s[n]), \A i \in DOMAIN s : i > n => ~Effective(s[i])
  PROVE  \/ s[n] = m /\ Effective(m)
         \/ /\ s # x.down => ~Effective(m)
            /\ n \in DOMAIN x.down /\ x.down[n] = s[n]
            /\ \A i \in DOMAIN x.down : i > n => ~Effective(x.down[i])
<1>1. CASE Listens(x)
  <2>1. x.down \in Seq(Message) /\ s = Append(x.down, m)
    BY <1>1 DEF Sent, Socket
  <2>2. /\ \A i \in DOMAIN x.down : i \in DOMAIN s /\ s[i] = x.down[i] /\ i < Len(x.down) + 1
        /\ Len(x.down) + 1 \in DOMAIN s /\ s[Len(x.down) + 1] = m
        /\ \A i \in DOMAIN s : i \in DOMAIN x.down \/ i = Len(x.down) + 1
    BY <2>1
  <2>3. CASE n = Len(x.down) + 1
    BY <2>2, <2>3
  <2>4. CASE n \in DOMAIN x.down
    BY <2>2, <2>4
  <2> QED BY <2>2, <2>3, <2>4
<1>2. CASE ~Listens(x)
  BY <1>2 DEF Sent
<1> QED BY <1>1, <1>2

(* A transport on which the server answers, or says that the call is lost.   *)
Unmoved == UNCHANGED <<client, stored, pending, told, revoked, astray>> /\ taken \subseteq taken'
Says(i, m, call) ==
  /\ sockets'[i].client = sockets[i].client /\ sockets'[i].server = sockets[i].server
  /\ (sockets'[i].broken <=> sockets[i].broken) /\ sockets'[i].asks = sockets[i].asks
  /\ sockets'[i].carries.connection = sockets[i].carries.connection
  /\ sockets'[i].carries.epoch = sockets[i].carries.epoch
  /\ (sockets'[i].carries.call <=> call)
  /\ sockets'[i].down = Sent(sockets[i], m)
  /\ IdsOf(sockets'[i]) \subseteq IdsOf(sockets[i])
  /\ sockets[i].server \in {"open", "closing", "cut"} /\ m \in Message
  /\ m.what \in {"joined", "left", "conflict", "replaced", "evicted"}
  /\ m.what # "conflict" => (call <=> m.what = "joined")
  /\ m.what = "conflict" => (call <=> sockets[i].carries.call)
  /\ IF m.what \in {"replaced", "evicted"} THEN sockets[i].carries.connection \in taken'
     ELSE IdsOf(sockets[i]) # {}
  /\ Open(i) \/ sockets[i].carries.connection \in taken'

LEMMA AnsweredSays ==
  ASSUME TypeOK, Shapes, NEW k \in Sockets, sockets[k].server \in {"open", "closing", "cut"},
         sockets[k].up # <<>>, Open(k) \/ sockets[k].carries.connection \in taken',
         NEW what, what \in {"joined", "left", "conflict"}, NEW call, call \in BOOLEAN,
         what # "conflict" => (call <=> what = "joined"),
         what = "conflict" => (call <=> sockets[k].carries.call),
         Answered(k, what, call)
  PROVE  \E m : Says(k, m, call)
<1>1. sockets[k] \in Socket /\ sockets[k].carries \in Carried
  BY DEF Shapes, Shape, TypeOK, Socket, Holds
<1>2. sockets[k].up \in Seq(Command)
  BY <1>1 DEF Socket
<1>3. /\ Head(sockets[k].up) \in Command /\ Ids(Tail(sockets[k].up)) \subseteq Ids(sockets[k].up)
      /\ Head(sockets[k].up).id \in Ids(sockets[k].up) /\ Head(sockets[k].up).id \in Commands
  <2>1. Head(sockets[k].up) \in Command
    BY <1>2
  <2>2. Head(sockets[k].up).id \in Commands /\ Head(sockets[k].up).id # None
    BY <2>1, NoneIsNone DEF Command
  <2>3. /\ 1 \in DOMAIN sockets[k].up /\ Head(sockets[k].up) = sockets[k].up[1]
        /\ \A n \in DOMAIN Tail(sockets[k].up) :
             n + 1 \in DOMAIN sockets[k].up /\ Tail(sockets[k].up)[n] = sockets[k].up[n + 1]
    BY <1>2
  <2> QED BY <2>1, <2>2, <2>3 DEF Ids
<1>4. PICK m : m = [what |-> what, id |-> Head(sockets[k].up).id]
  OBVIOUS
<1>5. m.what = what /\ m.id = Head(sockets[k].up).id /\ m \in Message
  BY <1>3, <1>4 DEF Message
<1>6. PICK c : c = [sockets[k].carries EXCEPT !.call = call]
  OBVIOUS
<1>7. /\ c.connection = sockets[k].carries.connection /\ c.epoch = sockets[k].carries.epoch
      /\ c.call = call
  BY <1>1, <1>6, CallSet
<1>8. /\ sockets'[k].client = sockets[k].client /\ sockets'[k].server = sockets[k].server
      /\ (sockets'[k].broken <=> sockets[k].broken) /\ sockets'[k].asks = sockets[k].asks
      /\ sockets'[k].carries = c /\ sockets'[k].down = Sent(sockets[k], m)
      /\ sockets'[k].up = Tail(sockets[k].up)
  BY <1>4, <1>6 DEF Answered, Turns, Holds
<1>9. Ids(Sent(sockets[k], m)) \subseteq Ids(sockets[k].down) \cup {m.id}
  BY <1>1, <1>5, SentSays
<1>10. IdsOf(sockets'[k]) \subseteq IdsOf(sockets[k]) /\ IdsOf(sockets[k]) # {}
  BY <1>3, <1>5, <1>8, <1>9 DEF IdsOf
<1> QED BY <1>5, <1>7, <1>8, <1>10 DEF Says

LEMMA LosingSays ==
  ASSUME TypeOK, Shapes, NEW j \in Sockets, sockets[j].server \in {"open", "closing", "cut"}, Losing(j),
         sockets[j].carries.connection \in taken'
  PROVE  \E m : Says(j, m, FALSE)
<1>1. sockets[j] \in Socket /\ sockets[j].carries \in Carried /\ Holds(sockets[j])
  BY DEF Shapes, Shape, TypeOK, Socket, Holds
<1>a. PICK what \in {"replaced", "evicted"} :
        Turns(j, sockets[j].client, sockets[j].server, sockets[j].broken, sockets[j].asks,
              [sockets[j].carries EXCEPT !.call = FALSE], Sent(sockets[j], Notice(what)),
              sockets[j].up)
  BY DEF Losing
<1>2. PICK m : m = Notice(what)
  OBVIOUS
<1>3. m \in Message /\ m.what = what /\ m.id = None
  BY <1>2, NoticeIs
<1>4. PICK c : c = [sockets[j].carries EXCEPT !.call = FALSE]
  OBVIOUS
<1>5. /\ c.connection = sockets[j].carries.connection /\ c.epoch = sockets[j].carries.epoch
      /\ c.call = FALSE
  BY <1>1, <1>4, CallSet
<1>6. /\ sockets'[j].client = sockets[j].client /\ sockets'[j].server = sockets[j].server
      /\ (sockets'[j].broken <=> sockets[j].broken) /\ sockets'[j].asks = sockets[j].asks
      /\ sockets'[j].carries = c /\ sockets'[j].down = Sent(sockets[j], m)
      /\ sockets'[j].up = sockets[j].up
  BY <1>2, <1>4, <1>a DEF Turns
<1>7. Ids(Sent(sockets[j], m)) \subseteq Ids(sockets[j].down)
  BY <1>1, <1>3, SentSays
<1>8. IdsOf(sockets'[j]) \subseteq IdsOf(sockets[j])
  BY <1>6, <1>7 DEF IdsOf
<1> QED BY <1>1, <1>3, <1>5, <1>6, <1>8 DEF Says

LEMMA SaysOn ==
  ASSUME TypeOK, Shapes, Understood, Unmoved, NEW i \in Sockets, NEW m, NEW call, Says(i, m, call)
  PROVE  HeardOn(i)' /\ LastWordOn(i)' /\ ToldOn(i)' /\ SpeakingOn(i)' /\ FreshOn(i)'
<1> USE DEF Understood
<1>1. sockets[i] \in Socket /\ Shape(sockets[i])
  BY DEF TypeOK, Shapes
<1>2. /\ sockets'[i].server = sockets[i].server
      /\ sockets'[i].carries.connection = sockets[i].carries.connection
      /\ sockets'[i].carries.epoch = sockets[i].carries.epoch
      /\ (sockets'[i].carries.call <=> call)
      /\ Listens(sockets'[i]) <=> Listens(sockets[i])
      /\ Holds(sockets'[i]) <=> Holds(sockets[i])
      /\ Hearing(i)' <=> Hearing(i)
      /\ Known(i)' <=> Known(i)
      /\ Strays(i)' <=> Strays(i)
      /\ Speaks(i)' => Open(i) /\ Speaks(i)
  BY DEF Says, Listens, Holds, Unmoved, Hearing, Known, Strays, Speaks, Open
<1>3. /\ Kinds(sockets[i].down) \subseteq Kinds(sockets'[i].down)
      /\ Kinds(sockets'[i].down) \subseteq Kinds(sockets[i].down) \cup {m.what}
      /\ Silent(sockets'[i].down) => Silent(sockets[i].down)
      /\ Open(i) /\ Hearing(i) /\ Silent(sockets'[i].down) => ~Effective(m)
  BY <1>1, SentSays DEF Says, Open, Hearing
<1>4. HeardOn(i)'
  BY <1>2, <1>3 DEF Heard, HeardOn, Unmoved
<1>5. LastWordOn(i)'
  <2> SUFFICES ASSUME Speaks(i)', ~Strays(i)', NEW n \in DOMAIN sockets'[i].down,
                      Effective(sockets'[i].down[n]),
                      \A h \in DOMAIN sockets'[i].down : h > n => ~Effective(sockets'[i].down[h])
               PROVE  sockets'[i].carries.call <=> sockets'[i].down[n].what = "joined"
    BY DEF LastWordOn
  <2>1. sockets[i].server = "open"
    BY <1>2 DEF Open
  <2>2. PICK s : s = sockets'[i].down
    OBVIOUS
  <2>3. s = Sent(sockets[i], m) /\ m \in Message
    BY <2>2 DEF Says
  <2>4. \/ s[n] = m /\ Effective(m)
        \/ /\ s # sockets[i].down => ~Effective(m)
           /\ n \in DOMAIN sockets[i].down /\ sockets[i].down[n] = s[n]
           /\ \A h \in DOMAIN sockets[i].down : h > n => ~Effective(sockets[i].down[h])
    BY <1>1, <2>1, <2>2, <2>3, SentLast
  <2>5. CASE s[n] = m /\ Effective(m)
    BY <1>2, <2>2, <2>5 DEF Says, Effective
  <2>6. CASE /\ s # sockets[i].down => ~Effective(m)
             /\ n \in DOMAIN sockets[i].down /\ sockets[i].down[n] = s[n]
             /\ \A h \in DOMAIN sockets[i].down : h > n => ~Effective(sockets[i].down[h])
    <3>1. sockets[i].carries.call <=> sockets[i].down[n].what = "joined"
      BY <1>2, <2>2, <2>6 DEF LastWord, LastWordOn
    <3>2. s # sockets[i].down => m.what = "conflict"
      BY <2>6 DEF Says, Effective
    <3>3. s = sockets[i].down => ~Listens(sockets[i])
      <4> SUFFICES ASSUME Listens(sockets[i]), s = sockets[i].down PROVE FALSE
        OBVIOUS
      <4>1. s = Append(sockets[i].down, m) /\ sockets[i].down \in Seq(Message)
        BY <1>1, <2>1, <2>3 DEF Sent, Socket
      <4> QED BY <4>1
    <3>4. ~Listens(sockets[i]) => sockets[i].down = <<>>
      BY <1>1 DEF Shape
    <3> QED BY <1>2, <2>2, <2>6, <3>1, <3>2, <3>3, <3>4 DEF Says
  <2> QED BY <2>4, <2>5, <2>6
<1>6. ToldOn(i)'
  BY <1>2, <1>3 DEF Told, ToldOn, Says, Unmoved
<1>7. SpeakingOn(i)'
  <2> SUFFICES ASSUME Sure', Hearing(i), Speaks(i)', Known(i),
                      pending' \subseteq IdsOf(sockets'[i]), Silent(sockets'[i].down)
               PROVE  sockets'[i].carries.call <=> told' = "in"
    BY <1>2 DEF SpeakingOn
  <2>1. Sure /\ Speaks(i) /\ ~Effective(m) /\ Silent(sockets[i].down)
        /\ sockets[i].carries.connection \notin taken'
    BY <1>2, <1>3 DEF Sure, Unmoved, Known
  <2>2. m.what = "conflict" /\ pending \subseteq IdsOf(sockets[i]) /\ UNCHANGED told
    BY <2>1 DEF Says, Unmoved, Effective
  <2> QED BY <1>2, <2>1, <2>2 DEF Speaking, SpeakingOn, Says
<1>8. FreshOn(i)'
  <2> SUFFICES ASSUME Hearing(i), Speaks(i)', ~Known(i), ~Strays(i), Silent(sockets'[i].down)
               PROVE  ~call
    BY <1>2 DEF FreshOn, Says
  <2>1. ~sockets[i].carries.call
    BY <1>2, <1>3 DEF Fresh, FreshOn
  <2>2. Open(i) /\ ~Effective(m)
    BY <1>2, <1>3
  <2> QED BY <2>1, <2>2 DEF Says, Effective
<1> QED BY <1>4, <1>5, <1>6, <1>7, <1>8

LEMMA SameOn ==
  ASSUME Understood, Unmoved, NEW i \in Sockets, sockets'[i] = sockets[i]
  PROVE  HeardOn(i)' /\ LastWordOn(i)' /\ ToldOn(i)' /\ SpeakingOn(i)' /\ FreshOn(i)'
<1>a. (Strays(i)' <=> Strays(i)) /\ (Speaks(i)' => Speaks(i))
  BY DEF Unmoved, Strays, Speaks, Open
<1>1. HeardOn(i)' /\ LastWordOn(i)'
  BY <1>a DEF Understood, Unmoved, Heard, HeardOn, Hearing, LastWord, LastWordOn
<1>2. ToldOn(i)' /\ FreshOn(i)'
  BY <1>a DEF Understood, Unmoved, Told, ToldOn, Fresh, FreshOn, Hearing, Known
<1>3. SpeakingOn(i)'
  BY <1>a DEF Understood, Unmoved, Speaking, SpeakingOn, Sure, Hearing, Known
<1> QED BY <1>1, <1>2, <1>3

LEMMA SaidUnderstood ==
  ASSUME TypeOK, Shapes, Understood, Unmoved,
         \A i \in Sockets : sockets'[i] = sockets[i] \/ \E m, call : Says(i, m, call),
         \A c \in Connections : records'[c] \in {records[c], None}
  PROVE  Understood'
<1> USE DEF Understood
<1>1. \A i \in Sockets :
        HeardOn(i)' /\ LastWordOn(i)' /\ ToldOn(i)' /\ SpeakingOn(i)' /\ FreshOn(i)'
  BY SameOn, SaysOn
<1>2. \A i \in Sockets :
        /\ sockets'[i].client = sockets[i].client /\ sockets'[i].server = sockets[i].server
        /\ (sockets'[i].broken <=> sockets[i].broken) /\ sockets'[i].asks = sockets[i].asks
        /\ sockets'[i].carries.connection = sockets[i].carries.connection
        /\ sockets'[i].carries.epoch = sockets[i].carries.epoch
        /\ IdsOf(sockets'[i]) \subseteq IdsOf(sockets[i])
  BY DEF Says
<1>3. \A i \in Sockets :
        /\ Live(sockets'[i]) <=> Live(sockets[i])
        /\ Listens(sockets'[i]) <=> Listens(sockets[i])
        /\ Holds(sockets'[i]) <=> Holds(sockets[i])
  BY <1>2 DEF Live, Listens, Holds
<1>4. UNCHANGED <<client, stored, pending, told, revoked, astray>> /\ taken \subseteq taken'
  BY DEF Unmoved
<1>5. Unheeded'
  <2>1. \A i \in Sockets :
          sockets[i].server \in {"closed", "replaced"} => sockets'[i] = sockets[i]
    BY DEF Says, Holds
  <2> QED BY <1>2, <1>3, <2>1 DEF Unheeded
<1>6. AsksNext' /\ NoneAhead' /\ NoneReplaces'
  BY <1>2, <1>3, <1>4 DEF AsksNext, NoneAhead, NoneReplaces, Current, Asks
<1>7. Waits' /\ Away' /\ Ending'
  BY <1>2, <1>3, <1>4 DEF Waits, Away, Ending, EndingOn, Known, Current, Strays
<1>8. Agreed'
  <2> SUFFICES ASSUME Sure', pending = {} PROVE Agreed'
    BY <1>4 DEF Agreed
  <2>1. /\ Sure /\ client.identity # None /\ client.identity.connection \in Connections
        /\ client.identity.connection \notin taken' \cup astray
    BY <1>4 DEF Sure, TypeOK, Client, Identity
  <2>2. ASSUME NEW j \in Sockets, Holds(sockets[j]), Known(j) PROVE sockets'[j] = sockets[j]
    <3>1. IdsOf(sockets[j]) = {}
      BY <2>1, <2>2 DEF Waits, Sure, Strays, Known
    <3> QED BY <2>1, <2>2, <3>1 DEF Says, Known
  <2>3. \A j \in Sockets : Counts(sockets[j])' /\ Known(j)'
          => (sockets'[j].carries.call <=> told' = "in")
    BY <1>2, <1>3, <1>4, <2>1, <2>2 DEF Agreed, Known, Counts
  <2>4. ~revoked' /\ records'[client.identity.connection] # None =>
          (records'[client.identity.connection].call <=> told' = "in")
    BY <1>4, <2>1 DEF Agreed
  <2> QED BY <1>4, <2>3, <2>4 DEF Agreed
<1> QED BY <1>1, <1>5, <1>6, <1>7, <1>8 DEF Heard, LastWord, Told, Speaking, Fresh

LEMMA ServerHearsUnderstood ==
  ASSUME Kept, NEW k \in Sockets, ServerHears(k), Understood
  PROVE  Understood'
<1> USE DEF Kept
<1>1. /\ sockets[k].server \in {"open", "closing", "cut"} /\ sockets[k].up # <<>>
      /\ sockets[k].carries \in Carried
      /\ UNCHANGED <<client, stored, pending, told, revoked, astray>>
      /\ \/ AnswersAlone(k)
         \/ \E j \in Sockets : AnswersTaking(k, j)
         \/ \E c \in Connections : AnswersTakingRecord(k, c)
  BY ServerHearsDoes
<1>a. taken \subseteq taken' /\ (Open(k) \/ sockets[k].carries.connection \in taken')
  BY <1>1 DEF AnswersAlone, AnswersTaking, AnswersTakingRecord, Unanswered
<1>2. CASE AnswersAlone(k)
  <2>1. PICK what \in {"joined", "left", "conflict"} :
          Answered(k, what, IF what = "conflict" THEN sockets[k].carries.call ELSE what = "joined")
    BY <1>2 DEF AnswersAlone
  <2>2. (IF what = "conflict" THEN sockets[k].carries.call ELSE what = "joined") \in BOOLEAN
    BY <1>1 DEF Carried
  <2>3. \E m, call : Says(k, m, call)
    BY <1>1, <1>a, <2>1, <2>2, AnsweredSays
  <2> QED BY <1>1, <1>2, <1>a, <2>3, SaidUnderstood DEF AnswersAlone, Unmoved
<1>3. ASSUME Answered(k, "joined", TRUE) PROVE \E m, call : Says(k, m, call)
  BY <1>1, <1>3, <1>a, AnsweredSays
<1>4. CASE \E j \in Sockets : AnswersTaking(k, j)
  <2>1. PICK j \in Sockets : AnswersTaking(k, j)
    BY <1>4
  <2>2. \E m, call : Says(j, m, call)
    BY <2>1, LosingSays DEF AnswersTaking, Open
  <2> QED BY <1>1, <1>3, <1>a, <2>1, <2>2, SaidUnderstood DEF AnswersTaking, Unmoved
<1>5. CASE \E c \in Connections : AnswersTakingRecord(k, c)
  <2>1. PICK c \in Connections : AnswersTakingRecord(k, c)
    BY <1>5
  <2>2. \A d \in Connections : records'[d] \in {records[d], None}
    BY <2>1 DEF AnswersTakingRecord, TypeOK
  <2> QED BY <1>1, <1>3, <1>a, <2>1, <2>2, SaidUnderstood DEF AnswersTakingRecord, Unmoved
<1> QED BY <1>1, <1>2, <1>4, <1>5

LEMMA OustsUnderstood ==
  ASSUME Kept, NEW j \in Sockets, TakenElsewhere(j) \/ Evicts(j), Understood
  PROVE  Understood'
<1> USE DEF Kept
<1>1. /\ sockets[j].server \in {"open", "closing", "cut"} /\ Losing(j)
      /\ \A i \in Sockets \ {j} : sockets'[i] = sockets[i]
      /\ taken' = taken \cup {sockets[j].carries.connection}
  BY TakenElsewhereDoes, EvictsDoes DEF Open
<1>2. UNCHANGED <<client, stored, pending, told, revoked, records, astray>>
  BY DEF TakenElsewhere, Evicts, check
<1>3. \E m, call : Says(j, m, call)
  BY <1>1, LosingSays
<1> QED BY <1>1, <1>2, <1>3, SaidUnderstood DEF Unmoved

(* The session ends: nothing is promised of the call from then on.           *)
LEMMA SessionEndsUnderstood ==
  ASSUME Kept, SessionEnds, Understood
  PROVE  Understood'
<1> USE DEF Kept, Understood
<1>1. UNCHANGED <<client, stored, records, pending, told, taken, astray>> /\ revoked'
  BY DEF SessionEnds, check
<1>2. PICK ended : ended = Notice("ended")
  OBVIOUS
<1>3. ended \in Message /\ ended.what = "ended" /\ ended.id = None
  BY <1>2, NoticeIs
<1>4. \A i \in Sockets :
        \/ sockets'[i] = sockets[i] /\ ~Open(i)
        \/ /\ Open(i) /\ sockets'[i].server = "closing"
           /\ sockets'[i].client = sockets[i].client /\ (sockets'[i].broken <=> sockets[i].broken)
           /\ sockets'[i].asks = sockets[i].asks /\ sockets'[i].carries = sockets[i].carries
           /\ sockets'[i].down = Sent(sockets[i], ended) /\ sockets'[i].up = sockets[i].up
  BY <1>2, SessionEndsDoes DEF Turns, Open
<1>5. \A i \in Sockets :
        /\ Live(sockets'[i]) <=> Live(sockets[i])
        /\ Listens(sockets'[i]) <=> Listens(sockets[i])
        /\ Holds(sockets'[i]) <=> Holds(sockets[i])
        /\ sockets'[i].carries = sockets[i].carries /\ sockets'[i].asks = sockets[i].asks
        /\ sockets'[i].server # "open"
        /\ sockets'[i].server = sockets[i].server \/ Open(i)
  BY <1>4 DEF Live, Listens, Holds, Open
<1>6. ASSUME NEW i \in Sockets
      PROVE  /\ Kinds(sockets[i].down) \subseteq Kinds(sockets'[i].down)
             /\ Kinds(sockets'[i].down) \subseteq Kinds(sockets[i].down) \cup {"ended"}
             /\ IdsOf(sockets'[i]) \subseteq IdsOf(sockets[i])
  <2>1. CASE sockets'[i] = sockets[i]
    BY <2>1
  <2>2. CASE sockets'[i].down = Sent(sockets[i], ended) /\ sockets'[i].up = sockets[i].up
    <3>1. /\ Kinds(sockets[i].down) \subseteq Kinds(sockets'[i].down)
          /\ Kinds(sockets'[i].down) \subseteq Kinds(sockets[i].down) \cup {"ended"}
          /\ Ids(sockets'[i].down) \subseteq Ids(sockets[i].down)
      BY <1>3, <2>2, SentSays DEF TypeOK
    <3> QED BY <2>2, <3>1 DEF IdsOf
  <2> QED BY <1>4, <2>1, <2>2
<1>7. Unheeded'
  BY <1>4, <1>5 DEF Unheeded
<1>8. AsksNext' /\ NoneAhead' /\ NoneReplaces'
  BY <1>1, <1>5 DEF AsksNext, NoneAhead, NoneReplaces, Current, Asks
<1>9. Heard'
  BY <1>1, <1>5, <1>6 DEF Heard, HeardOn, Hearing, Open
<1>10. Waits' /\ Away'
  BY <1>1, <1>5, <1>6 DEF Waits, Away, Known, Strays
<1>a. \A i \in Sockets : Speaks(i)' => Speaks(i) /\ sockets'[i] = sockets[i]
  BY <1>1, <1>4 DEF Speaks, Open
<1>b. Ending'
  BY <1>1 DEF Ending, EndingOn
<1>c. LastWord'
  BY <1>1, <1>a DEF LastWord, LastWordOn, Strays
<1>11. Speaking'
  BY <1>1, <1>a DEF Speaking, SpeakingOn, Sure, Hearing, Known
<1>12. Told'
  BY <1>1, <1>5, <1>6 DEF Told, ToldOn
<1>13. Fresh'
  BY <1>1, <1>4, <1>a DEF Fresh, FreshOn, Hearing, Known, Strays
<1>14. Agreed'
  <2> SUFFICES ASSUME Sure, pending = {} PROVE Agreed'
    BY <1>1 DEF Agreed, Sure
  <2>1. ~revoked
    BY DEF SessionEnds
  <2>2. \A j \in Sockets : Counts(sockets[j])' /\ Known(j)' => Counts(sockets[j]) /\ Known(j)
    BY <1>1, <1>5, <2>1 DEF Counts, Known
  <2> QED BY <1>1, <1>5, <2>2 DEF Agreed
<1> QED BY <1>7, <1>8, <1>9, <1>10, <1>b, <1>c, <1>11, <1>12, <1>13, <1>14
-----------------------------------------------------------------------------
(* What the tab hears.                                                      *)
LEMMA RestIs ==
  ASSUME NEW S, NEW q, q \in Seq(S), q # <<>>
  PROVE  /\ Ids(Tail(q)) \subseteq Ids(q) /\ Kinds(Tail(q)) \subseteq Kinds(q)
         /\ Kinds(q) \subseteq Kinds(Tail(q)) \cup {Head(q).what}
         /\ Head(q).id # None => Head(q).id \in Ids(q)
         /\ Silent(Tail(q)) => \A n \in DOMAIN q : n > 1 => ~Effective(q[n])
         /\ Silent(Tail(q)) /\ ~Effective(Head(q)) => Silent(q)
<1>1. /\ Head(q) = q[1] /\ 1 \in DOMAIN q
      /\ \A n \in DOMAIN Tail(q) : n + 1 \in DOMAIN q /\ Tail(q)[n] = q[n + 1]
      /\ \A n \in DOMAIN q : n = 1 \/ n - 1 \in DOMAIN Tail(q)
      /\ \A n \in DOMAIN q : n = 1 \/ q[n] = Tail(q)[n - 1]
  OBVIOUS
<1>2. Ids(Tail(q)) \subseteq Ids(q) /\ (Head(q).id # None => Head(q).id \in Ids(q))
  BY <1>1 DEF Ids
<1>3. Kinds(Tail(q)) \subseteq Kinds(q) /\ Kinds(q) \subseteq Kinds(Tail(q)) \cup {Head(q).what}
  BY <1>1 DEF Kinds
<1>4. /\ Silent(Tail(q)) => \A n \in DOMAIN q : n > 1 => ~Effective(q[n])
      /\ Silent(Tail(q)) /\ ~Effective(Head(q)) => Silent(q)
  BY <1>1 DEF Silent
<1> QED BY <1>2, <1>3, <1>4

LEMMA RestLast ==
  ASSUME NEW S, NEW q, q \in Seq(S), q # <<>>, NEW n \in DOMAIN Tail(q),
         \A i \in DOMAIN Tail(q) : i > n => ~Effective(Tail(q)[i])
  PROVE  /\ n + 1 \in DOMAIN q /\ q[n + 1] = Tail(q)[n]
         /\ \A i \in DOMAIN q : i > n + 1 => ~Effective(q[i])
<1>1. n + 1 \in DOMAIN q /\ q[n + 1] = Tail(q)[n]
  OBVIOUS
<1>2. ASSUME NEW i \in DOMAIN q, i > n + 1 PROVE ~Effective(q[i])
  <2>1. i - 1 \in DOMAIN Tail(q) /\ i - 1 > n /\ Tail(q)[i - 1] = q[i]
    BY <1>2
  <2> QED BY <2>1
<1> QED BY <1>1, <1>2

(* What is left of a queue when no answer and no loss is in it.              *)
LEMMA NothingSaid ==
  ASSUME NEW x, x \in Socket, Shape(x), x.down # <<>>,
         Ids(Tail(x.down)) = {}, {"replaced", "evicted"} \cap Kinds(Tail(x.down)) = {}
  PROVE  Silent(Tail(x.down))
<1>1. x.down \in Seq(Message)
  BY DEF Socket
<1>2. \A n \in DOMAIN Tail(x.down) : n + 1 \in DOMAIN x.down /\ Tail(x.down)[n] = x.down[n + 1]
  BY <1>1
<1>3. \A n \in DOMAIN Tail(x.down) : Tail(x.down)[n].id = None <=> Plain(Tail(x.down)[n])
  BY <1>2 DEF Shape
<1> QED BY <1>3 DEF Silent, Effective, Plain, Ids, Kinds

AloneOn(k) ==
  /\ records[sockets[k].carries.connection] = None
  /\ \A j \in Sockets : /\ Holds(sockets[j])
                        /\ sockets[j].carries.connection = sockets[k].carries.connection
                        => j = k

LEMMA HeardBy ==
  ASSUME Kept, Understood, NEW k \in Sockets, Hears(k)
  PROVE  /\ k = client.current /\ Current(k) /\ Hearing(k) /\ client.active
         /\ sockets[k].server \in {"open", "closing", "cut"} /\ Holds(sockets[k])
         /\ sockets[k].carries \in Carried
         /\ ~Strays(k) => AloneOn(k)
<1> USE DEF Kept, Understood
<1>1. sockets[k].client = "open" /\ ~sockets[k].broken /\ sockets[k].down # <<>>
  BY HearsDoes
<1>2. k = client.current /\ Current(k) /\ Hearing(k) /\ Listens(sockets[k])
  BY <1>1 DEF OneLive, Live, Current, Hearing, Listens
<1>3. client.active
  BY <1>2, NoneIsNone DEF Tab
<1>4. sockets[k].server \in {"open", "closing", "cut"}
  BY <1>1, <1>2 DEF Shapes, Shape, Unheeded, TypeOK, Socket, Servers
<1>5. Holds(sockets[k])
  BY <1>4 DEF Holds
<1>6. sockets[k].carries \in Carried
  BY <1>5 DEF Shapes, Shape, TypeOK, Socket
<1>7. ~Strays(k) => AloneOn(k)
  BY <1>5, <1>6 DEF OneHolder, Carries, Strays, AloneOn, Carried
<1> QED BY <1>2, <1>3, <1>4, <1>5, <1>6, <1>7

(* What does not depend on the message.                                     *)
HearsIt(k) ==
  /\ sockets'[k].server = sockets[k].server /\ ~sockets'[k].broken
  /\ sockets'[k].asks = None /\ sockets'[k].carries = sockets[k].carries
  /\ sockets'[k].down = Tail(sockets[k].down) /\ sockets'[k].up = sockets[k].up
  /\ \A i \in Sockets \ {k} : sockets'[i] = sockets[i]
  /\ client'.current = k /\ client'.active
  /\ UNCHANGED <<records, revoked, astray>>

LEMMA HearsFields ==
  ASSUME Kept, Understood, NEW k \in Sockets, Hears(k)
  PROVE  /\ HearsIt(k)
         /\ sockets'[k].client = IF Head(sockets[k].down).what = "ended" THEN "gone" ELSE "open"
<1> USE DEF Kept
<1>1. /\ Becomes(k, IF Head(sockets[k].down).what = "ended" THEN "gone" ELSE "open",
                 sockets[k].server, FALSE, None, sockets[k].carries,
                 Tail(sockets[k].down), sockets[k].up)
      /\ UNCHANGED <<records, revoked, astray>>
  BY HearsDoes
<1>2. client'.current = k /\ client'.active
  BY HearsDoes, HeardBy DEF Same, HearsReady, HearsEnded, Learns
<1> QED BY <1>1, <1>2, HeardBy DEF Becomes, Turns, HearsIt

(* A word of the call that is heard settles what was taken, for a transport      *)
(* that the server has open; no other transport has anything left to say.     *)
LEMMA HearsTakes ==
  ASSUME Kept, Understood, NEW k \in Sockets, Hears(k)
  PROVE  /\ \/ UNCHANGED taken
            \/ Open(k) /\ taken' = taken \ {sockets[k].carries.connection}
         /\ \A i \in Sockets \ {k} : sockets[i].down = <<>>
<1> USE DEF Kept
<1>1. \/ UNCHANGED taken
      \/ Open(k) /\ taken' = taken \ {sockets[k].carries.connection}
  BY HearsDoes DEF Same, HearsReady, HearsEnded, Learns
<1>2. k = client.current
  BY HeardBy
<1>3. \A i \in Sockets \ {k} : ~Live(sockets[i]) /\ ~Listens(sockets[i])
  BY <1>2 DEF OneLive, Live, Listens
<1> QED BY <1>1, <1>3 DEF Shapes, Shape

LEMMA HearsOn ==
  ASSUME Kept, Understood, NEW k \in Sockets, Hears(k)
  PROVE  /\ Unheeded' /\ AsksNext' /\ Away' /\ LastWord' /\ Ending' /\ NoneReplaces'
         /\ \A i \in Sockets \ {k} : ~Hearing(i)'
         /\ IdsOf(sockets'[k]) \subseteq IdsOf(sockets[k])
<1> USE DEF Kept, Understood
<1>1. HearsIt(k) /\ sockets[k].down # <<>> /\ sockets[k].down \in Seq(Message)
      /\ sockets[k].server \in {"open", "closing", "cut"} /\ Holds(sockets[k]) /\ Current(k)
  BY HearsFields, HeardBy, HearsDoes DEF TypeOK, Socket
<1>2. \A i \in Sockets \ {k} : ~Current(i)' /\ ~Hearing(i)'
  BY <1>1 DEF HearsIt, Current, Hearing
<1>3. Unheeded'
  BY <1>1 DEF HearsIt, Unheeded
<1>4. AsksNext' /\ Away'
  BY <1>1, <1>2 DEF HearsIt, AsksNext, Away
<1>a. \A i \in Sockets : /\ Strays(i)' <=> Strays(i)
                         /\ i # k => (Speaks(i)' => Speaks(i)) \/ sockets[i].down = <<>>
                         /\ Speaks(k)' => Speaks(k)
  BY <1>1, HearsTakes DEF HearsIt, Strays, Speaks, Open
<1>5. LastWord'
  <2>1. \A i \in Sockets \ {k} : LastWordOn(i)'
    BY <1>1, <1>a DEF HearsIt, LastWord, LastWordOn
  <2>2. LastWordOn(k)'
    <3>1. PICK s : s = Tail(sockets[k].down)
      OBVIOUS
    <3>2. /\ sockets'[k].down = s /\ sockets'[k].carries = sockets[k].carries
      BY <1>1, <3>1 DEF HearsIt
    <3> SUFFICES ASSUME Speaks(k)', ~Strays(k)', NEW n \in DOMAIN s, Effective(s[n]),
                        \A i \in DOMAIN s : i > n => ~Effective(s[i])
                 PROVE  sockets[k].carries.call <=> s[n].what = "joined"
      BY <3>2 DEF LastWordOn
    <3>3. /\ n + 1 \in DOMAIN sockets[k].down /\ sockets[k].down[n + 1] = s[n]
          /\ \A i \in DOMAIN sockets[k].down : i > n + 1 => ~Effective(sockets[k].down[i])
      BY <1>1, <3>1, RestLast
    <3> QED BY <1>a, <3>3 DEF LastWord, LastWordOn
  <2> QED BY <2>1, <2>2 DEF LastWord
<1>6. Ending'
  BY <1>1, <1>2 DEF HearsIt, Ending, EndingOn
<1>7. NoneReplaces'
  <2> SUFFICES ASSUME NEW j \in Sockets, Asks(j, sockets[k].carries.connection)'
               PROVE  sockets'[j].asks.epoch <= sockets[k].carries.epoch
    BY <1>1, <1>2 DEF NoneReplaces, HearsIt, Asks
  <2> QED BY <1>1 DEF NoneReplaces, HearsIt, Asks
<1>8. IdsOf(sockets'[k]) \subseteq IdsOf(sockets[k])
  BY <1>1, RestIs DEF HearsIt, IdsOf
<1> QED BY <1>2, <1>3, <1>4, <1>5, <1>6, <1>7, <1>8
LEMMA HearsAgreed ==
  ASSUME Kept, Understood, NEW k \in Sockets, Hears(k), Head(sockets[k].down).what # "ended",
         Known(k)', SpeakingOn(k)', Waits', Told'
  PROVE  Agreed'
<1> USE DEF Kept
<1>1. /\ HearsIt(k) /\ sockets'[k].client = "open" /\ sockets[k].down # <<>>
      /\ sockets[k].server \in {"open", "closing", "cut"} /\ Current(k)
      /\ ~Strays(k) => AloneOn(k)
  BY HearsFields, HeardBy, HearsDoes
<1> SUFFICES ASSUME Sure', pending' = {}
             PROVE  Agreed'
  BY DEF Agreed
<1>2. /\ client'.identity.connection = sockets[k].carries.connection
      /\ sockets[k].carries.connection \notin taken' \cup astray
  BY <1>1 DEF Known, HearsIt, Sure
<1>a. AloneOn(k)
  BY <1>1, <1>2 DEF Strays
<1>3. records'[client'.identity.connection] = None
  BY <1>1, <1>2, <1>a DEF HearsIt, AloneOn
<1>4. ASSUME NEW j \in Sockets, Counts(sockets[j])', Known(j)'
      PROVE  j = k /\ Speaks(k)'
  <2>1. Holds(sockets'[j]) /\ sockets'[j].carries.connection = sockets[k].carries.connection
    BY <1>2, <1>4 DEF Counts, Known
  <2>2. Holds(sockets[j]) /\ sockets[j].carries.connection = sockets[k].carries.connection
    BY <1>1, <2>1 DEF HearsIt, Holds
  <2>3. j = k
    BY <1>a, <2>2 DEF AloneOn
  <2>4. sockets[k].server \in {"open", "cut"}
    BY <1>1, <1>4, <2>3 DEF Counts, HearsIt, Understood, Ending, EndingOn
  <2> QED BY <1>1, <1>2, <2>3, <2>4 DEF Speaks, Open, HearsIt
<1>5. ASSUME Speaks(k)' PROVE sockets'[k].carries.call <=> told' = "in"
  <2>1. IdsOf(sockets'[k]) = {}
    BY <1>1 DEF Waits, Sure, HearsIt
  <2>2. {"replaced", "evicted"} \cap Kinds(sockets'[k].down) = {}
    BY <1>1, <1>2 DEF Told, ToldOn, Holds, HearsIt
  <2>3. /\ Ids(Tail(sockets[k].down)) = {}
        /\ {"replaced", "evicted"} \cap Kinds(Tail(sockets[k].down)) = {}
    BY <1>1, <2>1, <2>2 DEF HearsIt, IdsOf
  <2>4. Silent(Tail(sockets[k].down))
    BY <1>1, <2>3, NothingSaid DEF Shapes, TypeOK
  <2>5. Silent(sockets[k].down)' /\ Hearing(k)'
    BY <1>1, <2>4 DEF HearsIt, Hearing, Listens, Silent
  <2> QED BY <1>5, <2>1, <2>5 DEF SpeakingOn
<1> QED BY <1>3, <1>4, <1>5 DEF Agreed

LEMMA ReadyUnderstood ==
  ASSUME Kept, Understood, NEW k \in Sockets, Hears(k),
         Head(sockets[k].down).what = "ready", HearsReady(k)
  PROVE  Understood'
<1> USE DEF Kept
<1>1. /\ HearsIt(k) /\ sockets'[k].client = "open" /\ sockets[k].down # <<>>
      /\ sockets[k].down \in Seq(Message) /\ Current(k) /\ Hearing(k) /\ Holds(sockets[k])
      /\ sockets[k].server \in {"open", "closing", "cut"} /\ sockets[k].carries \in Carried
      /\ ~Strays(k) => AloneOn(k)
  BY HearsFields, HeardBy, HearsDoes DEF TypeOK, Socket
<1>2. /\ Unheeded' /\ AsksNext' /\ Away' /\ LastWord' /\ Ending' /\ NoneReplaces'
      /\ \A i \in Sockets \ {k} : ~Hearing(i)'
      /\ IdsOf(sockets'[k]) \subseteq IdsOf(sockets[k])
  BY HearsOn
<1>3. /\ client'.identity # None
      /\ client'.identity.connection = sockets[k].carries.connection
      /\ client'.identity.epoch = sockets[k].carries.epoch
      /\ stored' = client'.identity /\ UNCHANGED <<pending, taken>>
      /\ Known(k)'
  <2>1. client'.identity \in Identity
    BY <1>1 DEF HearsReady, Carried, Identity
  <2>2. client'.identity # None
    BY <2>1, NoneIsNone
  <2> QED BY <1>1, <2>2 DEF HearsReady, Known, HearsIt
<1>4. NoneAhead'
  <2> SUFFICES ASSUME NEW j \in Sockets, Asks(j, stored.connection)'
               PROVE  sockets'[j].asks.epoch <= stored'.epoch + 1
    BY DEF NoneAhead
  <2>1. j # k /\ sockets'[j] = sockets[j] /\ Asks(j, sockets[k].carries.connection)
    BY <1>1, <1>3 DEF HearsIt, Asks
  <2>2. sockets[j].asks.epoch <= sockets[k].carries.epoch
    BY <1>1, <2>1 DEF Understood, NoneReplaces
  <2>3. sockets[j].asks.epoch \in Nat /\ sockets[k].carries.epoch \in Nat
    BY <1>1, <2>1 DEF TypeOK, Socket, Identity, Carried, Asks
  <2> QED BY <1>3, <2>1, <2>2, <2>3
<1>5. Heard'
  BY <1>1, <1>2 DEF Heard, HeardOn, HearsReady, HearsIt
<1>6. Waits'
  <2> SUFFICES ASSUME told' # "unknown", NEW j \in Sockets,
                      \/ j = k
                      \/ Holds(sockets'[j]) /\ Known(j)' /\ ~Strays(j)'
               PROVE  IdsOf(sockets'[j]) \subseteq pending
    BY <1>1, <1>3 DEF Waits, HearsIt
  <2>1. j = k
    BY <1>1, <1>3 DEF Known, HearsIt, AloneOn, Strays
  <2>2. told # "unknown"
    BY DEF HearsReady
  <2> QED BY <1>1, <1>2, <2>1, <2>2 DEF Understood, Waits, Current
<1>7. Told'
  <2>1. Kinds(sockets'[k].down) \subseteq Kinds(sockets[k].down)
    BY <1>1, RestIs DEF HearsIt
  <2>2. ToldOn(k)'
    BY <1>1, <1>3, <2>1 DEF Understood, Told, ToldOn, HearsIt
  <2>3. \A i \in Sockets \ {k} : ToldOn(i)'
    BY <1>1, <1>3 DEF Understood, Told, ToldOn, HearsIt
  <2> QED BY <2>2, <2>3 DEF Told
<1>8. SpeakingOn(k)'
  <2> SUFFICES ASSUME Sure', Speaks(k)', pending \subseteq IdsOf(sockets'[k]),
                      Silent(sockets[k].down)'
               PROVE  sockets[k].carries.call <=> told' = "in"
    BY <1>1, <1>3 DEF SpeakingOn, HearsIt
  <2>1. /\ pending \subseteq IdsOf(sockets[k]) /\ Speaks(k) /\ told # "unknown"
        /\ ~Strays(k)
    BY <1>1, <1>2, <1>3 DEF HearsIt, Speaks, Open, HearsReady, Sure, Strays
  <2>2. Silent(sockets[k].down)
    <3>1. Silent(Tail(sockets[k].down))
      BY <1>1 DEF Silent, HearsIt
    <3> QED BY <1>1, <3>1, RestIs DEF Effective
  <2>3. CASE Known(k)
    <3>1. told' = told /\ Sure
      BY <1>1, <1>3, <2>1, <2>3 DEF HearsReady, Known, Sure, HearsIt
    <3> QED BY <1>1, <2>1, <2>2, <2>3, <3>1 DEF Understood, Speaking, SpeakingOn
  <2>4. CASE ~Known(k)
    <3>1. told' = "out"
      BY <2>1, <2>4 DEF HearsReady, Known
    <3>2. ~sockets[k].carries.call
      BY <1>1, <2>1, <2>2, <2>4 DEF Understood, Fresh, FreshOn
    <3> QED BY <3>1, <3>2
  <2> QED BY <2>3, <2>4
<1>9. Speaking' /\ Fresh'
  BY <1>2, <1>3, <1>8 DEF Speaking, SpeakingOn, Fresh, FreshOn
<1>10. Agreed'
  BY <1>3, <1>6, <1>7, <1>8, HearsAgreed
<1> QED BY <1>2, <1>4, <1>5, <1>6, <1>7, <1>9, <1>10 DEF Understood
LEMMA EndedUnderstood ==
  ASSUME Kept, Understood, NEW k \in Sockets, Hears(k),
         Head(sockets[k].down).what = "ended", HearsEnded(k)
  PROVE  Understood'
<1> USE DEF Kept
<1>1. /\ HearsIt(k) /\ sockets'[k].client = "gone" /\ sockets[k].down # <<>>
      /\ sockets[k].down \in Seq(Message) /\ Current(k)
  BY HearsFields, HeardBy, HearsDoes DEF TypeOK, Socket
<1>2. /\ Unheeded' /\ AsksNext' /\ Away' /\ LastWord' /\ Ending' /\ NoneReplaces'
      /\ \A i \in Sockets \ {k} : ~Hearing(i)'
      /\ IdsOf(sockets'[k]) \subseteq IdsOf(sockets[k])
  BY HearsOn
<1>3. client'.identity = None /\ stored' = None /\ UNCHANGED <<pending, told, taken>>
  BY DEF HearsEnded
<1>4. \A i \in Sockets : ~Hearing(i)' /\ ~Known(i)'
  BY <1>1, <1>2, <1>3 DEF Hearing, Listens, Known
<1>5. NoneAhead'
  BY <1>3 DEF NoneAhead
<1>6. Heard' /\ Speaking' /\ Fresh' /\ Agreed'
  BY <1>3, <1>4 DEF Heard, HeardOn, Speaking, SpeakingOn, Fresh, FreshOn, Agreed, Sure
<1>7. Waits'
  BY <1>1, <1>2, <1>3, <1>4 DEF Understood, Waits, HearsIt, Current
<1>8. Told'
  <2>1. Kinds(sockets'[k].down) \subseteq Kinds(sockets[k].down)
    BY <1>1, RestIs DEF HearsIt
  <2> QED BY <1>1, <1>3, <2>1 DEF Understood, Told, ToldOn, HearsIt, Holds
<1> QED BY <1>2, <1>5, <1>6, <1>7, <1>8 DEF Understood

LEMMA LearnsUnderstood ==
  ASSUME Kept, Understood, NEW k \in Sockets, Hears(k),
         NEW m, m = Head(sockets[k].down), m.what \notin {"ready", "ended"}, Learns(k, m)
  PROVE  Understood'
<1> USE DEF Kept
<1>1. /\ HearsIt(k) /\ sockets'[k].client = "open" /\ sockets[k].down # <<>>
      /\ sockets[k].down \in Seq(Message) /\ m \in Message
      /\ Current(k) /\ Hearing(k) /\ Holds(sockets[k])
      /\ sockets[k].server \in {"open", "closing", "cut"} /\ sockets[k].carries \in Carried
      /\ ~Strays(k) => AloneOn(k)
  BY HearsFields, HeardBy, HearsDoes DEF TypeOK, Socket
<1>2. /\ Unheeded' /\ AsksNext' /\ Away' /\ LastWord' /\ Ending' /\ NoneReplaces'
      /\ \A i \in Sockets \ {k} : ~Hearing(i)'
      /\ IdsOf(sockets'[k]) \subseteq IdsOf(sockets[k])
  BY HearsOn
<1>3. PICK rest : rest = Tail(sockets[k].down)
  OBVIOUS
<1>4. /\ UNCHANGED <<client, stored>> /\ pending' = pending \ {m.id}
      /\ taken' = IF \/ m.what \in {"conflict", "evicted"} \/ ~Open(k)
                     \/ {"replaced", "evicted"} \cap Kinds(rest) # {} THEN taken
                  ELSE taken \ {sockets[k].carries.connection}
      /\ told' = IF ~(Ids(sockets[k].up) \cup Ids(rest) \subseteq pending') THEN "unknown"
                 ELSE IF \/ m.what \in {"conflict", "evicted"}
                         \/ m.id \notin pending \cup {None} THEN told
                 ELSE IF m.what = "joined" THEN "in" ELSE "out"
  BY <1>3 DEF Learns
<1>5. /\ sockets'[k].down = rest /\ sockets'[k].up = sockets[k].up
      /\ sockets'[k].carries = sockets[k].carries /\ sockets'[k].server = sockets[k].server
      /\ \A i \in Sockets \ {k} : sockets'[i] = sockets[i]
      /\ \A i \in Sockets : Known(i)' <=> Known(i)
      /\ client'.current = k
  <2>1. /\ sockets'[k].down = rest /\ sockets'[k].up = sockets[k].up
        /\ sockets'[k].carries = sockets[k].carries /\ sockets'[k].server = sockets[k].server
        /\ \A i \in Sockets \ {k} : sockets'[i] = sockets[i]
        /\ client'.current = k
    BY <1>1, <1>3 DEF HearsIt
  <2> QED BY <1>4, <2>1 DEF Known
<1>6. /\ client.identity = [connection |-> sockets[k].carries.connection,
                            epoch |-> sockets[k].carries.epoch]
      /\ Known(k)
  <2>1. "ready" \notin Kinds(sockets[k].down)
    <3>1. sockets[k].down[1] = m /\ 1 \in DOMAIN sockets[k].down
      BY <1>1
    <3> QED BY <3>1 DEF Shapes, Shape, Kinds
  <2>2. /\ client.identity = [connection |-> sockets[k].carries.connection,
                              epoch |-> sockets[k].carries.epoch]
    BY <1>1, <2>1 DEF Understood, Heard, HeardOn
  <2>3. client.identity \in Identity
    BY <1>1, <2>2 DEF Carried, Identity
  <2> QED BY <2>2, <2>3, NoneIsNone DEF Known
<1>7. \A j \in Sockets : Holds(sockets[j]) /\ Known(j) /\ ~Strays(j) => j = k
  BY <1>1, <1>6 DEF Known, AloneOn, Strays
<1>8. /\ Kinds(rest) \subseteq Kinds(sockets[k].down)
      /\ Silent(rest) => \A n \in DOMAIN sockets[k].down : n > 1 => ~Effective(sockets[k].down[n])
      /\ Silent(rest) /\ ~Effective(m) => Silent(sockets[k].down)
      /\ m.id # None => m.id \in IdsOf(sockets[k])
  BY <1>1, <1>3, RestIs DEF IdsOf
<1>9. NoneAhead'
  <2>1. \A j \in Sockets : sockets'[j].asks \in {sockets[j].asks, None}
    BY <1>1 DEF HearsIt
  <2> QED BY <1>4, <2>1 DEF Understood, NoneAhead, Asks
<1>10. Heard'
  BY <1>2, <1>4, <1>5, <1>6 DEF Heard, HeardOn
<1>11. Waits'
  <2> SUFFICES ASSUME told' # "unknown", NEW j \in Sockets,
                      \/ j = k
                      \/ Holds(sockets'[j]) /\ Known(j) /\ ~Strays(j)'
               PROVE  IdsOf(sockets'[j]) \subseteq pending'
    BY <1>5 DEF Waits
  <2>1. j = k
    BY <1>1, <1>5, <1>7 DEF Strays, HearsIt
  <2> QED BY <1>4, <1>5, <2>1 DEF IdsOf
<1>12. Told'
  <2>1. ToldOn(k)'
    BY <1>4, <1>5, <1>8 DEF Understood, Told, ToldOn, Holds
  <2>2. ASSUME NEW i \in Sockets \ {k} PROVE ToldOn(i)'
    BY <1>5, HearsTakes, IdsEmpty DEF ToldOn
  <2> QED BY <2>1, <2>2 DEF Told
<1>13. SpeakingOn(k)'
  <2> SUFFICES ASSUME Sure', Speaks(k)', pending' \subseteq IdsOf(sockets'[k]),
                      Silent(rest)
               PROVE  sockets[k].carries.call <=> told' = "in"
    BY <1>5 DEF SpeakingOn
  <2>1. told' # "unknown" /\ ~Strays(k) /\ sockets[k].carries.connection \notin taken'
    BY <1>1, <1>4, <1>6 DEF Sure, Known, Strays, HearsIt
  <2>a. Speaks(k)
    BY <1>4, <1>5 DEF Speaks, Open
  <2>2. pending \subseteq IdsOf(sockets[k])
    <3>1. pending \subseteq pending' \cup ({m.id} \ {None})
      BY <1>4, NoneIsNone DEF TypeOK
    <3> QED BY <1>2, <1>8, <3>1
  <2>b. m.what # "evicted"
    <3> SUFFICES ASSUME m.what = "evicted" PROVE FALSE
      OBVIOUS
    <3>1. taken' = taken /\ "evicted" \in Kinds(sockets[k].down)
      <4>1. sockets[k].down[1] = m /\ 1 \in DOMAIN sockets[k].down
        BY <1>1
      <4> QED BY <1>4, <4>1 DEF Kinds
    <3> QED BY <1>1, <2>1, <3>1 DEF Understood, Told, ToldOn
  <2>3. CASE m.what = "conflict"
    <3>1. told' = told /\ taken' = taken
      BY <1>4, <2>1, <2>3
    <3>2. Sure
      BY <1>1, <1>4, <3>1 DEF Sure, HearsIt
    <3>3. Silent(sockets[k].down)
      BY <1>8, <2>3 DEF Effective
    <3> QED BY <1>1, <1>6, <2>2, <2>a, <3>1, <3>2, <3>3 DEF Understood, Speaking, SpeakingOn
  <2>4. CASE m.what # "conflict"
    <3>1. m.id \in pending \cup {None}
      <4> SUFFICES ASSUME m.id \notin pending \cup {None} PROVE FALSE
        OBVIOUS
      <4>1. told' = told
        BY <1>4, <2>1, <2>b
      <4>2. IdsOf(sockets[k]) \subseteq pending
        BY <1>1, <2>1, <4>1 DEF Understood, Waits, Current
      <4> QED BY <1>8, <4>2
    <3>2. told' = IF m.what = "joined" THEN "in" ELSE "out"
      BY <1>4, <2>1, <2>4, <2>b, <3>1
    <3>3. Effective(m)
      BY <1>1, <2>4 DEF Effective, Message
    <3>4. 1 \in DOMAIN sockets[k].down /\ sockets[k].down[1] = m
      BY <1>1
    <3>5. sockets[k].carries.call <=> m.what = "joined"
      BY <1>8, <2>1, <2>a, <3>3, <3>4 DEF Understood, LastWord, LastWordOn
    <3> QED BY <3>2, <3>5
  <2> QED BY <2>3, <2>4
<1>14. Speaking' /\ Fresh'
  BY <1>2, <1>5, <1>6, <1>13 DEF Speaking, SpeakingOn, Fresh, FreshOn
<1>15. Agreed'
  BY <1>5, <1>6, <1>11, <1>12, <1>13, HearsAgreed
<1> QED BY <1>2, <1>9, <1>10, <1>11, <1>12, <1>14, <1>15 DEF Understood

LEMMA HearsUnderstood ==
  ASSUME Kept, NEW k \in Sockets, Hears(k), Understood
  PROVE  Understood'
BY HearsDoes, HeardBy, ReadyUnderstood, EndedUnderstood, LearnsUnderstood DEF Kept
-----------------------------------------------------------------------------
LEMMA UnderstoodInit == ASSUME Init PROVE Understood
<1>1. \A k \in Sockets : sockets[k] = Unused
  BY DEF Init
<1>2. \A k \in Sockets : /\ ~Current(k) /\ ~Hearing(k) /\ ~Holds(sockets[k]) /\ ~Speaks(k)
                         /\ ~Listens(sockets[k]) /\ IdsOf(sockets[k]) = {}
  BY <1>1, UnusedIs, UnusedIsIdle DEF Current, Hearing, Speaks, Open
<1>3. stored = None /\ client.identity = None
  BY DEF Init
<1>4. Unheeded /\ AsksNext /\ NoneAhead /\ NoneReplaces /\ Away /\ Ending
  BY <1>2, <1>3 DEF Unheeded, AsksNext, NoneAhead, NoneReplaces, Away, Ending, EndingOn
<1>5. Heard /\ Waits /\ LastWord /\ Told /\ Speaking /\ Fresh /\ Agreed
  BY <1>2, <1>3 DEF Heard, HeardOn, Waits, LastWord, LastWordOn, Told, ToldOn, Speaking, SpeakingOn,
                    Fresh, FreshOn, Agreed, Sure
<1> QED BY <1>4, <1>5 DEF Understood

LEMMA WaningUnderstood ==
  ASSUME Kept, Understood, Waning
  PROVE  Understood'
BY WaningTab, WaningCall, NoneIsNone DEF Kept, Understood

LEMMA UnderstoodStep ==
  ASSUME Kept, Kept', Understood, [Next]_vars
  PROVE  Understood'
<1>1. CASE \/ UNCHANGED vars \/ (TimerFires /\ UNCHANGED sockets)
           \/ IdentityAges \/ GoesOffline \/ ComesOnline \/ ReadyTimesOut \/ PageHides
           \/ PageReloads \/ Unmounts \/ \E id \in Commands : CommandTimesOut(id)
           \/ AlarmLeaves \/ \E k \in Sockets : AlarmReads(k)
  BY <1>1, TabWanes, WaningUnderstood DEF Kept
<1>2. CASE \/ \E k \in Sockets : Mounts(k)
           \/ TimerFires /\ Transport \notin {"connecting", "open"}
           \/ Reconcile
  BY <1>2, StartingDoes, StartingUnderstood DEF Kept, Understood
<1>3. ASSUME NEW k \in Sockets,
             \/ CloseEvent(k) \/ Opens(k) \/ NetworkBreaks(k) \/ NotUpgraded(k) \/ AcceptFails(k)
             \/ Cuts(k) \/ ReplacedGoes(k) \/ AlarmWrites(k)
      PROVE  Understood'
  BY <1>3, TransportWanes, WaningUnderstood DEF Kept
<1>4. CASE \/ \E k \in Sockets : ServerLoses(k)
           \/ \E c \in Connections : GracePasses(c) \/ EvictsSuspended(c)
           \/ AlarmRevives
  BY <1>4, ServerWanes, WaningUnderstood DEF Kept
<1>5. ASSUME NEW id \in Commands, NEW what \in {"join", "takeover", "leave"}, Send(id, what)
      PROVE  Understood'
  BY <1>5, SendUnderstood DEF Kept
<1>6. ASSUME NEW k \in Sockets, FetchReplacing(k) \/ FetchResuming(k) \/ FetchNew(k) \/ Accepts(k)
      PROVE  Understood'
  BY <1>6, FetchReplacingUnderstood, FetchResumingUnderstood, FetchNewUnderstood, AcceptsUnderstood
<1>7. ASSUME NEW k \in Sockets, ServerHears(k) \/ TakenElsewhere(k) \/ Evicts(k) \/ Hears(k)
      PROVE  Understood'
  BY <1>7, ServerHearsUnderstood, OustsUnderstood, HearsUnderstood
<1>8. CASE SessionEnds
  BY <1>8, SessionEndsUnderstood
<1>9. TimerFires => UNCHANGED sockets \/ Transport \notin {"connecting", "open"}
  BY DEF TimerFires
<1> QED BY <1>1, <1>2, <1>3, <1>4, <1>5, <1>6, <1>7, <1>8, <1>9 DEF Next

LEMMA UnderstoodHolds == Spec => [](Kept /\ Understood)
<1>1. Init => Kept /\ Resumes /\ Understood
  BY KeptInit, UnderstoodInit
<1>2. Kept /\ Resumes /\ Understood /\ [Next]_vars => (Kept /\ Resumes /\ Understood)'
  BY KeptStep, UnderstoodStep
<1> QED BY <1>1, <1>2, PTL DEF Spec

LEMMA UnderstoodInCall ==
  ASSUME Kept, Understood
  PROVE  InCall
<1> USE DEF Kept, Understood
<1> DEFINE k == client.current
           c == sockets[k].carries
<1> SUFFICES ASSUME Connected, pending = {}, sockets[k].up = <<>>, sockets[k].down = <<>>
             PROVE  /\ client.identity = [connection |-> c.connection, epoch |-> c.epoch]
                    /\ told = "unknown" \/ c.connection \in taken \cup astray \/ (c.call <=> told = "in")
  BY DEF InCall
<1>1. k \in Sockets /\ Hearing(k) /\ Open(k) /\ Holds(sockets[k])
  BY DEF Connected, TypeOK, Client, Hearing, Listens, Open, Holds
<1>2. "ready" \notin Kinds(sockets[k].down) /\ Silent(sockets[k].down)
  BY IdsEmpty DEF Silent
<1>3. client.identity = [connection |-> c.connection, epoch |-> c.epoch]
  BY <1>1, <1>2 DEF Heard, HeardOn, Open
<1>4. c \in Carried
  BY <1>1 DEF Shapes, Shape, TypeOK, Socket
<1>5. Known(k) /\ client.identity # None
  <2>1. client.identity \in Identity
    BY <1>3, <1>4 DEF Carried, Identity
  <2> QED BY <1>3, <2>1, NoneIsNone DEF Known
<1>6. ASSUME told # "unknown", c.connection \notin taken \cup astray
      PROVE  c.call <=> told = "in"
  <2>1. Sure
    BY <1>5, <1>6 DEF Sure, Known
  <2> QED BY <1>1, <1>2, <1>5, <2>1 DEF Speaking, SpeakingOn, Speaks
<1> QED BY <1>3, <1>6

(* Once nothing is under way the tab is on the connection and epoch that the     *)
(* server has, and in the call or out of it as it was last told, on every       *)
(* transport it was resumed on and whatever was sent, lost, timed out, cut or    *)
(* ended on the way; but for a call that was taken, ended by a refresh or        *)
(* changed by a command nobody answered, and a connection that the alarm put    *)
(* back (settleCommand, resumeConnection, joinCall, alarm).                   *)
THEOREM InCallHolds == Spec => []InCall
BY UnderstoodHolds, UnderstoodInCall, PTL
=============================================================================
