------------------------------ MODULE MCInTheEnd ------------------------------
(* What must happen in the end, for TLC: a tab reconnects, and the alarm of  *)
(* the server ends what has expired.  A behaviour follows a tab that sends   *)
(* commands past one fault, one that only listens past two, or the server of *)
(* CallLease; the other one rests.                                          *)
EXTENDS Naturals

CONSTANTS Connections, Sockets, Commands, Faults, None,
          Users, LeaseConnections, Channels, MaxEpoch, NoAtt, NoRecord

VARIABLES
  client, stored, sockets, records, pending, told, revoked, faults, excused, unexplained, taken,
  saved, astray,
  status, att, suspended, graceAlarm, alarm, todo, held, copy, roster, blind, misled,
  part        \* the one this behaviour follows

Talking == INSTANCE RealtimeClient WITH Faults <- Faults - 1
Listening == INSTANCE RealtimeClient WITH Commands <- {}
Lease == INSTANCE CallLease WITH Connections <- LeaseConnections

tab == <<client, stored, sockets, records, pending, told, revoked, faults, excused,
         unexplained, taken, saved, astray>>
lease == <<status, att, suspended, graceAlarm, alarm, todo, held, copy, roster, blind, misled>>

EndInit ==
  /\ Lease!Init
  /\ \/ part \in {"talking", "lease"} /\ Talking!Init
     \/ part = "listening" /\ Listening!Init

EndNext ==
  /\ UNCHANGED part
  /\ \/ part = "talking" /\ Talking!Next /\ UNCHANGED lease
     \/ part = "listening" /\ Listening!Next /\ UNCHANGED lease
     \/ part = "lease" /\ Lease!Next /\ UNCHANGED tab

EndSpec ==
  EndInit /\ [][EndNext]_<<tab, lease, part>> /\ Talking!Fairness /\ Lease!Fairness

Reconnects == Talking!Reconnects
ScheduledExpirySwept == Lease!ScheduledExpirySwept
=============================================================================
