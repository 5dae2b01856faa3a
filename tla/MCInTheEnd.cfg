\* A tab past one fault with commands, past two without; one account in one
\* room, with the alarm and the grace period in every state, blind ones too.
CONSTANTS
  None = None
  Connections = {c1, c2}
  Sockets = {k1, k2}
  Commands = {i1}
  Faults = 2
  Users = {u1}
  LeaseConnections = {c1}
  Channels = {g1}
  MaxEpoch = 2
  NoAtt = NoAtt
  NoRecord = NoRecord
SPECIFICATION EndSpec
PROPERTY Reconnects
PROPERTY ScheduledExpirySwept
\* A connected tab may stay idle for good; Reconnects says when it may stop.
CHECK_DEADLOCK FALSE
