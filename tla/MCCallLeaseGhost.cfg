\* The code against the promise that the grace period ends.
CONSTANTS
  Users = {u1}
  Connections = {c1, c2}
  Sockets = {k1, k2, k3}
  Channels = {g1}
  MaxEpoch = 2
  None = None
  NoAtt = NoAtt
  NoRecord = NoRecord
SPECIFICATION Spec
INVARIANT ExpiredScheduled
