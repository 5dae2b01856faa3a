\* One account on two connections (tabs or devices), over three sockets: one
\* connection may have two transports at once, the other one more.
CONSTANTS
  Users = {u1}
  Connections = {c1, c2}
  Sockets = {k1, k2, k3}
  Channels = {g1, g2}
  MaxEpoch = 2
  None = None
  NoAtt = NoAtt
  NoRecord = NoRecord
SPECIFICATION Spec
SYMMETRY Symmetry
CONSTRAINT StillPromised
INVARIANT TypeOK
INVARIANT OneCarrier
INVARIANT LeaseExclusive
INVARIANT RosterFaithful
INVARIANT GraceCovered
PROPERTY EpochAdvances
