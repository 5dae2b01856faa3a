CONSTANTS
  Users = {u1, u2}
  Sessions = {s1, s2}
  Invites = {i1, i2}
  Requests = {r1, r2}
  Slots = {c1}
  MaxIssues = 2
  MaxTime = 1
  None = None
SPECIFICATION Spec
CONSTRAINT Few
SYMMETRY Symmetry
INVARIANT TypeOK
INVARIANT InviteSpends
INVARIANT OldPasswordEnds
INVARIANT CodesKnown
INVARIANT SocketsEnd
