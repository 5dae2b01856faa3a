SPECIFICATION MCSpec
CONSTANTS
  None = None
  r1 = r1
  r2 = r2
  p1 = p1
  p2 = p2
  p3 = p3
  Rooms = {r1, r2}
  Operations = {p1, p2, p3}
  Captures = {"camera", "screen"}
  Budget = 5
  Clients = {c1, c2}
  Inputs = {i1, i2}
  Conversations = {a, b}
CONSTRAINT OneKind
CONSTRAINT FiveWithTwo
CONSTRAINT AlarmAlone
SYMMETRY Interchangeable
INVARIANT Coherent
INVARIANT CaptureShown
INVARIANT Follows
INVARIANT Resumable
