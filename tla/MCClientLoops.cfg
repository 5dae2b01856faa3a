\* Two timers and two recoveries: one of each that is stale.
CONSTANTS
  Snapshots <- MCSnapshots
  Timers = {t1, t2}
  Recoveries = {r1, r2}
  MaxAttempts = 2
  MaxGeneration = 4
  None = None
  p1 = p1
  p2 = p2
  Publications = {p1, p2}
  Sessions = {s1, s2}
  Scenes <- MCScenes
SPECIFICATION LoopsSpec
CHECK_DEADLOCK FALSE
INVARIANT SingleLoop
INVARIANT GivesUp
INVARIANT DisconnectSticks
PROPERTY LoopSpec
PROPERTY Answered
PROPERTY Received
PROPERTY Vanishes
