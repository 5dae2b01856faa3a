CONSTANTS
  m1 = m1
  m2 = m2
  c1 = c1
  c2 = c2
  None = None
  Messages = {m1, m2}
  Mine = {m1}
  Conversations = {c1, c2}
  MaxChanges = 1
  MaxLosses = 1
  PageSize = 1
  CacheSize = 2
  CacheLimit = 1
SPECIFICATION Spec
SYMMETRY TwoConversations
CONSTRAINT Few
INVARIANT Shown
INVARIANT InOrder
INVARIANT Noticed
