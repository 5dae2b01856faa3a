CONSTANTS
  a = a
  b = b
  c = c
  Users = {a, b, c}
  Pairs <- MCPairs
  Requests = {r1, r2}
  Limit = 2
  None = None
SPECIFICATION Spec
SYMMETRY Symmetry
CONSTRAINT Few
INVARIANT TypeOK
INVARIANT GroupWhole
INVARIANT CapabilitiesFollow
INVARIANT CallsFollow
