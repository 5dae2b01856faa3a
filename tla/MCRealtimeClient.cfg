\* Two connections, one that is lost and its successor; a command at a time.
SPECIFICATION Spec
CONSTANTS
  None = None
  c1 = c1
  c2 = c2
  k1 = k1
  k2 = k2
  i1 = i1
  Connections = {c1, c2}
  Sockets = {k1, k2}
  Commands = {i1}
  Faults = 2
SYMMETRY Interchangeable
INVARIANT Resumes
 
\* A connected tab may stay idle for good; Reconnects says when it may stop.
CHECK_DEADLOCK FALSE
