CONSTANTS
  Workers = {w1, w2}
  Acceptors = {a1}
  Connectors = {}
  Clients = {c1}
  Sockets = {s1, s2}
  Frames = {f1, f2, f3}
  Handles = {h1, h2}
  MaxSends = 1
  None = None
  TornFind = FALSE
  ReuseStale = TRUE
SPECIFICATION Spec
SYMMETRY Symmetry
INVARIANT ReadCompletesOnOwnSocket
