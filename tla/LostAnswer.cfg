CONSTANTS
  Workers = {w1, w2}
  Acceptors = {}
  Connectors = {k1}
  Clients = {c1}
  Sockets = {s1, s2}
  Frames = {f1, f2, f3}
  Handles = {h1, h2}
  MaxSends = 1
  None = None
  TornFind = FALSE
  ReuseStale = FALSE
SPECIFICATION Spec
SYMMETRY Symmetry
PROPERTY AnsweredBeforeReleased
