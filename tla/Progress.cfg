CONSTANTS
  Workers = {w1, w2}
  Acceptors = {a1}
  Connectors = {k1}
  Clients = {c1}
  Sockets = {s1}
  Frames = {f1, f2}
  Handles = {h1}
  MaxSends = 1
  None = None
  TornFind = FALSE
  ReuseStale = FALSE
SPECIFICATION FairSpec
PROPERTIES ClosedIsReleased ConnectIsAnswered
