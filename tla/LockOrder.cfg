CONSTANTS
  w1 = w1
  w2 = w2
  n1 = n1
  n2 = n2
  main = main
  Workers <- MCWorkers
  Acceptors = {a1}
  Connectors = {}
  Clients <- MCClients
  callback <- MCcallback
  Sockets = {s1, s2}
  Frames = {f1, f2, f3}
  Handles = {h1, h2}
  MaxSends = 1
  None = None
  TornFind = FALSE
  ReuseStale = FALSE
SPECIFICATION EchoSpec
SYMMETRY Symmetry
CHECK_DEADLOCK FALSE
INVARIANT NoCrossWait
