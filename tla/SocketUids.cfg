CONSTANTS
  Threads = {t1, t2, t3}
  None = None
  MaxDepth = 1
  start = 0
  multiple = 2
  MaxHeld = 3
SPECIFICATION SocketSpec
INVARIANT NoDoubleOwner
PROPERTY ImplementsUidGenerator
