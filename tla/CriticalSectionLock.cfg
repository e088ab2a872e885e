CONSTANTS
  Threads = {t1, t2, t3}
  None = None
  MaxDepth = 3
SPECIFICATION FairSpec
INVARIANTS TypeOK MutualExclusion NestingMatches
PROPERTIES ImplementsReentrantLock WaiterEnters
