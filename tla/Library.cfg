CONSTANTS
  MinimumGrow = 1
  MaxPosted = 2
  MaxParams = 2
  MaxTodo = 8
  Block = {b1, b2, b3, b4}
  BlockSize <- MCBlockSize
  Consumers = {c1, c2}
  Elements = {e1, e2, e3, e4}
  MaxPops = 2
  ServiceWorkers = {w1, w2}
  MGAcceptor = acceptor
  ThreadObjects = {w1, w2, acceptor}
  MaxThreads = 3
  maxLength = 14
  IntSize = 2
  Int64Size = 3
  WcharSize = 2
  TextLengths = {0, 1, 3}
  MaxFields = 3
  MaxCharacters = 2
  m_Capacity = 4
  Byte = {0, 1}
  NullByte = 0
  Pieces <- MCPieces
SPECIFICATION Spec
CHECK_DEADLOCK FALSE
INVARIANTS TypeOK StatementWellFormed ConnectedIsTrue NoFreedHandle PoolOwnership
  NobodySleepsOnWork OneAcceptLoop FieldsInSync 
PROPERTIES StoppedServiceEnds StreamIsByteStream
