SPECIFICATION FairSpec
CONSTANTS
  Exchanges = {a}
  MaxConcurrent = 1
  BudgetLimit = 5
  QueueCapacity = 1
  MaxRecords = 1
  MaxStoreBytes = 5
  RequestSizes = {1, 9}
  ResponseBase = 2
  HeaderSizes = {1}
  FrameSizes = {1, 3}
  PreviewLimit = 3
  MaxObserved = 4
  Endings = {"Failed"}
  Readable = {a}
  MayShutDown = TRUE
  ChunkBytes = 2
  NodeOverhead = 1
CHECK_DEADLOCK FALSE
PROPERTIES PreviewsStayPrefixes PressureNoticed PermitsReturned
