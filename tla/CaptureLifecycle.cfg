SPECIFICATION Spec
CONSTANTS
  Exchanges = {a, b}
  MaxConcurrent = 2
  BudgetLimit = 5
  QueueCapacity = 1
  MaxRecords = 1
  MaxStoreBytes = 2
  RequestSizes = {1}
  ResponseBase = 1
  HeaderSizes = {0}
  FrameSizes = {1}
  PreviewLimit = 1
  MaxObserved = 1
  Endings = {"Complete"}
  Readable = {}
  MayShutDown = FALSE
  ChunkBytes = 2
  NodeOverhead = 1
SYMMETRY Symmetry
CHECK_DEADLOCK FALSE
INVARIANTS BytesAccounted LeaseCoversRecord PermitFollowsExchange
PROPERTIES RemovedNeverGrows FeedKeepsPromise
