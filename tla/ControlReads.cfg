SPECIFICATION ReadsSpec
CONSTANTS
  Captures = {1}
  Removals = {"ExplicitDelete", "Clear"}
  Retained = 1
  MaxRevision = 1
  MaxLog = 2
  Jobs = {i, j}
  ActiveLimit = 2
  QueuedLimit = 1
  QueuedBytes = 4
  Capacity = 3
  InputSize <- MCInputSize
  DecodedSize <- MCDecodedSize
  MaxCalls = 3
  Inspections <- MCInspections
  CaseFold <- MCCaseFold
  MaxDepth = 3
  MaxPointer = 6
  MaxListed = 2
  WireBudget = 14
  MaxResult = 12
  MaxSelection = 7
  Tasks <- MCTasks
  Width <- MCWidth
  FoldOf <- MCFoldOf
  DefaultPage = 2
  MaxPage = 3
  FlushEvery = 2
  MaxForm = 10
  MaxInline = 6
CHECK_DEADLOCK FALSE
INVARIANTS ChargesAreRight CacheIsRight InspectionsAreTrue BodyIsServedWhole
PROPERTIES EveryCallEnds
