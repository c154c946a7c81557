SPECIFICATION SearchSpec
CONSTANTS
  Captures = {1, 2, 3}
  Removals = {"RetentionEviction"}
  Retained = 1
  MaxRevision = 1
  MaxLog = 4
  Waits = {w1, w2}
  Wanted <- OneWant
  BatchSize = 2
  Permits = 1
  Requested <- MCRequested
  Responded <- MCResponded
  FoldOf <- MCFoldOf
  Globs <- MCGlobs
  MaxPattern = 3
  Queries <- MCQueries
  Limits = {1, 2}
  MaxPageLimit = 2
  RowSize <- MCRowSize
  PageBudget = 3
  MaxPages = 2
  MaxWaitLog = 2
CHECK_DEADLOCK FALSE
INVARIANTS PagesMissNothing
PROPERTIES EveryCallIsAnswered
