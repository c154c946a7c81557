SPECIFICATION Spec
CONSTANTS
  Captures = {1, 2}
  Removals = {"RetentionEviction"}
  Retained = 2
  MaxRevision = 2
  MaxLog = 3
  Waits = {w1}
  Wanted <- SomeWants
  BatchSize = 1
  Permits = 1
CHECK_DEADLOCK FALSE
CONSTRAINT Unfinished
INVARIANTS WaitMissesNothing
PROPERTIES WorldKeepsPromise
