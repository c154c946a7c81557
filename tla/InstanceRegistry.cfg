SPECIFICATION FairSpec
CONSTANTS
  a1 = a1
  a2 = a2
  b1 = b1
  c1 = c1
  Runs = {a1, a2, b1, c1}
  Earlier = {b1, c1}
  Brokers = {broker}
  Endpoints = {"a", "b", "c"}
  EndpointOf <- MCEndpointOf
  None = None
  MaxScan = 2
  MaxFaults = 1
INVARIANTS EntriesAreUsable
PROPERTIES LiveEntryStays DeadAreForgotten
CHECK_DEADLOCK FALSE
