SPECIFICATION BrokerSpec
CONSTANTS
  c1 = c1
  c2 = c2
  s1 = s1
  s2 = s2
  r1 = r1
  r2 = r2
  r3 = r3
  r4 = r4
  Calls = {c1, c2}
  Sessions = {s1, s2}
  None = None
  InFlight = 1
  PublicCalls = 1
  Conversions = 1
  Scans = 1
  ActiveCalls = 1
  ResponseBudget = 2
  LargestResponse = 2
  AuditRecords = 1
  Mixes <- MCMixes
  MaxDisturbances = 2
  Nobody = Nobody
  Endpoints = {1, 2, 3}
  Runs = {r1, r2, r3, r4}
  EndpointOf <- MCEndpointOf
  IndexLimit = 2
  ProbeLimit = 1
  Starts <- MCStarts
  Asks <- MCAsks
  BodyLength <- MCBodyLength
  MaxAsked = 1
  MaxWorldEvents = 2
INVARIANTS CallsAreAccountedFor CallsReachWhomTheyMean
PROPERTIES CallsEnd
CHECK_DEADLOCK FALSE
