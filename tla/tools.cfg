SPECIFICATION ToolsSpec
CONSTANTS
  Tools = {"port", "ip", "mtr", "ping", "poll", "units", "registers", "modbus",
           "s7", "profinet", "page"}
  Run = {r1, r2, r3}
  ScanRuns = {r1, r2}
  None = None
  HostOf <- DistinctHosts
  StartAddress = 0
  EndAddress = 3
  MaxQuantity = 3
  Failures = {"timeout"}
  Devices <- PatchyDevices
  IdModulus = 5
  MaxOthers = 1
  MaxRequests = 3
  NumObjects = 3
  MaxWire = 2
  Station = {p1, p2}
  Response <- Responses
  MaxNet = 3
INVARIANTS
  RunningIsLatest CoveredOnce ProgressExact ResultExact
  AnswersExact S7Verdict ListedAsSent
PROPERTIES JobSpec ThreadsEnd PageFollows
CHECK_DEADLOCK FALSE
