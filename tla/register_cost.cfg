SPECIFICATION ToolsSpec
CONSTANTS
  Tools = {"registers"}
  Run = {r1}
  ScanRuns = {r1}
  None = None
  HostOf <- DistinctHosts
  StartAddress = 0
  EndAddress = 7
  MaxQuantity = 125
  Failures = {}
  Devices <- EmptyDevice
  IdModulus = 3
  MaxOthers = 0
  MaxRequests = 1
  NumObjects = 1
  MaxWire = 1
  Station = {}
  Response = {}
  MaxNet = 1
INVARIANT FewerThanOnePerRegister
CHECK_DEADLOCK FALSE
