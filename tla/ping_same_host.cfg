SPECIFICATION ToolsSpec
CONSTANTS
  Tools = {"ping"}
  Run = {r1, r2}
  ScanRuns = {}
  None = None
  HostOf <- OneHost
  StartAddress = 0
  EndAddress = 0
  MaxQuantity = 3
  Failures = {}
  Devices <- EmptyDevice
  IdModulus = 3
  MaxOthers = 0
  MaxRequests = 1
  NumObjects = 1
  MaxWire = 1
  Station = {}
  Response = {}
  MaxNet = 1
INVARIANT OnlyLatestShown
CHECK_DEADLOCK FALSE
