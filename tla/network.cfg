SPECIFICATION NetworkSpec
CONSTANTS
  Parts = {"wifi", "eth0", "link"}
  Request = {"w1"}
  Operation = {"add", "retry", "config", "connect", "forget"}
  Fallible = {"unmanage", "flush", "start hostapd", "start dnsmasq",
              "stop dnsmasq", "stop hostapd", "manage", "restart"}
  MaxFailures = 3
  Apart = TRUE
  Threshold = 5
  Setter = {q1, q2}
  Address = {a1, a2}
  Refused = {}
  Passive = Passive
  None = None
  Speed = {"10", "1000"}
  Unknown = Unknown
  MaxEvents = 2
  MaxMisses = 2
INVARIANT SettledApHasAddress
PROPERTIES
  WifiStaysReachable WifiFallbackTakesOver
  PortSpec OkMeansApplied ReportedInForce HistoryFollowsLink
