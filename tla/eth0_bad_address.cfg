SPECIFICATION NetworkSpec
CONSTANTS
  Parts = {"eth0"}
  Request = {"w1"}
  Operation = {"add", "retry", "config", "connect", "forget"}
  Fallible = {"unmanage", "flush", "start hostapd", "start dnsmasq",
              "stop dnsmasq", "stop hostapd", "manage"}
  MaxFailures = 3
  Apart = TRUE
  Threshold = 5
  Setter = {q1, q2}
  Address = {a1}
  Refused = {a1}
  Passive = Passive
  None = None
  Speed = {"10", "1000"}
  Unknown = Unknown
  MaxEvents = 2
  MaxMisses = 2
PROPERTY OkMeansApplied
