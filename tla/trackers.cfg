SPECIFICATION TrackerSpec
CONSTANTS
  None = None
  Mac = {m1, m2, m3, m4}
  MaxClock = 2
  MaxSetbacks = 1
  MaxPackets = 4
  Announcement <- SmallAnnouncements
  Empty = ""
  MaxNeighbors = 2
  StaleAfter = 1
  Ip = {i1, i2}
  MacTtl = 1
  MaxTrackedIps = 1
  Reply <- SmallReplies
  s1 = s1
  s2 = s2
  Server = {s1, s2, s3}
  Lease = {l1}
  MaxServers = 2
  MaxSample = 1
  Frame <- SmallFrames
  SelfMac = m1
  RateWindow = 1
  MaxTalkers = 1
  Conn = {c1}
  Tid = {t1, t2}
  Op = {o1, o2, o3}
  PendingTimeout = 1
  MaxRelationships = 2
  Trackers = {"lldp", "cdp", "mndp", "conflict", "dhcp", "traffic", "modbus"}
SYMMETRY Symmetric
INVARIANTS
  NeighborsBounded FreshNeighborListed FieldsOfLastPacket
  ConflictsExact AlarmExact TalkersExact WindowExact
  PendingTracked RequestsAccounted ResponseTimesInTime
CHECK_DEADLOCK FALSE
