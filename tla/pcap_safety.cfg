SPECIFICATION Spec
CONSTANTS
  Session = {s1, s2}
  None = None
  Durations = {"none", "pending"}
  Gaps = {0, 1}
  MaxPart = 2
  MaxStarts = 1
  MaxDeletes = 1
  OldFiles = {}
  OldSize = 1
  RotateBytes = 1
  MaxTotal = 9
  Burst = 1
  MaxSize = 1
INVARIANTS NoOrphanTcpdump RunningHasLoop NoHiddenCapture
CHECK_DEADLOCK FALSE
