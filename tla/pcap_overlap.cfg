SPECIFICATION Spec
CONSTANTS
  Session = {s1, s2}
  None = None
  Durations = {"none"}
  Gaps = {1}
  MaxPart = 1
  MaxStarts = 2
  MaxDeletes = 0
  OldFiles = {}
  OldSize = 1
  RotateBytes = 1
  MaxTotal = 9
  Burst = 1
  MaxSize = 1
INVARIANT OneCurrentSession
CHECK_DEADLOCK FALSE
