SPECIFICATION Spec
CONSTANTS
  Session = {s1}
  None = None
  Durations = {"none"}
  Gaps = {1}
  MaxPart = 2
  MaxStarts = 1
  MaxDeletes = 1
  OldFiles = {}
  OldSize = 1
  RotateBytes = 1
  MaxTotal = 1
  Burst = 1
  MaxSize = 5
INVARIANT DiskBounded
CHECK_DEADLOCK FALSE
