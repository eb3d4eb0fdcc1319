SPECIFICATION Spec
CONSTANTS
  Session = {s1, s2}
  None = None
  Durations = {"pending"}
  Gaps = {1}
  MaxPart = 2
  MaxStarts = 1
  MaxDeletes = 0
  OldFiles = {o1, o2, o3, o4}
  OldSize = 1
  RotateBytes = 2
  MaxTotal = 4
  Burst = 1
  MaxSize = 3
INVARIANT DiskBounded
PROPERTY ActiveFileNotPruned
CHECK_DEADLOCK FALSE
