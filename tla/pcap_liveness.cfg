SPECIFICATION FairSpec
CONSTANTS
  Session = {s1, s2}
  None = None
  Durations = {"none", "pending"}
  Gaps = {1}
  MaxPart = 2
  MaxStarts = 1
  MaxDeletes = 0
  OldFiles = {}
  OldSize = 1
  RotateBytes = 1
  MaxTotal = 9
  Burst = 1
  MaxSize = 1
PROPERTIES StopCompletes SupersededEnds TimedCaptureEnds
CHECK_DEADLOCK FALSE
