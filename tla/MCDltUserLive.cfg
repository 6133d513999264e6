SPECIFICATION Spec
CONSTANTS
  l1 = l1
  l2 = l2
  Logger = {l1, l2}
  MaxLog = 2
  PipeSize = 1
  RingMin = 1
  RingMax = 2
  MaxCrash = 1
  Fds = {1, 2, 3}
  Scenarios <- MCLive
  MaxTries = 1
PROPERTIES Progress
