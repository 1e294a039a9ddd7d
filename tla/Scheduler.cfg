SPECIFICATION Spec
CONSTANTS
  N = 2
  Timed = {1}
  Seconds = {0, 1}
PROPERTIES
  StopEnds
  KeepsSampling
CHECK_DEADLOCK FALSE
