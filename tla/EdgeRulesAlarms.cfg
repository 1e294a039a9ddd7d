SPECIFICATION Spec
CONSTANTS
  d1 = d1  d2 = d2
  Nil = Nil
  Devices = {d1, d2}
  Namings <- MCNamings
  Groups <- MCGroups
  PointGroup <- MCPointGroup
  Versions = {2}
  First = 1
  Windows <- MCWindows
  HasAlarm <- MCHasAlarm
  MaxWindow = 2
  Excess = 1
  Cycles <- MCCycles
INVARIANTS
  AlarmsReported
CHECK_DEADLOCK FALSE
