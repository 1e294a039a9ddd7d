SPECIFICATION Spec
CONSTANTS
  a = a  b = b  c = c  d = d
  real = real  bool = bool  one = one  two = two
  Any = Any  Nil = Nil  GoNil = GoNil  ObjectID = ObjectID
  False <- MCFalse  FortyTwo <- MCFortyTwo
  Keys = {a, b, c, d}
  Kinds = {real, bool, ObjectID}
  Tags = {one, two}
  Configs <- MCConfigs
CHECK_DEADLOCK FALSE  \* the process has ended
INVARIANTS
  ReadsBack
  AliasClosed
  ValuesAllowed
  OwnPoint
