SPECIFICATION Spec
CONSTANTS
  Points = {p1, p2, p3}
  Needs = {1, 2, 4}
  U16 = 11
  MaxRegs = 5
  MaxBits = 2
  ByteBits = 2
INVARIANTS
  QuantityLegal
  Covers
  NoStrayRegister
  EveryPointOnce
CHECK_DEADLOCK FALSE
