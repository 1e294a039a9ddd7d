SPECIFICATION Spec
CONSTANT Raws <- MCRaws
INVARIANTS
  NamedOrder
  FloatUnless
CHECK_DEADLOCK FALSE
