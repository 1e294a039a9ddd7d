CONSTANTS
  d1 = d1
  d2 = d2
  Devices = {d1, d2}
  Settings <- MCSettings
  MaxRetry = 2
  MaxSplits = 1
  Nil = Nil
SPECIFICATION Spec
INVARIANTS EveryUplinkTried Dialled OwnEndpoint OwnValue FreshUnless
PROPERTIES KeepsCycling
CHECK_DEADLOCK FALSE
