SPECIFICATION Spec
CONSTANTS
  d1 = d1  d2 = d2  d3 = d3  k1 = k1  k2 = k2
  Nil = Nil
  Devices = {d1, d2}
  Endpoints = {k1, k2}
  SlaveIds = {1, 2, 3}
  Endpoint <- MCEndpoint
  Slave <- MCSlave
  Groups <- MCGroups
  Batches <- MCBatches
  BadGroups <- MCBad
  MaxRetry = 3
CHECK_DEADLOCK FALSE
INVARIANT SurvivesDisconnect
