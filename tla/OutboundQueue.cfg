SPECIFICATION Spec
CONSTANTS
  Msgs = {m1, m2, m3}
  MaxRetry = 2
  MaxCrashes = 2
INVARIANTS
  Durable
  Accounted
  RetryBudget
  NoDuplicate
PROPERTIES
  OutboxSpec
