SPECIFICATION Spec
CONSTANTS
  Nil = Nil
  Ids = {i1, i2}
  Ips = {a, b}
  Holders = {"free", "other"}
  MaxFail = 3
  PollOutcomes = {TRUE, FALSE}
  MaxAnswers = 2
INVARIANTS
  TypeOK
  PolledIffOnline
PROPERTIES
  EntriesKept
  TemplateOrEnd
CHECK_DEADLOCK FALSE
