SPECIFICATION LoopSpec
CONSTANTS
  Senders = {a, b, c}
  Types = {note, warn}
  PriorityTypes = {warn}
  MaxCandidates = 4
  MaxCap = 4
  MaxReserved = 2
INVARIANTS
  ChoosesFairly
  NobodyBuried
CHECK_DEADLOCK FALSE
