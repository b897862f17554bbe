SPECIFICATION Spec
CONSTANTS
  ann = ann
  bob = bob
  note = note
  warn = warn
  PriorityTypes = {warn}
  Senders = {ann}
  Types = {note}
  FetchCap = 2
  ReservedSlots = 1
  Window = 2
  InjectCap = 1
  LeastShown = 1
  Skew = 0
  Overlapping = FALSE
  Killable = {}
  MaxSeq = 4
  MaxClock = 0
INVARIANTS
  NoneLost
