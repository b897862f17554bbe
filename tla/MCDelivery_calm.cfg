SPECIFICATION FairSpec
CONSTANTS
  ann = ann
  bob = bob
  note = note
  warn = warn
  PriorityTypes = {warn}
  Senders = {ann, bob}
  Types = {note, warn}
  FetchCap = 2
  ReservedSlots = 1
  Window = 2
  InjectCap = 2
  LeastShown = 2
  Skew = 0
  Overlapping = FALSE
  Killable = {}
  MaxSeq = 4
  MaxClock = 0
INVARIANTS
  FloorIsFilled
  NoneLost
  ShownOnce
  LagIsFlagged
PROPERTIES
  Delivered
