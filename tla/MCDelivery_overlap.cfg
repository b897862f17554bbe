SPECIFICATION Spec
CONSTANTS
  ann = ann
  bob = bob
  note = note
  warn = warn
  PriorityTypes = {warn}
  Senders = {ann}
  Types = {note}
  FetchCap = 2
  ReservedSlots = 1
  Window = 2
  InjectCap = 2
  LeastShown = 1
  Skew = 0
  Overlapping = TRUE
  Killable = {"SessionStart", "UserPromptSubmit"}
  MaxSeq = 3
  MaxClock = 1
CONSTRAINT LateTick
INVARIANTS
  RelayFollows
