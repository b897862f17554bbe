\* No process is killed, no record is written during a batch, and nothing is left to do in the end.
SPECIFICATION Spec
CHECK_DEADLOCK FALSE
CONSTANTS
  ann = ann
  bob = bob
  a1 = a1
  a2 = a2
  b1 = b1
  monitor = monitor
  closing = closing
  opening = opening
  other = other
  Clones = {ann, bob}
  Writers = {a1, a2, b1}
  Processes = {monitor, closing, other}
  Home <- Homes
  Role <- Roles
  MaxRebuilds = 2
  MaxCrashes = 0
  MaxFailures = 1
  Busy = FALSE
  Overlap = FALSE
INVARIANTS
  OneBatch
  OkIsPublished
  LateNotLost
PROPERTY NoSecondRoot
