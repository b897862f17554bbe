\* Records are written at any time and a process may be killed; nothing is left to do in the end.
SPECIFICATION FairSpec
CHECK_DEADLOCK FALSE
CONSTANTS
  ann = ann
  bob = bob
  a1 = a1
  a2 = a2
  b1 = b1
  monitor = monitor
  closing = closing
  opening = opening
  other = other
  Clones = {ann, bob}
  Writers = {a1, b1}
  Processes = {monitor, opening, other}
  Home <- Homes
  Role <- Roles
  MaxRebuilds = 1
  MaxCrashes = 1
  MaxFailures = 0
  Busy = TRUE
  Overlap = FALSE
PROPERTIES
  PublishedStays
  Drained
