SPECIFICATION Spec
CONSTANTS
  Members = {1, 2}
  Subjects = {s}
  Ttl = 2
  MaxClock = 3
  MaxCommands = 2
  MaxBodies = 2
INVARIANTS
  ReleasedStays
  NeverBothKeep
PROPERTIES
  AgeOnlyRewinds
CONSTRAINT
  FewUnderWay
