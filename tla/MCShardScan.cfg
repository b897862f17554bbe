\* Both sessions have started and seen their block in the end.
CONSTANTS
  Sessions = {s1, s2}
  Members = {1, 2, 3}
  Self = 1
  Stamps = {1, 2}
  MaxShards = 2
  MaxRecords = 1
  LearnedCap = 1
SPECIFICATION Spec
SYMMETRY SessionSymmetry
CONSTRAINT OneTrouble
CHECK_DEADLOCK FALSE
INVARIANTS  NeverShorter BlockWaits
