\* Every item is posted by one command and then there is nothing to do.
SPECIFICATION Spec
CHECK_DEADLOCK FALSE
CONSTANTS
  Procs = {p1, p2}
  Hooks = {h1}
  Sessions = {s1, s2}
  Items = {i1, i2, i3}
  QueueMax = 2
  MaxBinding = 1
  p1 = p1
  p2 = p2
  h1 = h1
  s1 = s1
  s2 = s2
  i1 = i1
  i2 = i2
  i3 = i3
CONSTRAINT Sharing
SYMMETRY Symmetry
INVARIANTS
  TypeOK
  HonestSent
  Accounted
  InLine
  RepeatsOnlyAfterLoss
  LatchHolds
  OwnBindingOnly
