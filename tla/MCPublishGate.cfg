CONSTANTS
  Hubs = {h, k}
  Labs = {l}
  NoRemote = none
  TTL = 1
  BeatTicks = 1
SPECIFICATION Spec
INVARIANTS PushesWhereProven LeakDemandsRotation
PROPERTY CommittedAsMarked
CONSTRAINT OneAtATime
