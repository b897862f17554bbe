SPECIFICATION Spec
CONSTRAINT OneConcern
CONSTANTS
  MemberIds = {m1, m2, m3}
  Names = {n1, n2, n3}
  Subjects = {s1, s2}
  Types = {note}
  Nobody = Nobody
  NoName = NoName
  MaxMembers = 2
  MaxClaims = 1
  MaxTtl = 2
  MessageMax = 2
  MessageTtl = 2
  MaxGrace = 1
  MaxClock = 2
  MaxLag = 1
  MaxSeq = 3
  MaxClientSeq = 2
  MaxMinted = 2
  MaxInflight = 2
SYMMETRY Symmetry
INVARIANTS
  TypeOK
  NamesUnique
  RemovedHoldNothing
  CursorBehindStream
  StreamKeys
PROPERTIES
  RemovalFinal
  ImplementsLease
