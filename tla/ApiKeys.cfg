SPECIFICATION MCSpec
CONSTANTS
  Keys = {k1}
  Clients = {c1, c2}
  Revokers = {r1, r2}
  Deleters = {d1}
  Editors = {e1}
  None = None
  Creators = {n1, n2, n3}
  InAdmin = {n3}
  Prefixes = {p1, p2, p3}
  MaxTries = 2
  NoPrefix = NoPrefix
INVARIANTS
  RevokedNowOnce
  UseRecorded
  CreationAllOrNothing
PROPERTIES
  StampMovesOnce
  CreationEnds
CHECK_DEADLOCK FALSE
