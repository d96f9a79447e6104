SPECIFICATION Spec
CONSTANTS
  r1 = r1
  r2 = r2
  r3 = r3
  r4 = r4
  r5 = r5
  r6 = r6
  Rows <- MCRows
  Edges <- MCEdges
  Spare <- MCSpare
  MaxDepth = 2
  Deleters = {d1, d2}
  Updaters = {u1}
  Removable = {r3}
  None = None
INVARIANTS
  CascadeExact
PROPERTIES
  NoRevival
  DeleteEnds
  CascadeShrinks
CHECK_DEADLOCK FALSE
