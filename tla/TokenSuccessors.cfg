\* Two concurrent refreshes of one token both mint.
SPECIFICATION Spec
CONSTANTS
  Users = {u1}
  Tokens = {t1, t2, t3}
  Refreshers = {c1, c2}
  Logouts = {l1}
  None = None
INVARIANT SingleSuccessor
CHECK_DEADLOCK FALSE
