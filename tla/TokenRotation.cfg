SPECIFICATION Spec
CONSTANTS
  Users = {u1, u2}
  Tokens = {t1, t2, t3}
  Refreshers = {c1, c2}
  Logouts = {l1}
  None = None
INVARIANTS
  NeverBothValid
  SessionsOwned
  DeadTokenMintsNothing
CHECK_DEADLOCK FALSE
