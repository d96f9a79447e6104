\* An outdated admin change form undoes a revocation.
SPECIFICATION Spec
CONSTANTS
  Keys = {k1}
  Clients = {c1}
  Revokers = {r1}
  Deleters = {d1}
  Editors = {e1}
  None = None
INVARIANT RevokedIsRefused
CHECK_DEADLOCK FALSE
