SPECIFICATION Spec
CONSTANTS
  Threads = {th1, th2}
  Requests = {r1, r2}
  Callers = {r1}
  None = None
INVARIANTS
  ObservabilityOnly
  RowsTruthful
  NoSilentLoss
PROPERTIES
  EventuallySettled
CHECK_DEADLOCK FALSE
