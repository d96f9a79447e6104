SPECIFICATION Spec
CONSTANTS
  Tasks = {t1, t2, t3}
  Workers = {w1, w2}
  MaxInFlight = 1
  None = None
INVARIANTS
  TasksAccounted
  DropsAccounted
  DrainTrueMeansDequeued
PROPERTIES
  KeepsPromise
  StopTerminates
CHECK_DEADLOCK FALSE
