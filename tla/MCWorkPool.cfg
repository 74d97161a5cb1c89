SPECIFICATION Spec
CONSTANTS
  None = None
  Workers = {w1, w2, w3}
  Submitters = {s1, s2}
  Jobs = {j1, j2, j3}
INVARIANTS TypeOK WakeupsCoverQueue
PROPERTIES QueueSafety QueueProgress DropReturns
