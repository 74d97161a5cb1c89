SPECIFICATION Spec
CONSTANTS
  None = None
  Delays = {0, 1}
  Slice = 1
  MaxIters = 2
  MaxTime = 2
  MaxId = 3
INVARIANTS TypeOK Conserved ClearIsFinal
PROPERTIES FiresInDeadlineOrder DrainIsBounded NothingOvertakesDue
