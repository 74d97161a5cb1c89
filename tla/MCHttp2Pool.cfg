SPECIFICATION Spec
CONSTANTS
  None = None
  r1 = r1
  r2 = r2
  r3 = r3
  a = a
  b = b
  Reqs <- ThreeReqs
  Origins <- TwoOrigins
  Conns = {c1, c2, c3}
  Target <- TwoAndOne
CHECK_DEADLOCK FALSE
INVARIANTS TypeOK ThreeSends StaleIsHidden
PROPERTIES RequestEnds
