SPECIFICATION Spec
CONSTANTS
  None = None
  Reqs = {r1, r2}
  Conns = {c1, c2}
  Kinds = {"keep", "close", "garbled", "brotli", "interim"}
CHECK_DEADLOCK FALSE
INVARIANTS TypeOK Exclusive OwnResponse BoundedResend
PROPERTIES RequestEnds
