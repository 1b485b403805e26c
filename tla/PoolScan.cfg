\* Two slots, two calls that scan them at once, connections that may be lost.
CONSTANTS
  Conn = {c1, c2}
  Req = {r1, r2}
  None = None
  IdSpace = 4
  ChanCap = 1
  MayWrap = FALSE
  Faults = {"close"}
  ConnPerNode = 2
  MayRefuse = TRUE
SPECIFICATION HandlerSpec
INVARIANTS PoolTyped OpenInPool
PROPERTIES Spec
CONSTRAINT Scanning
SYMMETRY Symmetry
CHECK_DEADLOCK FALSE
