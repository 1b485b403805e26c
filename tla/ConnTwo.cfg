\* Two connections that may be lost: calls retry on the other one.
CONSTANTS
  Conn = {c1, c2}
  Req = {r1, r2}
  None = None
  IdSpace = 4
  ChanCap = 1
  MayWrap = FALSE
  Faults = {"close"}
SPECIFICATION Spec
INVARIANTS AtMostOnce RefusedUnsent OnlyPeerCloses
PROPERTIES ImplementsRpc
SYMMETRY Symmetry
CHECK_DEADLOCK FALSE
