\* Two ids in all, so that they wrap around and entries are overwritten, and a
\* server that may send what cannot be read.
CONSTANTS
  Conn = {c1}
  Req = {r1, r2, r3}
  None = None
  IdSpace = 2
  ChanCap = 1
  MayWrap = TRUE
  Faults = {"garbage"}
SPECIFICATION Spec
INVARIANTS TypeOK CopiesBounded
CONSTRAINT Busy
SYMMETRY Symmetry
CHECK_DEADLOCK FALSE
