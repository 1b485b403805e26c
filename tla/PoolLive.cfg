\* Two calls that contend for the cursor and, with the renewals, for the slot of
\* a pool whose connections are lost.
CONSTANTS
  Conn = {c1, c2}
  Req = {r1, r2}
  None = None
  IdSpace = 4
  ChanCap = 1
  MayWrap = FALSE
  Faults = {"close"}
  ConnPerNode = 1
  MayRefuse = FALSE
SPECIFICATION PoolSpec
PROPERTIES PickEnds SlotsRecover
CONSTRAINT OneScan
CHECK_DEADLOCK FALSE
