\* The same with a peer that may go away: a call can wait for ever.
CONSTANTS
  Conn = {c1}
  Req = {r1, r2}
  None = None
  IdSpace = 4
  ChanCap = 1
  MayWrap = FALSE
  Faults = {"close"}
SPECIFICATION FairSpec
PROPERTIES EveryCallResolves
CHECK_DEADLOCK FALSE
