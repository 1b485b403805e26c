\* A server that may close the connection, or answer twice.
CONSTANTS
  Conn = {c1}
  Req = {r1, r2}
  None = None
  IdSpace = 4
  ChanCap = 1
  MayWrap = FALSE
  Faults = {"close", "dup"}
SPECIFICATION FairSpec
INVARIANTS ReplyMatches SenderKept
PROPERTIES ResolvesOrConnectionDies KeepaliveEnds
CHECK_DEADLOCK FALSE
