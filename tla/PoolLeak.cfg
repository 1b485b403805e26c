\* One slot whose connections fail: one that is replaced keeps its socket.
CONSTANTS
  Conn = {c1, c2}
  Req = {}
  None = None
  IdSpace = 4
  ChanCap = 1
  MayWrap = FALSE
  Faults = {"close", "garbage"}
  ConnPerNode = 1
  MayRefuse = FALSE
SPECIFICATION HandlerFairSpec
PROPERTIES SocketsSettle
CHECK_DEADLOCK FALSE
