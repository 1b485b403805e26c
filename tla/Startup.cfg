\* The numbers of the code: sixty attempts, pauses of at most five seconds.
CONSTANTS
  Request = {q1, q2}
  Codecs = {some, none}
  Unset = Unset
  MaxAttempts = 60
  MaxBackoff = 5
SPECIFICATION FairSpec
INVARIANTS TypeOK CodecsBeforeRequests PausesBounded
PROPERTIES ShutdownEnds StartupDecides
CHECK_DEADLOCK FALSE
