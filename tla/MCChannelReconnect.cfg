CONSTANTS
  s1 = s1  s2 = s2
  None = None
  Sessions = {s1, s2}
  Transports = {"TCPClient", "CloseNew"}
  MaxQueue = 3
  MaxStray = 1
  RemoveEnabled = TRUE
SPECIFICATION FairSpec

PROPERTIES ComesOnline
CHECK_DEADLOCK FALSE
