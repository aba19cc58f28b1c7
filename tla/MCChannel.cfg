CONSTANTS
  s1 = s1  s2 = s2
  None = None
  Sessions = {s1, s2}
  Transports = {"TCPClient", "UDPClient", "Serial", "CloseNew", "CloseExisting"}
  MaxQueue = 3
  MaxStray = 2
  RemoveEnabled = FALSE
SPECIFICATION FairSpec
INVARIANTS OnlineExactly CompletionOwed ClosedWhenUnused
PROPERTIES ComesOnline
CHECK_DEADLOCK FALSE
