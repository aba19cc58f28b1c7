CONSTANTS
  m1 = m1  m2 = m2
  integrity = integrity  poll = poll  command = command  nr = nr
  None = None
  Masters = {m1, m2}
  Tasks <- MCTasks
  Owner <- MCOwner
  Kind <- MCKind
  FileData = 0
  ReadLimit = 1
  BlockLimit = 1
  TxRoom = 1
  Never = 2
  RetryMin = 1
  RetryMax = 1
  PollPeriod = 1
  StartTimeout = 1
  ResponseTimeout = 1
  Unbuildable = {}
  SeqCount = 1
  Reacts = {"restart"}
  Responses <- MCResponses
  MaxConfirms = 1
  MaxPosted = 1
  MaxAdHoc = 1
SPECIFICATION FairSpec
INVARIANTS Agreement Custody NoLostWakeup ReportedOnce
PROPERTY TaskEnds
