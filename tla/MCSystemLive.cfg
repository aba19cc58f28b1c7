SPECIFICATION FairSpec
CONSTANTS
  master1 = master1  poll = poll  command = command  reader = reader  writer = writer
  binary = binary
  None = None
  Masters = {master1}
  Tasks <- MCTasks
  Owner <- MCOwner
  Kind <- MCKind
  FileData <- NewContent
  ReadLimit = 2
  BlockLimit = 2
  TxRoom = 2
  Never = 2
  RetryMin = 1
  RetryMax = 1
  PollPeriod = 1
  StartTimeout = 1
  ResponseTimeout = 1
  Unbuildable = {}
  SeqCount = 3
  Reacts = {}
  Types <- OneType
  Capacity <- OneCapacity
  Classes = {1}
  Variations = {v1}
  Default = v1
  MaxEvents = 4
  FragSize = 1
  Accepted = {"crob"}
  CommandEvent <- BinaryEvent
  IINBits = {"func", "param"}
  MaxRuns = 3
  BlockRoom = 2
  StoredFile <- Content
  Batches <- OneEvent
  Params <- OneParams
  InitialMask = {1}
  Plans <- LivePlans
  MaxDoubled = 1
  Drops = {{"master", "outstation"}}
  StaleConfirms = FALSE
PROPERTY EventsGetThrough
