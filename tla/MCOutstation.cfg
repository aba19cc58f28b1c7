SPECIFICATION MCSpec
CONSTANTS
  binary = binary
  None = None
  Types <- OneType
  Capacity <- OneCapacity
  Classes = {1}
  Variations = {v1}
  Default = v1
  MaxEvents = 4
  SeqCount = 3
  FragSize = 1
  Points = {1, 2}
  Counters = {2}
  Accepted = {"crob"}
  CommandEvent <- BinaryEvent
  FrozenEvent <- BinaryEvent
  BlockRoom = 1
  IINBits = {}
  MaxRuns = 0
  StoredFile = None
  Messages <- MCMessages
  Broadcasts = {"DontConfirm", "OptionalConfirm"}
  Batches <- Singles
  Detects = {TRUE, FALSE}
  Params <- MCParams
  InitialMask = {1}
INVARIANTS WrittenAreCarried NothingLeftToStart RepeatGetsItsResponse FinIsLast
PROPERTIES NoUnconfirmedLoss OperateFollowsSelect LanWriteInSequence
