SPECIFICATION MCSpec
CONSTANTS
  binary = binary
  analog = analog
  Types <- MCTypes
  Capacity <- MCCapacity
  Classes = {1, 2}
  Variations = {v1, v2}
  Default = v1
  Counts = {1, 9}
  Rooms = {0, 1, 9}
  MaxEvents = 5
  MaxSize = 3
  MaxArrivals = 6
INVARIANTS CountersExact ListsAgree ListIntact
PROPERTY NoSilentLoss
