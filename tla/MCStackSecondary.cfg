CONSTANTS
  MaxPayload = 2
  RxSize = 3
  SeqMod = 3
  None = None
  Lengths = {2, 3, 4}
  Frames <- BroadcastFrames
  Prompt = TRUE
  MaxFragments = 2
  MaxFaults = 1
SPECIFICATION MCSpec
INVARIANT SecondaryWaitsForSomething
