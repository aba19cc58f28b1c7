CONSTANTS
  Values <- MCValues
  DefaultValue <- MCDefault
  Zero <- MCZero
  WithFlags <- MCWithFlags
  FlagValues = {TRUE, FALSE}
  Variations = {"packed", "flags"}
  Promote <- MCPromote
  AsConfigured = AsConfigured
  NoHeader = NoHeader
  Indices <- MCIndices
  Config <- MCConfig
  ClassZero = {"binary", "counter"}
  Reads <- MCReads
  Ranges <- MCRanges
  Modes = {"Detect", "Force", "Suppress", "EventOnly"}
  Rooms = {3, 4, 20}
  MaxUpdates = 2
  IndexMod = 4
  Packed = {"packed"}
SPECIFICATION Spec
INVARIANTS RangeExact ResponseIsSnapshot MirrorExact LoadedIsWritten
