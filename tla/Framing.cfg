SPECIFICATION FramingSpec
CONSTANTS
  Types = {2}
  Data <- PayloadCells
  MaxPayload = 2
  Room = 3
  CrcRaces = TRUE
  MaxFrames = 2
INVARIANTS
  RefusedForCause
PROPERTIES
  ImplementsChannel
  FramesArrive
CHECK_DEADLOCK FALSE
