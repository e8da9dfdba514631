SPECIFICATION AlertsSpec
CONSTANTS
  Throttle = 2
  Operators = {o1, o2}
  Nobody = Nobody
  ChunkMaxRows = 4800
  Rates = {0, 13, 40, 90}
  MaxPvs = 2
  MinChunk = 60
  MaxChunk = 480
  Hour = 240
  Limit = 0
  MaxTicks = 5
  MaxRows = 1
SYMMETRY Symmetry
INVARIANT LossAlerted
INVARIANT ChunkFits
CHECK_DEADLOCK FALSE
