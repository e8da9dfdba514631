SPECIFICATION MCSpec
CONSTANTS
  ByteBits = 2
  WordBytes = 2
  INLINE_WORDS = 1
  Payloads <- MCPayloads
  Descs <- MCDescs
  Structures <- MCStructures
  Ids = {1, 2, 3}
  MaxEntries = 2
  MaxBit = 8
  Bits16 = 4
  Bits32 = 6
  Bits64 = 8
  Samples <- MCSamples
  AlarmParts <- MCAlarmParts
  TimeParts <- MCTimeParts
  Layouts <- MCLayouts
  Units <- MCUnits
  MaxUnits = 3
  MaxPayload = 2
  SegmentFactor = 1
  MetaTypes <- MCMetaTypes
  MaxTypes = 4
  NaN = NaN
INVARIANTS
  WireRoundTrip
  UpdateReadAsSent
  BitSetAgrees
  ConvertedAsSent
  FramesAreWhole
  MetadataFollows
CHECK_DEADLOCK FALSE
