SPECIFICATION Spec
CONSTANTS
  a = a
  b = b
  c = c
  s1 = s1
  s2 = s2
  Rows = {a, b}
  Shards = {s1}
  Sections <- MCSections
  SectionOf <- MCStrings
  WriterOf <- MCWriterOf
  Parallel <- MCParallel
  CopyCount <- MCOneEach
  MaxLen = 2
  BatchSize = 2
  MaxBytes = 1
  BackoffLen = 1
  StepTimeout = 1
  MainTimeout = 4
PROPERTIES
  ShutdownEnds
  RowsSettle
