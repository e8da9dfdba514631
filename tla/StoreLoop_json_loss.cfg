SPECIFICATION Spec
CONSTANTS
  a = a
  b = b
  c = c
  s1 = s1
  s2 = s2
  Rows = {a, c}
  Shards = {s1}
  Sections <- MCSections
  SectionOf <- MCJson
  WriterOf <- MCWriterOf
  Parallel <- MCParallel
  CopyCount <- MCJsonTwo
  MaxLen = 1
  BatchSize = 2
  MaxBytes = 1
  BackoffLen = 1
  StepTimeout = 1
  MainTimeout = 2
INVARIANTS
  CleanExitMeansArchived
