SPECIFICATION Spec
SYMMETRY MCSymmetry
CONSTANTS
  a = a
  b = b
  c = c
  s1 = s1
  s2 = s2
  Rows = {a, b, c}
  Shards = {s1, s2}
  Sections <- MCSections
  SectionOf <- MCSectionOf
  WriterOf <- MCWriterOf
  Parallel <- MCParallel
  CopyCount <- MCOneEach
  MaxLen = 1
  BatchSize = 2
  MaxBytes = 1
  BackoffLen = 1
  StepTimeout = 1
  MainTimeout = 2
INVARIANTS
  NoRowVanishes
  OneHolder
  RetryBudget
  BooksBalance
  WrittenIsArchived
  CleanExitMeansArchived
PROPERTIES
  ImplementsLedger
