SPECIFICATION Spec
CONSTANTS
  Updates <- MCUpdates
  Conns = 2
  MaxBytes = 3
  Threshold = 2
  MaxSamples = 2
  MaxFaults = 1
INVARIANTS
  NothingVanishes
  StoredOnce
  NothingRejected
  ArrayIdIdentifiesCapture
CHECK_DEADLOCK FALSE
