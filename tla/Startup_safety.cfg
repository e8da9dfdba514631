SPECIFICATION Spec
SYMMETRY Symmetry
CONSTANTS
  a = a
  b = b
  aPrinted = aPrinted
  aLong = aLong
  aBare = aBare
  bPrinted = bPrinted
  bLong = bLong
  host = host
  Processes = {p, q}
  NVersions = 2
  Names = {x, y}
  Sockets = {a, b}
  Addresses = {aPrinted, aLong, aBare, bPrinted, bLong, host}
  Parse <- MCParse
  Written <- MCWritten
  WithPort <- MCWithPort
  Seeds = {bLong, host}
  NoIoc = NoIoc
  MaxEntries = 1
  MaxFaults = 1
  MaxEdits = 1
  MaxReports = 1
INVARIANTS
  ServingHasSchema
  IdsAgree
  OneRowPerIoc
CHECK_DEADLOCK FALSE
