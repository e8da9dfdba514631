CONSTANTS
  PVs = {"p", "q", "r"}
  Hosted = {"p", "q"}
  SearchLists <- MCSearchLists
  Lists <- MCLists
  AddLists <- MCAddLists
  MaxFrames = 1
  BatchSize = 1
  MaxEvents = 2
SPECIFICATION Spec
INVARIANT AnswersMatched
PROPERTY BulkReport
PROPERTY CallsReturn
