SPECIFICATION Spec
CONSTANTS
    PVs = {p1, p2}
    IOCs = {iocA}
    None = None
    Serves <- MCServes
    HasNameServer = TRUE
    Edits = {"insert", "insert_off", "enable", "disable", "beat", "delete", "ioc"}
    MaxEdits = 2
    MaxFaults = 1
CHECK_DEADLOCK FALSE
INVARIANTS
    BooksAgree
    EnabledIsArchived
PROPERTY
    EnabledGetsArchived
