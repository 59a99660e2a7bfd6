SPECIFICATION FairSpec
CONSTANTS
    Clients = {c1, c2}
    Blocks = {0, 1}
    NBuf = 2
    MaxWrites = 3
    MaxReads = 2
    MaxCtl = 2
    Ops = {"open", "close"}
    Readers = {c1, c2}
    Parents = {}
    Serial = TRUE
PROPERTIES
    CallsReturn
    EventuallyStored
CHECK_DEADLOCK FALSE
