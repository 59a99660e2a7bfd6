SPECIFICATION Spec
CONSTANTS
    Clients = {c1, c2}
    Blocks = {0, 1}
    NBuf = 2
    MaxWrites = 3
    MaxReads = 2
    MaxCtl = 1
    Ops = {"open"}
    Readers = {c1, c2}
    Parents = {}
    Serial = FALSE
INVARIANTS
    NoLostWrite
CHECK_DEADLOCK FALSE
