SPECIFICATION LayerSpec
CONSTANTS
    NPROC = 4
    NSEM = 1
    Prios = {1, 2}
    Delays = {1, 2}
    MaxCount = 1
    MaxChprio = 1
    MaxCalls = 8
    HEAP = 5
    VHEAP = 4
    MB = 8
    Requests = {3, 8, 12, 24}
    NBUFS = 2
    PortUsers = {u1, u2, u3}
    NPORTS = 1
    NNODES = 3
    PortCap = 2
    MaxPortOps = 3
    BsProcs = {b1, b2, b3}
    MAX_BS_ENTRIES = 2
    BsPages = 2
    BsShared = FALSE
    MaxBsCalls = 5
INVARIANTS QueuesMatchStates RunsHighest SleepExact PrcountExact HeapPartitioned PoolBacked PortDelivers StoresOwned
CHECK_DEADLOCK FALSE
