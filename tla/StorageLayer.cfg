SPECIFICATION LayerSpec
CONSTANTS
    Clients = {c1, c2}
    Blocks = {0, 1}
    NBuf = 2
    MaxWrites = 2
    MaxReads = 2
    MaxCtl = 2
    Ops = {"sync", "del", "open", "close", "badid"}
    Readers = {c1}
    Parents = {c2}
    Serial = TRUE
    DiskBlocks = {0, 1}
    EOF = 1
    RD_RETRIES = 2
    MaxExchange = 3
    MaxRestart = 1
    Names = {"f", "g"}
    Nlfl = 2
    LF_BLKSIZ = 1
    LF_IBLEN = 2
    IBlocks = 2
    DBlocks = 3
    LF_NUM_DIR_ENT = 2
    LfConcurrent = FALSE
    MaxPuts = 4
    RfNames = {"f"}
    Nrfl = 1
    RF_RETRIES = 2
    RfModes = {{}, {"r", "o"}}
    RfControls = {"trunc"}
    MaxRfSeq = 4
    NamDevs = {"CONSOLE", "NULLDEV", "NAMESPACE", "LFILESYS"}
    NAMESPACE = "NAMESPACE"
    DevNames <- Devices
    Width <- Widths
    NewPrefixes <- MountPrefixes
    NewReplacements <- MountReplacements
    Paths <- LookedUp
    Tails = {0, 3, 63, 64, 114, 115, 127, 128, 192, 193, 242, 243, 244}
    NNAMES = 8
    NM_PRELEN = 64
    NM_REPLLEN = 96
    NM_MAXLEN = 256
INVARIANTS ReadCoherent NoLostWrite BuffersPartitioned LfReadsBack LfBlocksPartitioned LfDurable RfReadFresh 
PROPERTY ExchangeSound
CHECK_DEADLOCK FALSE
