SPECIFICATION LayerSpec
CONSTANTS
    NetProcs = {u1, u2}
    Endpoints <- EndpointPairs
    Pinged <- PingedPairs
    Senders <- SenderPairs
    UDP_SLOTS = 2
    UDP_QSIZ = 2
    ICMP_SLOTS = 2
    ICMP_QSIZ = 1
    IP_OQSIZ = 1
    MaxPackets = 4
    MaxNetCalls = 2
    ArpHosts = {1, 2, 3}
    Resolvers = {r1, r2}
    ARP_SIZ = 2
    ARP_RETRY = 2
    MaxArp = 5
    Words = {0, 1, 255, 32768, 65534, 65535}
    MaxWords = 4
    TxRingSize = 3
    RxRingSize = 2
    ETH_NUM_MCAST = 1
    Groups = {"g1"}
    MaxFrames = 3
    DhcpServers = {"s1", "s2", "s3"}
    Anonymous = {"s3"}
    NoBoot = {"s2"}
    DHCP_RETRY = 2
    TFTP_MAXRETRIES = 2
    FileBlocks = 3
    Rooms = {2, 4}
    BLOCKMOD = 5
    TY_IBUFLEN = 2
    TY_OBUFLEN = 2
    TY_EBUFLEN = 4
    UART_FIFO_SIZE = 2
    Letters = {"a"}
    MaxChars = 4
    MaxBlocked = 2
INVARIANTS NetBufsConserved DatagramsInOrder ArpSound StampedAccepted RingsInOrder BootClean TtyQueues
CHECK_DEADLOCK FALSE
SYMMETRY Symmetry
