SPECIFICATION MCSpec
CONSTANTS
    Base = 4
    LengthBytes = 1
    MaxPacketSize = 4
    MsgTypes = {}
    MsgIDs = {}
    PartSizes <- MCPartSizes
    MsgBodies = {}
    Peer <- MCPeer
    ReadKinds = {"thread", "worker", "sync"}
    RecvLimits = {0, 1}
    DefaultRecvBuf = 2
    ShrinkCap = 3
    RecvBatch = 2
    Reused = TRUE
INVARIANTS PacketsIntact
CHECK_DEADLOCK FALSE
