SPECIFICATION MCSpec
CONSTANTS
    Connectors = {"u1"}
    Closers = {"u2"}
    Calls = 3
    MaxSessions = 2
    MaxLosses = 1
    Retries = {0, 1}
    Base = 4
    LengthBytes = 1
    MaxPacketSize = 4
    MsgTypes = {}
    MsgIDs = {}
    PartSizes <- MCPartSizes
    MsgBodies = {}
    Peer <- MCPeer
    ReadKinds = {"thread", "worker", "sync"}
    RecvLimits = {0, 1}
    DefaultRecvBuf = 2
    ShrinkCap = 3
    RecvBatch = 2
    Reused = FALSE
    GConns = {1, 2}
    LoopSlots = {1, 2}
    Reconnects = {TRUE, FALSE}
    MaxRetries = 1
    Connects = 2
    Closes = 1
    Fails = 1
    RelayNodes = {"a", "b"}
    RelayReqs = {"r"}
    Src <- MCSrc
    Dst <- MCDst
    MaxStarts <- MCMaxStarts
    MaxLinks = 8
    MaxBreaks = 1
INVARIANTS ReadStops OwnersHold
PROPERTIES CloseWins ClientGoesOn ReadSettles DialsSettle
