SPECIFICATION MCSpec
CONSTANTS
    ConvValues <- MCConvValues
    ConvDepth = 2
    DefaultBufferSize = 2
    MinRead = 2
    GrowThreshold = 4
    RingBytes = 9
    RingChunk = 4
    FifoSize = 2
    FifoItems = 8
    FifoFreeMax = 1
    DequeLength = 4
    DequeValues = {1, 2}
    Timers = {"t1", "t2"}
    Stoppers = {"t1"}
    WheelSize = 2
    WheelLevels = 3
    Delays = {1, 3}
    LastTime = 3
    Base = 2
    LengthBytes = 3
    MaxPacketSize = 8
    MsgTypes = {"A", "B", "C"}
    MsgIDs = {0, 1, 2, 3}
    PartSizes <- MCPartSizes
    MsgBodies <- MCMsgBodies
    OptionValues <- MCOptionValues
    Withs = 2
    Fails = 8
INVARIANTS ValuesHold ContainersHold TimersRunOnceInTime
PROPERTIES TimersFire
CHECK_DEADLOCK FALSE
