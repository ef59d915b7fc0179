SPECIFICATION Spec
CONSTANTS
    NShards = 2
    Clients = {1}
    MaxConns = 2
    MaxMsgs = 2
    MaxStops = 1
INVARIANTS RegisteredShardConnected
CHECK_DEADLOCK FALSE
