SPECIFICATION MCSpec
CONSTANTS
    NShards = 2
    Clients = {1}
    MaxConns = 2
    MaxMsgs = 2
    MaxStops = 1
    Actors = {"a", "b"}
    Rejected = {"b"}
    HubConns = 2
    HubCalls = 2
    BusKinds = {"events", "local", "nats"}
    Topics = {"t", "u"}
    Registered = {"t"}
    Handlers = {"h1", "h2", "h3"}
    Code <- MCCode
    Events = {1}
    BusOps = 4
    ServerKinds = {"tcp", "tls", "ws", "gws"}
    ServerClients = {"c1", "c2"}
    Kicks = 1
    LinkKinds = {"rpc", "shard", "nats"}
    Sids = {"s1", "s2"}
    Home <- MCHome
    Chans = {1, 2}
    Forwards <- MCForwards
    Calls = 1
    Breaks = 1
    Objs = {1, 2, 3}
    NodeConns = {1, 2, 3}
    Processes = 2
INVARIANTS AttachedIsLive ActiveIsCount HubKnowsActors EventsReachListeners ServerAccounts SessionsHold NodesAgree
PROPERTIES InOrder
CHECK_DEADLOCK FALSE
