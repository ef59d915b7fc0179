SPECIFICATION MCSpec
CONSTANTS
    Nodes = {n1}
    Types = {"game", "chat"}
    Receivers = {r1, r2}
    MaxInbox = 2
    MaxRestarts = 2
    MaxReconnects = 2
    SyncCalls = {"s1"}
    AsyncCalls = {"a1"}
    Chans = {"x1"}
    Shards = {"h1", "h2"}
    ShardOf <- MCShardOf
    Readers = {"r1"}
    MaxPending = 2
    NoChan = "nochan"
    NoCall = "nocall"
    SyncReqs = {"s"}
    AsyncReqs = {"a", "b"}
    Callers = {{"a", "b"}, {"s"}}
    Records = {1, 2}
    Starts = 1
    LinkLosses = 1
    NComps = 2
    StopComp = {2}
    AppRestarts = 1
    Faults = 2
    Modules = {"p", "q", "s"}
    Adds <- MCAdds
    TreeCalls = 5
INVARIANTS IndexConsistent CountsSettle ClusterEndsOnce AppsHold
PROPERTIES CallsEnd NodesFollowed ClusterAnswers AppSettles
