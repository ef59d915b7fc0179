SPECIFICATION TablesSpec
CONSTANTS
    s1 = s1
    s2 = s2
    a1 = a1
    x1 = x1
    x2 = x2
    h1 = h1
    h2 = h2
    SyncCalls = {s1, s2}
    AsyncCalls = {a1}
    Chans = {x1, x2}
    Shards = {h1, h2}
    Readers = {r1}
    MaxPending = 2
    NoChan = NoChan
    NoCall = NoCall
    ShardOf <- MCShardOf
    c1 = c1
    c2 = c2
    u1 = u1
    u2 = u2
    n1 = n1
    n2 = n2
    ClientSids = {c1, c2}
    UserIds = {u1, u2}
    GameNodes = {n1, n2}
    Choosers = {"local"}
    MaxConnCounts = {2, 3}
    ErrCallbacks = {TRUE, FALSE}
    Raws = 2
    Hooks = 2
SYMMETRY TablesSymmetry
INVARIANTS ChanExclusive NothingLeftBehind AsyncEndsOnce CountCoversEntries CrossTalkNeedsGiveUp GateTablesHold
PROPERTY ImplementsOnceTable
