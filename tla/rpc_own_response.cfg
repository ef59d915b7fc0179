SPECIFICATION MCSpec
CONSTANTS
  s1 = s1
  s2 = s2
  a1 = a1
  x1 = x1
  x2 = x2
  h1 = h1
  h2 = h2
  SyncCalls = {s1, s2}
  AsyncCalls = {}
  Chans = {x1, x2}
  Shards = {h1, h2}
  Readers = {r1}
  MaxPending = 2
  NoChan = NoChan
  NoCall = NoCall
  ShardOf <- MCShardOf
INVARIANT OwnResponse
