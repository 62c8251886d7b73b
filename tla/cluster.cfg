CONSTANTS
  Writer = {w1, w2}
  NoWriter = None
  MaxRetries = 2
  MaxExpected = 3
  MaxCalls = 2
  MaxDirect = 1
  Workers = 2
  MaxItems = 5
  Replica = {p, q}
  EventVal = {a, b}
  None = None
  BufMax = 2
  SockMax = 1
  MaxEvents = 3
  MaxConnects = 2
  Shards = 2
  Key = {0, 1}
  Val = {a}
  NoRec = None
  RouteOf <- KeyIsShard
  MaxId = 3
SPECIFICATION ClusterSpec
INVARIANTS TypeOK CasIsExact OneWinner  NothingLost
 
CHECK_DEADLOCK FALSE
