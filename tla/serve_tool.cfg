\* Two connections on one slot, two databases, no per-tool timeout.
SPECIFICATION FairServeSpec
CONSTANTS
  Conns = {c1, c2}
  MaxConns = 1
  BackoffInitial = 1
  BackoffMax = 1
  Token = good
  Tokens = {good}
  read = read
  list = list
  Tools = {read, list}
  Registered = {read, list}
  Remote = {read, list}
  CtxAware = {list}
  ToolTimeout = FALSE
  Oversized = Oversized
  Malformed = Malformed
  Offered <- ToolLines
  NoLine = NoLine
  NoConn = NoConn
  DBs = {app, logs}
  TTL = TRUE
INVARIANTS
  PoolsOutliveHandlers
  NothingLeaks
  GracefulUntilTTL
PROPERTIES
  TTLEndsServer
  SignalEndsServer
