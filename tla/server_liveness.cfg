\* Two connections on one slot, every kind of request line.
SPECIFICATION FairSpec
CONSTANTS
  Conns = {c1, c2}
  MaxConns = 1
  BackoffInitial = 1
  BackoffMax = 1
  Token = good
  bad = bad
  read = read
  list = list
  help = help
  nosuch = nosuch
  Tokens = {good, bad}
  Tools = {read, list, help, nosuch}
  Registered = {read, list, help}
  Remote = {read, list}
  CtxAware = {list}
  ToolTimeout = TRUE
  Oversized = Oversized
  Malformed = Malformed
  Offered <- EveryLine
  NoLine = NoLine
  NoConn = NoConn
PROPERTIES
  ShutdownCompletes
  ConnsReaped
  BacklogDrains
