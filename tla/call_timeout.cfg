\* Two client processes on one slot, a server started with --timeout 0.
SPECIFICATION FairTripSpec
CONSTANTS
  c1 = c1
  c2 = c2
  Conns = {c1, c2}
  MaxConns = 1
  BackoffInitial = 1
  BackoffMax = 1
  Token = "good"
  Tokens = {"good", "wrong"}
  Tools = {"list", "version", "help", "unknown"}
  Registered = {"list", "version"}
  Remote = {"list", "version"}
  CtxAware = {"list"}
  ToolTimeout = FALSE
  Oversized = Oversized
  Malformed = Malformed
  Offered = {}
  NoLine = NoLine
  NoConn = NoConn
  Invocations <- ToolCalls
  KnownTools = {"list", "version", "help"}
  LocalTools = {"version", "help"}
  RemoteTools = {"list", "version"}
PROPERTIES
  CallReturns
