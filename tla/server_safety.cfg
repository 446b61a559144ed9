\* Three connections on two slots: one is always left over to wait for a slot.
SPECIFICATION Spec
CONSTANTS
  Conns = {c1, c2, c3}
  MaxConns = 2
  BackoffInitial = 2
  BackoffMax = 3
  Token = good
  bad = bad
  read = read
  list = list
  help = help
  nosuch = nosuch
  Tokens = {good, bad}
  Tools = {read, list, help, nosuch}
  Registered = {read, list, help}
  Remote = {read, list}
  CtxAware = {list}
  ToolTimeout = TRUE
  Oversized = Oversized
  Malformed = Malformed
  Offered <- FewLines
  NoLine = NoLine
  NoConn = NoConn
SYMMETRY ConnSymmetry
INVARIANTS
  TypeOK
  SlotAccounting
  OpenBound
  CleanReturn
  OneAnswer
  RunsOnlyAuthorised
  BackoffBounded
  ServesUntilCancelled
PROPERTIES
  ImplementsService
