SPECIFICATION FairSpec
CONSTANTS
  h1 = h1
  h2 = h2
  Handlers = {h1, h2}
  Requests <- MCRequests
  Aliases = {"app"}
  Lower <- MCLower
  Postgres = {"app"}
  MaxOpenConns = 1
  DefaultLimit = 1
  MaxLimit = 2
  MaxOutput = 2
  Tables = {"t", "u"}
  Contents <- MCContents
  InitialDB <- MCInitialDB
  MaxChanges = 1
INVARIANTS
  ConnectionsReturned
  AnswersTrue
PROPERTIES
  HandlersReturn
