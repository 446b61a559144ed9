\* Queries with row limits from 0 to above the cap.
SPECIFICATION Spec
CONSTANTS
  Clients <- LimitClients
  SqlDefaultLimit = 2
  SqlMaxLimit = 3
  Schema <- MCSchema
  Lower <- MCLower
  Numbers = {0, 1}
  Null = Null
INVARIANT LimitCapped
CHECK_DEADLOCK FALSE
