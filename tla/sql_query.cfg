\* Six clients, each with queries of its part of the grammar, and four typists.
SPECIFICATION MCSpec
CONSTANTS
  Clients <- QueryClients
  SqlDefaultLimit = 2
  SqlMaxLimit = 3
  Schema <- MCSchema
  Lower <- MCLower
  Numbers = {0, 1}
  Null = Null
  Typists <- MCTypists
  Letters <- MCLetters
  Upper <- MCUpper
  Keywords <- MCKeywords
INVARIANTS
  QueryMeans
  ParsesExactly
  ResolvedExactly
  LexesExactly
CHECK_DEADLOCK FALSE
