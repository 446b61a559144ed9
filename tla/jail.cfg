\* Every filesystem of depth two over two names, changed between requests.
SPECIFICATION Spec
CONSTANTS
  Names <- MCNames
  MaxDepth = 2
  Targets <- MCTargets
  Given <- MCGiven
  Inputs <- MCInputs
  Cwd <- MCCwd
  MaxTarget = 2
  MaxLinks = 3
INVARIANTS
  ResolvedInside
  ResolveExact
  MissingOnlyInside
