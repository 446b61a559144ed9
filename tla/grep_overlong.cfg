\* grep on a file with an overlong line.
SPECIFICATION Spec
CONSTANTS
  Trees <- MCTrees
  Chunks <- MCChunks
  MaxGrowth = 2
  Requests <- MCRequests
  Caps <- MCCaps
  DefaultLimit = 2
  HardLimit = 3
  ScanLineCap = 4
  TailMaxScan = 6
INVARIANT LineCapErrors
CHECK_DEADLOCK FALSE
