\* read, tail and grep on files of up to three lines that grow while they run.
SPECIFICATION Spec
CONSTANTS
  Trees <- MCTrees
  Chunks <- MCChunks
  MaxGrowth = 3
  Requests <- MCRequests
  Caps <- MCCaps
  DefaultLimit = 2
  HardLimit = 3
  ScanLineCap = 4
  TailMaxScan = 6
INVARIANTS
  TypeOK
  ReadPages
  CapOnRune
  TailSuffix
  GrepComplete
CHECK_DEADLOCK FALSE
