\* Directories of up to five entries, one of them a dotfile, and a heap of two; three
\* processes of which two fit; up to five mounts, and one more while disk runs; a
\* journal of up to twelve bytes.
SPECIFICATION MCSpec
CONSTANTS
  Names = {1, 2, 3, 4, 5}
  Dot = {2}
  MaxListEntries = 2
  DirOrder <- MCDirOrder
  Self = 2
  Bare = {3}
  PsMaxProcs = 2
  MaxBirths = 1
  MountTables <- MCMountTables
  Enclosing <- MCEnclosing
  Chunks <- MCChunks
  MaxWritten = 12
  OutputCaps <- MCOutputCaps
INVARIANTS
  HeapIsPrefix
  ListingIsPrefix
  PsSnapshot
  DiskTable
  JournalHonest
CHECK_DEADLOCK FALSE
