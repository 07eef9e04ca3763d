SPECIFICATION Spec
CONSTANTS
  first = first
  second = second
  NameOrder <- MCNameOrder
  DumpFiles <- MCDumpFiles
  Restores = {r1, r2}
  Workspaces = {w1, w2}
  Files = {first, second}
  Archives <- MCArchives
  Drives <- MCDrives
  Dumps <- MCDumps
  Databases = {"shop", "old"}
  Collections = {"items.bson", "tags.bson"}
SYMMETRY Symmetry
INVARIANT TypeOK
INVARIANT NothingLostToABadBackup
INVARIANT SuccessMeansRestored
INVARIANT WorkspacesAreOwned
INVARIANT FindsTheDatabase
INVARIANT StaysInside
INVARIANT DumpsComeBack
