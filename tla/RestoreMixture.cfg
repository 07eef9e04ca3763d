SPECIFICATION Spec
CONSTANTS
  first = first
  second = second
  NameOrder <- MCNameOrder
  DumpFiles <- MCDumpFiles
  Restores = {r1, r2}
  Workspaces = {w1, w2}
  Files = {first, second}
  Archives <- MCArchives
  Drives <- OwnDrives
  Dumps <- MCDumps
  Databases = {"shop"}
  Collections = {"items.bson", "tags.bson"}
SYMMETRY Symmetry
INVARIANT CollectionsAreReplaced
