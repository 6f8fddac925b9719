SPECIFICATION Spec
CONSTANTS
  Document <- AllDocuments
  Part <- Parts
  Name <- Names
  Disk <- Disks
  Absolute <- FullPaths
INVARIANTS RealPaths
