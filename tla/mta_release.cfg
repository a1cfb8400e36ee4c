SPECIFICATION Spec
CONSTANTS
  Programs <- PartialReleasePrograms
  Main = "main"
  MaxThreads = 4
  MaxDepth = 4
  MaxIters = 2
INVARIANTS LocksProtect
