SPECIFICATION Spec
CONSTANTS
  Programs <- ReforkPrograms
  Main = "main"
  MaxThreads = 4
  MaxDepth = 4
  MaxIters = 2
INVARIANTS Parallel
