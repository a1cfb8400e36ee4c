SPECIFICATION Spec
CONSTANTS
  Programs <- SameRoutinePrograms
  Main = "main"
  MaxThreads = 4
  MaxDepth = 3
  MaxIters = 2
INVARIANTS AllRacesShared
