SPECIFICATION Spec
CONSTANTS
  Programs <- AllPrograms
  Main = "main"
  MaxThreads = 4
  MaxDepth = 3
  MaxIters = 2
INVARIANTS TypeOK RacesShared LogsFollowDetection HeldIsCollected KnownIsKept
PROPERTIES DetectorEnds
