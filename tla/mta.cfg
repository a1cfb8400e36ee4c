SPECIFICATION Spec
CONSTANTS
  Programs <- AllPrograms
  Main = "main"
  MaxThreads = 4
  MaxDepth = 4
  MaxIters = 2
INVARIANTS TypeOK SingleInstance ParentsInTree FullJoinHolds HBHolds MHPSound ExactOnStraightLine IntraLocksHeld LocksProtect CxtLocksFound
PROPERTIES AnalysisEnds
