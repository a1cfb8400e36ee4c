CONSTANTS
  Main = Main
  Nil = Nil
  CxtLimit = 3
  MaxVisits = 3
  Programs <- MCPrograms
SPECIFICATION Spec
INVARIANTS TypeOK SliceComplete SliceExact NoLeakMissed NeverFreeReal GuardsMatchRuns
PROPERTIES AnalysisEnds
