SPECIFICATION Spec
CONSTANTS
  a = a
  b = b
  c = c
  d = d
  Nodes <- FourNodes
  Graphs <- AllGraphs
INVARIANTS TypeOK SubNodesExact CyclesFound
PROPERTIES NamesComponents
