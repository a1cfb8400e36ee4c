CONSTANTS
  x = x  y = y  p = p  q = q  r = r  s = s  t = t
  A0 = A0  B0 = B0
  Nil = Nil
  Ptr <- Mov
  Obj <- ab
  BlkObj = {B0}
  ConstObj = {}
  NonPtr = {}
  FieldLimit <- structA
  Offset = {0, 1}
  PAGs <- FieldPAGs
  IndirectCallLimit = 2
SPECIFICATION Spec
INVARIANTS
  FieldsClosed
  CollapsedEverywhere
