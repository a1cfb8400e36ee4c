CONSTANTS
  x = x  y = y  p = p  q = q  r = r  s = s  t = t
  A0 = A0  B0 = B0
  Nil = Nil
  Ptr <- StorePtr
  Obj <- ab
  BlkObj = {}
  ConstObj = {}
  NonPtr = {}
  FieldLimit <- scalars
  Offset = {0, 1}
  PAGs <- StorePAG
  IndirectCallLimit = 2
SPECIFICATION Spec
INVARIANTS
  StoreClosed
