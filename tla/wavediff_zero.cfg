CONSTANTS
  x = x  y = y  p = p  q = q  r = r  s = s  t = t
  A0 = A0  B0 = B0
  Nil = Nil
  Ptr <- ZeroPtr
  Obj <- ab
  BlkObj = {}
  ConstObj = {}
  NonPtr = {}
  FieldLimit <- structA
  Offset = {0, 1}
  PAGs <- ZeroPAG
  IndirectCallLimit = 2
SPECIFICATION Spec
INVARIANTS
  CopyClosed
