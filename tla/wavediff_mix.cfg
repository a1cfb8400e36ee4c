CONSTANTS
  x = x  y = y  p = p  q = q  r = r  s = s  t = t
  A0 = A0  B0 = B0
  Nil = Nil
  Ptr <- Mov
  Obj <- ab
  BlkObj = {}
  ConstObj = {B0}
  NonPtr = {}
  FieldLimit <- structA
  Offset = {0, 1}
  PAGs <- MixPAGs
  IndirectCallLimit = 2
SPECIFICATION FairSpec
INVARIANTS
  TypeOK
  Precise
PROPERTIES
  PointeesNeverLost
  Terminates
