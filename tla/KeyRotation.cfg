CONSTANTS
  Task = {t1, t2, t3}
  n1 = n1
  Name = {n1}
  Key = {k1, k2}
  DatabaseId = {d1}
  None = None
  Calls <- RotationCalls
SYMMETRY RotationSymmetry
SPECIFICATION RotationSpec
INVARIANT NothingOrphaned
