CONSTANTS
  Task = {t1, t2, t3}
  n1 = n1
  k1 = k1
  Name = {n1}
  Key = {k1}
  DatabaseId = {d1, d2}
  None = None
  Calls <- CustodyCalls
SYMMETRY TaskSymmetry
SPECIFICATION CustodySpec
INVARIANTS
  VerdictWasTrue
PROPERTIES
  NothingBuiltOnLoss
  ServesOnlyWhole
