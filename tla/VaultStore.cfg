CONSTANTS
  n1 = n1
  Name = {n1}
  DatabaseId = {d1}
  None = None
  Task = {t1, t2, t3}
  Key = {k1, k2}
  Calls <- EveryCall
SYMMETRY StoreSymmetry
SPECIFICATION Spec
INVARIANTS
  TypeOK
  EvidenceAnchored
  CheckpointSound
  SecretsSound
  AuditExplainsData
  AcknowledgedKept
PROPERTIES
  FailClosed
  ImplementsLedger
