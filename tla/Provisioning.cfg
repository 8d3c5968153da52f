CONSTANTS
  Run = {r1, r2, r3}
  None = None
SPECIFICATION FairSpec
INVARIANTS
  TypeOK
  DoneIsOneSet
  ServesTheDone
PROPERTIES
  NeverReplaced
  VaultComesUp
