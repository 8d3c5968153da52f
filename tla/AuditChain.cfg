CONSTANTS
  Value = {v1, v2}
  MaxEvents = 3
  MaxEdits = 2
SYMMETRY ValueSymmetry
SPECIFICATION Spec
INVARIANTS
  TypeOK
  ValidMeansOriginal
  BlameExact
PROPERTY NothingCutOff
