CONSTANTS
  Value = {v1, v2}
  MaxEvents = 2
  MaxEdits = 1
SPECIFICATION Spec
PROPERTY FailClosedWhenBad
