CONSTANTS
  Operation = {o1, o2, o3}
  Client = {c1}
  Demo = demo
  Namespace = {demo, other}
  LockAfter = 3
  RevealFor = 2
  None = None
SYMMETRY OperationSymmetry
SPECIFICATION Spec
INVARIANT RotatesWhatWasSelected
