CONSTANTS
  n1 = n1
  a = a
  b = b
  Name = {n1}
  Key = {k1}
  DatabaseId = {d1}
  None = None
  Request = {r1, r2}
  Nonce = {a, b}
  Task <- RequestParts
  Calls <- ServiceCalls
  Wishes <- FewWishes
SPECIFICATION FairServiceSpec
PROPERTIES
  EveryRequestEnds
  LockReleased
  ServesAgain
