CONSTANTS
  c1 = c1
  n1 = n1
  n2 = n2
  ns1 = ns1
  ns2 = ns2
  read = read
  write = write
  Client = {c1}
  Stranger = Stranger
  Nonce = {n1, n2}
  Scope = {read, write, Admin}
  Namespace = {ns1, ns2}
  Admin = Admin
  Anywhere = Anywhere
  Nowhere = Nowhere
  Registry <- Grants
  Delivery = {d1, d2, d3}
  Requests <- Various
  Skew = 1
  Ttl = 4
  MaxWait = 2
  MaxClock = 8
  Capacity = 2
  Refill = 1
SYMMETRY DeliverySymmetry
SPECIFICATION Spec
INVARIANTS
  TypeOK
  AtMostOnce
  RetainedWhileFresh
  NoFalseReplay
  RateBound
PROPERTIES
  LimitedByItself
