CONSTANTS
  c1 = c1
  n1 = n1
  n2 = n2
  ns1 = ns1
  ns2 = ns2
  read = read
  write = write
  Client = {c1}
  Stranger = Stranger
  Nonce = {n1, n2}
  Scope = {read, write, Admin}
  Namespace = {ns1, ns2}
  Admin = Admin
  Anywhere = Anywhere
  Nowhere = Nowhere
  Registry <- Grants
  Delivery = {d1, d2}
  Requests <- OneRequest
  Skew = 15
  Ttl = 30
  MaxWait = 2
  MaxClock = 35
  Capacity = 1
  Refill = 1
SPECIFICATION Spec
INVARIANT AtMostOnce
