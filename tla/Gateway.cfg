SPECIFICATION GatewaySpec
CONSTANTS
  Clients = {a, b}
  Proxy = Proxy
  NotAnIP = NotAnIP
  Hops = 2
  Cost = 2
  Rate = 1
  Burst = 3
  TTL = 3
  MaxForged = 1
  MaxTime = 9
  NoBucket = NoBucket
  Orgs = {o1, o2}
  ApiKeys = {k1}
  Requests = {r1, r2, r3}
  MaxVerified = 1
  MaxInFlight = 2
  TenancyFaults = {"read", "handler", "write", "lost"}
  AdminToken = AdminToken
  Nobody = Nobody
INVARIANTS GatewayTypeOK IdleBucketsGo TenancySafety RevocationTakesEffect
PROPERTIES NothingForFree ImplementsTokenBucket
SYMMETRY Symmetry
