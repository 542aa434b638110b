SPECIFICATION FairSpec
CONSTANTS
  r1 = r1  r2 = r2  r3 = r3
  c1 = c1  c2 = c2  t1 = t1
  Clients = {c1}
  Requests = {r1, r2}
  Limit = 1
  Window = 1
  MaxRetries = 0
  Ids = {t1}
  Faults = {"disconnect", "redis", "crash"}
INVARIANTS
  CountersAgree
  BypassWritesNothing
PROPERTIES
  EveryRequestEnds
  ImplementsQuota
