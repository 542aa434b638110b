SPECIFICATION FairSpec
CONSTANTS
  r1 = r1  r2 = r2  r3 = r3  r4 = r4  r5 = r5
  c1 = c1  c2 = c2
  Clients = {c1, c2}
  Requests = {r1, r2, r3, r4}
  Limit = 1
  Window = 2
  MaxRetries = 0
  Faults = {}
INVARIANTS
  BurstBound
  RefusedOnlyAfterQuota
PROPERTY
  WindowReopens
