SPECIFICATION Spec
CONSTANTS
  r1 = r1  r2 = r2  r3 = r3  r4 = r4
  c1 = c1  t1 = t1
  Clients = {c1}
  Requests = {r1, r2, r3}
  Limit = 2
  Window = 1
  MaxRetries = 0
  Ids = {t1}
  Faults = {"db", "crash"}
SYMMETRY RequestSymmetry
INVARIANTS
  Accounted
  WritesWithinQuota
  StrandedOnlyByCrash
PROPERTY
  ImplementsStore
