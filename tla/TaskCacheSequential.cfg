SPECIFICATION Spec
CONSTANTS
  r1 = r1  r2 = r2  r3 = r3  r4 = r4  r5 = r5
  t1 = t1  t2 = t2
  NoTask = NoTask
  Ids = {t1, t2}
  Requests = {r1, r2, r3, r4, r5}
  InFlight = 1
  MaxRetries = 0
  Faults = {}
SYMMETRY RequestSymmetry
PROPERTY
  ImplementsStore
