SPECIFICATION Spec
CONSTANTS
  r1 = r1  r2 = r2  r3 = r3  r4 = r4  r5 = r5
  t1 = t1  t2 = t2
  NoTask = NoTask
  Ids = {t1}
  Requests = {r1, r2, r3, r4}
  InFlight = 3
  MaxRetries = 1
  Faults = {"db", "redis", "retry", "crash"}
SYMMETRY RequestSymmetry
INVARIANTS
  TypeOK
  StaleHasCause
  FreshUnlessTainted
PROPERTIES
  TransparentUnlessStale
  RevivedOnlyByLateReads
