SPECIFICATION Spec
CONSTANTS
  r1 = r1  r2 = r2  r3 = r3  r4 = r4
  t1 = t1  t2 = t2
  NoTask = NoTask
  NoOne = NoOne
  Ids = {t1}
  Requests = {r1, r2, r3, r4}
  InFlight = 3
  Faults = {"db", "crash"}
SYMMETRY RequestSymmetry
INVARIANTS
  TypeOK
  LostOnlyByOverlap
PROPERTY
  ImplementsStore
