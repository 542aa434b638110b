SPECIFICATION Spec
CONSTANTS
  r1 = r1  r2 = r2  r3 = r3  r4 = r4
  empty = empty  image = image  video = video  big = big
  None = None
  Requests = {r1, r2, r3, r4}
  Files = {empty, image, big}
  Size <- Bytes
  Videos = {}
  MaxBytes = 1
  PageBytes = 1
  Expiry = 1
  Calls = {"submit", "init", "upload", "create", "delete"}
  PageHasKey = FALSE
  Faults = {"minio", "db", "crash"}
SYMMETRY RequestSymmetry
INVARIANTS
  TypeOK
  DanglingNeedsRemoval
  PolicyEnforced
