SPECIFICATION Spec
CONSTANTS
  r1 = r1  r2 = r2  r3 = r3  r4 = r4
  empty = empty  image = image  video = video  big = big
  None = None
  Requests = {r1, r2, r3}
  Files = {empty, video}
  Size <- Bytes
  Videos = {video}
  MaxBytes = 1
  PageBytes = 1
  Expiry = 1
  Calls = {"submit", "delete", "view"}
  PageHasKey = TRUE
  Faults = {"minio", "db", "crash"}
SYMMETRY RequestSymmetry
INVARIANTS
  DanglingOnlyByDelete
  MetadataMatches
  OrphanNeedsFailure
PROPERTIES
  ImplementsPostStore
