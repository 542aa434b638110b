SPECIFICATION FairSpec
CONSTANTS
  r1 = r1  r2 = r2  r3 = r3
  Programs = {"gemini", "aistudio", "chatgpt", "posts"}
  Requests = {r1, r2, r3}
  Faults = {"startup", "bind", "export", "kill"}
INVARIANTS
  TypeOK
  CutOnlyLate
  NoSpanLeftBehind
  DrainObservable
  FailureExplained
PROPERTIES
  Stops
  ImplementsService
