SPECIFICATION FairSpec
CONSTANTS
  r1 = r1
  r2 = r2
  r3 = r3
  NoRef = NoRef
  NoLocal = NoLocal
  Window = 1
  Refs = {r1}
  Demand <- OneDemand
  LocalIds = {l1}
  Pods = {p1}
  Prompt = TRUE
  Faults = {"cancel"}
  Lost = {}
  MaxTime = 3
  MaxRestarts = 0
PROPERTY HoldsAreResolved
