SPECIFICATION FairSpec
CONSTANTS
  r1 = r1
  r2 = r2
  r3 = r3
  NoRef = NoRef
  NoLocal = NoLocal
  Window = 1
  Refs = {r1, r2}
  Demand <- TwoDemands
  LocalIds = {l1}
  Pods = {p1}
  Prompt = TRUE
  Faults = {"save", "raise"}
  Lost = {"raise"}
  MaxTime = 3
  MaxRestarts = 1
PROPERTY EveryOrderIsSettled
