SPECIFICATION FairSpec
CONSTANTS
  r1 = r1
  r2 = r2
  r3 = r3
  NoRef = NoRef
  NoLocal = NoLocal
  Window = 1
  Refs = {r1, r2}
  Demand <- TwoDemands
  LocalIds = {l1, l2}
  Pods = {p1}
  Prompt = TRUE
  Faults = {"save"}
  Lost = {}
  MaxTime = 4
  MaxRestarts = 0
PROPERTY NetworkIsAnswered
PROPERTY HoldsAreResolved
PROPERTY AcknowledgedIsReleased
