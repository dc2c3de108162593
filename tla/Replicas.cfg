SPECIFICATION Spec
CONSTANTS
  r1 = r1
  r2 = r2
  r3 = r3
  NoRef = NoRef
  NoLocal = NoLocal
  Window = 1
  Refs = {r1}
  Demand <- OneDemand
  LocalIds = {l1, l2}
  Pods = {p1, p2}
  Prompt = FALSE
  Faults <- AllCalls
  Lost <- AllCalls
  MaxTime = 3
  MaxRestarts = 1
SYMMETRY ReplicaSymmetry
INVARIANT StoreMatchesOutbox
INVARIANT ToldOnlyWhatIsRecorded
INVARIANT ReleasedOnlyWhenPromised
INVARIANT RefusalFreesItsHold
INVARIANT MissedOnlyAfterDeadline
