SPECIFICATION Spec
CONSTANTS
  r1 = r1
  r2 = r2
  r3 = r3
  NoRef = NoRef
  NoLocal = NoLocal
  Window = 1
  Refs = {r1, r2, r3}
  Demand <- AllDemand
  LocalIds = {l1, l2}
  Pods = {p1}
  Prompt = TRUE
  Faults <- AllCalls
  Lost <- AllCalls
  MaxTime = 4
  MaxRestarts = 1
INVARIANT OneHoldPerOrder
INVARIANT OneAnswer
INVARIANT RefusedHoldsNoStock
PROPERTY ImplementsProtocol
