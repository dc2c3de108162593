SPECIFICATION FairSpec
CONSTANTS
  LocalIds = {1, 2}
  NoLocal = 0
  Window = 1
  Refs = {"a", "u", "m"}
  NoRef = "none"
  DemandLines <- Lines
  Dictionary <- SmallDictionary
  NoSKU = "none"
  Faults = {"publish", "raise", "cancel", "release"}
  MaxTime = 2
  MaxRestarts = 1
INVARIANT HeldInFull
INVARIANT StepsInOrder
INVARIANT HoldsNeedRestarts
PROPERTY AnswerStands
PROPERTY EveryOrderIsAnswered
CHECK_DEADLOCK FALSE
