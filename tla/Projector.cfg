SPECIFICATION FairSpec
CONSTANTS
  a = a
  b = b
  c = c
  d = d
  e = e
  f = f
  q1 = q1
  q2 = q2
  NoPartition = NoPartition
  EventIds = {a, b, c, d, e, f}
  KindOf <- Mixed
  TimeOf <- Times
  ReceivedAt <- Receipts
  ReceiptOf <- FirstOrder
  DayLength = 2
  Partitions = {q1, q2}
  Topic <- TwoPartitions
  Faults = {"fetch", "mark", "apply", "dead", "commit", "letters"}
  Lost = {"mark", "apply", "dead", "commit"}
  Restarts = TRUE
  MaxAttempts = 3
  MaxFailures = 2
  MaxRebalances = 1
INVARIANT RollupMatchesClaims
INVARIANT LossNeedsFailure
INVARIANT AnswersFollowReceipts
PROPERTY ImplementsReadModel
PROPERTY CatchesUpOrStops
