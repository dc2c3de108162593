SPECIFICATION Spec
CONSTANTS
  Keys = {k1, k2}
  Writers = {w1, w2}
  Relays = {p1}
  Stopping = {}
  BatchSize = 2
  BrokerLoses = FALSE
  NoKey = NoKey
  MaxEvents = 3
  MaxFailures = 1
SYMMETRY WriterSymmetry
INVARIANT FirstCopiesInOrder
PROPERTY ImplementsOrderedDelivery
