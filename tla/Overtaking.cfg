SPECIFICATION Spec
CONSTANTS
  Keys = {k1}
  Writers = {w1}
  Relays = {old, new}
  Stopping = {}
  BatchSize = 2
  BrokerLoses = FALSE
  NoKey = NoKey
  MaxEvents = 2
  MaxFailures = 0
INVARIANT FirstCopiesInOrder
