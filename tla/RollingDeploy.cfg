SPECIFICATION FairSpec
CONSTANTS
  Keys = {k1, k2}
  Writers = {w1}
  Relays = {old, new}
  Stopping = {old}
  BatchSize = 2
  BrokerLoses = TRUE
  NoKey = NoKey
  MaxEvents = 2
  MaxFailures = 1
INVARIANT PublishedWasSent
INVARIANT TopicsMatchStore
INVARIANT DuplicatesNeedFailure
PROPERTY EveryEventIsSent
