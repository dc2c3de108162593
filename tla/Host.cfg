SPECIFICATION FairSpec
CONSTANTS
  d1 = d1
  d2 = d2
  Demands = {d1, d2}
  MaxTime = 1
  BootRetries = 5
  DialReset = 10
  MaxRequests = 1
  MaxStops = 1
INVARIANTS NothingSkipped OutlastsDialReset ClosedAfterUse
PROPERTIES SignalledProcessEnds DemandIsHandedOver
