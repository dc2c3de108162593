SPECIFICATION FairSpec
CONSTANTS
  CallLimit = 1
  Interval = 3
  Cooldown = 3
  Trip = 5
  MinVolume = 10
  MaxVolume = 10
INVARIANT FollowUpIsAttempted
INVARIANT HalfOpenIsProbing
INVARIANT PressureIsBounded
INVARIANT HangingIsNotCutOff
PROPERTY TripsOnFreshEvidence
PROPERTY Recovers
