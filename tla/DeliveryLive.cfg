SPECIFICATION FairSpec
CONSTANTS
  Users = {1, 2}
  Keys = {man}
  Manual = {man}
  Owner <- MCOwner
  Workers = {w1}
  Poller = p
  MaxAttempts = 2
  Lease = 2
  AttemptTime = 3
  PageSize = 1
  MaxCrashes = 1
  MaxClock = 0
  Null = Null
PROPERTIES
  PendingIsSettled
  RefusedIsRetried
  ProcessEnds
  SettledIsFinal
INVARIANTS
  FenceInv
