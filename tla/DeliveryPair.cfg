SPECIFICATION Spec
CONSTANTS
  Users = {1}
  Keys = {auto, man}
  Manual = {man}
  Owner <- MCOwner
  Workers = {w1}
  Poller = p
  MaxAttempts = 2
  Lease = 2
  AttemptTime = 1
  PageSize = 1
  MaxCrashes = 1
  MaxClock = 0
  Null = Null
INVARIANTS
  AtMostOneMessage
  TypeOK
PROPERTIES
  KeepsContract
  ExcludedForGood
