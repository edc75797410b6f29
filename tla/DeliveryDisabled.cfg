SPECIFICATION Spec
CONSTANTS
  Users = {1}
  Keys = {auto}
  Manual = {}
  Owner <- MCOwner
  Workers = {w1}
  Poller = p
  MaxAttempts = 1
  Lease = 2
  AttemptTime = 1
  PageSize = 1
  MaxCrashes = 0
  MaxClock = 1
  Null = Null
PROPERTIES
  DisabledGetsNoReminder
