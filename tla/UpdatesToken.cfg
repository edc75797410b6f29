SPECIFICATION Spec
CONSTANTS
  Commands <- MCCommands
  Scripts <- TwoInvites
  Users <- MCUsers
  Accounts <- MCAccounts
  MaxUpdates = 4
  MaxAttempts = 2
  Limit = 2
  Retention = 2
  MaxPeriod = 0
  MaxCrashes = 1
  Null = Null
INVARIANT
  UsedTokenHasLinked
