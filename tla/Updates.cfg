SPECIFICATION FairSpec
CONSTANTS
  Commands <- MCCommands
  Scripts <- WizardAndInvites
  Users <- MCUsers
  Accounts <- MCAccounts
  MaxUpdates = 3
  MaxAttempts = 2
  Limit = 2
  Retention = 2
  MaxPeriod = 1
  MaxCrashes = 1
  Null = Null
INVARIANTS
  UpdatesTypeOK
  PaymentsRecordedOnce
  RepliesAreTrue
  OneWayIn
  RemindedOncePerDate
PROPERTIES
  CommandsRunOnce
  LateOnlyIfDropped
  UpdatesAreSettled
