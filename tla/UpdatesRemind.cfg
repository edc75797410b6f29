SPECIFICATION Spec
CONSTANTS
  Commands <- MCCommands
  Scripts <- OneReminder
  Users <- MCUsers
  Accounts <- MCAccounts
  MaxUpdates = 2
  MaxAttempts = 2
  Limit = 2
  Retention = 2
  MaxPeriod = 1
  MaxCrashes = 1
  Null = Null
INVARIANT
  NoReminderAgainAfterRestart
