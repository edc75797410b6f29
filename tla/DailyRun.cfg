SPECIFICATION FairSpec
CONSTANTS
  Users = {1}
  Minutes = 4
  Hour = 1
  MaxRunAttempts = 3
  MaxAttempts = 3
  Period = 5
  FirstCharge = 0
  MaxDebt = 1
  BatchSize = 1
  Workers = 2
  Notice = 1
  Overdue = 1
  LongOverdue = 3
  ResumeDates = {0, 2}
  MaxDay = 3
  MaxChanges = 1
  MaxCrashes = 1
  Null = Null
INVARIANTS
  DailyTypeOK
  DateIsRun
  FreshIsSettled
  OverdueIsReminded
  ChargedThenReminded
PROPERTY
  RefusedIsSettled
