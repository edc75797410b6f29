SPECIFICATION Spec
CONSTANTS
  Users = {1}
  Minutes = 5
  Hour = 0
  MaxRunAttempts = 3
  MaxAttempts = 3
  Period = 5
  FirstCharge = 0
  MaxDebt = 1
  BatchSize = 1
  Workers = 2
  Notice = 1
  Overdue = 1
  LongOverdue = 3
  ResumeDates = {0, 1, 4}
  MaxDay = 3
  MaxChanges = 0
  MaxCrashes = 0
  Null = Null
INVARIANT RunsEveryDay
