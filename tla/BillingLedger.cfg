SPECIFICATION Spec
CONSTANTS
  Users = {1}
  Anchor <- MCAnchor
  FirstDates <- OneFirst
  ResumeDates <- OneFirst
  Fees = {1, 2}
  Amounts <- ManualAmounts
  Days <- Quarter
  MinInt <- MCMin
  MaxInt = 3
  BatchSize = 1
  MaxEntries = 4
  Null = Null
INVARIANTS
  BillingTypeOK
  BalanceCountsStanding
  BalanceInRange
PROPERTIES
  ChargesAreDue
