SPECIFICATION FairSpec
CONSTANTS
  Users = {1, 2}
  Anchor <- MCAnchor
  FirstDates <- OneFirst
  ResumeDates <- EarlyResume
  Fees = {1}
  Amounts = {}
  Days <- Quarter
  MinInt <- NarrowMin
  MaxInt = 1
  BatchSize = 1
  MaxEntries = 0
  Null = Null
INVARIANTS
  OneChargePerPeriod
  NoPeriodSkipped
PROPERTIES
  OnlyResumptionsGoBack
  PassEnds
  DuePeriodIsCharged
