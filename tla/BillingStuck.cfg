SPECIFICATION FairSpec
CONSTANTS
  Users = {1}
  Anchor <- MCAnchor
  FirstDates <- OneFirst
  ResumeDates <- EarlyResume
  Fees = {1}
  Amounts = {}
  Days <- TwoDays
  MinInt <- WideMin
  MaxInt = 99
  BatchSize = 2
  MaxEntries = 0
  Null = Null
PROPERTIES
  CatchUpCatchesUp
