CONSTANTS
  i1 = i1
  i2 = i2
  Instances = {i1, i2}
  MaxPeriods = 2
  LicenseLevels = {3, 1}
  PeriodLevels = {3, 1}
  FirstDays = 4
  Term = 4
  Dates = {2}
  MaxMissed = 1
  MaxCrashes = 1
  MaxFailures = 1
SPECIFICATION FairSpec
INVARIANT LicenseWarnedOnce
INVARIANT LapseIsWarned
INVARIANT ExpiryIsAnnounced
PROPERTY PeriodsExpire
