\* One report; the limits of 20 and 60 refusals and of four seconds made small.
CONSTANTS
  Report = {r}
  Neutral = r
  None = None
  NoFile = NoFile
  NeverLimit = 1
  StoppedLimit = 2
  StaleLimit = 2
SPECIFICATION HealthSpec
INVARIANTS HealthTypeOK OkMeansFewMisses StatusIsOfThisRun
PROPERTIES WedgeIsTold
