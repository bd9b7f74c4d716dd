SPECIFICATION ShedSpec
CONSTANTS
  Minutes = 3
  Hours = 2
  Ticks = 2
  Epoch = 12
  Lists <- MCLists
  MaxJobs = 1
  Horizon = 36
PROPERTIES
  ParsedAsWritten
  RunsWhatIsDue
  NeverAgain
