SPECIFICATION CronSpec
CONSTANTS
  Seconds = 2
  Minutes = 2
  Hours = 3
  Weekdays = 2
  MonthDays <- MCMonths
  Specs <- MCSpecs
  Starts <- MCStarts
  Zones <- MidnightZones
  YearLimit = 1
INVARIANTS NextIsNext
CHECK_DEADLOCK FALSE
