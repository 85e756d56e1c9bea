SPECIFICATION PeriodsSpec
CONSTANTS
  MonthDays = 1
  LeapYears = {1}
  ShortDays = 2
  LongDays = 4
  MaxRange = 13
  Days = {15, 16, 17, 24, 25, 26}
  Typed = {0, 12, 15, 25, 99}
  NotADate = 99
INVARIANT PresetsAreReported
