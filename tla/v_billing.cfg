SPECIFICATION Spec
CONSTANTS
  main = main  other = other
  Procs = {main, other}  Main = main
  own = own  default = default  first = first  second = second
  Limiters = {own, default, first, second}  Own = own  Default = default
  Config <- Buckets  Grain = 2  Parts = 2  Padding = 5
  ClockSteps <- Steps  MaxClockSteps = 1  MaxLull = 2
  Tables <- LiveTable  Workloads <- Surveys
  MaxRetries = 2  BaseDelay = 1
INVARIANT OmittedAtDefault
CHECK_DEADLOCK FALSE
