SPECIFICATION Spec
CONSTANTS
  main = main  other = other
  Procs = {main, other}  Main = main
  own = own  default = default  first = first  second = second
  Limiters = {own, default, first, second}  Own = own  Default = default
  Config <- Buckets  Grain = 2  Parts = 2  Padding = 5
  ClockSteps <- Steps  MaxClockSteps = 1  MaxLull = 2
  Tables <- TwoTables  Workloads <- HTTPWorkloads
  MaxRetries = 2  BaseDelay = 1
INVARIANT TypeOK
INVARIANT GrantsPaid
INVARIANT EstimateSuffices
INVARIANT ListedBilled
INVARIANT RetriesExhausted
INVARIANT MessageKept
PROPERTY MeetsQuota
PROPERTY RequestsReturn
CHECK_DEADLOCK FALSE
