SPECIFICATION StalledSpec
CONSTANTS
  a = a  b = b  t = t  u = u  c1 = c1  c2 = c2
  Reader = Reader  Nobody = Nobody
  Channels = {a}  Sequenced = {a}  Tickers = {t, u}
  Callers = {c1}  Objs = {1, 2, 3, 4, 5, 6}
  Calls <- EndCalls  MaxCalls = 2
  MaxConns = 2  MaxSubs = 6  MaxSeq = 2  QueueLen = 1
  BufSize = 1  MinBackoff = 1  MaxBackoff = 1
  MayReject = FALSE  MayLose = FALSE  MayDrop = TRUE
  DialMayFail = TRUE  MayTimeout = FALSE  MayCancel = TRUE  Connected = FALSE
PROPERTY CallsReturn
PROPERTY CancelEnds
PROPERTY CloseEnds
CHECK_DEADLOCK FALSE
