SPECIFICATION Spec
CONSTANTS
  a = a  b = b  t = t  u = u  c1 = c1  c2 = c2
  Reader = Reader  Nobody = Nobody
  Channels = {a}  Sequenced = {a}  Tickers = {t, u}
  Callers = {c1}  Objs = {1, 2, 3, 4, 5, 6}
  Calls <- StreamCalls  MaxCalls = 3
  MaxConns = 2  MaxSubs = 6  MaxSeq = 4  QueueLen = 2
  BufSize = 1  MinBackoff = 1  MaxBackoff = 1
  MayReject = FALSE  MayLose = TRUE  MayDrop = FALSE
  DialMayFail = FALSE  MayTimeout = FALSE  MayCancel = FALSE  Connected = TRUE
INVARIANT NoReadPastGap
CHECK_DEADLOCK FALSE
