SPECIFICATION RedialSpec
CONSTANTS
  a = a  b = b  t = t  u = u  c1 = c1  c2 = c2
  Reader = Reader  Nobody = Nobody
  Channels = {a, b}  Sequenced = {}  Tickers = {t, u}
  Callers = {c1}  Objs = {1, 2, 3, 4, 5, 6}
  Calls <- RecoverCalls  MaxCalls = 2
  MaxConns = 3  MaxSubs = 6  MaxSeq = 0  QueueLen = 0
  BufSize = 1  MinBackoff = 1  MaxBackoff = 1
  MayReject = FALSE  MayLose = FALSE  MayDrop = TRUE
  DialMayFail = FALSE  MayTimeout = FALSE  MayCancel = FALSE  Connected = TRUE
INVARIANT Recovered
PROPERTY AlwaysResubscribed
CHECK_DEADLOCK FALSE
