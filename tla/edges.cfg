SPECIFICATION Spec
CONSTANTS
  a = a  b = b  t = t  u = u  c1 = c1  c2 = c2
  Reader = Reader  Nobody = Nobody
  Channels = {a, b}  Sequenced = {}  Tickers = {t, u}
  Callers = {c1}  Objs = {1, 2, 3, 4, 5, 6}
  Calls <- EdgeCalls  MaxCalls = 2
  MaxConns = 2  MaxSubs = 6  MaxSeq = 0  QueueLen = 0
  BufSize = 1  MinBackoff = 1  MaxBackoff = 4
  MayReject = TRUE  MayLose = FALSE  MayDrop = TRUE
  DialMayFail = TRUE  MayTimeout = TRUE  MayCancel = FALSE  Connected = FALSE
INVARIANT TypeOK
INVARIANT RoutingSound
INVARIANT IdsUnique
INVARIANT NoPanic
CHECK_DEADLOCK FALSE
