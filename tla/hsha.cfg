SPECIFICATION FairSpec
CONSTANTS
  IO = {t1, t2}
  Workers = {w1, w2}
  Conns = {c1, c2}
  Slow = {c1}
  Options <- MCOptions
  None = None
\* Every client may have gone, or never send another request.
CHECK_DEADLOCK FALSE
INVARIANT TypeOK
INVARIANT ExclusiveConn
INVARIANT NoUseAfterFree
INVARIANT NoStranded
INVARIANT NoLostWakeup
PROPERTY Served
