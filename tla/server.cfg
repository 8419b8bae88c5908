SPECIFICATION FairSpec
CONSTANTS
  coroutineCnt = 2
  MaxStacks = 3
  Conns = {c1, c2, c3}
  Slow = {c1}
  Loads <- MCLoads
  None = None
\* Every client may have gone, or never send another request.
CHECK_DEADLOCK FALSE
INVARIANT TypeOK
INVARIANT OwnCoroutine
INVARIANT SuspendedWaits
PROPERTY Served
