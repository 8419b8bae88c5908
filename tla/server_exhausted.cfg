SPECIFICATION Spec
CONSTANTS
  coroutineCnt = 2
  MaxStacks = 3
  Conns = {c1, c2, c3}
  Slow = {}
  Loads <- MCLoads
  None = None
\* Every client may have gone, or never send another request.
CHECK_DEADLOCK FALSE
INVARIANT NoAbort
