SPECIFICATION FairSpec
CONSTANTS
  Conns = {c1, c2}
  Slow = {c1}
  MaxUnread = 3
  Options <- MCOptions
  None = None
\* Every client may have gone, or never send another request.
CHECK_DEADLOCK FALSE
INVARIANT TypeOK
INVARIANT NoLostEvent
INVARIANT NoStaleEvent
INVARIANT BlocksMidway
PROPERTY Served
