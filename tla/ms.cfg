SPECIFICATION FairSpec
CONSTANTS
  m1 = m1
  m2 = m2
  c1 = c1
  c2 = c2
  Mains = {m1, m2}
  Conns = {c1, c2}
  Deployments <- MCDeployments
  MaxInFlight = 1
  None = None
  Gone = Gone
\* Every client may have gone, or never send another request.
CHECK_DEADLOCK FALSE
INVARIANT TypeOK
INVARIANT OneReactor
INVARIANT NoUseAfterFree
PROPERTY HandoffSpec
PROPERTY Served
PROPERTY ClosedForClient
