SPECIFICATION FairSpec
CONSTANTS
  Conns = {c1, c2, c3}
  Pool = {w1, w2}
  Main = Main
  Programs <- MCPrograms
  None = None
\* Every client may have gone, or never send another request.
CHECK_DEADLOCK FALSE
INVARIANT TypeOK
INVARIANT OneServer
PROPERTY Accepted
PROPERTY Finished
