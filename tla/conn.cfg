SPECIFICATION FairSpec
CONSTANTS
  HeadLen = 2
  Wrap = 8
  BodyLens <- MCBodyLens
  MaxRequests = 3
  Usages <- MCUsages
\* The connection ends.
CHECK_DEADLOCK FALSE
INVARIANT TypeOK
INVARIANT BufferSafe
PROPERTY DeCodeReturns
PROPERTY Served
PROPERTY EchoSpec
