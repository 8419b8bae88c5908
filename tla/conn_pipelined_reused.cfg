SPECIFICATION FairSpec
CONSTANTS
  HeadLen = 2
  Wrap = 8
  BodyLens <- MCBodyLens
  MaxRequests = 3
  Usages <- MCReusedPipelined
\* The connection ends.
CHECK_DEADLOCK FALSE
PROPERTY DeCodeReturns
