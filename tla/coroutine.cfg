SPECIFICATION CoroutineSpec
CONSTANTS
  coroutineCnt = 3
  MaxStacks = 4
\* The program ends after ScheduleClean.
CHECK_DEADLOCK FALSE
INVARIANT ScheduleTypeOK
INVARIANT Accounted
INVARIANT OwnStack
