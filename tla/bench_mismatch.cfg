SPECIFICATION Spec
CONSTANTS
  Slots = {s1, s2}
  max_req_count = 1
  rate_limit = 1
  run_time = 2
  refresh_period = 1
  Faults <- MCFaults
\* The run ends.
CHECK_DEADLOCK FALSE
INVARIANT NoAbort
