SPECIFICATION FairSpec
CONSTANTS
  Slots = {s1, s2}
  max_req_count = 2
  rate_limit = 1
  run_time = 2
  refresh_period = 1
  Faults <- MCFaults
\* The server may never answer, and the run ends.
CHECK_DEADLOCK FALSE
INVARIANT TypeOK
INVARIANT Registered
INVARIANT RateLimited
INVARIANT OneTimer
PROPERTY Ends
