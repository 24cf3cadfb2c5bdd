SPECIFICATION FairSpec
CONSTANTS
  Job = {j1, j2}
  Worker = {w1, w2}
  Nobody = Nobody
  MaxJobs = 3
INVARIANTS
  PoolHoldsLiveJobs
PROPERTIES
  JobRuns
  ExitsUnlessMissed
CHECK_DEADLOCK FALSE
