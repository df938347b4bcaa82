SPECIFICATION FairSpec
CONSTANTS
  Runs = {"run1", "run2"}
  Discussions = {"run2"}
  ProjectOf <- MCProjectOf
  JobOf <- MCJobOf
  Stops = {"automation", "all"}
  Request <- MCRequest
  CancelAll = "all"
INVARIANTS KilledRunIsCancelled NoWorkerOrphan
CHECK_DEADLOCK FALSE
PROPERTY CancelReaches
