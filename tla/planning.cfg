SPECIFICATION Spec
CONSTANTS
  Requirement = "req"
  Revision = "rev"
  Workers = {"w1", "w2"}
  Providers = {"codex"}
  DefaultProvider = "codex"
  MaxAttempts = 1
  MaxJobs = 2
  MaxPlans = 2
  MaxSessions = 0
  MaxToggles = 2
  MaxFaults = 1
  Users = {"edit", "run"}
  None = None
INVARIANTS   OneTaskJob
PROPERTY  PlanCarried LostPlanningRecovered
CHECK_DEADLOCK FALSE
