SPECIFICATION Spec
CONSTANTS
  Requirement = "req"
  Revision = "rev"
  Workers = {"w1", "w2"}
  Providers = {"codex", "claude"}
  DefaultProvider = "codex"
  MaxAttempts = 2
  MaxJobs = 2
  MaxPlans = 2
  MaxSessions = 2
  MaxToggles = 0
  MaxFaults = 0
  Users = {"discuss"}
  None = None
INVARIANTS ResumesOwnProvider LostSessionDropped
CHECK_DEADLOCK FALSE
