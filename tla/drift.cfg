SPECIFICATION Spec
CONSTANTS
  Users = {"u1"}
  Providers = {"codex", "claude"}
  DefaultProvider = "codex"
  Trees <- MCTrees
  StatusOf <- MCStatusOf
  Untouched = "clean"
  Conflicts = {"merge"}
  Checkouts = {"main"}
  Origin = TRUE
  NumTasks = 2
  Edits = {"requirement", "settings", "provider", "tree", "checkout", "place"}
  MaxEdits = 1
  MaxAccepted = 2
  MaxVersion = 3
  None = None
INVARIANTS CLIRunsInRecordedContext AcceptsWhatWasReviewed AcceptanceSettles PreflightHolds AuditsFollowSnapshots
CHECK_DEADLOCK FALSE
