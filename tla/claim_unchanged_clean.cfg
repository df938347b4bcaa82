SPECIFICATION Spec
CONSTANTS
  Users = {}
  Providers = {"codex"}
  DefaultProvider = "codex"
  Trees <- MCTrees
  StatusOf <- MCStatusOf
  Untouched = "clean"
  Conflicts = {"merge"}
  Checkouts = {"main"}
  Origin = TRUE
  NumTasks = 2
  Edits = {}
  MaxEdits = 0
  MaxAccepted = 0
  MaxVersion = 1
  None = None
INVARIANT NoDriftWithoutChange
CHECK_DEADLOCK FALSE
