SPECIFICATION Spec
CONSTANTS
  Paths <- MCPaths
  Root = "/"
  Parent <- MCParent
  TempOf <- MCTempOf
  Contents = {"v1", "v2"}
  IgnoreFile = ".gitignore"
  RulesOf <- MCRules
  Branches = {"main", "other"}
  Main = "main"
  Starts <- MCStarts
  MaxEdits = 2
  MaxFaults = 1
INVARIANTS ExactRestore PreflightSuffices 
PROPERTY UncapturedSurvives
CHECK_DEADLOCK FALSE
