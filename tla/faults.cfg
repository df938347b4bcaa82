SPECIFICATION Spec
CONSTANTS
  Projects = {"r1"}
  Plans = {"p1"}
  Tasks = {"a1", "a2"}
  Jobs = {1, 2}
  Instances = {"i1"}
  Workers = {"w1", "w2"}
  ProjectOf <- SameProject
  PlanOf <- MCPlanOf
  Position <- MCPosition
  CreatedAt <- MCCreatedAt
  InstanceOf <- OneInstance
  MaxAttempts = 1
  Env = {"fault", "stall"}
  None = None
INVARIANT StrictOrder
PROPERTY SettledStays
CHECK_DEADLOCK FALSE
