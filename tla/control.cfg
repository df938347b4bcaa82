SPECIFICATION Spec
CONSTANTS
  Projects = {"r1"}
  Plans = {"p1"}
  Tasks = {"a1", "a2"}
  Jobs = {1, 2, 3}
  Instances = {"i1"}
  Workers = {"w1", "w2"}
  ProjectOf <- SameProject
  PlanOf <- MCPlanOf
  Position <- MCPosition
  CreatedAt <- MCCreatedAt
  InstanceOf <- OneInstance
  MaxAttempts = 1
  Env = {"toggle", "stop"}
  None = None
INVARIANTS WorkspaceExclusive NoLeakedLease
PROPERTY ImplementsProgress
CHECK_DEADLOCK FALSE
