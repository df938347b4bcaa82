SPECIFICATION EndingSpec
CONSTANTS
  Projects = {"r1"}
  Plans = {"p1", "p2"}
  Tasks = {"a1", "a2", "b1", "b2"}
  Jobs = {1, 2, 3, 4}
  Instances = {"i1"}
  Workers = {"w1", "w2"}
  ProjectOf <- SameProject
  PlanOf <- MCPlanOf
  Position <- MCPosition
  CreatedAt <- MCCreatedAt
  InstanceOf <- OneInstance
  MaxAttempts = 1
  Env = {"drift"}
  None = None
CHECK_DEADLOCK FALSE
INVARIANTS TypeOK CompletedPlan NoAbandonedJob
PROPERTY PlanSettles
