SPECIFICATION FairSpec
CONSTANTS
  Projects = {"r1"}
  Plans = {"p1"}
  Tasks = {"a1", "a2"}
  Jobs = {1, 2, 3}
  Instances = {"i1", "i2"}
  Workers = {"w1", "w2"}
  ProjectOf <- SameProject
  PlanOf <- MCPlanOf
  Position <- MCPosition
  CreatedAt <- MCCreatedAt
  InstanceOf <- OwnInstance
  MaxAttempts = 2
  Env = {"crash"}
  None = None
CHECK_DEADLOCK FALSE
INVARIANTS RunningTaskHasJob AttemptBudget
PROPERTY LostJobRecovered ImplementsProgress
