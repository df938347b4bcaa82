---------------------------- MODULE MCExecution ----------------------------
(***************************************************************************)
(* Small instances of Execution.  Every plan has an implementation task    *)
(* and the final validation that plan generation always appends.           *)
(***************************************************************************)
EXTENDS Execution, TLC

\* Plan p1 alone, or p1 and p2 in one project.
MCPosition == [t \in Tasks |-> IF t \in {"a1", "b1"} THEN 1 ELSE 2]
MCPlanOf == [t \in Tasks |-> IF t \in {"a1", "a2"} THEN "p1" ELSE "p2"]
MCCreatedAt == [p \in Plans |-> IF p = "p1" THEN 1 ELSE 2]
SameProject == [p \in Plans |-> "r1"]

\* Worker "w" of each instance, or both workers in one instance.
OneInstance == [w \in Workers |-> "i1"]
OwnInstance == [w \in Workers |-> IF w = "w1" THEN "i1" ELSE "i2"]
=============================================================================
