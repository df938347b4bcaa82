--------------------------- MODULE MCAgentRunner ---------------------------
(***************************************************************************)
(* An instance of AgentRunner with a worker's run and a discussion.        *)
(***************************************************************************)
EXTENDS AgentRunner

MCProjectOf == [r \in Runs |-> IF r = "run1" THEN "r1" ELSE "r2"]
MCJobOf == [r \in Runs |-> IF r \in Discussions THEN "discussion" ELSE "j1"]

\* Runner.CancelPrefix(project:), Runner.CancelAll and the request of
\* Service.StopTask and StopPlan, Runner.Cancel(project:job).
MCRequest == [c \in Stops |->
  CASE c = "automation" -> [exact |-> FALSE, key |-> <<"r1">>]
    [] c = "all" -> [exact |-> FALSE, key |-> <<>>]
    [] c = "task" -> [exact |-> TRUE, key |-> <<"r1", "j1">>]]
=============================================================================
