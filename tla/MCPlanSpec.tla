----------------------------- MODULE MCPlanSpec -----------------------------
(***************************************************************************)
(* Structured documents with every dependency graph over four tasks, and   *)
(* over three tasks with themselves and a key that no task has; documents  *)
(* of two tasks that mix given and missing keys and dependency lists, most *)
(* of them read in compatibility mode.                                     *)
(***************************************************************************)
EXTENDS PlanSpec

MCRawKeys == {"", "a", "A", "b ", "B", "C", "X", "--", "P001", "P002", "P003", "P004", "P005", "final", "FINAL", "FINAL-2"}
MCNormal == [k \in MCRawKeys |->
  CASE k = "a" -> "A" [] k = "b " -> "B" [] k = "final" -> "FINAL" [] k = "--" -> "" [] OTHER -> k]
MCDefaultKey == <<"P001", "P002", "P003", "P004", "P005">>
MCFinalKey == <<"FINAL", "FINAL-2">>

Document(version, compat, tasks) ==
  [version |-> version, compat |-> compat, legacy |-> FALSE, complete |-> TRUE, tasks |-> tasks]

\* Three tasks, any dependencies on each other and on a task that is missing.
Graphs3 ==
  {Document(2, {FALSE}, <<[key |-> {"a"}, dependsOn |-> {d[1]}], [key |-> {"b "}, dependsOn |-> {d[2]}],
                          [key |-> {"final"}, dependsOn |-> {d[3]}]>>)
     : d \in [1 .. 3 -> SUBSET {"A", "b ", "FINAL"} \cup {{"X"}, {"a", "X"}}]}

Keys4 == <<"A", "B", "C", "FINAL">>
Graphs4 ==
  LET Lists(i) == SUBSET ({"A", "B", "C", "FINAL"} \ {Keys4[i]}) IN
  {Document(2, {FALSE}, [i \in 1 .. 4 |-> [key |-> {Keys4[i]}, dependsOn |-> {d[i]}]])
     : d \in Lists(1) \X Lists(2) \X Lists(3) \X Lists(4)}

\* Two tasks with keys and lists that may be missing, empty or equal.
Mixed2 ==
  {Document(v, c, t) : v \in {0, 2}, c \in {{}, {FALSE}},
     t \in [1 .. 2 -> [key : {{}, {""}, {"--"}, {"a"}, {"P001"}, {"P003"}},
                       dependsOn : {{}, {{}}, {{"P001"}}, {{"P002", "--"}}, {{"A"}}, {{"P003"}}}]]}

\* The rules that do not concern the graph, and the empty plan.
Other ==
  {[Document(v, {FALSE}, t) EXCEPT !.complete = c, !.legacy = l] : v \in {1, 2, 3}, c \in BOOLEAN, l \in BOOLEAN,
     t \in {<<>>, <<[key |-> {"a"}, dependsOn |-> {{}}]>>}}

MCRawSpecs == Graphs4 \cup Graphs3 \cup Mixed2 \cup Other
=============================================================================
