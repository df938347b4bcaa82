------------------------------ MODULE MCDrift ------------------------------
(* Instances of Drift: a clean tree, two edits of one file with the same porcelain status, a conflict. *)
EXTENDS Drift

MCTrees == {"clean", "edit1", "edit2", "merge"}
MCStatusOf == [t \in MCTrees |-> CASE t = "clean" -> "" [] t = "merge" -> "UU f" [] OTHER -> " M f"]

\* An unchanged workspace is no drift: the gate does not stop a task while requirement,
\* settings, provider and workspace are all as the newest snapshot captured them.
NoDriftWithoutChange ==
  worker.pc = "block" /\ task.status = "queued" /\ Unchanged(Latest) => work.tree \in Conflicts

=============================================================================
