------------------------------ MODULE PlanSpec ------------------------------
(***************************************************************************)
(* The life of one PlanSpec: package planspec parses the JSON of the       *)
(* planning CLI, normalises it, looks for dependency cycles and puts the   *)
(* tasks in topological order; saveGeneratedPlan writes the numbered tasks *)
(* as rows; and the scheduler reads the rows back and runs them one by     *)
(* one.  The loops of dependencyCycle and TopologicalOrder are steps.  The *)
(* lists of dependencies are sets: every order in which the depth-first    *)
(* search could meet them is a behaviour.                                  *)
(*                                                                         *)
(* A field that the JSON may leave out is a set with at most one element.  *)
(***************************************************************************)
EXTENDS Naturals, Sequences, FiniteSets

CONSTANTS
  RawKeys,     \* task keys as a CLI may spell them
  Normal,      \* normalizeKey of each of them, "" when no letter or digit is left
  DefaultKey,  \* P001, P002, ...
  FinalKey,    \* FINAL, FINAL-2, ...
  RawSpecs     \* the JSON documents

ASSUME PlanSpecAssumption ==
  /\ "" \in RawKeys
  /\ Normal \in [RawKeys -> RawKeys]
  /\ \A k \in RawKeys : Normal[Normal[k]] = Normal[k]
  /\ \A i \in DOMAIN DefaultKey : DefaultKey[i] \in RawKeys /\ Normal[DefaultKey[i]] = DefaultKey[i]

\* There is a default key for every task and for the final validation.
ASSUME DocumentAssumption ==
  \A r \in RawSpecs :
    /\ r.tasks \in Seq([key : SUBSET RawKeys, dependsOn : SUBSET SUBSET RawKeys])
    /\ 1 .. Len(r.tasks) + 1 \subseteq DOMAIN DefaultKey

VARIABLES
  raw,       \* what the CLI wrote
  spec,      \* planspec.Spec after prepareSpec
  pc,        \* raw, cycle, order, rejected, save_failed, saved, completed
  color,     \* dependencyCycle: state of each key, 0 new, 1 on the stack, 2 left
  stack,     \* dependencyCycle: keys being visited
  indegree,  \* TopologicalOrder: dependencies of a key that are not placed
  order,     \* TopologicalOrder: keys placed so far
  rows,      \* plan_tasks in the order of execution_order
  done       \* keys of the rows that succeeded, in the order they ran

vars == <<raw, spec, pc, color, stack, indegree, order, rows, done>>

NoSpec == [version |-> 0, compat |-> FALSE, complete |-> FALSE, tasks |-> <<>>]
NoCount == [k \in {} |-> 0]

Init ==
  /\ raw \in RawSpecs
  /\ spec = NoSpec /\ pc = "raw"
  /\ color = NoCount /\ stack = <<>>
  /\ indegree = NoCount /\ order = <<>>
  /\ rows = <<>> /\ done = <<>>

Keys(s) == {s.tasks[i].key : i \in DOMAIN s.tasks}

\* The index that taskIndexes holds for a key: the first task that has it.
IndexOf(s, k) ==
  CHOOSE i \in DOMAIN s.tasks :
    s.tasks[i].key = k /\ \A j \in 1 .. i - 1 : s.tasks[j].key # k

DependsOn(s, k) == s.tasks[IndexOf(s, k)].dependsOn

-----------------------------------------------------------------------------
(* Parse, normalisation and validation.                                    *)

\* toSpec and prepareSpec: a document is in compatibility mode unless it is a
\* version 2 document that says otherwise and leaves out no field.
Compatibility(r) ==
  \/ r.version \in {0, 1}
  \/ r.compat # {FALSE}
  \/ r.legacy
  \/ \E i \in DOMAIN r.tasks : r.tasks[i].key = {} \/ r.tasks[i].dependsOn = {}

Text(field) == IF field = {} THEN "" ELSE CHOOSE k \in field : TRUE

PreparedKey(r, i) ==
  LET text == Text(r.tasks[i].key)
  IN IF text = "" /\ Compatibility(r) THEN DefaultKey[i] ELSE Normal[text]

\* A task that does not list its dependencies depends on the one before it.
\* normalizeList drops what normalizeKey left empty.
PreparedDependsOn(r, i) ==
  LET field == r.tasks[i].dependsOn
      keys == IF field # {} THEN {Normal[k] : k \in UNION field}
              ELSE IF i = 1 THEN {} ELSE {PreparedKey(r, i - 1)}
  IN keys \ {""}

prepareSpec(r) ==
  [version |-> IF r.version \in {0, 1} THEN 2 ELSE r.version,
   compat |-> Compatibility(r),
   complete |-> r.complete,
   tasks |-> [i \in DOMAIN r.tasks |->
     [key |-> PreparedKey(r, i), dependsOn |-> PreparedDependsOn(r, i)]]]

\* Mutant: the mode is left out of the JSON.
MarshalWithoutMode(s) ==
  [version |-> s.version, compat |-> {}, legacy |-> FALSE, complete |-> s.complete,
   tasks |-> [i \in DOMAIN s.tasks |->
     [key |-> {s.tasks[i].key}, dependsOn |-> {s.tasks[i].dependsOn}]]]

\* Spec.MarshalJSON and Task.MarshalJSON write every field.
MarshalJSON(s) ==
  [version |-> s.version, compat |-> {s.compat}, legacy |-> FALSE, complete |-> s.complete,
   tasks |-> [i \in DOMAIN s.tasks |->
     [key |-> {s.tasks[i].key}, dependsOn |-> {s.tasks[i].dependsOn}]]]

\* ValidateProblems but for the cycle.  complete stands for the rules about
\* titles, scopes, acceptance items and final validation.
Sound(s) ==
  /\ s.version = 2 /\ s.complete
  /\ s.tasks # <<>>
  /\ \A i \in DOMAIN s.tasks :
       /\ s.tasks[i].key # ""
       /\ \A j \in DOMAIN s.tasks : s.tasks[j].key = s.tasks[i].key => j = i
       /\ s.tasks[i].key \notin s.tasks[i].dependsOn
       /\ s.tasks[i].dependsOn \subseteq Keys(s)

Parse ==
  /\ pc = "raw"
  /\ spec' = prepareSpec(raw)
  /\ color' = [k \in Keys(prepareSpec(raw)) |-> 0]
  /\ pc' = "cycle"
  /\ UNCHANGED <<raw, stack, indegree, order, rows, done>>

\* The loop over the tasks starts a search at the first key not visited.
Roots == {i \in DOMAIN spec.tasks : spec.tasks[i].key # "" /\ color[spec.tasks[i].key] = 0}

Push(k) ==
  /\ color' = [color EXCEPT ![k] = 1]
  /\ stack' = Append(stack, k)

VisitRoot ==
  /\ pc = "cycle" /\ stack = <<>>
  /\ \E i \in Roots : (\A j \in Roots : i <= j) /\ Push(spec.tasks[i].key)
  /\ UNCHANGED <<raw, spec, pc, indegree, order, rows, done>>

Top == stack[Len(stack)]

\* The dependencies that a visit follows.
Followed(k) == (DependsOn(spec, k) \ {k}) \cap Keys(spec)

VisitDependency ==
  /\ pc = "cycle" /\ stack # <<>>
  /\ \E d \in Followed(Top) : color[d] = 0 /\ Push(d)
  /\ UNCHANGED <<raw, spec, pc, indegree, order, rows, done>>

\* Mutant: a key that was left counts as one on the stack.
FindCycleVisited ==
  /\ pc = "cycle" /\ stack # <<>>
  /\ \E d \in Followed(Top) : color[d] # 0
  /\ pc' = "rejected"
  /\ UNCHANGED <<raw, spec, color, stack, indegree, order, rows, done>>

FindCycle ==
  /\ pc = "cycle" /\ stack # <<>>
  /\ \E d \in Followed(Top) : color[d] = 1
  /\ pc' = "rejected"
  /\ UNCHANGED <<raw, spec, color, stack, indegree, order, rows, done>>

Leave ==
  /\ pc = "cycle" /\ stack # <<>>
  /\ \A d \in Followed(Top) : color[d] = 2
  /\ color' = [color EXCEPT ![Top] = 2]
  /\ stack' = SubSeq(stack, 1, Len(stack) - 1)
  /\ UNCHANGED <<raw, spec, pc, indegree, order, rows, done>>

\* Parse returns a ValidationError, or the spec goes on to TopologicalOrder.
Validate ==
  /\ pc = "cycle" /\ stack = <<>> /\ Roots = {}
  /\ IF Sound(spec)
     THEN pc' = "order" /\ indegree' = [k \in Keys(spec) |-> Cardinality(DependsOn(spec, k))]
     ELSE pc' = "rejected" /\ UNCHANGED indegree
  /\ UNCHANGED <<raw, spec, color, stack, order, rows, done>>

-----------------------------------------------------------------------------
(* TopologicalOrder, Tasks and saveGeneratedPlan.                          *)

Placed == {order[n] : n \in DOMAIN order}

\* The key at position i has no dependency left and is not placed: the code
\* marks a placed key with an indegree of -1.
Ready == {i \in DOMAIN spec.tasks : indegree[spec.tasks[i].key] = 0 /\ spec.tasks[i].key \notin Placed}

\* Mutant: any ready task is taken.
PlaceAny ==
  /\ pc = "order" /\ Len(order) < Len(spec.tasks)
  /\ \E i \in Ready :
       /\ order' = Append(order, spec.tasks[i].key)
       /\ indegree' = [k \in DOMAIN indegree |->
            IF spec.tasks[i].key \in DependsOn(spec, k) THEN indegree[k] - 1 ELSE indegree[k]]
  /\ UNCHANGED <<raw, spec, pc, color, stack, rows, done>>

\* The original position breaks ties.
Place ==
  /\ pc = "order" /\ Len(order) < Len(spec.tasks)
  /\ \E i \in Ready :
       LET key == spec.tasks[i].key IN
       /\ \A j \in Ready : i <= j
       /\ order' = Append(order, key)
       /\ indegree' = [k \in DOMAIN indegree |->
                         IF key \in DependsOn(spec, k) THEN indegree[k] - 1 ELSE indegree[k]]
  /\ UNCHANGED <<raw, spec, pc, color, stack, rows, done>>

\* Tasks: a key for final validation that no task has, except in compatibility
\* mode, where it is the number after the last task.
finalKey(s) ==
  IF s.compat THEN DefaultKey[Len(s.tasks) + 1]
  ELSE LET free == {n \in DOMAIN FinalKey : FinalKey[n] \notin Keys(s)}
       IN FinalKey[CHOOSE n \in free : \A m \in free : n <= m]

\* Mutant: final validation has no position in the document.
NumberedTasksNoPosition ==
  Append([n \in DOMAIN order |->
            [key |-> order[n], position |-> IndexOf(spec, order[n]),
             dependencies |-> DependsOn(spec, order[n]), final |-> FALSE]],
         [key |-> finalKey(spec), position |-> 0, dependencies |-> Placed, final |-> TRUE])

NumberedTasks ==
  Append([n \in DOMAIN order |->
            [key |-> order[n], position |-> IndexOf(spec, order[n]),
             dependencies |-> DependsOn(spec, order[n]), final |-> FALSE]],
         [key |-> finalKey(spec), position |-> Len(spec.tasks) + 1,
          dependencies |-> Placed, final |-> TRUE])

\* The rows of plan_tasks are unique by key; the transaction fails as a whole.
SaveGeneratedPlan ==
  /\ pc = "order" /\ Len(order) = Len(spec.tasks)
  /\ IF finalKey(spec) \in Keys(spec)
     THEN pc' = "save_failed" /\ UNCHANGED rows
     ELSE pc' = "saved" /\ rows' = NumberedTasks
  /\ UNCHANGED <<raw, spec, color, stack, indegree, order, done>>

-----------------------------------------------------------------------------
(* The scheduler's view of the rows.                                       *)

\* Mutant: every plan is read in the order of position.
BeforeByPosition(m, n) == rows[m].position < rows[n].position

\* loadPlanExecutionStateTx: a plan in compatibility mode is read in the order
\* of position, any other in the order of execution_order.
Before(m, n) == IF spec.compat THEN rows[m].position < rows[n].position ELSE m < n

\* validatePlanExecutionState.
Executable ==
  /\ rows # <<>>
  /\ spec.compat \/
     /\ \A m, n \in DOMAIN rows : rows[m].key = rows[n].key => m = n
     /\ {n \in DOMAIN rows : rows[n].final} = {Len(rows)}
     /\ \A n \in DOMAIN rows : \A k \in rows[n].dependencies :
          \E m \in 1 .. n - 1 : rows[m].key = k

Succeeded == {done[n] : n \in DOMAIN done}

\* nextPlanTask: the first row that has not succeeded, when dependencyBlockers
\* finds nothing against it; there is no such check in compatibility mode.
Unfinished == {n \in DOMAIN rows : rows[n].key \notin Succeeded}
NextTask == CHOOSE n \in Unfinished : \A m \in Unfinished \ {n} : Before(n, m)
Unblocked(n) == spec.compat \/ rows[n].dependencies \subseteq Succeeded

RunTask ==
  /\ pc = "saved" /\ Unfinished # {}
  /\ Executable /\ Unblocked(NextTask)
  /\ done' = Append(done, rows[NextTask].key)
  /\ UNCHANGED <<raw, spec, pc, color, stack, indegree, order, rows>>

CompletePlan ==
  /\ pc = "saved" /\ Unfinished = {}
  /\ pc' = "completed"
  /\ UNCHANGED <<raw, spec, color, stack, indegree, order, rows, done>>

-----------------------------------------------------------------------------
Next ==
  \/ Parse \/ VisitRoot \/ VisitDependency \/ FindCycle \/ Leave \/ Validate
  \/ Place \/ SaveGeneratedPlan \/ RunTask \/ CompletePlan

\* A parser that runs to its end, and a plan whose tasks are executed.
Spec == Init /\ [][Next]_vars /\ WF_vars(Next)

-----------------------------------------------------------------------------
\* There are no tasks that all wait for one of themselves.
Orderable(s) ==
  \A S \in (SUBSET DOMAIN s.tasks) \ {{}} :
    \E i \in S : \A j \in S : s.tasks[j].key \notin s.tasks[i].dependsOn

\* ValidateProblems reports a problem exactly when some tasks could never run
\* because they wait for each other, or another rule is broken: the depth-first search misses no cycle and invents none, whatever the
\* order of the dependency lists.
RejectedIffUnusable ==
  /\ pc \in {"order", "save_failed", "saved"} => Sound(spec) /\ Orderable(spec)
  /\ pc = "rejected" => ~(Sound(spec) /\ Orderable(spec))

\* A task stands behind one that comes later in the document only if one of
\* its dependencies was not placed yet: the order is the one closest to the
\* document, and the same for every run of the generator.
TiesKeepPosition ==
  \A m, n \in DOMAIN order :
    m < n /\ IndexOf(spec, order[n]) < IndexOf(spec, order[m]) =>
      ~(DependsOn(spec, order[n]) \subseteq {order[l] : l \in 1 .. m - 1})

\* A task runs after everything it depends on, in a structured plan and in a
\* legacy plan, whose tasks depend on the one before.
DependenciesFirst ==
  \A n \in DOMAIN done : \A m \in DOMAIN rows :
    rows[m].key = done[n]
    /\ (~spec.compat \/ \A i \in DOMAIN raw.tasks : raw.tasks[i].dependsOn = {})
    => rows[m].dependencies \subseteq {done[l] : l \in 1 .. n - 1}

\* plans.spec is the marshalled spec, and is parsed again for every prompt and
\* by every export: it reads back as the plan that was saved.
StoredSpecReadsBack ==
  pc \in {"saved", "completed"} => prepareSpec(MarshalJSON(spec)) = spec

\* Every document is refused or becomes a plan whose tasks all run: the search
\* and the ordering end, the order never runs out of ready tasks, the rows pass
\* the checks of the scheduler and no task is blocked by a dependency.  Only in
\* compatibility mode may a valid plan fail to be saved, when a task has the key
\* of the one that Tasks adds (two tasks, one of them with the key P003).
EveryPlanEnds ==
  <>(pc \in {"rejected", "completed"} \/ (pc = "save_failed" /\ spec.compat))
=============================================================================
