---------------------------- MODULE PlanProgress ----------------------------
(***************************************************************************)
(* What the execution of plans looks like to their user, without jobs,     *)
(* workers, leases, instances and recovery: the tasks of a plan are taken  *)
(* in hand one after the other, a task in hand is finished or put back,    *)
(* and a plan is completed together with the last of its tasks.            *)
(***************************************************************************)
EXTENDS Naturals

CONSTANTS Plans, Tasks, PlanOf, Position

VARIABLES
  done,       \* tasks that have succeeded
  inHand,     \* tasks that are begun and not done
  completed   \* plans that are completed

progress == <<done, inHand, completed>>

Init == done = {} /\ inHand = {} /\ completed = {}

\* A task may be taken in hand when all tasks before it are done.
InTurn(t, finished) ==
  /\ t \notin finished
  /\ \A u \in Tasks : PlanOf[u] = PlanOf[t] /\ Position[u] < Position[t] => u \in finished

\* Several plans may be resumed, or interrupted, by one request.
Take(T) ==
  /\ \A t \in T : InTurn(t, done)
  /\ inHand' = inHand \cup T
  /\ UNCHANGED <<done, completed>>
PutBack(T) ==
  /\ inHand' = inHand \ T
  /\ UNCHANGED <<done, completed>>

\* One task is done.  The next one may be taken in hand at once, and the plan
\* is completed when there is none, unless it was stopped meanwhile.
Finish(t) ==
  /\ t \in inHand
  /\ done' = done \cup {t}
  /\ \E T \in SUBSET Tasks :
       /\ \A u \in T : PlanOf[u] = PlanOf[t] /\ InTurn(u, done')
       /\ inHand' = (inHand \ {t}) \cup T
  /\ \/ UNCHANGED completed
     \/ /\ \A u \in Tasks : PlanOf[u] = PlanOf[t] => u \in done'
        /\ completed' = completed \cup {PlanOf[t]}

Next ==
  \/ \E T \in SUBSET Tasks : Take(T)
  \/ \E T \in SUBSET inHand : PutBack(T)
  \/ \E t \in Tasks : Finish(t)

Spec == Init /\ [][Next]_progress
=============================================================================
