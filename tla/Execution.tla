------------------------------ MODULE Execution ------------------------------
(***************************************************************************)
(* Task execution: the plans, tasks, jobs, workspace leases and agent-run  *)
(* rows that PostgreSQL holds, and everything that writes them: the user's *)
(* requests, the worker pool of every backend instance, the periodic       *)
(* recovery pass, a graceful shutdown and a crash.  One action is one      *)
(* database transaction (or one step of a process that no transaction      *)
(* covers), because that is the grain at which these parties interleave.   *)
(***************************************************************************)
EXTENDS Naturals, FiniteSets

CONSTANTS
  Projects, Plans, Tasks,   \* rows of projects, plans and plan_tasks
  Jobs,                     \* numbers that rows of jobs take in turn (bound)
  Instances, Workers,       \* backend processes and their worker goroutines
  ProjectOf,                \* plans.project_id
  PlanOf, Position,         \* plan_tasks.plan_id and .execution_order
  CreatedAt,                \* plans.created_at
  InstanceOf,               \* the instance prefix of a worker id
  MaxAttempts,              \* jobs.max_attempts
  Env,                      \* which of EnvEvents may happen (bound)
  None                      \* SQL NULL

EnvEvents == {"crash", "stall", "fault", "drift", "stop", "toggle", "shutdown"}

ASSUME RowAssumption ==
  /\ ProjectOf \in [Plans -> Projects]
  /\ PlanOf \in [Tasks -> Plans]
  /\ Position \in [Tasks -> Nat]
  /\ CreatedAt \in [Plans -> Nat]
  /\ InstanceOf \in [Workers -> Instances]
  /\ Jobs \subseteq Nat
  /\ MaxAttempts \in Nat \ {0}
  /\ None \notin Jobs /\ None \notin Workers /\ None \notin Tasks
  /\ Env \subseteq EnvEvents

\* UNIQUE(plan_id, execution_order): positions order the tasks of a plan strictly.
ASSUME PositionAssumption ==
  \A t, u \in Tasks :
     PlanOf[t] = PlanOf[u] /\ Position[t] = Position[u] => t = u

VARIABLES
  automation,   \* projects.automation_enabled
  planSt,       \* plans.status
  before,       \* p before q: plans.execution_started_at orders p first
  taskSt,       \* plan_tasks.status
  jobSt, jobTask, jobWorker, jobAttempt,  \* jobs.status, .aggregate_id, ...
  leaseOk,      \* jobs.lease_expires_at lies in the future
  wsJob, wsWorker, wsOk,  \* the workspace_leases row of a project
  pc, wJob,     \* where a worker goroutine is, and with which job
  wAttempt,     \* job.Attempt as the worker read it
  ctxDone,      \* its run context was cancelled by the lease heartbeat
  killed,       \* its CLI was signalled through Runner.CancelPrefix
  res,          \* how its CLI ended
  out,          \* the class of error ExecuteJob returned
  runSt,        \* agent_runs row of the worker: none, open (no PID) or live
  proc,         \* its CLI process exists on the host
  inst, fresh,  \* phase of an instance; runtime_instances.heartbeat_at
  signalling    \* automation stops that have not called CancelPrefix yet

dbVars == <<automation, planSt, before, taskSt>>
jobVars == <<jobSt, jobTask, jobWorker, jobAttempt, leaseOk>>
wsVars == <<wsJob, wsWorker, wsOk>>
workerVars == <<pc, wJob, wAttempt, ctxDone, killed, res, out, runSt, proc>>
instVars == <<inst, fresh, signalling>>
vars == <<dbVars, jobVars, wsVars, workerVars, instVars>>

PlanStatuses == {"ready", "running", "validating", "blocked", "completed",
                 "failed", "cancelled", "interrupted"}
TaskStatuses == {"pending", "queued", "running", "succeeded", "failed",
                 "cancelled", "interrupted"}
JobStatuses == {"queued", "retry_wait", "leased", "running", "succeeded",
                "failed", "cancelled", "interrupted"}
PlanTerminal == {"completed", "failed", "cancelled", "interrupted"}
TaskTerminal == {"succeeded", "failed", "cancelled", "interrupted"}
JobTerminal == {"succeeded", "failed", "cancelled", "interrupted"}

DbTypes ==
  /\ automation \in [Projects -> BOOLEAN]
  /\ planSt \in [Plans -> PlanStatuses]
  /\ before \in SUBSET (Plans \X Plans)
  /\ taskSt \in [Tasks -> TaskStatuses]
JobTypes ==
  /\ jobSt \in [Jobs -> JobStatuses \cup {"none"}]
  /\ jobTask \in [Jobs -> Tasks \cup {None}]
  /\ jobWorker \in [Jobs -> Workers \cup {None}]
  /\ jobAttempt \in [Jobs -> Nat]
  /\ leaseOk \in [Jobs -> BOOLEAN]
LeaseTypes ==
  /\ wsJob \in [Projects -> Jobs \cup {None}]
  /\ wsWorker \in [Projects -> Workers \cup {None}]
  /\ wsOk \in [Projects -> BOOLEAN]
WorkerTypes ==
  /\ pc \in [Workers -> {"idle", "claim", "leased", "exec", "owns", "started",
                         "spawn", "cli", "exited", "unwind", "settle",
                         "gone", "dead"}]
  /\ wJob \in [Workers -> Jobs \cup {None}]
  /\ wAttempt \in [Workers -> Nat]
  /\ ctxDone \in [Workers -> BOOLEAN]
  /\ killed \in [Workers -> BOOLEAN]
  /\ res \in [Workers -> {"none", "session", "ok", "fail", "retry", "cancelled"}]
  /\ out \in [Workers -> {"none", "ok", "busy", "drift", "cancelled", "retry", "fail"}]
  /\ runSt \in [Workers -> {"none", "open", "live"}]
  /\ proc \in [Workers -> BOOLEAN]
InstanceTypes ==
  /\ inst \in [Instances -> {"up", "draining", "reconciled", "killed",
                             "stopping", "down"}]
  /\ fresh \in [Instances -> BOOLEAN]
  /\ signalling \in SUBSET (Projects \X Instances)

TypeOK == DbTypes /\ JobTypes /\ LeaseTypes /\ WorkerTypes /\ InstanceTypes

\* Plans have been generated and are executable, nothing is queued yet.
Init ==
  /\ automation \in [Projects -> BOOLEAN]
  /\ planSt = [p \in Plans |-> "ready"]
  /\ before = {}
  /\ taskSt = [t \in Tasks |-> "pending"]
  /\ jobSt = [j \in Jobs |-> "none"]
  /\ jobTask = [j \in Jobs |-> None]
  /\ jobWorker = [j \in Jobs |-> None]
  /\ jobAttempt = [j \in Jobs |-> 0]
  /\ leaseOk = [j \in Jobs |-> FALSE]
  /\ wsJob = [r \in Projects |-> None]
  /\ wsWorker = [r \in Projects |-> None]
  /\ wsOk = [r \in Projects |-> FALSE]
  /\ pc = [w \in Workers |-> "idle"]
  /\ wJob = [w \in Workers |-> None]
  /\ wAttempt = [w \in Workers |-> 0]
  /\ ctxDone = [w \in Workers |-> FALSE]
  /\ killed = [w \in Workers |-> FALSE]
  /\ res = [w \in Workers |-> "none"]
  /\ out = [w \in Workers |-> "none"]
  /\ runSt = [w \in Workers |-> "none"]
  /\ proc = [w \in Workers |-> FALSE]
  /\ inst = [i \in Instances |-> "up"]
  /\ fresh = [i \in Instances |-> TRUE]
  /\ signalling = {}

-----------------------------------------------------------------------------
(* The plan scheduler: which task of a plan may run next.                  *)

TasksOf(p) == {t \in Tasks : PlanOf[t] = p}
IsFinalValidation(t) ==
  \A u \in TasksOf(PlanOf[t]) : Position[u] <= Position[t]

\* Tasks that make activeTaskBlockers non-empty.
ActiveTasks(p) == {t \in TasksOf(p) : taskSt[t] \in {"queued", "running"}}

\* Mutant: the scan returns a task that waits for an earlier one.
NextTasksUnordered(p) == {t \in TasksOf(p) : taskSt[t] # "succeeded"}

\* nextPlanTask's scan in execution order: the first task not yet succeeded.
\* An empty set means that the plan is complete.
NextTasks(p) ==
  {t \in TasksOf(p) :
     /\ taskSt[t] # "succeeded"
     /\ \A u \in TasksOf(p) : Position[u] < Position[t] => taskSt[u] = "succeeded"}

\* execution_started_at := now() for the plans in R.  Plans started by one
\* transaction share now() and are ordered by created_at.
Restarted(R) ==
  {e \in before : e[1] \notin R /\ e[2] \notin R}
    \cup ((Plans \ R) \X R)
    \cup {e \in R \X R : CreatedAt[e[1]] < CreatedAt[e[2]]}

JobProject(j) == ProjectOf[PlanOf[jobTask[j]]]
LiveJobs == {j \in Jobs : jobSt[j] \in {"leased", "running"}}
FreeJobs == {j \in Jobs : jobSt[j] = "none"}

\* The rows that n calls of insertJob create.
NewJobs(n) == {j \in FreeJobs : Cardinality({k \in FreeJobs : k < j}) < n}

\* insertJob for every task in the domain of f.
InsertJobs(f) ==
  LET J == {f[t] : t \in DOMAIN f}
      TaskFor(j) == CHOOSE t \in DOMAIN f : f[t] = j
  IN  /\ jobSt' = [j \in Jobs |-> IF j \in J THEN "queued" ELSE jobSt[j]]
      /\ jobTask' = [j \in Jobs |-> IF j \in J THEN TaskFor(j) ELSE jobTask[j]]
      /\ UNCHANGED <<jobWorker, jobAttempt, leaseOk>>

InsertJob(j, t) ==
  /\ jobSt[j] = "none" /\ \A k \in FreeJobs : j <= k
  /\ jobSt' = [jobSt EXCEPT ![j] = "queued"]
  /\ jobTask' = [jobTask EXCEPT ![j] = t]
  /\ UNCHANGED <<jobWorker, jobAttempt, leaseOk>>

-----------------------------------------------------------------------------
(* Requests of the user.  A request carries the version its caller read;   *)
(* one with a stale version changes nothing, so only the current one is    *)
(* an action.                                                              *)

\* queuePlanTx: start plan p by queueing its next task t as job j.
QueuePlanTx(p, t, j) ==
  /\ ActiveTasks(p) = {}
  /\ t \in NextTasks(p)
  /\ planSt' = [planSt EXCEPT ![p] = "running"]
  /\ before' = Restarted({p})
  /\ taskSt' = [taskSt EXCEPT ![t] = "queued"]
  /\ InsertJob(j, t)
  /\ UNCHANGED <<automation, wsVars, workerVars, instVars>>

QueuePlan(p) ==
  /\ planSt[p] \in {"ready", "blocked"}
  /\ \E t \in Tasks, j \in Jobs : QueuePlanTx(p, t, j)

\* After plan generation; a task that ended badly needs an explicit retry.
QueuePlanAutomatically(p) ==
  /\ automation[ProjectOf[p]]
  /\ planSt[p] = "ready"
  /\ \E t \in Tasks, j \in Jobs : taskSt[t] = "pending" /\ QueuePlanTx(p, t, j)

\* Retry or continue with task t, which must be the next one of its plan.
QueueTask(t) ==
  LET p == PlanOf[t] IN
  /\ planSt[p] \in {"running", "ready", "blocked", "interrupted"}
  /\ ActiveTasks(p) = {}
  /\ t \in NextTasks(p)
  /\ taskSt' = [taskSt EXCEPT ![t] = "queued"]
  /\ planSt' = [planSt EXCEPT ![p] = "running"]
  /\ before' = IF planSt[p] = "running" THEN before ELSE Restarted({p})
  /\ \E j \in Jobs : InsertJob(j, t)
  /\ UNCHANGED <<automation, wsVars, workerVars, instVars>>

\* A queued task goes back to pending and its waiting jobs are cancelled.  A
\* job that already runs is left to Runner.Cancel, which looks up the key
\* project:job while Run registers project:job:run, so no CLI is signalled:
\* stopping a running task leaves every row and every process as it was.
StopTask(t) ==
  /\ "stop" \in Env
  /\ taskSt[t] = "queued"
  /\ taskSt' = [taskSt EXCEPT ![t] = "pending"]
  /\ jobSt' = [j \in Jobs |->
       IF jobTask[j] = t /\ jobSt[j] \in {"queued", "retry_wait", "leased"}
         THEN "cancelled" ELSE jobSt[j]]
  /\ leaseOk' = [j \in Jobs |-> leaseOk[j] /\ jobSt'[j] = jobSt[j]]
  /\ UNCHANGED <<automation, planSt, before, jobTask, jobWorker, jobAttempt,
                 wsVars, workerVars, instVars>>

\* Waiting and leased jobs are cancelled, running ones signalled as above.
\* On a terminal plan the gate ignores the plan and still clears its queue.
StopPlan(p) ==
  /\ "stop" \in Env
  /\ planSt' = [planSt EXCEPT ![p] = IF @ \in PlanTerminal THEN @ ELSE "cancelled"]
  /\ jobSt' = [j \in Jobs |->
       IF /\ jobSt[j] \in {"queued", "retry_wait", "leased"}
          /\ PlanOf[jobTask[j]] = p
         THEN "cancelled" ELSE jobSt[j]]
  /\ leaseOk' = [j \in Jobs |-> leaseOk[j] /\ jobSt'[j] = jobSt[j]]
  /\ taskSt' = [t \in Tasks |->
       IF PlanOf[t] = p /\ taskSt[t] = "queued" THEN "pending" ELSE taskSt[t]]
  /\ UNCHANGED <<automation, before, jobTask, jobWorker, jobAttempt,
                 wsVars, workerVars, instVars>>

\* Plans that an automation stop takes back to ready.
PausedPlans(r) ==
  {p \in Plans : /\ ProjectOf[p] = r
                 /\ planSt[p] \in {"running", "validating"} \/ ActiveTasks(p) # {}}

\* SetAutomation(false): cancels all open work of project r in one
\* transaction, which fails as a whole when a paused plan is blocked.
StopAutomation(r, i) ==
  LET cancelled == {j \in Jobs : /\ jobSt[j] \in {"queued", "retry_wait", "leased", "running"}
                                 /\ JobProject(j) = r}
  IN
  /\ "toggle" \in Env
  /\ inst[i] = "up"
  /\ automation[r]
  /\ \A p \in PausedPlans(r) : planSt[p] # "blocked"
  /\ automation' = [automation EXCEPT ![r] = FALSE]
  /\ jobSt' = [j \in Jobs |-> IF j \in cancelled THEN "cancelled" ELSE jobSt[j]]
  /\ leaseOk' = [j \in Jobs |-> leaseOk[j] /\ j \notin cancelled]
  /\ planSt' = [p \in Plans |->
       IF p \in PausedPlans(r) /\ planSt[p] \notin PlanTerminal
         THEN "ready" ELSE planSt[p]]
  /\ taskSt' = [t \in Tasks |->
       IF t \in ActiveTasks(PlanOf[t]) /\ PlanOf[t] \in PausedPlans(r)
         THEN "pending" ELSE taskSt[t]]
  /\ runSt' = [w \in Workers |-> IF wJob[w] \in cancelled THEN "none" ELSE runSt[w]]
  /\ signalling' = signalling \cup {<<r, i>>}
  /\ UNCHANGED <<before, jobTask, jobWorker, jobAttempt, wsVars, pc, wJob,
                 wAttempt, ctxDone, killed, res, out, proc, inst, fresh>>

\* The HTTP handler's Runner.CancelPrefix(project:) after the commit: it
\* reaches the CLI processes registered with this instance at that moment.
CancelPrefix(r, i) ==
  /\ <<r, i>> \in signalling
  /\ inst[i] # "down"
  /\ killed' = [w \in Workers |->
       \/ killed[w]
       \/ InstanceOf[w] = i /\ pc[w] = "cli" /\ JobProject(wJob[w]) = r]
  /\ signalling' = signalling \ {<<r, i>>}
  /\ UNCHANGED <<dbVars, jobVars, wsVars, pc, wJob, wAttempt, ctxDone, res, out, runSt,
                 proc, inst, fresh>>

\* SetAutomation(true): every ready plan is queued, or nothing is.
StartAutomation(r) ==
  LET R == {p \in Plans : ProjectOf[p] = r /\ planSt[p] = "ready"}
      T == {t \in Tasks : PlanOf[t] \in R /\ t \in NextTasks(PlanOf[t])}
  IN
  /\ "toggle" \in Env
  /\ ~automation[r]
  /\ \A p \in R : ActiveTasks(p) = {} /\ NextTasks(p) # {}
  /\ \A t \in T : taskSt[t] = "pending"
  /\ automation' = [automation EXCEPT ![r] = TRUE]
  /\ planSt' = [p \in Plans |-> IF p \in R THEN "running" ELSE planSt[p]]
  /\ before' = Restarted(R)
  /\ taskSt' = [t \in Tasks |-> IF t \in T THEN "queued" ELSE taskSt[t]]
  /\ \E f \in [T -> NewJobs(Cardinality(T))] :
       /\ \A t, u \in T : f[t] = f[u] => t = u
       /\ \A t, u \in T : CreatedAt[PlanOf[t]] < CreatedAt[PlanOf[u]] => f[t] < f[u]
       /\ InsertJobs(f)
  /\ UNCHANGED <<wsVars, workerVars, instVars>>

-----------------------------------------------------------------------------
(* A worker goroutine (jobqueue.Pool.worker and Pool.run).                 *)

\* Mutant: the run context is not derived from the context of the pool.
CancelledByLease(w) == ctxDone[w]

\* The context of the run: cancelled by the lease heartbeat or by Pool.Stop.
Cancelled(w) == ctxDone[w] \/ inst[InstanceOf[w]] = "stopping"

\* Mutant: a blocked plan keeps its turn.
CandidatesWithBlocked(r) ==
  {p \in Plans : /\ ProjectOf[p] = r
                 /\ planSt[p] \in {"running", "validating", "blocked"}
                 /\ \E t \in TasksOf(p) : taskSt[t] # "succeeded"}

\* The plan whose turn it is: the longest-running one with work left.
Candidates(r) ==
  {p \in Plans : /\ ProjectOf[p] = r
                 /\ planSt[p] \in {"running", "validating"}
                 /\ \E t \in TasksOf(p) : taskSt[t] # "succeeded"}
IsOwnerPlan(p) ==
  LET C == Candidates(ProjectOf[p]) IN p \in C /\ \A q \in C : <<q, p>> \notin before

InFlight(r) == {j \in LiveJobs : JobProject(j) = r}

Claimable(j) ==
  /\ jobSt[j] \in {"queued", "retry_wait"}
  /\ automation[JobProject(j)]
  /\ InFlight(JobProject(j)) = {}
  /\ IsOwnerPlan(PlanOf[jobTask[j]])

\* ClaimJob's SELECT chooses a job from the snapshot of the statement ...
ClaimSelect(w) ==
  /\ inst[InstanceOf[w]] = "up"
  /\ pc[w] = "idle"
  /\ \E j \in Jobs : Claimable(j) /\ wJob' = [wJob EXCEPT ![w] = j]
  /\ pc' = [pc EXCEPT ![w] = "claim"]
  /\ UNCHANGED <<dbVars, jobVars, wsVars, wAttempt, ctxDone, killed, res, out, runSt,
                 proc, instVars>>

\* ... and FOR UPDATE OF p,j SKIP LOCKED, READ COMMITTED, re-reads only the
\* two rows it locks; the subqueries keep the answer of the snapshot.
ClaimLock(w) ==
  LET j == wJob[w] IN
  /\ pc[w] = "claim"
  /\ IF /\ jobSt[j] \in {"queued", "retry_wait"}
        /\ automation[JobProject(j)]
        /\ inst[InstanceOf[w]] # "stopping"
       THEN /\ jobSt' = [jobSt EXCEPT ![j] = "leased"]
            /\ jobWorker' = [jobWorker EXCEPT ![j] = w]
            /\ jobAttempt' = [jobAttempt EXCEPT ![j] = @ + 1]
            /\ leaseOk' = [leaseOk EXCEPT ![j] = TRUE]
            /\ pc' = [pc EXCEPT ![w] = "leased"]
            /\ UNCHANGED <<jobTask, wJob>>
       ELSE /\ pc' = [pc EXCEPT ![w] = "idle"]
            /\ wJob' = [wJob EXCEPT ![w] = None]
            /\ UNCHANGED jobVars
  /\ UNCHANGED <<dbVars, wsVars, wAttempt, ctxDone, killed, res, out, runSt, proc, instVars>>

\* The worker still owns the row of its job.
Owns(w, S) == jobSt[wJob[w]] \in S /\ jobWorker[wJob[w]] = w

MarkJobRunning(w) ==
  /\ pc[w] = "leased"
  /\ inst[InstanceOf[w]] = "up"
  /\ IF Owns(w, {"leased"})
       THEN /\ jobSt' = [jobSt EXCEPT ![wJob[w]] = "running"]
            /\ wAttempt' = [wAttempt EXCEPT ![w] = jobAttempt[wJob[w]]]
            /\ pc' = [pc EXCEPT ![w] = "exec"]
            /\ UNCHANGED wJob
       ELSE /\ pc' = [pc EXCEPT ![w] = "idle"]
            /\ wJob' = [wJob EXCEPT ![w] = None]
            /\ UNCHANGED <<jobSt, wAttempt>>
  /\ UNCHANGED <<dbVars, jobTask, jobWorker, jobAttempt, leaseOk, wsVars,
                 ctxDone, killed, res, out, runSt, proc, instVars>>

\* Return the job to the queue without charging the attempt.
Requeue(j) ==
  /\ jobSt' = [jobSt EXCEPT ![j] = "queued"]
  /\ jobWorker' = [jobWorker EXCEPT ![j] = None]
  /\ jobAttempt' = [jobAttempt EXCEPT ![j] = IF @ > 0 THEN @ - 1 ELSE 0]
  /\ leaseOk' = [leaseOk EXCEPT ![j] = FALSE]
  /\ UNCHANGED jobTask

\* Draining began between the claim and the start of the job.
ReleaseLeasedJob(w) ==
  /\ pc[w] = "leased"
  /\ inst[InstanceOf[w]] \notin {"up", "down"}
  /\ IF Owns(w, {"leased"}) /\ inst[InstanceOf[w]] # "stopping"
       THEN Requeue(wJob[w])
       ELSE UNCHANGED jobVars
  /\ pc' = [pc EXCEPT ![w] = "gone"]
  /\ wJob' = [wJob EXCEPT ![w] = None]
  /\ UNCHANGED <<dbVars, wsVars, wAttempt, ctxDone, killed, res, out, runSt, proc, instVars>>

\* The worker loop returns when the pool drains.
WorkerExit(w) ==
  /\ pc[w] = "idle"
  /\ inst[InstanceOf[w]] \notin {"up", "down"}
  /\ pc' = [pc EXCEPT ![w] = "gone"]
  /\ UNCHANGED <<dbVars, jobVars, wsVars, wJob, wAttempt, ctxDone, killed, res, out,
                 runSt, proc, instVars>>

-----------------------------------------------------------------------------
(* One job under a worker (Service.ExecuteJob and executeTask).            *)

\* ExecuteJob returns an error of class o; the deferred calls still run.
Return(w, o) ==
  /\ out' = [out EXCEPT ![w] = o]
  /\ pc' = [pc EXCEPT ![w] = "unwind"]
  /\ UNCHANGED <<wJob, wAttempt, ctxDone, killed, res, runSt, proc>>

\* Mutant: ON CONFLICT DO UPDATE without its WHERE.
LeaseAlwaysFree(w, r) == TRUE

\* The INSERT ... ON CONFLICT of the lease wins: the workspace is free, its
\* lease has expired or is already held for the same job.
LeaseFree(w, r) == wsJob[r] \in {None, wJob[w]} \/ ~wsOk[r]

\* Reads the project and takes the exclusive workspace lease.  There is
\* nothing to unwind before.
AcquireWorkspaceLease(w) ==
  LET r == JobProject(wJob[w])
      Stop(o) == /\ out' = [out EXCEPT ![w] = o]
                 /\ pc' = [pc EXCEPT ![w] = "settle"]
                 /\ UNCHANGED wsVars
  IN
  /\ pc[w] = "exec"
  /\ \/ /\ Cancelled(w) \/ "fault" \in Env   \* a failed INSERT counts as busy
        /\ \E o \in {"fail", "busy"} : Stop(o)
     \/ ~automation[r] /\ Stop("fail")
     \/ /\ ~Cancelled(w) /\ automation[r]
        /\ ~LeaseFree(w, r)
        /\ Stop("busy")
     \/ /\ ~Cancelled(w) /\ automation[r]
        /\ LeaseFree(w, r)
        /\ wsJob' = [wsJob EXCEPT ![r] = wJob[w]]
        /\ wsWorker' = [wsWorker EXCEPT ![r] = w]
        /\ wsOk' = [wsOk EXCEPT ![r] = TRUE]
        /\ pc' = [pc EXCEPT ![w] = "owns"]
        /\ UNCHANGED out
  /\ UNCHANGED <<dbVars, jobVars, wJob, wAttempt, ctxDone, killed, res, runSt, proc, instVars>>

\* A query or the drift check fails, with the context or on its own.
PrepareFails(w) ==
  /\ pc[w] = "owns"
  /\ Cancelled(w) \/ "fault" \in Env
  /\ Return(w, "fail")
  /\ UNCHANGED <<dbVars, jobVars, wsVars, instVars>>

\* The drift report does not allow the CLI to run.
DriftDetected(w) ==
  /\ pc[w] = "owns"
  /\ ~Cancelled(w)
  /\ "drift" \in Env
  /\ Return(w, "drift")
  /\ UNCHANGED <<dbVars, jobVars, wsVars, instVars>>

\* StartTask rechecks the scheduling gate under the locks of the plan, not
\* that the job on whose behalf it is called is still the worker's.
StartTask(w) ==
  LET t == jobTask[wJob[w]]
      p == PlanOf[t]
      runnable == /\ ActiveTasks(p) \subseteq {t}
                  /\ planSt[p] = "running"
                  /\ t \in NextTasks(p)
  IN
  /\ pc[w] = "owns"
  /\ ~Cancelled(w)
  /\ \/ /\ ~runnable    \* blockQueuedTaskForSchedulingTx
        /\ taskSt' = [taskSt EXCEPT ![t] = IF @ = "queued" THEN "pending" ELSE @]
        /\ planSt' = [planSt EXCEPT ![p] = IF @ \in PlanTerminal THEN @ ELSE "blocked"]
        /\ Return(w, "fail")
     \/ /\ runnable /\ taskSt[t] # "queued"
        /\ Return(w, "fail")
        /\ UNCHANGED <<taskSt, planSt>>
     \/ /\ runnable /\ taskSt[t] = "queued"
        /\ taskSt' = [taskSt EXCEPT ![t] = "running"]
        /\ planSt' = IF IsFinalValidation(t)
                       THEN [planSt EXCEPT ![p] = "validating"] ELSE planSt
        /\ pc' = [pc EXCEPT ![w] = "started"]
        /\ UNCHANGED <<wJob, wAttempt, ctxDone, killed, res, out, runSt, proc>>
  /\ UNCHANGED <<automation, before, jobVars, wsVars, instVars>>

\* No validation command configured: the task succeeds without a CLI.
SkipValidation(w) ==
  /\ pc[w] = "started"
  /\ IsFinalValidation(jobTask[wJob[w]])
  /\ res[w] = "none"
  /\ res' = [res EXCEPT ![w] = "ok"]
  /\ pc' = [pc EXCEPT ![w] = "exited"]
  /\ UNCHANGED <<dbVars, jobVars, wsVars, wJob, wAttempt, ctxDone, killed, out, runSt,
                 proc, instVars>>

\* Inserts the agent_runs row; an error leaves the task running.
StartAgentRun(w) ==
  /\ pc[w] = "started"
  /\ \/ /\ Cancelled(w) \/ "fault" \in Env
        /\ Return(w, "fail")
     \/ /\ ~Cancelled(w)
        /\ runSt' = [runSt EXCEPT ![w] = "open"]
        /\ pc' = [pc EXCEPT ![w] = "spawn"]
        /\ UNCHANGED <<wJob, wAttempt, ctxDone, killed, res, out, proc>>
  /\ UNCHANGED <<dbVars, jobVars, wsVars, instVars>>

\* Runner.Run registers and starts the process; OnStart stores its PID
\* unless the row was closed meanwhile.
StartProcess(w) ==
  /\ pc[w] = "spawn"
  /\ \/ /\ proc' = [proc EXCEPT ![w] = TRUE]
        /\ runSt' = [runSt EXCEPT ![w] = IF @ = "open" THEN "live" ELSE @]
        /\ killed' = [killed EXCEPT ![w] = FALSE]
        /\ pc' = [pc EXCEPT ![w] = "cli"]
        /\ UNCHANGED res
     \/ /\ "fault" \in Env
        /\ res' = [res EXCEPT ![w] = "fail"]
        /\ pc' = [pc EXCEPT ![w] = "exited"]
        /\ UNCHANGED <<proc, runSt, killed>>
  /\ UNCHANGED <<dbVars, jobVars, wsVars, wJob, wAttempt, ctxDone, out, instVars>>

\* The context or the key of the process was cancelled: TERM, then KILL.
ProcessKilled(w) ==
  /\ pc[w] = "cli"
  /\ Cancelled(w) \/ killed[w]
  /\ proc' = [proc EXCEPT ![w] = FALSE]
  /\ res' = [res EXCEPT ![w] = "cancelled"]
  /\ pc' = [pc EXCEPT ![w] = "exited"]
  /\ UNCHANGED <<dbVars, jobVars, wsVars, wJob, wAttempt, ctxDone, killed, out,
                 runSt, instVars>>

\* The process ends by itself.  A resumed session that the CLI no longer
\* knows is retried once, with a second agent run.
ProcessExit(w) ==
  /\ pc[w] = "cli"
  /\ ~Cancelled(w) /\ ~killed[w]
  /\ proc' = [proc EXCEPT ![w] = FALSE]
  /\ \/ /\ \E x \in {"ok", "fail", "retry"} : res' = [res EXCEPT ![w] = x]
        /\ pc' = [pc EXCEPT ![w] = "exited"]
        /\ UNCHANGED runSt
     \/ /\ res[w] = "none" /\ ~IsFinalValidation(jobTask[wJob[w]])
        /\ res' = [res EXCEPT ![w] = "session"]
        /\ runSt' = [runSt EXCEPT ![w] = "none"]
        /\ pc' = [pc EXCEPT ![w] = "started"]
  /\ UNCHANGED <<dbVars, jobVars, wsVars, wJob, wAttempt, ctxDone, killed, out, instVars>>

-----------------------------------------------------------------------------
(* Storing the result of the CLI: one transaction on the worker's context. *)

\* The context is gone, or a query fails: the task keeps its status.
ResultLost(w) ==
  /\ pc[w] = "exited"
  /\ Cancelled(w) \/ "fault" \in Env
  /\ Return(w, "fail")
  /\ UNCHANGED <<dbVars, jobVars, wsVars, instVars>>

\* The checkpoint of a successful task cannot be captured.
CheckpointDrift(w) ==
  /\ pc[w] = "exited" /\ res[w] = "ok"
  /\ ~IsFinalValidation(jobTask[wJob[w]])
  /\ ~Cancelled(w)
  /\ "drift" \in Env
  /\ Return(w, "drift")
  /\ UNCHANGED <<dbVars, jobVars, wsVars, instVars>>

ReturnTaskPending(w) ==
  LET t == jobTask[wJob[w]] IN
  /\ pc[w] = "exited" /\ res[w] = "cancelled"
  /\ ~Cancelled(w)
  /\ taskSt' = [taskSt EXCEPT ![t] = IF @ = "running" THEN "pending" ELSE @]
  /\ Return(w, "cancelled")
  /\ UNCHANGED <<automation, planSt, before, jobVars, wsVars, instVars>>

\* Mutant: off by one in the retry budget.
AttemptLeftInclusive(w) == wAttempt[w] <= MaxAttempts

\* job.Attempt < job.MaxAttempts
AttemptLeft(w) == wAttempt[w] < MaxAttempts

\* Validation errors are never classified as retryable.
Retries(w) ==
  /\ res[w] = "retry"
  /\ AttemptLeft(w)
  /\ ~IsFinalValidation(jobTask[wJob[w]])

ReturnTaskQueuedForRetry(w) ==
  LET t == jobTask[wJob[w]] IN
  /\ pc[w] = "exited" /\ Retries(w)
  /\ ~Cancelled(w)
  /\ taskSt' = [taskSt EXCEPT ![t] = IF @ = "running" THEN "queued" ELSE @]
  /\ Return(w, IF taskSt[t] = "pending" THEN "fail" ELSE "retry")
  /\ UNCHANGED <<automation, planSt, before, jobVars, wsVars, instVars>>

\* finishTask(success = false); a plan that is neither executing, blocked nor
\* terminal makes the transaction fail.
FinishTaskFailed(w) ==
  LET t == jobTask[wJob[w]]
      p == PlanOf[t]
  IN
  /\ pc[w] = "exited" /\ res[w] \in {"fail", "retry"} /\ ~Retries(w)
  /\ ~Cancelled(w)
  /\ IF taskSt[t] = "running" /\ planSt[p] # "ready"
       THEN /\ taskSt' = [taskSt EXCEPT ![t] = "failed"]
            /\ planSt' = [planSt EXCEPT ![p] = IF @ \in PlanTerminal THEN @ ELSE "blocked"]
       ELSE UNCHANGED <<taskSt, planSt>>
  /\ Return(w, "fail")
  /\ UNCHANGED <<automation, before, jobVars, wsVars, instVars>>

\* The task was taken away from the worker while its CLI ran.
FinishTaskIgnored(w) ==
  LET t == jobTask[wJob[w]] IN
  /\ pc[w] = "exited" /\ res[w] = "ok"
  /\ ~Cancelled(w)
  /\ taskSt[t] # "running"
  /\ Return(w, IF taskSt[t] \in TaskTerminal \cup {"pending"} THEN "ok" ELSE "fail")
  /\ UNCHANGED <<dbVars, jobVars, wsVars, instVars>>

\* Mutant: the final validation is not waited for.
TasksAfterNoValidation(t) ==
  {u \in TasksOf(PlanOf[t]) \ {t} : taskSt[u] # "succeeded" /\ ~IsFinalValidation(u)}

\* What is left of the plan once t has succeeded.
TasksAfter(t) == {u \in TasksOf(PlanOf[t]) \ {t} : taskSt[u] # "succeeded"}

\* finishTask(success = true): the task succeeds and the plan moves on.
FinishTask(w) ==
  LET t == jobTask[wJob[w]]
      p == PlanOf[t]
      next == {u \in TasksAfter(t) : \A v \in TasksAfter(t) : Position[u] <= Position[v]}
      closed == planSt[p] \in {"cancelled", "completed"}
      stopped == ~closed /\ ~automation[ProjectOf[p]]
      gated == ~closed /\ ~stopped
      blocked == gated /\ (ActiveTasks(p) # {t} \/ \E u \in next : taskSt[u] # "pending")
      ends(st) == /\ planSt[p] \in {"running", "validating"} \cup PlanTerminal
                  /\ planSt' = [planSt EXCEPT ![p] = IF @ \in PlanTerminal THEN @ ELSE st]
  IN
  /\ pc[w] = "exited" /\ res[w] = "ok"
  /\ ~Cancelled(w)
  /\ taskSt[t] = "running"
  /\ \/ /\ closed
        /\ taskSt' = [taskSt EXCEPT ![t] = "succeeded"]
        /\ UNCHANGED <<planSt, jobVars>>
     \/ /\ stopped
        /\ ends("cancelled")
        /\ taskSt' = [taskSt EXCEPT ![t] = "succeeded"]
        /\ UNCHANGED jobVars
     \/ /\ gated
        /\ blocked \/ TasksAfter(t) = {}
        /\ IF blocked    \* blockPlanAfterSchedulingGateTx
             THEN planSt' = [planSt EXCEPT ![p] = IF @ \in PlanTerminal THEN @ ELSE "blocked"]
             ELSE ends("completed")
        /\ taskSt' = [taskSt EXCEPT ![t] = "succeeded"]
        /\ UNCHANGED jobVars
     \/ /\ gated /\ ~blocked
        /\ \E u \in next, j \in Jobs :
             /\ InsertJob(j, u)
             /\ taskSt' = [taskSt EXCEPT ![t] = "succeeded", ![u] = "queued"]
        /\ UNCHANGED planSt
  /\ Return(w, "ok")
  /\ UNCHANGED <<automation, before, wsVars, instVars>>

\* The plan was taken back to ready or blocked while the CLI ran: the plan
\* transition is refused and the success of the task is rolled back with it.
FinishTaskRefused(w) ==
  LET t == jobTask[wJob[w]]
      p == PlanOf[t]
  IN
  /\ pc[w] = "exited" /\ res[w] = "ok"
  /\ ~Cancelled(w)
  /\ taskSt[t] = "running"
  /\ planSt[p] \in {"ready", "blocked"}
  /\ ~automation[ProjectOf[p]] \/ TasksAfter(t) = {}
  /\ Return(w, "fail")
  /\ UNCHANGED <<dbVars, jobVars, wsVars, instVars>>

\* Mutant: the lease is only released for a job that is still live.
HeldLeaseOfLiveJob(w, r) ==
  wsJob[r] = wJob[w] /\ wsWorker[r] = w /\ wJob[w] \in LiveJobs

\* The lease that DELETE ... WHERE job_id AND worker_id finds.
HeldLease(w, r) == wsJob[r] = wJob[w] /\ wsWorker[r] = w

\* Deferred calls of executeTask, on a context of their own: finishRun closes
\* the agent run, ReleaseWorkspaceLease deletes the worker's lease.
Unwind(w) ==
  /\ pc[w] = "unwind"
  /\ runSt' = [runSt EXCEPT ![w] = "none"]
  /\ wsJob' = [r \in Projects |-> IF HeldLease(w, r) THEN None ELSE wsJob[r]]
  /\ wsWorker' = [r \in Projects |-> IF HeldLease(w, r) THEN None ELSE wsWorker[r]]
  /\ wsOk' = [r \in Projects |-> wsOk[r] /\ ~HeldLease(w, r)]
  /\ pc' = [pc EXCEPT ![w] = "settle"]
  /\ UNCHANGED <<dbVars, jobVars, wJob, wAttempt, ctxDone, killed, res, out, proc, instVars>>

-----------------------------------------------------------------------------
(* Pool.run records the outcome of the job, on the context of the pool.    *)

\* The worker goes back to its loop.
Done(w) ==
  /\ pc' = [pc EXCEPT ![w] = "idle"]
  /\ wJob' = [wJob EXCEPT ![w] = None]
  /\ wAttempt' = [wAttempt EXCEPT ![w] = 0]
  /\ ctxDone' = [ctxDone EXCEPT ![w] = FALSE]
  /\ killed' = [killed EXCEPT ![w] = FALSE]
  /\ res' = [res EXCEPT ![w] = "none"]
  /\ out' = [out EXCEPT ![w] = "none"]
  /\ UNCHANGED <<runSt, proc, wsVars, instVars>>

Settles(w, o) ==
  /\ pc[w] = "settle" /\ out[w] = o
  /\ inst[InstanceOf[w]] # "stopping"
  /\ Done(w)

\* Mutants: the class of the error is stored as the status; the transaction
\* is not committed; the row is updated by its id alone.
SettleJobAsClass(w, S, st) ==
  /\ jobSt' = [jobSt EXCEPT ![wJob[w]] = out[w]]
  /\ UNCHANGED <<jobTask, jobWorker, jobAttempt, leaseOk>>
SettleJobUncommitted(w, S, st) == UNCHANGED jobVars
SettleJobById(w, S, st) ==
  /\ jobSt' = [jobSt EXCEPT ![wJob[w]] = st]
  /\ UNCHANGED <<jobTask, jobWorker, jobAttempt, leaseOk>>

\* The row ends in status st if the worker still owns it.
SettleJob(w, S, st) ==
  /\ IF Owns(w, S)
       THEN /\ jobSt' = [jobSt EXCEPT ![wJob[w]] = st]
            /\ leaseOk' = [leaseOk EXCEPT ![wJob[w]] = FALSE]
       ELSE UNCHANGED <<jobSt, leaseOk>>
  /\ UNCHANGED <<jobTask, jobWorker, jobAttempt>>

CompleteJob(w) ==
  /\ Settles(w, "ok")
  /\ SettleJob(w, {"running"}, "succeeded")
  /\ UNCHANGED dbVars

\* Somebody else holds the workspace: back to the queue, attempt refunded.
DeferJobForWorkspace(w) ==
  /\ Settles(w, "busy")
  /\ IF Owns(w, {"leased", "running"}) THEN Requeue(wJob[w]) ELSE UNCHANGED jobVars
  /\ UNCHANGED dbVars

CancelJob(w) ==
  /\ Settles(w, "cancelled")
  /\ SettleJob(w, {"leased", "running"}, "cancelled")
  /\ UNCHANGED dbVars

FailJob(w) ==
  /\ \/ Settles(w, "fail")
     \/ Settles(w, "retry")
  /\ SettleJob(w, {"leased", "running"},
               IF out[w] = "retry" /\ AttemptLeft(w)
                 THEN "retry_wait" ELSE "failed")
  /\ UNCHANGED dbVars

\* Fails the job, returns the task to pending and blocks the plan.  A job that
\* is already terminal does not stop the transaction, a job of somebody else,
\* a settled task or a ready plan does.
BlockTaskJobForDrift(w) ==
  LET j == wJob[w]
      t == jobTask[j]
      p == PlanOf[t]
      commits == /\ Owns(w, {"leased", "running"}) \/ jobSt[j] \in JobTerminal
                 /\ taskSt[t] \in {"queued", "running", "failed", "pending"}
                 /\ planSt[p] # "ready"
  IN
  /\ Settles(w, "drift")
  /\ IF commits
       THEN /\ SettleJob(w, {"leased", "running"}, "failed")
            /\ taskSt' = [taskSt EXCEPT ![t] = "pending"]
            /\ planSt' = [planSt EXCEPT ![p] = IF @ \in PlanTerminal THEN @ ELSE "blocked"]
       ELSE UNCHANGED <<jobVars, taskSt, planSt>>
  /\ UNCHANGED <<automation, before>>

\* The pool's context is cancelled, or the database cannot be reached: the
\* outcome is logged and dropped, the row keeps its status.
SettleLost(w) ==
  /\ pc[w] = "settle"
  /\ inst[InstanceOf[w]] = "stopping" \/ "fault" \in Env
  /\ Done(w)
  /\ UNCHANGED <<dbVars, jobVars>>

-----------------------------------------------------------------------------
(* Leases and heartbeats.                                                  *)

\* Mutant: the heartbeat renews the lease and does not look at the job.
HoldsWorkspaceOnly(w) ==
  LET r == JobProject(wJob[w]) IN HeldLease(w, r) /\ wsOk[r]

\* RenewWorkspaceLease finds both rows: the lease and the job.
HoldsLease(w) ==
  LET r == JobProject(wJob[w]) IN
  /\ HeldLease(w, r) /\ wsOk[r]
  /\ Owns(w, {"leased", "running"})

\* The heartbeat of Pool.run, RenewWorkspaceLease: prolongs both leases or,
\* when one of them is no longer the worker's, cancels the run.  Before the
\* workspace lease exists only a stalled worker gets as far as a tick.
Renew(w) ==
  /\ pc[w] \in {"owns", "started", "spawn", "cli", "exited"}
       \cup (IF "stall" \in Env THEN {"exec"} ELSE {})
  /\ inst[InstanceOf[w]] # "down" /\ ~ctxDone[w]
  /\ IF HoldsLease(w)
       THEN leaseOk' = [leaseOk EXCEPT ![wJob[w]] = TRUE] /\ UNCHANGED ctxDone
       ELSE ctxDone' = [ctxDone EXCEPT ![w] = TRUE] /\ UNCHANGED leaseOk
  /\ UNCHANGED <<dbVars, jobSt, jobTask, jobWorker, jobAttempt, wsVars, pc,
                 wJob, wAttempt, killed, res, out, runSt, proc, instVars>>

\* Worker w does not renew what it owns for job j: its instance is down, the
\* instance stalls, or w is busy with something else.
Silent(w, j) ==
  inst[InstanceOf[w]] = "down" \/ "stall" \in Env \/ wJob[w] # j

\* Time passes jobs.lease_expires_at ...
ExpireJobLease(j) ==
  /\ leaseOk[j] /\ j \in LiveJobs
  /\ Silent(jobWorker[j], j)
  /\ leaseOk' = [leaseOk EXCEPT ![j] = FALSE]
  /\ UNCHANGED <<dbVars, jobSt, jobTask, jobWorker, jobAttempt, wsVars,
                 workerVars, instVars>>

\* ... workspace_leases.expires_at ...
ExpireWorkspaceLease(r) ==
  /\ wsOk[r]
  /\ Silent(wsWorker[r], wsJob[r])
  /\ wsOk' = [wsOk EXCEPT ![r] = FALSE]
  /\ UNCHANGED <<dbVars, jobVars, wsJob, wsWorker, workerVars, instVars>>

\* ... or the point where an instance's heartbeat counts as stale.
InstanceStale(i) ==
  /\ fresh[i]
  /\ inst[i] = "down" \/ "stall" \in Env
  /\ fresh' = [fresh EXCEPT ![i] = FALSE]
  /\ UNCHANGED <<dbVars, jobVars, wsVars, workerVars, inst, signalling>>

HeartbeatRuntimeInstance(i) ==
  /\ inst[i] # "down" /\ ~fresh[i]
  /\ fresh' = [fresh EXCEPT ![i] = TRUE]
  /\ UNCHANGED <<dbVars, jobVars, wsVars, workerVars, inst, signalling>>
-----------------------------------------------------------------------------
(* Graceful shutdown of an instance (main.shutdown).                       *)

\* Waits for workers inside the leased -> running step: MarkJobRunning is one
\* action.
BeginDraining(i) ==
  /\ "shutdown" \in Env
  /\ inst[i] = "up"
  /\ inst' = [inst EXCEPT ![i] = "draining"]
  /\ UNCHANGED <<dbVars, jobVars, wsVars, workerVars, fresh, signalling>>

\* Jobs in flight at the workers of instance i, and the started tasks of them.
OwnedJobs(i) == {j \in LiveJobs : InstanceOf[jobWorker[j]] = i}
OwnedTasks(i) == {t \in {jobTask[j] : j \in OwnedJobs(i)} : taskSt[t] = "running"}

\* PrepareForShutdown settles the live jobs of the instance in one
\* transaction.  It fails as a whole, and shutdown goes on, when one of their
\* tasks was not started yet or when the plan of a started one is ready.
ReconcileInstanceShutdown(i) ==
  /\ inst[i] = "draining"
  /\ inst' = [inst EXCEPT ![i] = "reconciled"]
  /\ IF /\ \A j \in OwnedJobs(i) : taskSt[jobTask[j]] # "queued"
        /\ \A t \in OwnedTasks(i) : planSt[PlanOf[t]] # "ready"
       THEN /\ jobSt' = [j \in Jobs |-> IF j \in OwnedJobs(i) THEN "cancelled" ELSE jobSt[j]]
            /\ jobWorker' = [j \in Jobs |-> IF j \in OwnedJobs(i) THEN None ELSE jobWorker[j]]
            /\ leaseOk' = [j \in Jobs |-> leaseOk[j] /\ j \notin OwnedJobs(i)]
            /\ wsJob' = [r \in Projects |-> IF wsJob[r] \in OwnedJobs(i) THEN None ELSE wsJob[r]]
            /\ wsWorker' = [r \in Projects |->
                 IF wsJob[r] \in OwnedJobs(i) THEN None ELSE wsWorker[r]]
            /\ wsOk' = [r \in Projects |-> wsOk[r] /\ wsJob[r] \notin OwnedJobs(i)]
            /\ runSt' = [w \in Workers |->
                 IF wJob[w] \in OwnedJobs(i) \/ InstanceOf[w] = i THEN "none" ELSE runSt[w]]
            /\ taskSt' = [t \in Tasks |-> IF t \in OwnedTasks(i) THEN "pending" ELSE taskSt[t]]
            /\ planSt' = [p \in Plans |->
                 IF planSt[p] \in {"running", "validating"} /\ \E t \in OwnedTasks(i) : PlanOf[t] = p
                   THEN "blocked" ELSE planSt[p]]
       ELSE UNCHANGED <<jobSt, jobWorker, leaseOk, wsVars, runSt, taskSt, planSt>>
  /\ UNCHANGED <<automation, before, jobTask, jobAttempt, pc, wJob, wAttempt,
                 ctxDone, killed, res, out, proc, fresh, signalling>>

\* Runner.CancelAll signals every registered CLI of the instance.
CancelAll(i) ==
  /\ inst[i] = "reconciled"
  /\ inst' = [inst EXCEPT ![i] = "killed"]
  /\ killed' = [w \in Workers |-> killed[w] \/ (InstanceOf[w] = i /\ pc[w] = "cli")]
  /\ UNCHANGED <<dbVars, jobVars, wsVars, pc, wJob, wAttempt, ctxDone, res, out,
                 runSt, proc, fresh, signalling>>

\* Pool.Stop cancels the context of the pool.
StopPool(i) ==
  /\ inst[i] = "killed"
  /\ inst' = [inst EXCEPT ![i] = "stopping"]
  /\ UNCHANGED <<dbVars, jobVars, wsVars, workerVars, fresh, signalling>>

\* Pool.Wait has returned; the instance unregisters and exits.
Exit(i) ==
  /\ inst[i] = "stopping"
  /\ \A w \in Workers : InstanceOf[w] = i => pc[w] = "gone"
  /\ inst' = [inst EXCEPT ![i] = "down"]
  /\ fresh' = [fresh EXCEPT ![i] = FALSE]
  /\ UNCHANGED <<dbVars, jobVars, wsVars, workerVars, signalling>>

-----------------------------------------------------------------------------
(* Crash of an instance, and recovery by the ones that are left.           *)

\* Its goroutines are gone; a CLI may survive it as an orphan.
Crash(i) ==
  LET hit(w) == InstanceOf[w] = i
      lost(w) == hit(w) /\ runSt[w] = "none"
  IN
  /\ "crash" \in Env
  /\ inst[i] # "down"
  /\ inst' = [inst EXCEPT ![i] = "down"]
  /\ pc' = [w \in Workers |-> IF hit(w) THEN "dead" ELSE pc[w]]
  /\ wJob' = [w \in Workers |-> IF lost(w) THEN None ELSE wJob[w]]
  /\ wAttempt' = [w \in Workers |-> IF hit(w) THEN 0 ELSE wAttempt[w]]
  /\ ctxDone' = [w \in Workers |-> ctxDone[w] /\ ~hit(w)]
  /\ killed' = [w \in Workers |-> killed[w] /\ ~hit(w)]
  /\ res' = [w \in Workers |-> IF hit(w) THEN "none" ELSE res[w]]
  /\ out' = [w \in Workers |-> IF hit(w) THEN "none" ELSE out[w]]
  /\ \E S \in SUBSET {w \in Workers : hit(w) /\ proc[w]} :
       proc' = [w \in Workers |-> proc[w] /\ (hit(w) => w \in S)]
  /\ signalling' = {s \in signalling : s[2] # i}
  /\ UNCHANGED <<dbVars, jobVars, wsVars, runSt, fresh>>

OrphanExit(w) ==
  /\ pc[w] = "dead" /\ proc[w]
  /\ proc' = [proc EXCEPT ![w] = FALSE]
  /\ UNCHANGED <<dbVars, jobVars, wsVars, pc, wJob, wAttempt, ctxDone, killed,
                 res, out, runSt, instVars>>

\* The agent_runs rows of a job that are still active.
RunsOf(j) == {w \in Workers : wJob[w] = j /\ runSt[w] # "none"}

\* Mutant: a recorded PID counts as alive on every instance.
SeenAliveAnywhere(w, i) == runSt[w] = "live"

\* The process behind a run is alive as far as instance i can tell.
SeenAlive(w, i) == InstanceOf[w] = i /\ runSt[w] = "live" /\ proc[w]

\* recoveryCandidateActive, with the run that activeRecoveryRun picked.
RecoveryCandidateActive(j, run, i) ==
  IF run = None
    THEN fresh[InstanceOf[jobWorker[j]]] /\ leaseOk[j]
    ELSE SeenAlive(run, i) \/ fresh[InstanceOf[run]]

RecoveryCancellationIntent(j) ==
  taskSt[jobTask[j]] = "cancelled" \/ planSt[PlanOf[jobTask[j]]] = "cancelled"

\* chooseRecoveryOutcome; "abandoned" is its cancellation of a run without PID.
RecoveryOutcome(j, run) ==
  IF RecoveryCancellationIntent(j) THEN "cancelled"
  ELSE IF run # None /\ runSt[run] = "open" THEN "abandoned"
  ELSE "interrupted"

\* Mutant: the status of the task is not considered.
UnstartedByRun(j, run) == ~RecoveryCancellationIntent(j) /\ run = None

\* Recovery takes a job without a run for one that has not begun.
Unstarted(j, run) ==
  /\ ~RecoveryCancellationIntent(j)
  /\ run = None
  /\ taskSt[jobTask[j]] # "running"

\* requeueUnstartedJob and the job half of convergeLostJob.
ConvergeLostJobs(pick, unstarted, converged) ==
  /\ jobSt' = [j \in Jobs |->
       IF j \in unstarted THEN "queued"
       ELSE IF j \in converged
         THEN (IF RecoveryOutcome(j, pick[j]) = "interrupted" THEN "interrupted" ELSE "cancelled")
       ELSE jobSt[j]]
  /\ jobWorker' = [j \in Jobs |-> IF j \in unstarted \cup converged THEN None ELSE jobWorker[j]]
  /\ jobAttempt' = [j \in Jobs |->
       IF j \in unstarted /\ jobAttempt[j] > 0 THEN jobAttempt[j] - 1 ELSE jobAttempt[j]]
  /\ leaseOk' = [j \in Jobs |-> leaseOk[j] /\ j \notin unstarted \cup converged]
  /\ UNCHANGED jobTask

\* convergeRecoveredTask: the tasks of the jobs in converged that are not over.
\* A pending task accepts no outcome but "abandoned"; with any other the whole
\* transaction fails.  Of two jobs of one task the first ending that is
\* terminal stays.
ConvergeRecoveredTasks(pick, converged) ==
  LET open == {j \in converged : taskSt[jobTask[j]] \notin TaskTerminal}
      outcome(j) == RecoveryOutcome(j, pick[j])
      endings(t) == {outcome(j) : j \in {k \in open : jobTask[k] = t}}
  IN
  /\ \A j \in open : taskSt[jobTask[j]] = "pending" => outcome(j) = "abandoned"
  /\ \E end \in [{jobTask[j] : j \in open} -> {"cancelled", "abandoned", "interrupted"}] :
       /\ \A t \in DOMAIN end : /\ end[t] \in endings(t)
                                /\ end[t] = "abandoned" => endings(t) = {"abandoned"}
       /\ taskSt' = [t \in Tasks |->
            IF t \in DOMAIN end
              THEN (IF end[t] = "abandoned" THEN "pending" ELSE end[t])
              ELSE taskSt[t]]
  /\ planSt' = [p \in Plans |->
       IF /\ planSt[p] \in {"running", "validating"}
          /\ \E j \in open : PlanOf[jobTask[j]] = p /\ outcome(j) # "cancelled"
         THEN "blocked" ELSE planSt[p]]
  /\ UNCHANGED <<automation, before>>

\* The workspace leases and agent runs that go with them, expired leases
\* without a live job, and reconcileStandaloneRuns.
ReleaseRecovered(i, pick, converged) ==
  LET over(j) == jobSt'[j] \notin {"leased", "running"}
      stale(r) == \/ wsJob[r] \in converged
                  \/ ~wsOk[r] /\ wsJob[r] # None /\ over(wsJob[r])
      closes(w) == /\ runSt[w] # "none"
                   /\ \/ wJob[w] \in converged /\ pick[wJob[w]] = w
                      \/ over(wJob[w]) /\ ~SeenAlive(w, i) /\ ~fresh[InstanceOf[w]]
  IN
  /\ wsJob' = [r \in Projects |-> IF stale(r) THEN None ELSE wsJob[r]]
  /\ wsWorker' = [r \in Projects |-> IF stale(r) THEN None ELSE wsWorker[r]]
  /\ wsOk' = [r \in Projects |-> wsOk[r] /\ ~stale(r)]
  /\ runSt' = [w \in Workers |-> IF closes(w) THEN "none" ELSE runSt[w]]
  /\ UNCHANGED <<pc, wJob, wAttempt, ctxDone, killed, res, out, proc>>

\* Jobs in flight whose owner is gone, given the run picked for each and the
\* jobs whose process could not be inspected.
LostJobs(i, pick, skip) ==
  {j \in LiveJobs \ skip : ~RecoveryCandidateActive(j, pick[j], i)}

\* One pass of the recovery loop, one transaction: a lost job that had not
\* started is requeued, every other one converges with its run, workspace
\* lease, task and plan.
ReconcileRuntimeState(i) ==
  /\ inst[i] = "up"
  /\ \E pick \in [LiveJobs -> Workers \cup {None}], skip \in SUBSET LiveJobs :
       LET lost == LostJobs(i, pick, skip)
           unstarted == {j \in lost : Unstarted(j, pick[j])}
           converged == lost \ unstarted
       IN
       /\ \A j \in LiveJobs : IF RunsOf(j) = {} THEN pick[j] = None ELSE pick[j] \in RunsOf(j)
       /\ \A j \in skip : pick[j] # None /\ runSt[pick[j]] = "live" /\ InstanceOf[pick[j]] = i
       /\ ConvergeLostJobs(pick, unstarted, converged)
       /\ ConvergeRecoveredTasks(pick, converged)
       /\ ReleaseRecovered(i, pick, converged)
  /\ UNCHANGED instVars

-----------------------------------------------------------------------------
UserStep ==
  \/ \E p \in Plans : QueuePlan(p) \/ QueuePlanAutomatically(p) \/ StopPlan(p)
  \/ \E t \in Tasks : QueueTask(t) \/ StopTask(t)
  \/ \E r \in Projects : StartAutomation(r) \/ \E i \in Instances : StopAutomation(r, i)

\* What the goroutine of worker w does next.
WorkerStep(w) ==
  \/ ClaimSelect(w) \/ ClaimLock(w) \/ MarkJobRunning(w)
  \/ ReleaseLeasedJob(w) \/ WorkerExit(w)
  \/ AcquireWorkspaceLease(w) \/ PrepareFails(w) \/ DriftDetected(w) \/ StartTask(w)
  \/ SkipValidation(w) \/ StartAgentRun(w) \/ StartProcess(w) \/ ProcessKilled(w)
  \/ ResultLost(w) \/ CheckpointDrift(w) \/ ReturnTaskPending(w)
  \/ ReturnTaskQueuedForRetry(w) \/ FinishTaskFailed(w) \/ FinishTaskIgnored(w)
  \/ FinishTask(w) \/ FinishTaskRefused(w) \/ Unwind(w)
  \/ CompleteJob(w) \/ DeferJobForWorkspace(w) \/ CancelJob(w) \/ FailJob(w)
  \/ BlockTaskJobForDrift(w) \/ SettleLost(w)

\* Timers, and the requests an instance makes of itself.
ClockStep ==
  \/ \E j \in Jobs : ExpireJobLease(j)
  \/ \E r \in Projects : ExpireWorkspaceLease(r)
  \/ \E i \in Instances : InstanceStale(i) \/ HeartbeatRuntimeInstance(i)

ShutdownStep(i) ==
  ReconcileInstanceShutdown(i) \/ CancelAll(i) \/ StopPool(i) \/ Exit(i)

Next ==
  \/ UserStep
  \/ \E w \in Workers : WorkerStep(w) \/ ProcessExit(w) \/ Renew(w) \/ OrphanExit(w)
  \/ ClockStep
  \/ \E r \in Projects, i \in Instances : CancelPrefix(r, i)
  \/ \E i \in Instances : BeginDraining(i) \/ ShutdownStep(i) \/ Crash(i)
                          \/ ReconcileRuntimeState(i)

Spec == Init /\ [][Next]_vars

\* Goroutines are scheduled; heartbeats, recovery and expiry are driven by
\* tickers and the database clock.  Requests of the user, crashes and
\* shutdowns need not happen, and no CLI need end by itself.
Fairness ==
  /\ \A w \in Workers : WF_vars(WorkerStep(w)) /\ WF_vars(Renew(w))
  /\ \A j \in Jobs : WF_vars(ExpireJobLease(j))
  /\ \A r \in Projects : WF_vars(ExpireWorkspaceLease(r))
  /\ \A i \in Instances : /\ WF_vars(InstanceStale(i))
                          /\ WF_vars(HeartbeatRuntimeInstance(i))
                          /\ WF_vars(ReconcileRuntimeState(i))
                          /\ WF_vars(ShutdownStep(i))
  /\ \A r \in Projects, i \in Instances : WF_vars(CancelPrefix(r, i))
FairSpec == Spec /\ Fairness

\* An assumption about the CLIs: no invocation is given a timeout.
CLIEnds == \A w \in Workers : WF_vars(ProcessExit(w))
EndingSpec == FairSpec /\ CLIEnds

-----------------------------------------------------------------------------
(* What must hold.                                                         *)

\* Tasks of a plan run strictly in order: whichever way a task was queued,
\* retried, resumed or recovered (nextPlanTask at every entry point), all
\* tasks before it have succeeded.  In particular two tasks of one plan are
\* never active together.
StrictOrder ==
  \A t, u \in Tasks :
    /\ PlanOf[t] = PlanOf[u] /\ Position[u] < Position[t]
    /\ taskSt[t] # "pending"
    => taskSt[u] = "succeeded"

\* finishTask declares a plan completed only when every task succeeded, and
\* no late result, stop or recovery reopens one of its tasks afterwards.
CompletedPlan ==
  \A t \in Tasks : planSt[PlanOf[t]] = "completed" => taskSt[t] = "succeeded"

\* ClaimJob charges an attempt before the job runs, and four places give it
\* back: a job that can be claimed has an attempt left, one that is being
\* worked on has been charged, and never more often than max_attempts.
AttemptBudget ==
  \A j \in Jobs :
    /\ jobSt[j] \in {"queued", "retry_wait"} => jobAttempt[j] < MaxAttempts
    /\ jobSt[j] \in {"leased", "running"} => jobAttempt[j] \in 1 .. MaxAttempts

\* The CLIs that backend instances run at the moment, orphans left out.
Attended(w) == proc[w] /\ pc[w] # "dead"

\* The workspace lease keeps two CLIs out of one workspace even when the job
\* of the first was cancelled under it (SetAutomation) and the next job of
\* the project was claimed at once.
WorkspaceExclusive ==
  \A v, w \in Workers :
    Attended(v) /\ Attended(w) /\ JobProject(wJob[v]) = JobProject(wJob[w]) => v = w

\* A worker that is still alive leaves no workspace lease behind: the deferred
\* ReleaseWorkspaceLease runs on every path out of executeTask.
NoLeakedLease ==
  \A r \in Projects :
    wsJob[r] # None /\ pc[wsWorker[r]] # "dead" =>
      /\ wJob[wsWorker[r]] = wsJob[r]
      /\ pc[wsWorker[r]] \in {"owns", "started", "spawn", "cli", "exited", "unwind"}

\* Every job that counts as in flight, and so keeps the whole project waiting,
\* is in the hands of the worker it names, or of an instance that is gone and
\* that recovery will find stale.
NoAbandonedJob ==
  \A j \in LiveJobs :
    \/ wJob[jobWorker[j]] = j
    \/ inst[InstanceOf[jobWorker[j]]] \in {"stopping", "down"}

\* A task shown as running has a job in flight, from StartTask to the
\* transaction that stores its result, through crash and recovery.
RunningTaskHasJob ==
  \A t \in Tasks : taskSt[t] = "running" => \E j \in LiveJobs : jobTask[j] = t

\* Terminal rows are durable: whatever worker, request, shutdown or recovery
\* pass writes late, a settled job, a succeeded task and a finished plan keep
\* their status (the terminal protection of transitionLifecycleTx).
SettledStays ==
  [][/\ \A j \in Jobs : jobSt[j] \in JobTerminal => jobSt'[j] = jobSt[j]
     /\ \A t \in Tasks : taskSt[t] = "succeeded" => taskSt'[t] = "succeeded"
     /\ \A p \in Plans : planSt[p] \in {"completed", "failed", "cancelled"}
                          => planSt'[p] = planSt[p]]_vars

\* The bound on Jobs keeps a worker from queueing the next task.
OutOfRows == FreeJobs = {} /\ \E w \in Workers : pc[w] = "exited" /\ res[w] = "ok"

\* A plan that was started gets out of running and validating by itself as
\* long as automation is on: its jobs are claimed in turn, retried within
\* their budget and end in a completed or a blocked plan.
PlanSettles ==
  \A p \in Plans :
    planSt[p] \in {"running", "validating"}
      ~> \/ planSt[p] \notin {"running", "validating"}
         \/ ~automation[ProjectOf[p]] \/ OutOfRows

\* Stopping automation stops the project's CLIs, also one that was started
\* after CancelPrefix looked: its lease heartbeat finds the job cancelled.
AutomationStopStopsCLI ==
  \A r \in Projects, w \in Workers :
    ~automation[r] ~> automation[r] \/ ~(Attended(w) /\ JobProject(wJob[w]) = r)

\* A job that an instance which is gone held is taken away from it, as long
\* as some instance is left to run recovery.
LostJobRecovered ==
  \A j \in Jobs :
    (j \in LiveJobs /\ inst[InstanceOf[jobWorker[j]]] = "down")
      ~> \/ j \notin LiveJobs
         \/ inst[InstanceOf[jobWorker[j]]] # "down"
         \/ \A i \in Instances : inst[i] # "up"

\* A graceful shutdown comes to its end: every worker leaves its loop.
ShutdownEnds ==
  \A i \in Instances : inst[i] = "draining" ~> inst[i] = "down"

\* Seen through the status of its tasks and plans, all of this machinery does
\* nothing but work through every plan in order: each transaction of a user, a
\* worker, a shutdown or a recovery pass takes tasks in hand, puts tasks back
\* or finishes one (PlanProgress), and never two of these for one task.
Progress == INSTANCE PlanProgress WITH
  done <- {t \in Tasks : taskSt[t] = "succeeded"},
  inHand <- {t \in Tasks : taskSt[t] \notin {"pending", "succeeded"}},
  completed <- {p \in Plans : planSt[p] = "completed"}
ImplementsProgress == Progress!Spec
=============================================================================
