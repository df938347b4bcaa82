--------------------------- MODULE ExecutionProofs ---------------------------
(***************************************************************************)
(* The properties of Execution that hold for any number of projects,       *)
(* plans, tasks, jobs, workers and instances and for every disturbance in  *)
(* EnvEvents: type correctness, the order of tasks, the attempt budget and *)
(* the refinement of PlanProgress, which says that, whatever the users,    *)
(* the workers, a shutdown, a crash and recovery do, the status of tasks   *)
(* and plans changes by taking tasks in hand in their order, by putting    *)
(* tasks back and by finishing one task, and in no other way.              *)
(***************************************************************************)
EXTENDS Execution, TLAPS

\* A worker between ClaimJob's SELECT and the end of the job.
Busy == {"claim", "leased", "exec", "owns", "started", "spawn", "cli",
         "exited", "unwind", "settle"}

\* References that the foreign keys and the worker's own state keep: a job row
\* that exists names a task, and a busy worker holds a row that exists.
References ==
  /\ \A j \in Jobs : jobSt[j] # "none" => jobTask[j] \in Tasks
  /\ \A w \in Workers : pc[w] \in Busy => wJob[w] \in Jobs /\ jobSt[wJob[w]] # "none"

TypeInv == TypeOK /\ References

-----------------------------------------------------------------------------
(* Type correctness.                                                       *)

\* A job row never disappears, and every row names a task.
RowsKept ==
  \A j \in Jobs : /\ jobSt[j] # "none" => jobSt'[j] # "none"
                  /\ jobSt'[j] # "none" => jobTask'[j] \in Tasks

\* insertJob adds a row for a task.
LEMMA InsertJobTyped ==
  ASSUME TypeInv, NEW t \in Tasks, NEW j \in Jobs, InsertJob(j, t)
  PROVE  JobTypes' /\ RowsKept
BY DEF TypeInv, TypeOK, JobTypes, References, InsertJob, RowsKept, JobStatuses

\* The updates of a row's status that refund an attempt or settle the job.
LEMMA RequeueTyped ==
  ASSUME TypeInv, NEW j \in Jobs, jobSt[j] # "none", Requeue(j)
  PROVE  JobTypes' /\ RowsKept
<1> USE DEF TypeInv, TypeOK, JobTypes, References, Requeue, JobStatuses
<1>1. \A n \in Nat : (IF n > 0 THEN n - 1 ELSE 0) \in Nat
  OBVIOUS
<1>2. jobAttempt' \in [Jobs -> Nat]
  BY <1>1
<1>3. jobSt' \in [Jobs -> JobStatuses \cup {"none"}] /\ jobTask' = jobTask
  OBVIOUS
<1>4. jobWorker' \in [Jobs -> Workers \cup {None}] /\ leaseOk' \in [Jobs -> BOOLEAN]
  OBVIOUS
<1>5. RowsKept
  BY DEF RowsKept
<1> QED
  BY <1>2, <1>3, <1>4, <1>5

LEMMA SettleJobTyped ==
  ASSUME TypeInv, NEW w \in Workers, NEW S, NEW st \in JobStatuses,
         wJob[w] \in Jobs, jobSt[wJob[w]] # "none", SettleJob(w, S, st)
  PROVE  JobTypes' /\ RowsKept
<1>1. UNCHANGED <<jobTask, jobWorker, jobAttempt>>
  BY DEF SettleJob
<1>2. \/ UNCHANGED <<jobSt, leaseOk>>
      \/ /\ jobSt' = [jobSt EXCEPT ![wJob[w]] = st]
         /\ leaseOk' = [leaseOk EXCEPT ![wJob[w]] = FALSE]
  BY DEF SettleJob
<1>3. JobTypes'
  <2>1. jobSt' \in [Jobs -> JobStatuses \cup {"none"}]
    BY <1>2 DEF TypeInv, TypeOK, JobTypes
  <2>2. leaseOk' \in [Jobs -> BOOLEAN]
    BY <1>2 DEF TypeInv, TypeOK, JobTypes
  <2> QED
    BY <1>1, <2>1, <2>2 DEF TypeInv, TypeOK, JobTypes
<1>4. \A j \in Jobs : jobSt'[j] # "none" <=> jobSt[j] # "none"
  BY <1>2 DEF TypeInv, TypeOK, JobTypes, JobStatuses
<1> QED
  BY <1>1, <1>3, <1>4 DEF TypeInv, References, RowsKept

\* Once the rows are kept, a step that starts no worker keeps the references.
LEMMA ReferencesKept ==
  ASSUME TypeInv, RowsKept,
         \A v \in Workers : pc'[v] \in Busy => pc[v] \in Busy /\ wJob'[v] = wJob[v]
  PROVE  References'
BY DEF TypeInv, References, RowsKept

\* Requests of the user keep TypeInv.
LEMMA UserTyped ==
  ASSUME TypeInv, UserStep
  PROVE  TypeInv'
<1> USE RowAssumption DEF TypeInv, TypeOK, PlanStatuses, TaskStatuses, JobStatuses,
        dbVars, jobVars, wsVars, workerVars, instVars
<1>1. ASSUME NEW p \in Plans, NEW t \in Tasks, NEW j \in Jobs, QueuePlanTx(p, t, j)
      PROVE  TypeInv'
  <2>1. DbTypes'
    BY <1>1 DEF QueuePlanTx, InsertJob, Restarted, DbTypes
  <2>2. JobTypes'
    BY <1>1 DEF QueuePlanTx, InsertJob, Restarted, JobTypes
  <2>3. LeaseTypes' /\ WorkerTypes' /\ InstanceTypes'
    BY <1>1 DEF QueuePlanTx, InsertJob, Restarted, LeaseTypes, WorkerTypes, InstanceTypes
  <2>4. References'
    BY <1>1 DEF QueuePlanTx, InsertJob, Restarted, References, Busy, JobTypes, WorkerTypes
  <2> QED
    BY <2>1, <2>2, <2>3, <2>4
<1>2. ASSUME NEW t \in Tasks, QueueTask(t)
      PROVE  TypeInv'
  <2>1. DbTypes'
    BY <1>2 DEF QueueTask, InsertJob, Restarted, DbTypes
  <2>2. JobTypes'
    BY <1>2 DEF QueueTask, InsertJob, Restarted, JobTypes
  <2>3. LeaseTypes' /\ WorkerTypes' /\ InstanceTypes'
    BY <1>2 DEF QueueTask, InsertJob, Restarted, LeaseTypes, WorkerTypes, InstanceTypes
  <2>4. References'
    BY <1>2 DEF QueueTask, InsertJob, Restarted, References, Busy, JobTypes, WorkerTypes
  <2> QED
    BY <2>1, <2>2, <2>3, <2>4
<1>3. ASSUME NEW t \in Tasks, StopTask(t)
      PROVE  TypeInv'
  <2>1. DbTypes'
    BY <1>3 DEF StopTask, DbTypes
  <2>2. JobTypes'
    BY <1>3 DEF StopTask, JobTypes
  <2>3. LeaseTypes' /\ WorkerTypes' /\ InstanceTypes'
    BY <1>3 DEF StopTask, LeaseTypes, WorkerTypes, InstanceTypes
  <2>4. References'
    BY <1>3 DEF StopTask, References, Busy, JobTypes, WorkerTypes
  <2> QED
    BY <2>1, <2>2, <2>3, <2>4
<1>4. ASSUME NEW p \in Plans, StopPlan(p)
      PROVE  TypeInv'
  <2>1. DbTypes'
    BY <1>4 DEF StopPlan, DbTypes
  <2>2. JobTypes'
    BY <1>4 DEF StopPlan, JobTypes
  <2>3. LeaseTypes' /\ WorkerTypes' /\ InstanceTypes'
    BY <1>4 DEF StopPlan, LeaseTypes, WorkerTypes, InstanceTypes
  <2>4. References'
    BY <1>4 DEF StopPlan, References, Busy, JobTypes, WorkerTypes
  <2> QED
    BY <2>1, <2>2, <2>3, <2>4
<1>5. ASSUME NEW r \in Projects, NEW i \in Instances, StopAutomation(r, i)
      PROVE  TypeInv'
  <2>1. DbTypes'
    BY <1>5 DEF StopAutomation, DbTypes
  <2>2. JobTypes'
    BY <1>5 DEF StopAutomation, JobTypes
  <2>3. WorkerTypes'
    BY <1>5 DEF StopAutomation, WorkerTypes
  <2>4. InstanceTypes'
    BY <1>5 DEF StopAutomation, InstanceTypes
  <2>5. LeaseTypes'
    BY <1>5 DEF StopAutomation, LeaseTypes
  <2>6. References'
    BY <1>5 DEF StopAutomation, References, Busy, JobTypes, WorkerTypes
  <2> QED
    BY <2>1, <2>2, <2>3, <2>4, <2>5, <2>6
<1>6. ASSUME NEW r \in Projects, StartAutomation(r)
      PROVE  TypeInv'
  <2>1. DbTypes'
    BY <1>6 DEF StartAutomation, InsertJobs, NewJobs, FreeJobs, Restarted, DbTypes
  <2>2. JobTypes'
    BY <1>6 DEF StartAutomation, InsertJobs, NewJobs, FreeJobs, Restarted, JobTypes
  <2>3. LeaseTypes' /\ WorkerTypes' /\ InstanceTypes'
    BY <1>6 DEF StartAutomation, InsertJobs, NewJobs, FreeJobs, Restarted, LeaseTypes, WorkerTypes, InstanceTypes
  <2>4. References'
    BY <1>6 DEF StartAutomation, InsertJobs, NewJobs, FreeJobs, Restarted, References, Busy, JobTypes, WorkerTypes
  <2> QED
    BY <2>1, <2>2, <2>3, <2>4
<1> QED
  BY <1>1, <1>2, <1>3, <1>4, <1>5, <1>6 DEF UserStep, QueuePlan, QueuePlanAutomatically

\* The steps of a worker that claim a job and give it back unstarted.
LEMMA ClaimTyped ==
  ASSUME TypeInv, NEW w \in Workers,
         \/ ClaimSelect(w) \/ ClaimLock(w) \/ MarkJobRunning(w)
         \/ ReleaseLeasedJob(w) \/ WorkerExit(w)
  PROVE  TypeInv'
<1> USE RowAssumption DEF TypeInv, TypeOK, PlanStatuses, TaskStatuses, JobStatuses,
        dbVars, jobVars, wsVars, workerVars, instVars
<1>1. CASE ClaimSelect(w)
  <2>1. WorkerTypes'
    BY <1>1 DEF ClaimSelect, Claimable, WorkerTypes
  <2>2. DbTypes' /\ JobTypes' /\ LeaseTypes' /\ InstanceTypes'
    BY <1>1 DEF ClaimSelect, Claimable, DbTypes, JobTypes, LeaseTypes, InstanceTypes
  <2>3. References'
    BY <1>1 DEF ClaimSelect, Claimable, References, Busy, JobTypes, WorkerTypes
  <2> QED
    BY <2>1, <2>2, <2>3
<1>2. CASE ClaimLock(w)
  <2> DEFINE j == wJob[w]
             wins == /\ jobSt[j] \in {"queued", "retry_wait"}
                     /\ automation[JobProject(j)]
                     /\ inst[InstanceOf[w]] # "stopping"
  <2>1. j \in Jobs /\ jobSt[j] # "none" /\ pc[w] \in Busy
    BY <1>2 DEF ClaimLock, References, Busy
  <2>2. DbTypes' /\ LeaseTypes' /\ InstanceTypes'
    BY <1>2 DEF ClaimLock, DbTypes, LeaseTypes, InstanceTypes
  <2>3. CASE wins
    <3>1. /\ jobSt' = [jobSt EXCEPT ![j] = "leased"]
          /\ jobWorker' = [jobWorker EXCEPT ![j] = w]
          /\ jobAttempt' = [jobAttempt EXCEPT ![j] = @ + 1]
          /\ leaseOk' = [leaseOk EXCEPT ![j] = TRUE]
          /\ pc' = [pc EXCEPT ![w] = "leased"]
          /\ UNCHANGED <<jobTask, wJob, wAttempt, ctxDone, killed, res, out, runSt, proc>>
      BY <1>2, <2>3 DEF ClaimLock
    <3> HIDE DEF j, wins
    <3>2. JobTypes' /\ RowsKept
      BY <2>1, <3>1 DEF JobTypes, References, RowsKept
    <3>3. WorkerTypes'
      BY <3>1 DEF WorkerTypes
    <3>4. \A v \in Workers : pc'[v] \in Busy => pc[v] \in Busy /\ wJob'[v] = wJob[v]
      BY <2>1, <3>1 DEF WorkerTypes
    <3> QED
      BY <2>2, <3>2, <3>3, <3>4, ReferencesKept
  <2>4. CASE ~wins
    <3>1. /\ pc' = [pc EXCEPT ![w] = "idle"]
          /\ wJob' = [wJob EXCEPT ![w] = None]
          /\ UNCHANGED <<jobVars, wAttempt, ctxDone, killed, res, out, runSt, proc>>
      BY <1>2, <2>4 DEF ClaimLock
    <3> HIDE DEF j, wins
    <3>2. JobTypes' /\ RowsKept
      BY <3>1 DEF JobTypes, References, RowsKept
    <3>3. WorkerTypes'
      BY <3>1 DEF WorkerTypes
    <3>4. \A v \in Workers : pc'[v] \in Busy => pc[v] \in Busy /\ wJob'[v] = wJob[v]
      BY <3>1 DEF WorkerTypes, Busy
    <3> QED
      BY <2>2, <3>2, <3>3, <3>4, ReferencesKept
  <2> QED
    BY <2>3, <2>4
<1>3. CASE MarkJobRunning(w)
  <2>1. wJob[w] \in Jobs /\ jobSt[wJob[w]] # "none" /\ pc[w] \in Busy
    BY <1>3 DEF MarkJobRunning, References, Busy
  <2>2. DbTypes' /\ LeaseTypes' /\ InstanceTypes'
    BY <1>3 DEF MarkJobRunning, DbTypes, LeaseTypes, InstanceTypes
  <2>3. JobTypes' /\ RowsKept
    BY <1>3, <2>1 DEF MarkJobRunning, JobTypes, References, RowsKept
  <2>4. CASE Owns(w, {"leased"})
    <3>1. /\ wAttempt' = [wAttempt EXCEPT ![w] = jobAttempt[wJob[w]]]
          /\ pc' = [pc EXCEPT ![w] = "exec"]
          /\ UNCHANGED <<wJob, ctxDone, killed, res, out, runSt, proc>>
      BY <1>3, <2>4 DEF MarkJobRunning
    <3>2. jobAttempt[wJob[w]] \in Nat
      BY <2>1 DEF JobTypes
    <3>3. WorkerTypes'
      BY <3>1, <3>2 DEF WorkerTypes
    <3>4. \A v \in Workers : pc'[v] \in Busy => pc[v] \in Busy /\ wJob'[v] = wJob[v]
      BY <2>1, <3>1 DEF WorkerTypes
    <3> QED
      BY <2>2, <2>3, <3>3, <3>4, ReferencesKept
  <2>5. CASE ~Owns(w, {"leased"})
    <3>1. /\ pc' = [pc EXCEPT ![w] = "idle"]
          /\ wJob' = [wJob EXCEPT ![w] = None]
          /\ UNCHANGED <<wAttempt, ctxDone, killed, res, out, runSt, proc>>
      BY <1>3, <2>5 DEF MarkJobRunning
    <3>2. WorkerTypes'
      BY <3>1 DEF WorkerTypes
    <3>3. \A v \in Workers : pc'[v] \in Busy => pc[v] \in Busy /\ wJob'[v] = wJob[v]
      BY <3>1 DEF WorkerTypes, Busy
    <3> QED
      BY <2>2, <2>3, <3>2, <3>3, ReferencesKept
  <2> QED
    BY <2>4, <2>5
<1>4. CASE ReleaseLeasedJob(w)
  <2>1. wJob[w] \in Jobs /\ jobSt[wJob[w]] # "none"
    BY <1>4 DEF ReleaseLeasedJob, References, Busy
  <2>2. UNCHANGED jobVars \/ Requeue(wJob[w])
    BY <1>4 DEF ReleaseLeasedJob
  <2>3. JobTypes' /\ RowsKept
    <3>1. CASE UNCHANGED jobVars
      BY <3>1 DEF JobTypes, References, RowsKept
    <3>2. CASE Requeue(wJob[w])
      BY <2>1, <3>2, RequeueTyped
    <3> QED
      BY <2>2, <3>1, <3>2
  <2>4. DbTypes' /\ LeaseTypes' /\ InstanceTypes'
    BY <1>4 DEF ReleaseLeasedJob, DbTypes, LeaseTypes, InstanceTypes
  <2>5. WorkerTypes'
    BY <1>4 DEF ReleaseLeasedJob, WorkerTypes
  <2>6. \A v \in Workers : pc'[v] \in Busy => pc[v] \in Busy /\ wJob'[v] = wJob[v]
    BY <1>4 DEF ReleaseLeasedJob, WorkerTypes, Busy
  <2> QED
    BY <2>3, <2>4, <2>5, <2>6, ReferencesKept
<1>5. CASE WorkerExit(w)
  <2>1. WorkerTypes'
    BY <1>5 DEF WorkerExit, WorkerTypes
  <2>2. DbTypes' /\ JobTypes' /\ LeaseTypes' /\ InstanceTypes'
    BY <1>5 DEF WorkerExit, DbTypes, JobTypes, LeaseTypes, InstanceTypes
  <2>3. References'
    BY <1>5 DEF WorkerExit, References, Busy, JobTypes, WorkerTypes
  <2> QED
    BY <2>1, <2>2, <2>3
<1> QED
  BY <1>1, <1>2, <1>3, <1>4, <1>5

\* Running one job, up to the deferred calls.
LEMMA ExecuteTyped ==
  ASSUME TypeInv, NEW w \in Workers,
         \/ AcquireWorkspaceLease(w) \/ PrepareFails(w) \/ DriftDetected(w) \/ StartTask(w)
         \/ SkipValidation(w) \/ StartAgentRun(w) \/ StartProcess(w) \/ ProcessKilled(w)
         \/ ProcessExit(w) \/ Renew(w) \/ OrphanExit(w) \/ Unwind(w)
  PROVE  TypeInv'
<1> USE RowAssumption DEF TypeInv, TypeOK, PlanStatuses, TaskStatuses, JobStatuses,
        dbVars, jobVars, wsVars, workerVars, instVars
<1>1. CASE PrepareFails(w)
  <2>1. WorkerTypes'
    BY <1>1 DEF PrepareFails, Return, WorkerTypes
  <2>2. DbTypes' /\ JobTypes' /\ LeaseTypes' /\ InstanceTypes'
    BY <1>1 DEF PrepareFails, Return, DbTypes, JobTypes, LeaseTypes, InstanceTypes
  <2>3. References'
    BY <1>1 DEF PrepareFails, Return, References, Busy, JobTypes, WorkerTypes
  <2> QED
    BY <2>1, <2>2, <2>3
<1>2. CASE DriftDetected(w)
  <2>1. WorkerTypes'
    BY <1>2 DEF DriftDetected, Return, WorkerTypes
  <2>2. DbTypes' /\ JobTypes' /\ LeaseTypes' /\ InstanceTypes'
    BY <1>2 DEF DriftDetected, Return, DbTypes, JobTypes, LeaseTypes, InstanceTypes
  <2>3. References'
    BY <1>2 DEF DriftDetected, Return, References, Busy, JobTypes, WorkerTypes
  <2> QED
    BY <2>1, <2>2, <2>3
<1>3. CASE StartTask(w)
  <2>1. DbTypes'
    BY <1>3 DEF StartTask, Return, DbTypes
  <2>2. WorkerTypes'
    BY <1>3 DEF StartTask, Return, WorkerTypes
  <2>3. JobTypes' /\ LeaseTypes' /\ InstanceTypes'
    BY <1>3 DEF StartTask, Return, JobTypes, LeaseTypes, InstanceTypes
  <2>4. References'
    BY <1>3 DEF StartTask, Return, References, Busy, JobTypes, WorkerTypes
  <2> QED
    BY <2>1, <2>2, <2>3, <2>4
<1>4. CASE SkipValidation(w)
  <2>1. WorkerTypes'
    BY <1>4 DEF SkipValidation, WorkerTypes
  <2>2. DbTypes' /\ JobTypes' /\ LeaseTypes' /\ InstanceTypes'
    BY <1>4 DEF SkipValidation, DbTypes, JobTypes, LeaseTypes, InstanceTypes
  <2>3. References'
    BY <1>4 DEF SkipValidation, References, Busy, JobTypes, WorkerTypes
  <2> QED
    BY <2>1, <2>2, <2>3
<1>5. CASE StartAgentRun(w)
  <2>1. WorkerTypes'
    BY <1>5 DEF StartAgentRun, Return, WorkerTypes
  <2>2. DbTypes' /\ JobTypes' /\ LeaseTypes' /\ InstanceTypes'
    BY <1>5 DEF StartAgentRun, Return, DbTypes, JobTypes, LeaseTypes, InstanceTypes
  <2>3. References'
    BY <1>5 DEF StartAgentRun, Return, References, Busy, JobTypes, WorkerTypes
  <2> QED
    BY <2>1, <2>2, <2>3
<1>6. CASE StartProcess(w)
  <2>1. WorkerTypes'
    BY <1>6 DEF StartProcess, WorkerTypes
  <2>2. DbTypes' /\ JobTypes' /\ LeaseTypes' /\ InstanceTypes'
    BY <1>6 DEF StartProcess, DbTypes, JobTypes, LeaseTypes, InstanceTypes
  <2>3. References'
    BY <1>6 DEF StartProcess, References, Busy, JobTypes, WorkerTypes
  <2> QED
    BY <2>1, <2>2, <2>3
<1>7. CASE ProcessKilled(w)
  <2>1. WorkerTypes'
    BY <1>7 DEF ProcessKilled, WorkerTypes
  <2>2. DbTypes' /\ JobTypes' /\ LeaseTypes' /\ InstanceTypes'
    BY <1>7 DEF ProcessKilled, DbTypes, JobTypes, LeaseTypes, InstanceTypes
  <2>3. References'
    BY <1>7 DEF ProcessKilled, References, Busy, JobTypes, WorkerTypes
  <2> QED
    BY <2>1, <2>2, <2>3
<1>8. CASE ProcessExit(w)
  <2>1. WorkerTypes'
    BY <1>8 DEF ProcessExit, WorkerTypes
  <2>2. DbTypes' /\ JobTypes' /\ LeaseTypes' /\ InstanceTypes'
    BY <1>8 DEF ProcessExit, DbTypes, JobTypes, LeaseTypes, InstanceTypes
  <2>3. References'
    BY <1>8 DEF ProcessExit, References, Busy, JobTypes, WorkerTypes
  <2> QED
    BY <2>1, <2>2, <2>3
<1>9. CASE Renew(w)
  <2>1. JobTypes'
    BY <1>9 DEF Renew, JobTypes
  <2>2. WorkerTypes'
    BY <1>9 DEF Renew, WorkerTypes
  <2>3. DbTypes' /\ LeaseTypes' /\ InstanceTypes'
    BY <1>9 DEF Renew, DbTypes, LeaseTypes, InstanceTypes
  <2>4. References'
    BY <1>9 DEF Renew, References, Busy, JobTypes, WorkerTypes
  <2> QED
    BY <2>1, <2>2, <2>3, <2>4
<1>10. CASE OrphanExit(w)
  <2>1. WorkerTypes'
    BY <1>10 DEF OrphanExit, WorkerTypes
  <2>2. DbTypes' /\ JobTypes' /\ LeaseTypes' /\ InstanceTypes'
    BY <1>10 DEF OrphanExit, DbTypes, JobTypes, LeaseTypes, InstanceTypes
  <2>3. References'
    BY <1>10 DEF OrphanExit, References, Busy, JobTypes, WorkerTypes
  <2> QED
    BY <2>1, <2>2, <2>3
<1>11. CASE Unwind(w)
  <2>1. LeaseTypes'
    BY <1>11 DEF Unwind, LeaseTypes
  <2>2. WorkerTypes'
    BY <1>11 DEF Unwind, WorkerTypes
  <2>3. DbTypes' /\ JobTypes' /\ InstanceTypes'
    BY <1>11 DEF Unwind, DbTypes, JobTypes, InstanceTypes
  <2>4. References'
    BY <1>11 DEF Unwind, References, Busy, JobTypes, WorkerTypes
  <2> QED
    BY <2>1, <2>2, <2>3, <2>4
<1>12. CASE AcquireWorkspaceLease(w)
  <2>1. wJob[w] \in Jobs
    BY <1>12 DEF AcquireWorkspaceLease, References, Busy
  <2>2. \/ UNCHANGED wsVars
        \/ /\ wsJob' = [wsJob EXCEPT ![JobProject(wJob[w])] = wJob[w]]
           /\ wsWorker' = [wsWorker EXCEPT ![JobProject(wJob[w])] = w]
           /\ wsOk' = [wsOk EXCEPT ![JobProject(wJob[w])] = TRUE]
    BY <1>12 DEF AcquireWorkspaceLease
  <2>3. LeaseTypes'
    BY <2>1, <2>2 DEF LeaseTypes
  <2>4. WorkerTypes'
    BY <1>12 DEF AcquireWorkspaceLease, WorkerTypes
  <2>5. DbTypes' /\ JobTypes' /\ InstanceTypes' /\ RowsKept
    BY <1>12 DEF AcquireWorkspaceLease, DbTypes, JobTypes, InstanceTypes, References, RowsKept
  <2>6. \A v \in Workers : pc'[v] \in Busy => pc[v] \in Busy /\ wJob'[v] = wJob[v]
    BY <1>12 DEF AcquireWorkspaceLease, WorkerTypes, Busy
  <2> QED
    BY <2>3, <2>4, <2>5, <2>6, ReferencesKept
<1> QED
  BY <1>1, <1>2, <1>3, <1>4, <1>5, <1>6, <1>7, <1>8, <1>9, <1>10, <1>11, <1>12

\* Storing the result of the CLI.
LEMMA ResultTyped ==
  ASSUME TypeInv, NEW w \in Workers,
         \/ ResultLost(w) \/ CheckpointDrift(w) \/ ReturnTaskPending(w)
         \/ ReturnTaskQueuedForRetry(w) \/ FinishTaskFailed(w) \/ FinishTaskIgnored(w)
         \/ FinishTask(w) \/ FinishTaskRefused(w)
  PROVE  TypeInv'
<1> USE RowAssumption DEF TypeInv, TypeOK, PlanStatuses, TaskStatuses, JobStatuses,
        dbVars, jobVars, wsVars, workerVars, instVars
<1>1. CASE ResultLost(w)
  <2>1. WorkerTypes'
    BY <1>1 DEF ResultLost, Return, WorkerTypes
  <2>2. DbTypes' /\ JobTypes' /\ LeaseTypes' /\ InstanceTypes'
    BY <1>1 DEF ResultLost, Return, DbTypes, JobTypes, LeaseTypes, InstanceTypes
  <2>3. References'
    BY <1>1 DEF ResultLost, Return, References, Busy, JobTypes, WorkerTypes
  <2> QED
    BY <2>1, <2>2, <2>3
<1>2. CASE CheckpointDrift(w)
  <2>1. WorkerTypes'
    BY <1>2 DEF CheckpointDrift, Return, WorkerTypes
  <2>2. DbTypes' /\ JobTypes' /\ LeaseTypes' /\ InstanceTypes'
    BY <1>2 DEF CheckpointDrift, Return, DbTypes, JobTypes, LeaseTypes, InstanceTypes
  <2>3. References'
    BY <1>2 DEF CheckpointDrift, Return, References, Busy, JobTypes, WorkerTypes
  <2> QED
    BY <2>1, <2>2, <2>3
<1>3. CASE ReturnTaskPending(w)
  <2>1. DbTypes'
    BY <1>3 DEF ReturnTaskPending, Return, DbTypes
  <2>2. WorkerTypes'
    BY <1>3 DEF ReturnTaskPending, Return, WorkerTypes
  <2>3. JobTypes' /\ LeaseTypes' /\ InstanceTypes'
    BY <1>3 DEF ReturnTaskPending, Return, JobTypes, LeaseTypes, InstanceTypes
  <2>4. References'
    BY <1>3 DEF ReturnTaskPending, Return, References, Busy, JobTypes, WorkerTypes
  <2> QED
    BY <2>1, <2>2, <2>3, <2>4
<1>4. CASE ReturnTaskQueuedForRetry(w)
  <2>1. DbTypes'
    BY <1>4 DEF ReturnTaskQueuedForRetry, Return, DbTypes
  <2>2. WorkerTypes'
    BY <1>4 DEF ReturnTaskQueuedForRetry, Return, WorkerTypes
  <2>3. JobTypes' /\ LeaseTypes' /\ InstanceTypes'
    BY <1>4 DEF ReturnTaskQueuedForRetry, Return, JobTypes, LeaseTypes, InstanceTypes
  <2>4. References'
    BY <1>4 DEF ReturnTaskQueuedForRetry, Return, References, Busy, JobTypes, WorkerTypes
  <2> QED
    BY <2>1, <2>2, <2>3, <2>4
<1>5. CASE FinishTaskFailed(w)
  <2>1. DbTypes'
    BY <1>5 DEF FinishTaskFailed, Return, DbTypes
  <2>2. WorkerTypes'
    BY <1>5 DEF FinishTaskFailed, Return, WorkerTypes
  <2>3. JobTypes' /\ LeaseTypes' /\ InstanceTypes'
    BY <1>5 DEF FinishTaskFailed, Return, JobTypes, LeaseTypes, InstanceTypes
  <2>4. References'
    BY <1>5 DEF FinishTaskFailed, Return, References, Busy, JobTypes, WorkerTypes
  <2> QED
    BY <2>1, <2>2, <2>3, <2>4
<1>6. CASE FinishTaskIgnored(w)
  <2>1. WorkerTypes'
    BY <1>6 DEF FinishTaskIgnored, Return, WorkerTypes
  <2>2. DbTypes' /\ JobTypes' /\ LeaseTypes' /\ InstanceTypes'
    BY <1>6 DEF FinishTaskIgnored, Return, DbTypes, JobTypes, LeaseTypes, InstanceTypes
  <2>3. References'
    BY <1>6 DEF FinishTaskIgnored, Return, References, Busy, JobTypes, WorkerTypes
  <2> QED
    BY <2>1, <2>2, <2>3
<1>7. CASE FinishTaskRefused(w)
  <2>1. WorkerTypes'
    BY <1>7 DEF FinishTaskRefused, Return, WorkerTypes
  <2>2. DbTypes' /\ JobTypes' /\ LeaseTypes' /\ InstanceTypes'
    BY <1>7 DEF FinishTaskRefused, Return, DbTypes, JobTypes, LeaseTypes, InstanceTypes
  <2>3. References'
    BY <1>7 DEF FinishTaskRefused, Return, References, Busy, JobTypes, WorkerTypes
  <2> QED
    BY <2>1, <2>2, <2>3
<1>8. CASE FinishTask(w)
  <2>1. DbTypes'
    <3> DEFINE t == jobTask[wJob[w]]
               p == PlanOf[t]
    <3>1. \/ UNCHANGED planSt
          \/ \E st \in {"cancelled", "blocked", "completed"} :
               planSt' = [planSt EXCEPT ![p] = IF @ \in PlanTerminal THEN @ ELSE st]
      BY <1>8 DEF FinishTask
    <3>2. \/ taskSt' = [taskSt EXCEPT ![t] = "succeeded"]
          \/ \E u \in Tasks : taskSt' = [taskSt EXCEPT ![t] = "succeeded", ![u] = "queued"]
      BY <1>8 DEF FinishTask, TasksAfter, TasksOf
    <3>3. UNCHANGED <<automation, before>>
      BY <1>8 DEF FinishTask
    <3> HIDE DEF t, p
    <3> QED
      BY <3>1, <3>2, <3>3 DEF DbTypes
  <2>2. UNCHANGED jobVars \/ \E t \in Tasks, j \in Jobs : InsertJob(j, t)
    BY <1>8 DEF FinishTask, TasksAfter, TasksOf
  <2>3. JobTypes' /\ RowsKept
    <3>1. CASE UNCHANGED jobVars
      BY <3>1 DEF JobTypes, References, RowsKept
    <3>2. CASE \E t \in Tasks, j \in Jobs : InsertJob(j, t)
      BY <3>2, InsertJobTyped
    <3> QED
      BY <2>2, <3>1, <3>2
  <2>4. pc[w] \in Busy /\ Return(w, "ok") /\ UNCHANGED <<wsVars, instVars>>
    BY <1>8 DEF FinishTask, Busy
  <2>5. WorkerTypes' /\ LeaseTypes' /\ InstanceTypes'
    BY <2>4 DEF Return, WorkerTypes, LeaseTypes, InstanceTypes
  <2>6. \A v \in Workers : pc'[v] \in Busy => pc[v] \in Busy /\ wJob'[v] = wJob[v]
    BY <2>4 DEF Return, WorkerTypes
  <2> QED
    BY <2>1, <2>3, <2>5, <2>6, ReferencesKept
<1> QED
  BY <1>1, <1>2, <1>3, <1>4, <1>5, <1>6, <1>7, <1>8

\* Recording the outcome of the job.
LEMMA SettleTyped ==
  ASSUME TypeInv, NEW w \in Workers,
         \/ CompleteJob(w) \/ DeferJobForWorkspace(w) \/ CancelJob(w) \/ FailJob(w)
         \/ BlockTaskJobForDrift(w) \/ SettleLost(w)
  PROVE  TypeInv'
<1> USE RowAssumption DEF TypeInv, TypeOK, PlanStatuses, TaskStatuses, JobStatuses,
        dbVars, jobVars, wsVars, workerVars, instVars
<1>1. pc[w] = "settle" /\ Done(w)
  BY DEF CompleteJob, DeferJobForWorkspace, CancelJob, FailJob, BlockTaskJobForDrift,
         SettleLost, Settles
<1>2. wJob[w] \in Jobs /\ jobSt[wJob[w]] # "none"
  BY <1>1 DEF References, Busy
<1>3. \/ UNCHANGED jobVars \/ Requeue(wJob[w])
      \/ \E S, st : st \in JobStatuses /\ SettleJob(w, S, st)
  <2>1. CASE FailJob(w)
    <3>1. \E st \in {"retry_wait", "failed"} : SettleJob(w, {"leased", "running"}, st)
      BY <2>1 DEF FailJob
    <3> QED
      BY <3>1
  <2>2. CASE ~FailJob(w)
    BY <2>2 DEF CompleteJob, DeferJobForWorkspace, CancelJob, BlockTaskJobForDrift, SettleLost
  <2> QED
    BY <2>1, <2>2
<1>4. JobTypes' /\ RowsKept
  <2>1. CASE UNCHANGED jobVars
    BY <2>1 DEF JobTypes, References, RowsKept
  <2>2. CASE Requeue(wJob[w])
    BY <1>2, <2>2, RequeueTyped
  <2>3. CASE \E S, st : st \in JobStatuses /\ SettleJob(w, S, st)
    BY <1>2, <2>3, SettleJobTyped
  <2> QED
    BY <1>3, <2>1, <2>2, <2>3
<1>5. DbTypes'
  <2>1. CASE BlockTaskJobForDrift(w)
    BY <2>1 DEF BlockTaskJobForDrift, DbTypes
  <2>2. CASE ~BlockTaskJobForDrift(w)
    <3>1. UNCHANGED dbVars
      BY <2>2 DEF CompleteJob, DeferJobForWorkspace, CancelJob, FailJob, SettleLost
    <3> QED
      BY <3>1 DEF DbTypes
  <2> QED
    BY <2>1, <2>2
<1>6. LeaseTypes' /\ WorkerTypes' /\ InstanceTypes'
  BY <1>1 DEF Done, LeaseTypes, WorkerTypes, InstanceTypes
<1>7. \A v \in Workers : pc'[v] \in Busy => pc[v] \in Busy /\ wJob'[v] = wJob[v]
  BY <1>1 DEF Done, WorkerTypes, Busy
<1> QED
  BY <1>4, <1>5, <1>6, <1>7, ReferencesKept

\* Timers.
LEMMA ClockTyped ==
  ASSUME TypeInv, ClockStep
  PROVE  TypeInv'
<1> USE RowAssumption DEF TypeInv, TypeOK, PlanStatuses, TaskStatuses, JobStatuses,
        dbVars, jobVars, wsVars, workerVars, instVars
<1>1. CASE \E j \in Jobs : ExpireJobLease(j)
  <2>1. JobTypes'
    BY <1>1 DEF ExpireJobLease, JobTypes
  <2>2. DbTypes' /\ LeaseTypes' /\ WorkerTypes' /\ InstanceTypes'
    BY <1>1 DEF ExpireJobLease, DbTypes, LeaseTypes, WorkerTypes, InstanceTypes
  <2>3. References'
    BY <1>1 DEF ExpireJobLease, References, Busy, JobTypes, WorkerTypes
  <2> QED
    BY <2>1, <2>2, <2>3
<1>2. CASE \E r \in Projects : ExpireWorkspaceLease(r)
  <2>1. LeaseTypes'
    BY <1>2 DEF ExpireWorkspaceLease, LeaseTypes
  <2>2. DbTypes' /\ JobTypes' /\ WorkerTypes' /\ InstanceTypes'
    BY <1>2 DEF ExpireWorkspaceLease, DbTypes, JobTypes, WorkerTypes, InstanceTypes
  <2>3. References'
    BY <1>2 DEF ExpireWorkspaceLease, References, Busy, JobTypes, WorkerTypes
  <2> QED
    BY <2>1, <2>2, <2>3
<1>3. CASE \E k \in Instances : InstanceStale(k) \/ HeartbeatRuntimeInstance(k)
  <2>1. InstanceTypes'
    BY <1>3 DEF InstanceStale, HeartbeatRuntimeInstance, InstanceTypes
  <2>2. DbTypes' /\ JobTypes' /\ LeaseTypes' /\ WorkerTypes'
    BY <1>3 DEF InstanceStale, HeartbeatRuntimeInstance, DbTypes, JobTypes, LeaseTypes, WorkerTypes
  <2>3. References'
    BY <1>3 DEF InstanceStale, HeartbeatRuntimeInstance, References, Busy, JobTypes, WorkerTypes
  <2> QED
    BY <2>1, <2>2, <2>3
<1> QED
  BY <1>1, <1>2, <1>3 DEF ClockStep

\* Shutdown, crash and the signals of an automation stop.
LEMMA InstanceTyped ==
  ASSUME TypeInv, NEW i \in Instances,
         \/ BeginDraining(i) \/ ShutdownStep(i) \/ Crash(i)
         \/ \E r \in Projects : CancelPrefix(r, i)
  PROVE  TypeInv'
<1> USE RowAssumption DEF TypeInv, TypeOK, PlanStatuses, TaskStatuses, JobStatuses,
        dbVars, jobVars, wsVars, workerVars, instVars
<1>1. CASE BeginDraining(i)
  <2>1. InstanceTypes'
    BY <1>1 DEF BeginDraining, InstanceTypes
  <2>2. DbTypes' /\ JobTypes' /\ LeaseTypes' /\ WorkerTypes'
    BY <1>1 DEF BeginDraining, DbTypes, JobTypes, LeaseTypes, WorkerTypes
  <2>3. References'
    BY <1>1 DEF BeginDraining, References, Busy, JobTypes, WorkerTypes
  <2> QED
    BY <2>1, <2>2, <2>3
<1>2. CASE CancelAll(i)
  <2>1. WorkerTypes'
    BY <1>2 DEF CancelAll, WorkerTypes
  <2>2. InstanceTypes'
    BY <1>2 DEF CancelAll, InstanceTypes
  <2>3. DbTypes' /\ JobTypes' /\ LeaseTypes'
    BY <1>2 DEF CancelAll, DbTypes, JobTypes, LeaseTypes
  <2>4. References'
    BY <1>2 DEF CancelAll, References, Busy, JobTypes, WorkerTypes
  <2> QED
    BY <2>1, <2>2, <2>3, <2>4
<1>3. CASE StopPool(i)
  <2>1. InstanceTypes'
    BY <1>3 DEF StopPool, InstanceTypes
  <2>2. DbTypes' /\ JobTypes' /\ LeaseTypes' /\ WorkerTypes'
    BY <1>3 DEF StopPool, DbTypes, JobTypes, LeaseTypes, WorkerTypes
  <2>3. References'
    BY <1>3 DEF StopPool, References, Busy, JobTypes, WorkerTypes
  <2> QED
    BY <2>1, <2>2, <2>3
<1>4. CASE Exit(i)
  <2>1. InstanceTypes'
    BY <1>4 DEF Exit, InstanceTypes
  <2>2. DbTypes' /\ JobTypes' /\ LeaseTypes' /\ WorkerTypes'
    BY <1>4 DEF Exit, DbTypes, JobTypes, LeaseTypes, WorkerTypes
  <2>3. References'
    BY <1>4 DEF Exit, References, Busy, JobTypes, WorkerTypes
  <2> QED
    BY <2>1, <2>2, <2>3
<1>5. CASE Crash(i)
  <2>1. WorkerTypes'
    BY <1>5 DEF Crash, WorkerTypes
  <2>2. InstanceTypes'
    BY <1>5 DEF Crash, InstanceTypes
  <2>3. DbTypes' /\ JobTypes' /\ LeaseTypes'
    BY <1>5 DEF Crash, DbTypes, JobTypes, LeaseTypes
  <2>4. References'
    BY <1>5 DEF Crash, References, Busy, JobTypes, WorkerTypes
  <2> QED
    BY <2>1, <2>2, <2>3, <2>4
<1>6. CASE \E r \in Projects : CancelPrefix(r, i)
  <2>1. WorkerTypes'
    BY <1>6 DEF CancelPrefix, WorkerTypes
  <2>2. InstanceTypes'
    BY <1>6 DEF CancelPrefix, InstanceTypes
  <2>3. DbTypes' /\ JobTypes' /\ LeaseTypes'
    BY <1>6 DEF CancelPrefix, DbTypes, JobTypes, LeaseTypes
  <2>4. References'
    BY <1>6 DEF CancelPrefix, References, Busy, JobTypes, WorkerTypes
  <2> QED
    BY <2>1, <2>2, <2>3, <2>4
<1>7. CASE ReconcileInstanceShutdown(i)
  <2>1. DbTypes'
    BY <1>7 DEF ReconcileInstanceShutdown, DbTypes
  <2>2. JobTypes' /\ RowsKept
    <3>1. OwnedJobs(i) \subseteq {j \in Jobs : jobSt[j] # "none"}
      BY DEF OwnedJobs, LiveJobs
    <3>2. \/ UNCHANGED <<jobSt, jobWorker, leaseOk>>
          \/ /\ jobSt' = [j \in Jobs |-> IF j \in OwnedJobs(i) THEN "cancelled" ELSE jobSt[j]]
             /\ jobWorker' = [j \in Jobs |-> IF j \in OwnedJobs(i) THEN None ELSE jobWorker[j]]
             /\ leaseOk' = [j \in Jobs |-> leaseOk[j] /\ j \notin OwnedJobs(i)]
      BY <1>7 DEF ReconcileInstanceShutdown
    <3>3. UNCHANGED <<jobTask, jobAttempt>>
      BY <1>7 DEF ReconcileInstanceShutdown
    <3>4. JobTypes'
      BY <3>2, <3>3 DEF JobTypes
    <3>5. \A j \in Jobs : jobSt'[j] # "none" <=> jobSt[j] # "none"
      BY <3>1, <3>2 DEF JobTypes
    <3> QED
      BY <3>3, <3>4, <3>5 DEF References, RowsKept
  <2>3. LeaseTypes'
    <3>1. \/ UNCHANGED wsVars
          \/ /\ wsJob' = [r \in Projects |-> IF wsJob[r] \in OwnedJobs(i) THEN None ELSE wsJob[r]]
             /\ wsWorker' = [r \in Projects |->
                  IF wsJob[r] \in OwnedJobs(i) THEN None ELSE wsWorker[r]]
             /\ wsOk' = [r \in Projects |-> wsOk[r] /\ wsJob[r] \notin OwnedJobs(i)]
      BY <1>7 DEF ReconcileInstanceShutdown
    <3> QED
      BY <3>1 DEF LeaseTypes
  <2>4. WorkerTypes' /\ UNCHANGED <<pc, wJob>>
    BY <1>7 DEF ReconcileInstanceShutdown, WorkerTypes
  <2>5. InstanceTypes'
    BY <1>7 DEF ReconcileInstanceShutdown, InstanceTypes
  <2> QED
    BY <2>1, <2>2, <2>3, <2>4, <2>5, ReferencesKept
<1> QED
  BY <1>1, <1>2, <1>3, <1>4, <1>5, <1>6, <1>7 DEF ShutdownStep

\* A recovery pass.
LEMMA RecoveryTyped ==
  ASSUME TypeInv, NEW i \in Instances, ReconcileRuntimeState(i)
  PROVE  TypeInv'
<1> USE RowAssumption DEF TypeInv, TypeOK, PlanStatuses, TaskStatuses, JobStatuses,
        dbVars, jobVars, wsVars, workerVars, instVars
<1>1. PICK pick, unstarted, converged :
        /\ unstarted \subseteq LiveJobs /\ converged \subseteq LiveJobs
        /\ ConvergeLostJobs(pick, unstarted, converged)
        /\ ConvergeRecoveredTasks(pick, converged)
        /\ ReleaseRecovered(i, pick, converged)
  BY DEF ReconcileRuntimeState, LostJobs
<1>2. \A j \in LiveJobs : j \in Jobs /\ jobSt[j] # "none"
  BY DEF LiveJobs
<1>3. JobTypes'
  <2>1. jobSt' \in [Jobs -> JobStatuses \cup {"none"}] /\ jobTask' = jobTask
    BY <1>1 DEF ConvergeLostJobs, JobTypes
  <2>2. jobWorker' \in [Jobs -> Workers \cup {None}] /\ leaseOk' \in [Jobs -> BOOLEAN]
    BY <1>1 DEF ConvergeLostJobs, JobTypes
  <2>3. jobAttempt' \in [Jobs -> Nat]
    <3>1. \A n \in Nat : n > 0 => n - 1 \in Nat
      OBVIOUS
    <3> QED
      BY <1>1, <3>1 DEF ConvergeLostJobs, JobTypes
  <2> QED
    BY <2>1, <2>2, <2>3 DEF JobTypes
<1>4. RowsKept
  <2>1. \A j \in Jobs : jobSt'[j] # "none" <=> jobSt[j] # "none"
    BY <1>1, <1>2 DEF ConvergeLostJobs, JobTypes
  <2> QED
    BY <1>1, <2>1 DEF ConvergeLostJobs, RowsKept, References
<1>5. DbTypes'
  BY <1>1 DEF ConvergeRecoveredTasks, DbTypes
<1>6. LeaseTypes'
  BY <1>1 DEF ReleaseRecovered, LeaseTypes
<1>7. WorkerTypes' /\ UNCHANGED <<pc, wJob>>
  BY <1>1 DEF ReleaseRecovered, WorkerTypes
<1>8. InstanceTypes'
  BY DEF ReconcileRuntimeState, InstanceTypes
<1> QED
  BY <1>3, <1>4, <1>5, <1>6, <1>7, <1>8, ReferencesKept

\* Every step of the system keeps TypeInv.
LEMMA NextTyped == TypeInv /\ [Next]_vars => TypeInv'
<1> SUFFICES ASSUME TypeInv, [Next]_vars PROVE TypeInv'
  OBVIOUS
<1>1. CASE UNCHANGED vars
  BY <1>1 DEF TypeInv, TypeOK, DbTypes, JobTypes, LeaseTypes, WorkerTypes, InstanceTypes,
    References, vars, dbVars, jobVars, wsVars, workerVars, instVars
<1>2. CASE UserStep
  BY <1>2, UserTyped
<1>3. ASSUME NEW w \in Workers,
             WorkerStep(w) \/ ProcessExit(w) \/ Renew(w) \/ OrphanExit(w)
      PROVE  TypeInv'
  BY <1>3, ClaimTyped, ExecuteTyped, ResultTyped, SettleTyped DEF WorkerStep
<1>4. ASSUME NEW i \in Instances,
             \/ BeginDraining(i) \/ ShutdownStep(i) \/ Crash(i)
             \/ ReconcileRuntimeState(i) \/ \E r \in Projects : CancelPrefix(r, i)
      PROVE  TypeInv'
  BY <1>4, InstanceTyped, RecoveryTyped
<1>5. CASE ClockStep
  BY <1>5, ClockTyped
<1> QED
  BY <1>1, <1>2, <1>3, <1>4, <1>5 DEF Next

\* The initial state has the types and references.
LEMMA InitTyped == Init => TypeInv
BY DEF Init, TypeInv, TypeOK, DbTypes, JobTypes, LeaseTypes, WorkerTypes, InstanceTypes,
  References, Busy, PlanStatuses, TaskStatuses, JobStatuses

\* Every row, and every piece of state of the workers and instances, keeps its
\* domain; in particular every write of a status writes one of the status's
\* values, and the compensation of an attempt never makes it negative.
THEOREM Typed == Spec => []TypeOK
<1>1. TypeInv => TypeOK
  BY DEF TypeInv
<1> QED
  BY <1>1, InitTyped, NextTyped, PTL DEF Spec

-----------------------------------------------------------------------------
(* What one step may do to the status of a task, a plan and a job.         *)

\* A task that has succeeded keeps its status.  A pending task is only ever
\* queued, and only when all tasks before it have succeeded.
TaskMove(t) ==
  \/ taskSt'[t] = taskSt[t]
  \/ taskSt[t] # "succeeded" /\ taskSt'[t] = "pending"
  \/ taskSt[t] \notin {"pending", "succeeded"}
  \/ /\ taskSt[t] # "succeeded"
     /\ \A u \in Tasks : PlanOf[u] = PlanOf[t] /\ Position[u] < Position[t]
                           => taskSt'[u] = "succeeded"

\* A finished plan keeps its status, and a plan completes only together with
\* the last of its tasks.
PlanMove(p) ==
  \/ planSt'[p] = planSt[p]
  \/ /\ planSt[p] \notin {"completed", "failed", "cancelled"}
     /\ planSt'[p] = "completed" => \A t \in Tasks : PlanOf[t] = p => taskSt'[t] = "succeeded"

\* A settled job keeps its status.
JobMove(j) == jobSt[j] \in JobTerminal => jobSt'[j] = jobSt[j]

Moves ==
  /\ \A t \in Tasks : TaskMove(t)
  /\ \A p \in Plans : PlanMove(p)
  /\ \A j \in Jobs : JobMove(j)

LEMMA NoMove ==
  ASSUME UNCHANGED <<taskSt, planSt, jobSt>>
  PROVE  Moves
BY DEF Moves, TaskMove, PlanMove, JobMove

\* queuePlanTx and QueueTask: the next task of a plan is queued.
LEMMA QueueMoves ==
  ASSUME TypeInv, NEW p \in Plans, NEW t \in Tasks, NEW j \in Jobs,
         t \in NextTasks(p), planSt[p] \notin {"completed", "failed", "cancelled"},
         taskSt' = [taskSt EXCEPT ![t] = "queued"],
         planSt' = [planSt EXCEPT ![p] = "running"],
         InsertJob(j, t)
  PROVE  Moves
<1>1. \A u \in Tasks : TaskMove(u)
  <2> SUFFICES ASSUME NEW u \in Tasks PROVE TaskMove(u)
    OBVIOUS
  <2>1. CASE u = t
    <3>1. /\ taskSt[t] # "succeeded" /\ PlanOf[t] = p
          /\ \A v \in Tasks : PlanOf[v] = p /\ Position[v] < Position[t]
                                => taskSt[v] = "succeeded"
      BY DEF NextTasks, TasksOf
    <3>2. \A v \in Tasks : Position[v] < Position[t] => v # t
      BY RowAssumption
    <3> QED
      BY <2>1, <3>1, <3>2 DEF TaskMove, TypeInv, TypeOK, DbTypes
  <2>2. CASE u # t
    BY <2>2 DEF TaskMove, TypeInv, TypeOK, DbTypes
  <2> QED
    BY <2>1, <2>2
<1>2. \A q \in Plans : PlanMove(q)
  BY DEF PlanMove, TypeInv, TypeOK, DbTypes
<1>3. \A k \in Jobs : JobMove(k)
  BY DEF InsertJob, JobMove, JobTerminal, TypeInv, TypeOK, JobTypes
<1> QED
  BY <1>1, <1>2, <1>3 DEF Moves

\* Requests of the user.
LEMMA UserMoves ==
  ASSUME TypeInv, UserStep
  PROVE  Moves
<1> USE RowAssumption DEF TypeInv, TypeOK
<1>1. ASSUME NEW p \in Plans, QueuePlan(p) \/ QueuePlanAutomatically(p)
      PROVE  Moves
  BY <1>1, QueueMoves DEF QueuePlan, QueuePlanAutomatically, QueuePlanTx
<1>2. ASSUME NEW t \in Tasks, QueueTask(t)
      PROVE  Moves
  <2>1. /\ PlanOf[t] \in Plans /\ t \in NextTasks(PlanOf[t])
        /\ planSt[PlanOf[t]] \notin {"completed", "failed", "cancelled"}
        /\ taskSt' = [taskSt EXCEPT ![t] = "queued"]
        /\ planSt' = [planSt EXCEPT ![PlanOf[t]] = "running"]
        /\ \E j \in Jobs : InsertJob(j, t)
    BY <1>2 DEF QueueTask
  <2> QED
    BY <2>1, QueueMoves
<1>3. ASSUME NEW t \in Tasks, StopTask(t)
      PROVE  Moves
  <2>1. \A u \in Tasks : TaskMove(u)
    BY <1>3 DEF StopTask, TaskMove, DbTypes
  <2>2. \A p \in Plans : PlanMove(p)
    BY <1>3 DEF StopTask, PlanMove
  <2>3. \A j \in Jobs : JobMove(j)
    BY <1>3 DEF StopTask, JobMove, JobTerminal
  <2> QED
    BY <2>1, <2>2, <2>3 DEF Moves
<1>4. ASSUME NEW p \in Plans, StopPlan(p)
      PROVE  Moves
  <2>1. \A u \in Tasks : TaskMove(u)
    BY <1>4 DEF StopPlan, TaskMove
  <2>2. \A q \in Plans : PlanMove(q)
    BY <1>4 DEF StopPlan, PlanMove, PlanTerminal, DbTypes
  <2>3. \A j \in Jobs : JobMove(j)
    BY <1>4 DEF StopPlan, JobMove, JobTerminal
  <2> QED
    BY <2>1, <2>2, <2>3 DEF Moves
<1>5. ASSUME NEW r \in Projects, NEW i \in Instances, StopAutomation(r, i)
      PROVE  Moves
  <2>1. \A u \in Tasks : TaskMove(u)
    BY <1>5 DEF StopAutomation, TaskMove, ActiveTasks
  <2>2. \A q \in Plans : PlanMove(q)
    BY <1>5 DEF StopAutomation, PlanMove, PlanTerminal
  <2>3. \A j \in Jobs : JobMove(j)
    BY <1>5 DEF StopAutomation, JobMove, JobTerminal
  <2> QED
    BY <2>1, <2>2, <2>3 DEF Moves
<1>6. ASSUME NEW r \in Projects, StartAutomation(r)
      PROVE  Moves
  <2> DEFINE R == {p \in Plans : ProjectOf[p] = r /\ planSt[p] = "ready"}
             T == {t \in Tasks : PlanOf[t] \in R /\ t \in NextTasks(PlanOf[t])}
  <2>1. \A t \in Tasks : TaskMove(t)
    <3> SUFFICES ASSUME NEW t \in Tasks PROVE TaskMove(t)
      OBVIOUS
    <3>1. taskSt' = [u \in Tasks |-> IF u \in T THEN "queued" ELSE taskSt[u]]
      BY <1>6 DEF StartAutomation
    <3>2. CASE t \in T
      <4>1. /\ taskSt[t] # "succeeded"
            /\ \A v \in Tasks : PlanOf[v] = PlanOf[t] /\ Position[v] < Position[t]
                                  => taskSt[v] = "succeeded"
        BY <3>2 DEF NextTasks, TasksOf
      <4>2. \A v \in Tasks : taskSt[v] = "succeeded" => v \notin T
        BY DEF NextTasks
      <4> QED
        BY <3>1, <4>1, <4>2 DEF TaskMove
    <3>3. CASE t \notin T
      BY <3>1, <3>3 DEF TaskMove
    <3> QED
      BY <3>2, <3>3
  <2>2. \A p \in Plans : PlanMove(p)
    BY <1>6 DEF StartAutomation, PlanMove
  <2>3. \A j \in Jobs : JobMove(j)
    <3>1. PICK f \in [T -> NewJobs(Cardinality(T))] : InsertJobs(f)
      BY <1>6 DEF StartAutomation
    <3>2. \A j \in Jobs : jobSt'[j] = jobSt[j] \/ \E t \in T : j = f[t]
      BY <3>1 DEF InsertJobs
    <3>3. \A t \in T : jobSt[f[t]] = "none"
      BY <3>1 DEF NewJobs, FreeJobs
    <3> HIDE DEF T
    <3> QED
      BY <3>2, <3>3 DEF JobMove, JobTerminal
  <2> QED
    BY <2>1, <2>2, <2>3 DEF Moves
<1> QED
  BY <1>1, <1>2, <1>3, <1>4, <1>5, <1>6 DEF UserStep

\* Steps of a worker that write no task and no plan.
LEMMA JobStepMoves ==
  ASSUME TypeInv, NEW w \in Workers,
         \/ ClaimLock(w) \/ MarkJobRunning(w) \/ ReleaseLeasedJob(w)
         \/ CompleteJob(w) \/ DeferJobForWorkspace(w) \/ CancelJob(w) \/ FailJob(w)
  PROVE  Moves
<1>1. wJob[w] \in Jobs
  BY DEF TypeInv, References, Busy, ClaimLock, MarkJobRunning, ReleaseLeasedJob, CompleteJob,
         DeferJobForWorkspace, CancelJob, FailJob, Settles
<1>2. UNCHANGED <<taskSt, planSt>>
  BY DEF ClaimLock, MarkJobRunning, ReleaseLeasedJob, CompleteJob, DeferJobForWorkspace,
         CancelJob, FailJob, dbVars
<1>3. \/ UNCHANGED jobSt
      \/ /\ jobSt[wJob[w]] \notin JobTerminal
         /\ \E st : jobSt' = [jobSt EXCEPT ![wJob[w]] = st]
  <2> USE DEF Owns, JobTerminal, jobVars
  <2>1. CASE ClaimLock(w)
    BY <2>1 DEF ClaimLock
  <2>2. CASE MarkJobRunning(w)
    BY <2>2 DEF MarkJobRunning
  <2>3. CASE ReleaseLeasedJob(w)
    BY <2>3 DEF ReleaseLeasedJob, Requeue
  <2>4. CASE CompleteJob(w)
    BY <2>4 DEF CompleteJob, SettleJob
  <2>5. CASE DeferJobForWorkspace(w)
    BY <2>5 DEF DeferJobForWorkspace, Requeue
  <2>6. CASE CancelJob(w)
    BY <2>6 DEF CancelJob, SettleJob
  <2>7. CASE FailJob(w)
    BY <2>7 DEF FailJob, SettleJob
  <2> QED
    BY <2>1, <2>2, <2>3, <2>4, <2>5, <2>6, <2>7
<1>4. \A j \in Jobs : JobMove(j)
  BY <1>1, <1>3 DEF JobMove, TypeInv, TypeOK, JobTypes
<1> QED
  BY <1>2, <1>4 DEF Moves, TaskMove, PlanMove

\* Steps of a worker that write the task of its job, and the plan.
LEMMA TaskStepMoves ==
  ASSUME TypeInv, NEW w \in Workers,
         \/ StartTask(w) \/ ReturnTaskPending(w) \/ ReturnTaskQueuedForRetry(w)
         \/ FinishTaskFailed(w) \/ BlockTaskJobForDrift(w)
  PROVE  Moves
<1> DEFINE t == jobTask[wJob[w]]
           p == PlanOf[t]
<1>1. /\ wJob[w] \in Jobs /\ t \in Tasks /\ p \in Plans
  <2>1. wJob[w] \in Jobs /\ jobSt[wJob[w]] # "none"
    BY DEF TypeInv, References, Busy, StartTask, ReturnTaskPending,
           ReturnTaskQueuedForRetry, FinishTaskFailed, BlockTaskJobForDrift, Settles
  <2> QED
    BY <2>1, RowAssumption DEF TypeInv, References
<1>2. \/ UNCHANGED taskSt
      \/ /\ taskSt[t] # "succeeded"
         /\ taskSt' = [taskSt EXCEPT ![t] = "pending"]
      \/ /\ taskSt[t] \notin {"pending", "succeeded"}
         /\ \E st : taskSt' = [taskSt EXCEPT ![t] = st]
  <2> USE <1>1 DEF TypeInv, TypeOK, DbTypes
  <2>1. CASE StartTask(w)
    BY <2>1 DEF StartTask
  <2>2. CASE ReturnTaskPending(w)
    BY <2>2 DEF ReturnTaskPending
  <2>3. CASE ReturnTaskQueuedForRetry(w)
    BY <2>3 DEF ReturnTaskQueuedForRetry
  <2>4. CASE FinishTaskFailed(w)
    BY <2>4 DEF FinishTaskFailed
  <2>5. CASE BlockTaskJobForDrift(w)
    BY <2>5 DEF BlockTaskJobForDrift
  <2> QED
    BY <2>1, <2>2, <2>3, <2>4, <2>5
<1>3. \/ UNCHANGED planSt
      \/ \E st \in {"blocked", "validating"} :
           /\ planSt[p] \notin PlanTerminal
           /\ planSt' = [planSt EXCEPT ![p] = st]
  <2> USE <1>1 DEF TypeInv, TypeOK, DbTypes, dbVars
  <2>1. CASE StartTask(w)
    BY <2>1 DEF StartTask, PlanTerminal
  <2>2. CASE ReturnTaskPending(w)
    BY <2>2 DEF ReturnTaskPending
  <2>3. CASE ReturnTaskQueuedForRetry(w)
    BY <2>3 DEF ReturnTaskQueuedForRetry
  <2>4. CASE FinishTaskFailed(w)
    BY <2>4 DEF FinishTaskFailed
  <2>5. CASE BlockTaskJobForDrift(w)
    BY <2>5 DEF BlockTaskJobForDrift
  <2> QED
    BY <2>1, <2>2, <2>3, <2>4, <2>5
<1>4. \/ UNCHANGED jobSt
      \/ /\ jobSt[wJob[w]] \notin JobTerminal
         /\ \E st : jobSt' = [jobSt EXCEPT ![wJob[w]] = st]
  BY DEF StartTask, ReturnTaskPending, ReturnTaskQueuedForRetry, FinishTaskFailed,
         BlockTaskJobForDrift, SettleJob, Owns, JobTerminal, jobVars
<1> HIDE DEF t, p
<1>5. \A u \in Tasks : TaskMove(u)
  BY <1>1, <1>2 DEF TaskMove, TypeInv, TypeOK, DbTypes
<1>6. \A q \in Plans : PlanMove(q)
  BY <1>1, <1>3 DEF PlanMove, PlanTerminal, TypeInv, TypeOK, DbTypes
<1>7. \A j \in Jobs : JobMove(j)
  BY <1>1, <1>4 DEF JobMove, TypeInv, TypeOK, JobTypes
<1> QED
  BY <1>5, <1>6, <1>7 DEF Moves

\* finishTask(success = true) queues the next task or completes the plan.
LEMMA FinishTaskMoves ==
  ASSUME TypeInv, NEW w \in Workers, FinishTask(w)
  PROVE  Moves
<1> DEFINE t == jobTask[wJob[w]]
           p == PlanOf[t]
           next == {u \in TasksAfter(t) : \A v \in TasksAfter(t) : Position[u] <= Position[v]}
<1>1. t \in Tasks /\ p \in Plans
  <2>1. wJob[w] \in Jobs /\ jobSt[wJob[w]] # "none"
    BY DEF TypeInv, References, Busy, FinishTask
  <2> QED
    BY <2>1, RowAssumption DEF TypeInv, References
<1>2. taskSt[t] = "running"
  BY DEF FinishTask
<1>3. \/ taskSt' = [taskSt EXCEPT ![t] = "succeeded"]
      \/ \E u \in next : taskSt' = [taskSt EXCEPT ![t] = "succeeded", ![u] = "queued"]
  BY DEF FinishTask
<1>4. \/ UNCHANGED planSt
      \/ \E st : /\ planSt' = [planSt EXCEPT ![p] = IF @ \in PlanTerminal THEN @ ELSE st]
                 /\ \/ st \in {"cancelled", "blocked"}
                    \/ st = "completed" /\ TasksAfter(t) = {}
                       /\ taskSt' = [taskSt EXCEPT ![t] = "succeeded"]
  BY DEF FinishTask
<1>5. UNCHANGED jobSt \/ \E j \in Jobs : jobSt[j] = "none" /\ jobSt' = [jobSt EXCEPT ![j] = "queued"]
  BY DEF FinishTask, InsertJob, jobVars
<1> HIDE DEF t, p
<1>6. \A v \in Tasks : PlanOf[v] = PlanOf[t] /\ v # t /\ v \notin TasksAfter(t)
                         => taskSt[v] = "succeeded"
  BY DEF TasksAfter, TasksOf
<1>7. \A x \in Tasks : TaskMove(x)
  <2>1. CASE taskSt' = [taskSt EXCEPT ![t] = "succeeded"]
    BY <1>1, <1>2, <2>1 DEF TaskMove, TypeInv, TypeOK, DbTypes
  <2>2. ASSUME NEW u \in next,
               taskSt' = [taskSt EXCEPT ![t] = "succeeded", ![u] = "queued"],
               NEW x \in Tasks
        PROVE  TaskMove(x)
    <3>1. u \in Tasks /\ u # t /\ PlanOf[u] = PlanOf[t] /\ taskSt[u] # "succeeded"
      BY <1>1 DEF TasksAfter, TasksOf
    <3>2. \A v \in Tasks : taskSt'[v] = IF v = u THEN "queued"
                                        ELSE IF v = t THEN "succeeded" ELSE taskSt[v]
      BY <1>1, <2>2, <3>1 DEF TypeInv, TypeOK, DbTypes
    <3>3. CASE x = u
      <4> SUFFICES ASSUME NEW v \in Tasks, PlanOf[v] = PlanOf[u], Position[v] < Position[u]
                   PROVE  taskSt'[v] = "succeeded"
        BY <3>1, <3>3 DEF TaskMove
      <4>1. v \notin TasksAfter(t) /\ v # u
        BY <3>1, RowAssumption
      <4> QED
        BY <1>6, <3>1, <3>2, <4>1
    <3>4. CASE x # u
      BY <1>2, <3>2, <3>4 DEF TaskMove
    <3> QED
      BY <3>3, <3>4
  <2> QED
    BY <1>3, <2>1, <2>2
<1>8. \A q \in Plans : PlanMove(q)
  <2>1. CASE UNCHANGED planSt
    BY <2>1 DEF PlanMove
  <2>2. ASSUME NEW st \in {"cancelled", "blocked"},
               planSt' = [planSt EXCEPT ![p] = IF @ \in PlanTerminal THEN @ ELSE st]
        PROVE  \A q \in Plans : PlanMove(q)
    BY <1>1, <2>2 DEF PlanMove, PlanTerminal, TypeInv, TypeOK, DbTypes
  <2>3. ASSUME planSt' = [planSt EXCEPT ![p] = IF @ \in PlanTerminal THEN @ ELSE "completed"],
               TasksAfter(t) = {}, taskSt' = [taskSt EXCEPT ![t] = "succeeded"]
        PROVE  \A q \in Plans : PlanMove(q)
    <3>1. \A v \in Tasks : PlanOf[v] = p => taskSt'[v] = "succeeded"
      BY <1>1, <1>6, <2>3 DEF p, TypeInv, TypeOK, DbTypes
    <3> QED
      BY <1>1, <2>3, <3>1 DEF PlanMove, PlanTerminal, TypeInv, TypeOK, DbTypes
  <2> QED
    BY <1>4, <2>1, <2>2, <2>3
<1>9. \A j \in Jobs : JobMove(j)
  BY <1>5 DEF JobMove, JobTerminal, TypeInv, TypeOK, JobTypes
<1> QED
  BY <1>7, <1>8, <1>9 DEF Moves

\* Graceful shutdown settles the jobs of the instance.
LEMMA ShutdownMoves ==
  ASSUME TypeInv, NEW i \in Instances, ReconcileInstanceShutdown(i)
  PROVE  Moves
<1>1. \/ UNCHANGED <<jobSt, taskSt, planSt>>
      \/ /\ jobSt' = [j \in Jobs |-> IF j \in OwnedJobs(i) THEN "cancelled" ELSE jobSt[j]]
         /\ taskSt' = [t \in Tasks |-> IF t \in OwnedTasks(i) THEN "pending" ELSE taskSt[t]]
         /\ \A p \in Plans : \/ planSt'[p] = planSt[p]
                             \/ planSt[p] \in {"running", "validating"} /\ planSt'[p] = "blocked"
  BY DEF ReconcileInstanceShutdown
<1>2. \A t \in Tasks : TaskMove(t)
  BY <1>1 DEF TaskMove, OwnedTasks
<1>3. \A p \in Plans : PlanMove(p)
  BY <1>1 DEF PlanMove
<1>4. \A j \in Jobs : JobMove(j)
  BY <1>1 DEF JobMove, OwnedJobs, LiveJobs, JobTerminal
<1> QED
  BY <1>2, <1>3, <1>4 DEF Moves

\* A recovery pass.
LEMMA RecoveryMoves ==
  ASSUME TypeInv, NEW i \in Instances, ReconcileRuntimeState(i)
  PROVE  Moves
<1>1. PICK pick, unstarted, converged :
        /\ unstarted \subseteq LiveJobs /\ converged \subseteq LiveJobs
        /\ ConvergeLostJobs(pick, unstarted, converged)
        /\ ConvergeRecoveredTasks(pick, converged)
  BY DEF ReconcileRuntimeState, LostJobs
<1> DEFINE open == {j \in converged : taskSt[jobTask[j]] \notin TaskTerminal}
           outcome(j) == RecoveryOutcome(j, pick[j])
           endings(t) == {outcome(j) : j \in {k \in open : jobTask[k] = t}}
<1>2. \A t \in Tasks : TaskMove(t)
  <2>1. PICK end \in [{jobTask[j] : j \in open} -> {"cancelled", "abandoned", "interrupted"}] :
          /\ \A t \in DOMAIN end : end[t] \in endings(t)
          /\ taskSt' = [t \in Tasks |->
               IF t \in DOMAIN end
                 THEN (IF end[t] = "abandoned" THEN "pending" ELSE end[t])
                 ELSE taskSt[t]]
    BY <1>1 DEF ConvergeRecoveredTasks
  <2>2. \A j \in open : taskSt[jobTask[j]] = "pending" => outcome(j) = "abandoned"
    BY <1>1 DEF ConvergeRecoveredTasks
  <2> SUFFICES ASSUME NEW t \in Tasks PROVE TaskMove(t)
    OBVIOUS
  <2>3. CASE t \notin DOMAIN end
    BY <2>1, <2>3 DEF TaskMove
  <2>4. CASE t \in DOMAIN end
    <3>1. taskSt[t] \notin TaskTerminal
      BY <2>4
    <3>2. taskSt[t] = "pending" => end[t] = "abandoned"
      <4>1. PICK j \in open : jobTask[j] = t /\ end[t] = outcome(j)
        BY <2>1, <2>4
      <4> QED
        BY <2>2, <4>1
    <3> QED
      BY <2>1, <2>4, <3>1, <3>2 DEF TaskMove, TaskTerminal
  <2> QED
    BY <2>3, <2>4
<1>3. \A p \in Plans : PlanMove(p)
  <2>1. \A p \in Plans : \/ planSt'[p] = planSt[p]
                         \/ planSt[p] \in {"running", "validating"} /\ planSt'[p] = "blocked"
    BY <1>1 DEF ConvergeRecoveredTasks
  <2> QED
    BY <2>1 DEF PlanMove
<1>4. \A j \in Jobs : JobMove(j)
  <2>1. \A j \in Jobs : j \notin LiveJobs => jobSt'[j] = jobSt[j]
    BY <1>1 DEF ConvergeLostJobs
  <2> QED
    BY <2>1 DEF JobMove, JobTerminal, LiveJobs
<1> QED
  BY <1>2, <1>3, <1>4 DEF Moves

\* Every step moves tasks, plans and jobs as described.
LEMMA NextMoves == TypeInv /\ [Next]_vars => Moves
<1> SUFFICES ASSUME TypeInv, [Next]_vars PROVE Moves
  OBVIOUS
<1> USE DEF vars, dbVars, jobVars
<1>1. CASE UNCHANGED vars
  BY <1>1, NoMove
<1>2. CASE UserStep
  BY <1>2, UserMoves
<1>3. ASSUME NEW w \in Workers,
             \/ ClaimSelect(w) \/ WorkerExit(w) \/ AcquireWorkspaceLease(w)
             \/ PrepareFails(w) \/ DriftDetected(w) \/ SkipValidation(w)
             \/ StartAgentRun(w) \/ StartProcess(w) \/ ProcessKilled(w) \/ ResultLost(w)
             \/ CheckpointDrift(w) \/ FinishTaskIgnored(w) \/ FinishTaskRefused(w)
             \/ Unwind(w) \/ SettleLost(w) \/ ProcessExit(w) \/ Renew(w) \/ OrphanExit(w)
      PROVE  Moves
  <2>1. UNCHANGED <<taskSt, planSt, jobSt>>
    BY <1>3 DEF ClaimSelect, WorkerExit, AcquireWorkspaceLease, PrepareFails, DriftDetected,
      SkipValidation, StartAgentRun, StartProcess, ProcessKilled, ResultLost, CheckpointDrift,
      FinishTaskIgnored, FinishTaskRefused, Unwind, SettleLost, ProcessExit, Renew, OrphanExit
  <2> QED
    BY <2>1, NoMove
<1>4. ASSUME NEW w \in Workers,
             WorkerStep(w) \/ ProcessExit(w) \/ Renew(w) \/ OrphanExit(w)
      PROVE  Moves
  BY <1>3, <1>4, JobStepMoves, TaskStepMoves, FinishTaskMoves DEF WorkerStep
<1>5. CASE ClockStep
  <2>1. UNCHANGED <<taskSt, planSt, jobSt>>
    BY <1>5 DEF ClockStep, ExpireJobLease, ExpireWorkspaceLease, InstanceStale,
      HeartbeatRuntimeInstance
  <2> QED
    BY <2>1, NoMove
<1>6. ASSUME NEW i \in Instances,
             \/ BeginDraining(i) \/ CancelAll(i) \/ StopPool(i) \/ Exit(i) \/ Crash(i)
             \/ \E r \in Projects : CancelPrefix(r, i)
      PROVE  Moves
  <2>1. UNCHANGED <<taskSt, planSt, jobSt>>
    BY <1>6 DEF BeginDraining, CancelAll, StopPool, Exit, Crash, CancelPrefix
  <2> QED
    BY <2>1, NoMove
<1>7. ASSUME NEW i \in Instances, ReconcileInstanceShutdown(i) \/ ReconcileRuntimeState(i)
      PROVE  Moves
  BY <1>7, ShutdownMoves, RecoveryMoves
<1> QED
  BY <1>1, <1>2, <1>4, <1>5, <1>6, <1>7 DEF Next, ShutdownStep

-----------------------------------------------------------------------------
LEMMA NextOrdered == TypeInv /\ StrictOrder /\ [Next]_vars => StrictOrder'
<1> SUFFICES ASSUME TypeInv, StrictOrder, [Next]_vars PROVE StrictOrder'
  OBVIOUS
<1>1. \A t \in Tasks : TaskMove(t)
  BY NextMoves DEF Moves
<1> SUFFICES ASSUME NEW t \in Tasks, NEW u \in Tasks,
                    PlanOf[t] = PlanOf[u], Position[u] < Position[t], taskSt'[t] # "pending"
             PROVE  taskSt'[u] = "succeeded"
  BY DEF StrictOrder
<1>2. CASE taskSt[t] # "pending"
  <2>1. taskSt[u] = "succeeded"
    BY <1>2 DEF StrictOrder
  <2> QED
    BY <1>1, <2>1 DEF TaskMove
<1>3. CASE taskSt[t] = "pending"
  BY <1>1, <1>3 DEF TaskMove
<1> QED
  BY <1>2, <1>3

\* The tasks of every plan run strictly in their order (nextPlanTask), in
\* every interleaving of users, workers, shutdown and recovery.
THEOREM Ordered == Spec => []StrictOrder
<1> DEFINE Inv == TypeInv /\ StrictOrder
<1>1. Init => Inv
  BY InitTyped DEF Init, StrictOrder
<1>2. Inv /\ [Next]_vars => Inv'
  BY NextTyped, NextOrdered
<1> QED
  BY <1>1, <1>2, PTL DEF Spec

\* A plan is completed only with all of its tasks succeeded, and it stays so.
THEOREM Completed == Spec => []CompletedPlan
<1> DEFINE Inv == TypeInv /\ CompletedPlan
<1>1. Init => Inv
  BY InitTyped, RowAssumption DEF Init, CompletedPlan
<1>2. Inv /\ [Next]_vars => Inv'
  <2> SUFFICES ASSUME TypeInv, CompletedPlan, [Next]_vars PROVE CompletedPlan'
    BY NextTyped
  <2> SUFFICES ASSUME NEW t \in Tasks, planSt'[PlanOf[t]] = "completed"
               PROVE  taskSt'[t] = "succeeded"
    BY DEF CompletedPlan
  <2>1. TaskMove(t) /\ PlanMove(PlanOf[t])
    BY NextMoves, RowAssumption DEF Moves
  <2>2. CASE planSt[PlanOf[t]] = "completed"
    BY <2>1, <2>2 DEF CompletedPlan, TaskMove
  <2>3. CASE planSt[PlanOf[t]] # "completed"
    BY <2>1, <2>3 DEF PlanMove
  <2> QED
    BY <2>2, <2>3
<1> QED
  BY <1>1, <1>2, PTL DEF Spec

\* Terminal rows are durable: no late write of a worker, a request, a shutdown
\* or a recovery pass changes a settled job, a succeeded task or a finished
\* plan.
THEOREM Durable == Spec => SettledStays
<1> DEFINE Settled == /\ \A j \in Jobs : jobSt[j] \in JobTerminal => jobSt'[j] = jobSt[j]
                      /\ \A t \in Tasks : taskSt[t] = "succeeded" => taskSt'[t] = "succeeded"
                      /\ \A p \in Plans : planSt[p] \in {"completed", "failed", "cancelled"}
                                            => planSt'[p] = planSt[p]
<1>1. TypeInv /\ [Next]_vars => [Settled]_vars
  BY NextMoves DEF Moves, TaskMove, PlanMove, JobMove
<1>2. Init => TypeInv
  BY InitTyped
<1>3. TypeInv /\ [Next]_vars => TypeInv'
  BY NextTyped
<1> QED
  BY <1>1, <1>2, <1>3, PTL DEF Spec, SettledStays

-----------------------------------------------------------------------------
(* The attempts of a job: charged by ClaimJob, given back when the job     *)
(* returns to the queue without having run.                                *)

\* A worker from MarkJobRunning to the end of the job.
Executing == {"exec", "owns", "started", "spawn", "cli", "exited", "unwind", "settle"}

Live == {"leased", "running"}

\* The copy of job.Attempt that the worker decides retries with is current for
\* as long as the worker owns the row.
CurrentAttempt ==
  \A w \in Workers :
    pc[w] \in Executing /\ Owns(w, Live) => wAttempt[w] = jobAttempt[wJob[w]]

Uncharged == \A j \in Jobs : jobSt[j] = "none" => jobAttempt[j] = 0

AttemptInv == TypeInv /\ Uncharged /\ AttemptBudget /\ CurrentAttempt

\* What one step may do to the row of job j.
RowMove(j) ==
  \/ jobSt'[j] = jobSt[j] /\ jobAttempt'[j] = jobAttempt[j] /\ jobWorker'[j] = jobWorker[j]
  \/ /\ jobSt[j] = "none" /\ jobSt'[j] = "queued"
     /\ jobAttempt'[j] = jobAttempt[j]
  \/ /\ jobSt[j] \in {"queued", "retry_wait"} /\ jobSt'[j] = "leased"
     /\ jobAttempt'[j] = jobAttempt[j] + 1
     /\ \E w \in Workers : /\ jobWorker'[j] = w /\ wJob'[w] = j
                           /\ pc[w] = "claim" /\ pc'[w] = "leased"
  \/ /\ jobSt[j] = "leased" /\ jobSt'[j] = "running"
     /\ jobAttempt'[j] = jobAttempt[j] /\ jobWorker'[j] = jobWorker[j]
     /\ pc[jobWorker[j]] = "leased" /\ pc'[jobWorker[j]] = "exec"
  \/ jobSt'[j] \in JobTerminal /\ jobAttempt'[j] = jobAttempt[j]
  \/ /\ jobSt[j] \in Live /\ jobSt'[j] = "queued"
     /\ jobAttempt'[j] = IF jobAttempt[j] > 0 THEN jobAttempt[j] - 1 ELSE 0
  \/ /\ jobSt[j] \in Live /\ jobSt'[j] = "retry_wait"
     /\ jobAttempt'[j] = jobAttempt[j] /\ jobAttempt[j] < MaxAttempts

\* What one step may do to the copy of worker w.
CopyMove(w) ==
  pc'[w] \in Executing =>
    \/ pc[w] \in Executing /\ wJob'[w] = wJob[w] /\ wAttempt'[w] = wAttempt[w]
    \/ wAttempt'[w] = jobAttempt'[wJob'[w]]

Charges == (\A j \in Jobs : RowMove(j)) /\ (\A w \in Workers : CopyMove(w))

\* The moves preserve the budget.
LEMMA ChargesKeepBudget ==
  ASSUME AttemptInv, TypeInv', Charges
  PROVE  AttemptInv'
<1> USE DEF AttemptInv
<1>1. \A j \in Jobs : jobAttempt[j] \in Nat /\ jobAttempt'[j] \in Nat
  BY DEF TypeInv, TypeOK, JobTypes
<1>2. ASSUME NEW j \in Jobs
      PROVE  /\ jobSt'[j] = "none" => jobAttempt'[j] = 0
             /\ jobSt'[j] \in {"queued", "retry_wait"} => jobAttempt'[j] < MaxAttempts
             /\ jobSt'[j] \in Live => jobAttempt'[j] \in 1 .. MaxAttempts
  <2>1. /\ jobSt[j] = "none" => jobAttempt[j] = 0
        /\ jobSt[j] \in {"queued", "retry_wait"} => jobAttempt[j] < MaxAttempts
        /\ jobSt[j] \in Live => jobAttempt[j] \in 1 .. MaxAttempts
    BY DEF Uncharged, AttemptBudget, Live
  <2>2. RowMove(j)
    BY DEF Charges
  <2> QED
    BY <1>1, <2>1, <2>2, RowAssumption DEF RowMove, Live, JobTerminal
<1>3. ASSUME NEW w \in Workers, pc'[w] \in Executing, Owns(w, Live)'
      PROVE  wAttempt'[w] = jobAttempt'[wJob'[w]]
  <2>1. CASE pc[w] \in Executing /\ wJob'[w] = wJob[w] /\ wAttempt'[w] = wAttempt[w]
    <3> DEFINE j == wJob[w]
    <3>1. j \in Jobs
      BY <2>1 DEF TypeInv, References, Busy, Executing
    <3>2. jobSt'[j] \in Live /\ jobWorker'[j] = w
      BY <1>3, <2>1 DEF Owns
    <3>3. jobSt[j] \in Live /\ jobWorker[j] = w /\ jobAttempt'[j] = jobAttempt[j]
      <4>1. RowMove(j)
        BY <3>1 DEF Charges
      <4> HIDE DEF j
      <4> QED
        BY <1>3, <3>2, <4>1 DEF RowMove, Live, JobTerminal, Executing
    <3> QED
      BY <2>1, <3>3 DEF CurrentAttempt, Owns
  <2>2. CASE wAttempt'[w] = jobAttempt'[wJob'[w]]
    BY <2>2
  <2> QED
    BY <1>3, <2>1, <2>2 DEF Charges, CopyMove
<1>4. Uncharged' /\ AttemptBudget'
  BY <1>2 DEF Uncharged, AttemptBudget, Live
<1>5. CurrentAttempt'
  BY <1>3 DEF CurrentAttempt
<1> QED
  BY <1>4, <1>5

\* A step that leaves these columns and the workers' copies alone.
LEMMA NoCharge ==
  ASSUME UNCHANGED <<jobSt, jobAttempt, jobWorker>>
  PROVE  \A j \in Jobs : RowMove(j)
BY DEF RowMove

\* A step that changes the row k only.
LEMMA OneRowCharged ==
  ASSUME TypeInv, NEW k \in Jobs, RowMove(k), NEW a, NEW b, NEW c,
         jobSt' = [jobSt EXCEPT ![k] = a],
         jobAttempt' = [jobAttempt EXCEPT ![k] = b],
         jobWorker' = [jobWorker EXCEPT ![k] = c]
  PROVE  \A j \in Jobs : RowMove(j)
<1>1. \A j \in Jobs : j # k => /\ jobSt'[j] = jobSt[j] /\ jobAttempt'[j] = jobAttempt[j]
                               /\ jobWorker'[j] = jobWorker[j]
  BY DEF TypeInv, TypeOK, JobTypes
<1> QED
  BY <1>1 DEF RowMove

\* insertJob charges nothing.
LEMMA InsertCharges ==
  ASSUME TypeInv, NEW t, NEW k \in Jobs, InsertJob(k, t)
  PROVE  \A j \in Jobs : RowMove(j)
BY DEF InsertJob, RowMove, TypeInv, TypeOK, JobTypes

\* The refund of an attempt, for a job in flight.
LEMMA RequeueCharges ==
  ASSUME TypeInv, NEW k \in Jobs, jobSt[k] \in Live, Requeue(k)
  PROVE  \A j \in Jobs : RowMove(j)
<1>1. /\ jobSt'[k] = "queued"
      /\ jobAttempt'[k] = IF jobAttempt[k] > 0 THEN jobAttempt[k] - 1 ELSE 0
      /\ \A j \in Jobs : j # k => /\ jobSt'[j] = jobSt[j] /\ jobAttempt'[j] = jobAttempt[j]
                                  /\ jobWorker'[j] = jobWorker[j]
  BY DEF Requeue, TypeInv, TypeOK, JobTypes
<1> QED
  BY <1>1 DEF RowMove

\* Settling a job keeps its attempts.
LEMMA SettleCharges ==
  ASSUME TypeInv, NEW w \in Workers, wJob[w] \in Jobs, NEW S, NEW st,
         Owns(w, S) => \/ st \in JobTerminal
                       \/ /\ st = "retry_wait" /\ jobSt[wJob[w]] \in Live
                          /\ jobAttempt[wJob[w]] < MaxAttempts,
         SettleJob(w, S, st)
  PROVE  \A j \in Jobs : RowMove(j)
<1>1. CASE Owns(w, S)
  <2>1. /\ jobSt'[wJob[w]] = st
        /\ \A j \in Jobs : j # wJob[w] => jobSt'[j] = jobSt[j]
        /\ UNCHANGED <<jobWorker, jobAttempt>>
    BY <1>1 DEF SettleJob, TypeInv, TypeOK, JobTypes
  <2> QED
    BY <1>1, <2>1 DEF RowMove
<1>2. CASE ~Owns(w, S)
  BY <1>2 DEF SettleJob, RowMove
<1> QED
  BY <1>1, <1>2

\* Requests of the user never charge an attempt.
LEMMA UserCharges ==
  ASSUME TypeInv, UserStep
  PROVE  Charges
<1>1. UNCHANGED <<pc, wJob, wAttempt>>
  BY DEF UserStep, QueuePlan, QueuePlanAutomatically, QueuePlanTx, QueueTask, StopTask,
         StopPlan, StopAutomation, StartAutomation, workerVars
<1>2. \A j \in Jobs : RowMove(j)
  <2>1. ASSUME NEW p \in Plans, QueuePlan(p) \/ QueuePlanAutomatically(p)
        PROVE  \A j \in Jobs : RowMove(j)
    BY <2>1, InsertCharges DEF QueuePlan, QueuePlanAutomatically, QueuePlanTx
  <2>2. ASSUME NEW t \in Tasks, QueueTask(t)
        PROVE  \A j \in Jobs : RowMove(j)
    BY <2>2, InsertCharges DEF QueueTask
  <2>3. ASSUME NEW t \in Tasks, StopTask(t)
        PROVE  \A j \in Jobs : RowMove(j)
    BY <2>3 DEF StopTask, RowMove, JobTerminal
  <2>4. ASSUME NEW p \in Plans, StopPlan(p)
        PROVE  \A j \in Jobs : RowMove(j)
    BY <2>4 DEF StopPlan, RowMove, JobTerminal
  <2>5. ASSUME NEW r \in Projects, NEW i \in Instances, StopAutomation(r, i)
        PROVE  \A j \in Jobs : RowMove(j)
    BY <2>5 DEF StopAutomation, RowMove, JobTerminal
  <2>6. ASSUME NEW r \in Projects, StartAutomation(r)
        PROVE  \A j \in Jobs : RowMove(j)
    <3> DEFINE R == {p \in Plans : ProjectOf[p] = r /\ planSt[p] = "ready"}
               T == {t \in Tasks : PlanOf[t] \in R /\ t \in NextTasks(PlanOf[t])}
    <3>1. PICK f \in [T -> NewJobs(Cardinality(T))] : InsertJobs(f)
      BY <2>6 DEF StartAutomation
    <3>2. \A j \in Jobs : \/ jobSt'[j] = jobSt[j]
                          \/ jobSt'[j] = "queued" /\ \E t \in T : j = f[t]
      BY <3>1 DEF InsertJobs
    <3>3. \A t \in T : jobSt[f[t]] = "none"
      BY <3>1 DEF NewJobs, FreeJobs
    <3>4. UNCHANGED <<jobAttempt, jobWorker>>
      BY <3>1 DEF InsertJobs
    <3> HIDE DEF T
    <3> QED
      BY <3>2, <3>3, <3>4 DEF RowMove
  <2> QED
    BY <2>1, <2>2, <2>3, <2>4, <2>5, <2>6 DEF UserStep
<1> QED
  BY <1>1, <1>2 DEF Charges, CopyMove

\* The steps of a worker: ClaimJob charges, ReleaseLeasedJob and
\* DeferJobForWorkspace refund, FailJob decides on a retry by the copy.
LEMMA WorkerCharges ==
  ASSUME AttemptInv, NEW w \in Workers,
         WorkerStep(w) \/ ProcessExit(w) \/ Renew(w) \/ OrphanExit(w)
  PROVE  Charges
<1> USE DEF AttemptInv
<1>1. \A v \in Workers : CopyMove(v)
  <2> USE DEF CopyMove, Executing, TypeInv, TypeOK, WorkerTypes, workerVars
  <2>1. CASE ClaimSelect(w) \/ ClaimLock(w) \/ ReleaseLeasedJob(w) \/ WorkerExit(w)
    BY <2>1 DEF ClaimSelect, ClaimLock, ReleaseLeasedJob, WorkerExit
  <2>2. CASE MarkJobRunning(w)
    BY <2>2 DEF MarkJobRunning
  <2>3. CASE AcquireWorkspaceLease(w)
    BY <2>3 DEF AcquireWorkspaceLease
  <2>4. CASE PrepareFails(w) \/ DriftDetected(w) \/ ResultLost(w) \/ CheckpointDrift(w)
    BY <2>4 DEF PrepareFails, DriftDetected, ResultLost, CheckpointDrift, Return
  <2>5. CASE ReturnTaskPending(w) \/ FinishTaskFailed(w) \/ FinishTaskIgnored(w)
    BY <2>5 DEF ReturnTaskPending, FinishTaskFailed, FinishTaskIgnored, Return
  <2>6. CASE ReturnTaskQueuedForRetry(w)
    BY <2>6 DEF ReturnTaskQueuedForRetry, Return
  <2>7. CASE FinishTask(w)
    <3>1. pc[w] = "exited" /\ Return(w, "ok")
      BY <2>7 DEF FinishTask
    <3> QED
      BY <3>1 DEF Return
  <2>8. CASE FinishTaskRefused(w)
    BY <2>8 DEF FinishTaskRefused, Return
  <2>9. CASE StartTask(w)
    BY <2>9 DEF StartTask, Return
  <2>10. CASE StartAgentRun(w) \/ SkipValidation(w) \/ StartProcess(w)
    BY <2>10 DEF StartAgentRun, SkipValidation, StartProcess, Return
  <2>11. CASE ProcessKilled(w) \/ ProcessExit(w) \/ Unwind(w)
    BY <2>11 DEF ProcessKilled, ProcessExit, Unwind
  <2>12. CASE Renew(w) \/ OrphanExit(w)
    BY <2>12 DEF Renew, OrphanExit
  <2>13. CASE Done(w)
    BY <2>13 DEF Done
  <2>14. CASE \/ CompleteJob(w) \/ DeferJobForWorkspace(w) \/ CancelJob(w) \/ FailJob(w)
              \/ BlockTaskJobForDrift(w) \/ SettleLost(w)
    BY <2>13, <2>14 DEF CompleteJob, DeferJobForWorkspace, CancelJob, FailJob,
       BlockTaskJobForDrift, SettleLost, Settles
  <2> QED
    BY <2>1, <2>2, <2>3, <2>4, <2>5, <2>6, <2>7, <2>8, <2>9, <2>10, <2>11, <2>12, <2>14
       DEF WorkerStep
<1>2. \A j \in Jobs : RowMove(j)
  <2>1. CASE ClaimLock(w)
    <3>1. CASE UNCHANGED jobVars
      BY <3>1, NoCharge DEF jobVars
    <3>2. CASE ~UNCHANGED jobVars
      <4>1. /\ pc[w] = "claim" /\ jobSt[wJob[w]] \in {"queued", "retry_wait"}
            /\ jobSt' = [jobSt EXCEPT ![wJob[w]] = "leased"]
            /\ jobWorker' = [jobWorker EXCEPT ![wJob[w]] = w]
            /\ jobAttempt' = [jobAttempt EXCEPT ![wJob[w]] = @ + 1]
            /\ pc' = [pc EXCEPT ![w] = "leased"] /\ UNCHANGED wJob
        BY <2>1, <3>2 DEF ClaimLock
      <4>2. wJob[w] \in Jobs
        BY <4>1 DEF TypeInv, References, Busy
      <4>3. RowMove(wJob[w])
        BY <4>1, <4>2 DEF RowMove, TypeInv, TypeOK, JobTypes, WorkerTypes
      <4> QED
        BY <4>1, <4>2, <4>3, OneRowCharged
    <3> QED
      BY <3>1, <3>2
  <2>2. CASE MarkJobRunning(w)
    <3>1. wJob[w] \in Jobs
      BY <2>2 DEF MarkJobRunning, TypeInv, References, Busy
    <3> QED
      BY <2>2, <3>1 DEF MarkJobRunning, Owns, RowMove, TypeInv, TypeOK, JobTypes, WorkerTypes
  <2>3. CASE ReleaseLeasedJob(w) \/ DeferJobForWorkspace(w)
    <3>1. /\ wJob[w] \in Jobs
          /\ UNCHANGED jobVars \/ (Owns(w, Live) /\ Requeue(wJob[w]))
      BY <2>3 DEF ReleaseLeasedJob, DeferJobForWorkspace, Settles, Owns, Live, TypeInv,
         References, Busy
    <3> QED
      BY <3>1, NoCharge, RequeueCharges DEF jobVars, Owns
  <2>4. CASE CompleteJob(w) \/ CancelJob(w) \/ BlockTaskJobForDrift(w)
    <3>1. wJob[w] \in Jobs
      BY <2>4 DEF CompleteJob, CancelJob, BlockTaskJobForDrift, Settles, TypeInv, References, Busy
    <3>2. UNCHANGED jobVars \/ \E S, st : st \in JobTerminal /\ SettleJob(w, S, st)
      BY <2>4 DEF CompleteJob, CancelJob, BlockTaskJobForDrift, JobTerminal
    <3> QED
      BY <3>1, <3>2, NoCharge, SettleCharges DEF jobVars
  <2>5. CASE FailJob(w)
    <3>1. pc[w] = "settle" /\ wJob[w] \in Jobs
      BY <2>5 DEF FailJob, Settles, TypeInv, References, Busy
    <3>2. PICK st : /\ st \in {"retry_wait", "failed"}
                    /\ st = "retry_wait" => wAttempt[w] < MaxAttempts
                    /\ SettleJob(w, Live, st)
      BY <2>5 DEF FailJob, AttemptLeft, Live
    <3>3. Owns(w, Live) => wAttempt[w] = jobAttempt[wJob[w]] /\ jobSt[wJob[w]] \in Live
      BY <3>1 DEF CurrentAttempt, Executing, Owns
    <3> QED
      BY <3>1, <3>2, <3>3, SettleCharges DEF JobTerminal
  <2>6. CASE FinishTask(w)
    <3>1. UNCHANGED jobVars \/ \E k \in Jobs : \E u : InsertJob(k, u)
      BY <2>6 DEF FinishTask
    <3> QED
      BY <3>1, NoCharge, InsertCharges DEF jobVars
  <2>7. CASE UNCHANGED <<jobSt, jobAttempt, jobWorker>>
    BY <2>7, NoCharge
  <2>8. \/ ClaimLock(w) \/ MarkJobRunning(w) \/ ReleaseLeasedJob(w) \/ DeferJobForWorkspace(w)
        \/ CompleteJob(w) \/ CancelJob(w) \/ BlockTaskJobForDrift(w) \/ FailJob(w)
        \/ FinishTask(w) \/ UNCHANGED <<jobSt, jobAttempt, jobWorker>>
    BY DEF WorkerStep, ClaimSelect, WorkerExit, AcquireWorkspaceLease, PrepareFails,
      DriftDetected, StartTask, SkipValidation, StartAgentRun, StartProcess, ProcessKilled,
      ResultLost, CheckpointDrift, ReturnTaskPending, ReturnTaskQueuedForRetry,
      FinishTaskFailed, FinishTaskIgnored, FinishTaskRefused, Unwind, SettleLost, ProcessExit,
      Renew, OrphanExit, jobVars
  <2> QED
    BY <2>1, <2>2, <2>3, <2>4, <2>5, <2>6, <2>7, <2>8
<1> QED
  BY <1>1, <1>2 DEF Charges

\* Shutdown, crash, timers and recovery; recovery refunds the attempt of a job
\* that had not started.
LEMMA InstanceCharges ==
  ASSUME TypeInv, NEW i \in Instances,
         \/ BeginDraining(i) \/ ShutdownStep(i) \/ Crash(i) \/ ReconcileRuntimeState(i)
         \/ \E r \in Projects : CancelPrefix(r, i)
  PROVE  Charges
<1>1. CASE Crash(i)
  <2>1. \A v \in Workers : CopyMove(v)
    BY <1>1 DEF Crash, CopyMove, Executing, TypeInv, TypeOK, WorkerTypes
  <2>2. UNCHANGED <<jobSt, jobAttempt, jobWorker>>
    BY <1>1 DEF Crash, jobVars
  <2> QED
    BY <2>1, <2>2, NoCharge DEF Charges
<1>2. CASE ReconcileInstanceShutdown(i)
  <2>1. /\ UNCHANGED <<pc, wJob, wAttempt, jobAttempt>>
        /\ \/ UNCHANGED <<jobSt, jobWorker>>
           \/ /\ jobSt' = [j \in Jobs |-> IF j \in OwnedJobs(i) THEN "cancelled" ELSE jobSt[j]]
              /\ jobWorker' = [j \in Jobs |-> IF j \in OwnedJobs(i) THEN None ELSE jobWorker[j]]
    BY <1>2 DEF ReconcileInstanceShutdown
  <2> QED
    BY <2>1 DEF Charges, CopyMove, RowMove, JobTerminal
<1>3. CASE ReconcileRuntimeState(i)
  <2>1. PICK pick, unstarted, converged :
          /\ unstarted \subseteq LiveJobs /\ converged \subseteq LiveJobs
          /\ ConvergeLostJobs(pick, unstarted, converged)
          /\ ReleaseRecovered(i, pick, converged)
    BY <1>3 DEF ReconcileRuntimeState, LostJobs
  <2>2. \A v \in Workers : CopyMove(v)
    BY <2>1 DEF ReleaseRecovered, CopyMove
  <2>3. ASSUME NEW j \in Jobs PROVE RowMove(j)
    <3>1. CASE j \in unstarted
      <4>1. jobSt[j] \in Live /\ jobSt'[j] = "queued"
        BY <2>1, <3>1 DEF LiveJobs, Live, ConvergeLostJobs
      <4>2. jobAttempt[j] \in Nat
        BY DEF TypeInv, TypeOK, JobTypes
      <4>3. jobAttempt'[j] = IF jobAttempt[j] > 0 THEN jobAttempt[j] - 1 ELSE jobAttempt[j]
        BY <2>1, <3>1 DEF ConvergeLostJobs
      <4> QED
        BY <4>1, <4>2, <4>3 DEF RowMove
    <3>2. CASE j \in converged /\ j \notin unstarted
      BY <2>1, <3>2 DEF ConvergeLostJobs, RowMove, JobTerminal
    <3>3. CASE j \notin unstarted \cup converged
      BY <2>1, <3>3 DEF ConvergeLostJobs, RowMove
    <3> QED
      BY <3>1, <3>2, <3>3
  <2> QED
    BY <2>2, <2>3 DEF Charges
<1>4. CASE UNCHANGED <<jobVars, pc, wJob, wAttempt>>
  BY <1>4, NoCharge DEF Charges, CopyMove, jobVars
<1> QED
  BY <1>1, <1>2, <1>3, <1>4
     DEF BeginDraining, ShutdownStep, CancelAll, StopPool, Exit, CancelPrefix, workerVars

LEMMA NextCharges == AttemptInv /\ [Next]_vars => Charges
<1> SUFFICES ASSUME AttemptInv, [Next]_vars PROVE Charges
  OBVIOUS
<1>1. TypeInv
  BY DEF AttemptInv
<1>2. CASE UNCHANGED <<jobSt, jobAttempt, jobWorker, pc, wJob, wAttempt>>
  BY <1>2, NoCharge DEF Charges, CopyMove
<1>3. ASSUME NEW w \in Workers,
             WorkerStep(w) \/ ProcessExit(w) \/ Renew(w) \/ OrphanExit(w)
      PROVE  Charges
  BY <1>3, WorkerCharges
<1>4. CASE ClockStep
  BY <1>2, <1>4 DEF ClockStep, ExpireJobLease, ExpireWorkspaceLease, InstanceStale,
     HeartbeatRuntimeInstance, jobVars, workerVars
<1>5. ASSUME NEW i \in Instances,
             \/ BeginDraining(i) \/ ShutdownStep(i) \/ Crash(i) \/ ReconcileRuntimeState(i)
             \/ \E r \in Projects : CancelPrefix(r, i)
      PROVE  Charges
  BY <1>1, <1>5, InstanceCharges
<1>6. Next \/ UNCHANGED <<jobSt, jobAttempt, jobWorker, pc, wJob, wAttempt>>
  BY DEF vars, jobVars, workerVars
<1> QED
  BY <1>1, <1>2, <1>3, <1>4, <1>5, <1>6, UserCharges DEF Next

LEMMA InitAttemptInv == Init => AttemptInv
BY InitTyped DEF Init, AttemptInv, Uncharged, AttemptBudget, CurrentAttempt, Executing

LEMMA NextAttemptInv == AttemptInv /\ [Next]_vars => AttemptInv'
BY NextTyped, NextCharges, ChargesKeepBudget DEF AttemptInv

\* No sequence of claims, deferrals, retries, shutdowns, crashes and recoveries
\* runs a job more often than max_attempts or strands one without an attempt.
THEOREM Budget == Spec => []AttemptBudget
<1>1. AttemptInv => AttemptBudget
  BY DEF AttemptInv
<1> QED
  BY <1>1, InitAttemptInv, NextAttemptInv, PTL DEF Spec

-----------------------------------------------------------------------------

\* No plan completes and none is reopened.
SamePlansCompleted ==
  \A p \in Plans : planSt'[p] = "completed" <=> planSt[p] = "completed"

\* Nothing is done or begun anew: a task that is neither keeps its status, and
\* one in hand stays in hand or goes back to pending.
NothingTaken ==
  \A t \in Tasks : /\ taskSt'[t] = "succeeded" <=> taskSt[t] = "succeeded"
                   /\ taskSt[t] = "pending" => taskSt'[t] = "pending"

-----------------------------------------------------------------------------
(* The three kinds of step, in terms of the status of tasks and plans.     *)

\* The next tasks of some plans are queued: Take.
LEMMA TakeStep ==
  ASSUME TypeInv, NEW T \in SUBSET Tasks,
         \A t \in T : t \in NextTasks(PlanOf[t]),
         \A t \in Tasks : taskSt'[t] = IF t \in T THEN "queued" ELSE taskSt[t],
         SamePlansCompleted
  PROVE  Progress!Next
<1>1. \A t \in T : /\ taskSt[t] # "succeeded"
                   /\ \A u \in Tasks : PlanOf[u] = PlanOf[t] /\ Position[u] < Position[t]
                                         => taskSt[u] = "succeeded"
  BY DEF NextTasks, TasksOf
<1>2. \A t \in T : Progress!InTurn(t, {u \in Tasks : taskSt[u] = "succeeded"})
  BY <1>1 DEF Progress!InTurn
<1>3. {t \in Tasks : taskSt'[t] \notin {"pending", "succeeded"}}
        = {t \in Tasks : taskSt[t] \notin {"pending", "succeeded"}} \cup T
  BY <1>1
<1>4. {t \in Tasks : taskSt'[t] = "succeeded"} = {t \in Tasks : taskSt[t] = "succeeded"}
  BY <1>1
<1>5. {p \in Plans : planSt'[p] = "completed"} = {p \in Plans : planSt[p] = "completed"}
  BY DEF SamePlansCompleted
<1>6. Progress!Take(T)
  BY <1>2, <1>3, <1>4, <1>5 DEF Progress!Take
<1> QED
  BY <1>6 DEF Progress!Next

\* Tasks in hand go back to pending, or nothing a user of the plan sees
\* happens: PutBack.
LEMMA PutBackStep ==
  ASSUME NothingTaken, SamePlansCompleted
  PROVE  Progress!Next
<1> DEFINE hand == {t \in Tasks : taskSt[t] \notin {"pending", "succeeded"}}
           T == {t \in hand : taskSt'[t] = "pending"}
<1>1. {t \in Tasks : taskSt'[t] \notin {"pending", "succeeded"}} = hand \ T
  BY DEF NothingTaken
<1>2. {t \in Tasks : taskSt'[t] = "succeeded"} = {t \in Tasks : taskSt[t] = "succeeded"}
  BY DEF NothingTaken
<1>3. {p \in Plans : planSt'[p] = "completed"} = {p \in Plans : planSt[p] = "completed"}
  BY DEF SamePlansCompleted
<1>4. \E S \in SUBSET hand : S = T
  OBVIOUS
<1>5. \E S \in SUBSET hand : Progress!PutBack(S)
  BY <1>1, <1>2, <1>3, <1>4 DEF Progress!PutBack
<1> QED
  BY <1>5 DEF Progress!Next

\* Task t succeeds, the tasks in T follow it: Finish.
LEMMA FinishStep ==
  ASSUME NEW t \in Tasks, taskSt[t] \notin {"pending", "succeeded"},
         NEW T \in SUBSET Tasks, t \notin T,
         \A u \in T : /\ PlanOf[u] = PlanOf[t] /\ taskSt[u] # "succeeded"
                      /\ \A v \in Tasks : PlanOf[v] = PlanOf[t] /\ Position[v] < Position[u]
                                            => v = t \/ taskSt[v] = "succeeded",
         \A u \in Tasks : taskSt'[u] = IF u \in T THEN "queued"
                                       ELSE IF u = t THEN "succeeded" ELSE taskSt[u],
         \/ SamePlansCompleted
         \/ /\ \A u \in Tasks : PlanOf[u] = PlanOf[t] => taskSt'[u] = "succeeded"
            /\ \A p \in Plans : planSt'[p] = "completed"
                                  <=> planSt[p] = "completed" \/ p = PlanOf[t]
  PROVE  Progress!Next
<1> DEFINE done == {u \in Tasks : taskSt[u] = "succeeded"}
           hand == {u \in Tasks : taskSt[u] \notin {"pending", "succeeded"}}
           completed == {p \in Plans : planSt[p] = "completed"}
<1>1. {u \in Tasks : taskSt'[u] = "succeeded"} = done \cup {t}
  OBVIOUS
<1>2. {u \in Tasks : taskSt'[u] \notin {"pending", "succeeded"}} = (hand \ {t}) \cup T
  OBVIOUS
<1>3. \A u \in T : Progress!InTurn(u, done \cup {t})
  BY DEF Progress!InTurn
<1>4. \/ {p \in Plans : planSt'[p] = "completed"} = completed
      \/ /\ \A u \in Tasks : PlanOf[u] = PlanOf[t] => u \in done \cup {t}
         /\ {p \in Plans : planSt'[p] = "completed"} = completed \cup {PlanOf[t]}
  <2>1. PlanOf[t] \in Plans
    BY RowAssumption
  <2> QED
    BY <1>1, <2>1 DEF SamePlansCompleted
<1>5. Progress!Finish(t)
  BY <1>1, <1>2, <1>3, <1>4 DEF Progress!Finish
<1> QED
  BY <1>5 DEF Progress!Next

-----------------------------------------------------------------------------
(* The steps of Execution.                                                 *)

\* Requests of the user.
LEMMA UserProgress ==
  ASSUME TypeInv, UserStep
  PROVE  Progress!Next
<1> USE RowAssumption DEF TypeInv, TypeOK, DbTypes
<1>1. ASSUME NEW p \in Plans, NEW t \in Tasks, t \in NextTasks(p),
             planSt[p] # "completed",
             taskSt' = [taskSt EXCEPT ![t] = "queued"],
             planSt' = [planSt EXCEPT ![p] = "running"]
      PROVE  Progress!Next
  <2> DEFINE T == {t}
  <2>1. T \in SUBSET Tasks /\ \A u \in T : u \in NextTasks(PlanOf[u])
    BY <1>1 DEF NextTasks, TasksOf
  <2>2. SamePlansCompleted
    BY <1>1 DEF SamePlansCompleted
  <2>3. \A u \in Tasks : taskSt'[u] = IF u \in T THEN "queued" ELSE taskSt[u]
    BY <1>1
  <2> HIDE DEF T
  <2> QED
    BY <2>1, <2>2, <2>3, TakeStep
<1>2. ASSUME NEW p \in Plans, QueuePlan(p) \/ QueuePlanAutomatically(p)
      PROVE  Progress!Next
  BY <1>1, <1>2 DEF QueuePlan, QueuePlanAutomatically, QueuePlanTx
<1>3. ASSUME NEW t \in Tasks, QueueTask(t)
      PROVE  Progress!Next
  <2>1. /\ PlanOf[t] \in Plans /\ t \in NextTasks(PlanOf[t])
        /\ planSt[PlanOf[t]] # "completed"
        /\ taskSt' = [taskSt EXCEPT ![t] = "queued"]
        /\ planSt' = [planSt EXCEPT ![PlanOf[t]] = "running"]
    BY <1>3 DEF QueueTask
  <2> QED
    BY <1>1, <2>1
<1>4. ASSUME NEW t \in Tasks, StopTask(t)
      PROVE  Progress!Next
  <2>1. NothingTaken /\ SamePlansCompleted
    BY <1>4 DEF StopTask, NothingTaken, SamePlansCompleted
  <2> QED
    BY <2>1, PutBackStep
<1>5. ASSUME NEW p \in Plans, StopPlan(p)
      PROVE  Progress!Next
  <2>1. NothingTaken
    BY <1>5 DEF StopPlan, NothingTaken
  <2>2. SamePlansCompleted
    BY <1>5 DEF StopPlan, SamePlansCompleted, PlanTerminal
  <2> QED
    BY <2>1, <2>2, PutBackStep
<1>6. ASSUME NEW r \in Projects, NEW i \in Instances, StopAutomation(r, i)
      PROVE  Progress!Next
  <2>1. NothingTaken
    BY <1>6 DEF StopAutomation, NothingTaken, ActiveTasks
  <2>2. SamePlansCompleted
    BY <1>6 DEF StopAutomation, SamePlansCompleted, PlanTerminal
  <2> QED
    BY <2>1, <2>2, PutBackStep
<1>7. ASSUME NEW r \in Projects, StartAutomation(r)
      PROVE  Progress!Next
  <2> DEFINE R == {p \in Plans : ProjectOf[p] = r /\ planSt[p] = "ready"}
             T == {t \in Tasks : PlanOf[t] \in R /\ t \in NextTasks(PlanOf[t])}
  <2>1. \A t \in Tasks : taskSt'[t] = IF t \in T THEN "queued" ELSE taskSt[t]
    BY <1>7 DEF StartAutomation
  <2>2. SamePlansCompleted
    BY <1>7 DEF StartAutomation, SamePlansCompleted
  <2>3. T \in SUBSET Tasks /\ \A t \in T : t \in NextTasks(PlanOf[t])
    OBVIOUS
  <2> HIDE DEF T
  <2> QED
    BY <2>1, <2>2, <2>3, TakeStep
<1> QED
  BY <1>2, <1>3, <1>4, <1>5, <1>6, <1>7 DEF UserStep

\* Steps of a worker that write the task of its job and do not finish it.
LEMMA TaskStepProgress ==
  ASSUME TypeInv, NEW w \in Workers,
         \/ StartTask(w) \/ ReturnTaskPending(w) \/ ReturnTaskQueuedForRetry(w)
         \/ FinishTaskFailed(w) \/ BlockTaskJobForDrift(w)
  PROVE  Progress!Next
<1> DEFINE t == jobTask[wJob[w]]
           p == PlanOf[t]
<1>1. t \in Tasks /\ p \in Plans
  <2>1. wJob[w] \in Jobs /\ jobSt[wJob[w]] # "none"
    BY DEF TypeInv, References, Busy, StartTask, ReturnTaskPending,
           ReturnTaskQueuedForRetry, FinishTaskFailed, BlockTaskJobForDrift, Settles
  <2> QED
    BY <2>1, RowAssumption DEF TypeInv, References
<1>2. \/ UNCHANGED taskSt
      \/ /\ taskSt[t] # "succeeded"
         /\ taskSt' = [taskSt EXCEPT ![t] = "pending"]
      \/ /\ taskSt[t] \in {"queued", "running"}
         /\ \E st \in {"queued", "running", "failed"} : taskSt' = [taskSt EXCEPT ![t] = st]
  <2> USE <1>1 DEF TypeInv, TypeOK, DbTypes
  <2>1. CASE StartTask(w)
    BY <2>1 DEF StartTask
  <2>2. CASE ReturnTaskPending(w)
    BY <2>2 DEF ReturnTaskPending
  <2>3. CASE ReturnTaskQueuedForRetry(w)
    BY <2>3 DEF ReturnTaskQueuedForRetry
  <2>4. CASE FinishTaskFailed(w)
    BY <2>4 DEF FinishTaskFailed
  <2>5. CASE BlockTaskJobForDrift(w)
    BY <2>5 DEF BlockTaskJobForDrift
  <2> QED
    BY <2>1, <2>2, <2>3, <2>4, <2>5
<1>3. \/ UNCHANGED planSt
      \/ \E st \in {"blocked", "validating"} :
           /\ planSt[p] \notin PlanTerminal
           /\ planSt' = [planSt EXCEPT ![p] = st]
  <2> USE <1>1 DEF TypeInv, TypeOK, DbTypes, dbVars
  <2>1. CASE StartTask(w)
    BY <2>1 DEF StartTask, PlanTerminal
  <2>2. CASE ReturnTaskPending(w)
    BY <2>2 DEF ReturnTaskPending
  <2>3. CASE ReturnTaskQueuedForRetry(w)
    BY <2>3 DEF ReturnTaskQueuedForRetry
  <2>4. CASE FinishTaskFailed(w)
    BY <2>4 DEF FinishTaskFailed
  <2>5. CASE BlockTaskJobForDrift(w)
    BY <2>5 DEF BlockTaskJobForDrift
  <2> QED
    BY <2>1, <2>2, <2>3, <2>4, <2>5
<1> HIDE DEF t, p
<1>4. NothingTaken
  BY <1>1, <1>2 DEF NothingTaken, TypeInv, TypeOK, DbTypes
<1>5. SamePlansCompleted
  BY <1>1, <1>3 DEF SamePlansCompleted, PlanTerminal, TypeInv, TypeOK, DbTypes
<1> QED
  BY <1>4, <1>5, PutBackStep

\* finishTask(success = true) finishes the task, with the next one taken in
\* hand or the plan completed.
LEMMA FinishTaskProgress ==
  ASSUME TypeInv, NEW w \in Workers, FinishTask(w)
  PROVE  Progress!Next
<1> DEFINE t == jobTask[wJob[w]]
           p == PlanOf[t]
           next == {u \in TasksAfter(t) : \A v \in TasksAfter(t) : Position[u] <= Position[v]}
           none == {}
<1>1. t \in Tasks /\ p \in Plans
  <2>1. wJob[w] \in Jobs /\ jobSt[wJob[w]] # "none"
    BY DEF TypeInv, References, Busy, FinishTask
  <2> QED
    BY <2>1, RowAssumption DEF TypeInv, References
<1>2. taskSt[t] = "running"
  BY DEF FinishTask
<1>3. \/ /\ taskSt' = [taskSt EXCEPT ![t] = "succeeded"]
         /\ \/ UNCHANGED planSt
            \/ \E st : /\ planSt' = [planSt EXCEPT ![p] = IF @ \in PlanTerminal THEN @ ELSE st]
                       /\ \/ st \in {"cancelled", "blocked"}
                          \/ st = "completed" /\ TasksAfter(t) = {}
      \/ /\ \E u \in next : taskSt' = [taskSt EXCEPT ![t] = "succeeded", ![u] = "queued"]
         /\ UNCHANGED planSt
  BY DEF FinishTask
<1> HIDE DEF t, p
<1>4. \A v \in Tasks : PlanOf[v] = PlanOf[t] /\ v # t /\ v \notin TasksAfter(t)
                         => taskSt[v] = "succeeded"
  BY DEF TasksAfter, TasksOf
<1> USE DEF TypeInv, TypeOK, DbTypes
<1>5. ASSUME taskSt' = [taskSt EXCEPT ![t] = "succeeded"]
      PROVE  \A u \in Tasks : taskSt'[u] = IF u \in none THEN "queued"
                                           ELSE IF u = t THEN "succeeded" ELSE taskSt[u]
  BY <1>1, <1>5
<1>6. ASSUME taskSt' = [taskSt EXCEPT ![t] = "succeeded"], SamePlansCompleted
      PROVE  Progress!Next
  <2>1. /\ none \in SUBSET Tasks /\ \A u \in none : FALSE
        /\ taskSt[t] \notin {"pending", "succeeded"}
    BY <1>2
  <2> HIDE DEF none
  <2> QED
    BY <1>1, <1>5, <1>6, <2>1, FinishStep
<1>7. CASE taskSt' = [taskSt EXCEPT ![t] = "succeeded"] /\ UNCHANGED planSt
  BY <1>6, <1>7 DEF SamePlansCompleted
<1>8. ASSUME taskSt' = [taskSt EXCEPT ![t] = "succeeded"],
             NEW st \in {"cancelled", "blocked"},
             planSt' = [planSt EXCEPT ![p] = IF @ \in PlanTerminal THEN @ ELSE st]
      PROVE  Progress!Next
  <2>1. SamePlansCompleted
    BY <1>1, <1>8 DEF SamePlansCompleted, PlanTerminal
  <2> QED
    BY <1>6, <1>8, <2>1
<1>9. ASSUME taskSt' = [taskSt EXCEPT ![t] = "succeeded"], TasksAfter(t) = {},
             planSt' = [planSt EXCEPT ![p] = IF @ \in PlanTerminal THEN @ ELSE "completed"]
      PROVE  Progress!Next
  <2>1. CASE planSt[p] \in PlanTerminal
    <3>1. SamePlansCompleted
      BY <1>1, <1>9, <2>1 DEF SamePlansCompleted
    <3> QED
      BY <1>6, <1>9, <3>1
  <2>2. CASE planSt[p] \notin PlanTerminal
    <3>1. \A u \in Tasks : PlanOf[u] = PlanOf[t] => taskSt'[u] = "succeeded"
      BY <1>1, <1>4, <1>9
    <3>2. \A q \in Plans : planSt'[q] = "completed" <=> planSt[q] = "completed" \/ q = PlanOf[t]
      BY <1>1, <1>9, <2>2 DEF p, PlanTerminal
    <3>3. /\ none \in SUBSET Tasks /\ \A u \in none : FALSE
          /\ taskSt[t] \notin {"pending", "succeeded"}
      BY <1>2
    <3> HIDE DEF none
    <3> QED
      BY <1>1, <1>5, <1>9, <3>1, <3>2, <3>3, FinishStep
  <2> QED
    BY <2>1, <2>2
<1>10. ASSUME NEW u \in next, UNCHANGED planSt,
              taskSt' = [taskSt EXCEPT ![t] = "succeeded", ![u] = "queued"]
       PROVE  Progress!Next
  <2> DEFINE T == {u}
  <2>1. u \in Tasks /\ u # t /\ PlanOf[u] = PlanOf[t] /\ taskSt[u] # "succeeded"
    BY DEF TasksAfter, TasksOf
  <2>2. \A v \in Tasks : taskSt'[v] = IF v \in T THEN "queued"
                                      ELSE IF v = t THEN "succeeded" ELSE taskSt[v]
    BY <1>1, <1>10, <2>1
  <2>3. ASSUME NEW v \in Tasks, PlanOf[v] = PlanOf[t], Position[v] < Position[u]
        PROVE  v = t \/ taskSt[v] = "succeeded"
    <3>1. v \notin TasksAfter(t)
      BY <2>1, <2>3, RowAssumption
    <3> QED
      BY <1>4, <2>3, <3>1
  <2>4. SamePlansCompleted
    BY <1>10 DEF SamePlansCompleted
  <2>5. /\ T \in SUBSET Tasks /\ t \notin T /\ taskSt[t] \notin {"pending", "succeeded"}
        /\ \A x \in T : x = u
    BY <1>2, <2>1
  <2> HIDE DEF next, T
  <2> QED
    BY <1>1, <2>1, <2>2, <2>3, <2>4, <2>5, FinishStep
<1> QED
  BY <1>3, <1>7, <1>8, <1>9, <1>10

\* Shutdown and recovery put tasks back or leave them in hand.
LEMMA ReconcileProgress ==
  ASSUME TypeInv, NEW i \in Instances,
         ReconcileInstanceShutdown(i) \/ ReconcileRuntimeState(i)
  PROVE  Progress!Next
<1>1. SamePlansCompleted
  <2>1. \A p \in Plans : \/ planSt'[p] = planSt[p]
                         \/ planSt[p] \in {"running", "validating"} /\ planSt'[p] = "blocked"
    <3>1. CASE ReconcileInstanceShutdown(i)
      BY <3>1 DEF ReconcileInstanceShutdown
    <3>2. CASE ReconcileRuntimeState(i)
      BY <3>2 DEF ReconcileRuntimeState, ConvergeRecoveredTasks
    <3> QED
      BY <3>1, <3>2
  <2> QED
    BY <2>1 DEF SamePlansCompleted
<1>2. CASE ReconcileInstanceShutdown(i)
  <2>1. NothingTaken
    BY <1>2 DEF ReconcileInstanceShutdown, NothingTaken, OwnedTasks
  <2> QED
    BY <1>1, <2>1, PutBackStep
<1>3. CASE ReconcileRuntimeState(i)
  <2>1. PICK pick, converged : ConvergeRecoveredTasks(pick, converged)
    BY <1>3 DEF ReconcileRuntimeState
  <2> DEFINE open == {j \in converged : taskSt[jobTask[j]] \notin TaskTerminal}
             outcome(j) == RecoveryOutcome(j, pick[j])
             endings(t) == {outcome(j) : j \in {k \in open : jobTask[k] = t}}
  <2>2. PICK end \in [{jobTask[j] : j \in open} -> {"cancelled", "abandoned", "interrupted"}] :
          /\ \A t \in DOMAIN end : end[t] \in endings(t)
          /\ taskSt' = [t \in Tasks |->
               IF t \in DOMAIN end
                 THEN (IF end[t] = "abandoned" THEN "pending" ELSE end[t])
                 ELSE taskSt[t]]
    BY <2>1 DEF ConvergeRecoveredTasks
  <2>3. \A j \in open : taskSt[jobTask[j]] = "pending" => outcome(j) = "abandoned"
    BY <2>1 DEF ConvergeRecoveredTasks
  <2>4. \A t \in DOMAIN end : /\ taskSt[t] # "succeeded"
                              /\ taskSt[t] = "pending" => end[t] = "abandoned"
    BY <2>2, <2>3 DEF TaskTerminal
  <2>5. NothingTaken
    BY <2>2, <2>4 DEF NothingTaken
  <2> QED
    BY <1>1, <2>5, PutBackStep
<1> QED
  BY <1>2, <1>3

\* Every step is a step of PlanProgress, or invisible there.
LEMMA NextProgress == TypeInv /\ [Next]_vars => [Progress!Next]_(Progress!progress)
<1> SUFFICES ASSUME TypeInv, [Next]_vars PROVE [Progress!Next]_(Progress!progress)
  OBVIOUS
<1> USE DEF vars, dbVars
<1>0. ASSUME UNCHANGED <<taskSt, planSt>>
      PROVE  UNCHANGED (Progress!progress)
  BY <1>0 DEF Progress!progress
<1>1. CASE UNCHANGED vars
  BY <1>0, <1>1
<1>2. CASE UserStep
  BY <1>2, UserProgress
<1>3. ASSUME NEW w \in Workers,
             \/ ClaimSelect(w) \/ ClaimLock(w) \/ MarkJobRunning(w) \/ ReleaseLeasedJob(w)
             \/ WorkerExit(w) \/ AcquireWorkspaceLease(w)
             \/ PrepareFails(w) \/ DriftDetected(w) \/ SkipValidation(w)
             \/ StartAgentRun(w) \/ StartProcess(w) \/ ProcessKilled(w) \/ ResultLost(w)
             \/ CheckpointDrift(w) \/ FinishTaskIgnored(w) \/ FinishTaskRefused(w)
             \/ Unwind(w) \/ CompleteJob(w) \/ DeferJobForWorkspace(w) \/ CancelJob(w)
             \/ FailJob(w) \/ SettleLost(w) \/ ProcessExit(w) \/ Renew(w) \/ OrphanExit(w)
      PROVE  UNCHANGED <<taskSt, planSt>>
  BY <1>3 DEF ClaimSelect, ClaimLock, MarkJobRunning, ReleaseLeasedJob, WorkerExit,
    AcquireWorkspaceLease, PrepareFails, DriftDetected, SkipValidation, StartAgentRun,
    StartProcess, ProcessKilled, ResultLost, CheckpointDrift, FinishTaskIgnored,
    FinishTaskRefused, Unwind, CompleteJob, DeferJobForWorkspace, CancelJob, FailJob,
    SettleLost, ProcessExit, Renew, OrphanExit
<1>4. ASSUME NEW w \in Workers,
             WorkerStep(w) \/ ProcessExit(w) \/ Renew(w) \/ OrphanExit(w)
      PROVE  [Progress!Next]_(Progress!progress)
  BY <1>0, <1>3, <1>4, TaskStepProgress, FinishTaskProgress DEF WorkerStep
<1>5. CASE ClockStep
  <2>1. UNCHANGED <<taskSt, planSt>>
    BY <1>5 DEF ClockStep, ExpireJobLease, ExpireWorkspaceLease, InstanceStale,
      HeartbeatRuntimeInstance
  <2> QED
    BY <1>0, <2>1
<1>6. ASSUME NEW i \in Instances,
             \/ BeginDraining(i) \/ CancelAll(i) \/ StopPool(i) \/ Exit(i) \/ Crash(i)
             \/ \E r \in Projects : CancelPrefix(r, i)
      PROVE  [Progress!Next]_(Progress!progress)
  <2>1. UNCHANGED <<taskSt, planSt>>
    BY <1>6 DEF BeginDraining, CancelAll, StopPool, Exit, Crash, CancelPrefix
  <2> QED
    BY <1>0, <2>1
<1>7. ASSUME NEW i \in Instances, ReconcileInstanceShutdown(i) \/ ReconcileRuntimeState(i)
      PROVE  [Progress!Next]_(Progress!progress)
  BY <1>7, ReconcileProgress
<1> QED
  BY <1>1, <1>2, <1>4, <1>5, <1>6, <1>7 DEF Next, ShutdownStep

\* Seen through the status of tasks and plans, the whole of the execution does
\* nothing but work through every plan in order: it takes tasks in hand when
\* their predecessors are done, puts tasks back, and finishes one task at a
\* time, completing a plan with the last of its tasks (nextPlanTask,
\* finishTask, convergeRecoveredTask).
THEOREM Refinement == Spec => ImplementsProgress
<1>1. Init => Progress!Init
  BY DEF Init, Progress!Init
<1>2. Init => TypeInv
  BY InitTyped
<1>3. TypeInv /\ [Next]_vars => TypeInv'
  BY NextTyped
<1> QED
  BY <1>1, <1>2, <1>3, NextProgress, PTL DEF Spec, ImplementsProgress, Progress!Spec
==============================================================================
