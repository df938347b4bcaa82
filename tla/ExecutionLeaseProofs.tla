------------------------ MODULE ExecutionLeaseProofs ------------------------
(***************************************************************************)
(* Who holds what in Execution: the workspace lease of a project, the row  *)
(* of a job in flight and the CLI of a worker.  A lease is never left      *)
(* behind, whatever happens.  That no two CLIs share a workspace needs     *)
(* more: no instance may stall for longer than its leases last, and none   *)
(* may be shut down gracefully, which deletes leases before it signals     *)
(* the CLIs that rely on them.                                             *)
(***************************************************************************)
EXTENDS ExecutionProofs

\* From AcquireWorkspaceLease to the deferred ReleaseWorkspaceLease.
Holding == {"owns", "started", "spawn", "cli", "exited", "unwind"}

-----------------------------------------------------------------------------
(* What the steps do to job rows, leases and the place of a worker.        *)

\* The row of job j is as it was.
SameRow(j) ==
  /\ jobSt'[j] = jobSt[j] /\ jobTask'[j] = jobTask[j]
  /\ jobWorker'[j] = jobWorker[j] /\ leaseOk'[j] = leaseOk[j]

\* A worker that holds its lease goes on with its job.  Only FinishTask writes
\* jobs, and it adds a row.
LEMMA WorkStep ==
  ASSUME TypeInv, NEW w \in Workers,
         \/ PrepareFails(w) \/ DriftDetected(w) \/ StartTask(w) \/ SkipValidation(w)
         \/ StartAgentRun(w) \/ StartProcess(w) \/ ProcessKilled(w) \/ ProcessExit(w)
         \/ ResultLost(w) \/ CheckpointDrift(w) \/ ReturnTaskPending(w)
         \/ ReturnTaskQueuedForRetry(w) \/ FinishTaskFailed(w) \/ FinishTaskIgnored(w)
         \/ FinishTask(w) \/ FinishTaskRefused(w)
  PROVE  /\ pc[w] \in Holding \ {"unwind"}
         /\ \E x \in Holding : pc' = [pc EXCEPT ![w] = x]
         /\ UNCHANGED <<wJob, wsVars, instVars>>
         /\ \A j \in Jobs : jobSt[j] # "none" => SameRow(j)
         /\ \A v \in Workers \ {w} : runSt'[v] = runSt[v] /\ proc'[v] = proc[v]
<1> USE DEF Holding, TypeInv, TypeOK, WorkerTypes
<1>1. CASE PrepareFails(w) \/ DriftDetected(w) \/ ResultLost(w) \/ CheckpointDrift(w)
           \/ FinishTaskIgnored(w) \/ FinishTaskRefused(w)
  BY <1>1 DEF PrepareFails, DriftDetected, ResultLost, CheckpointDrift, FinishTaskIgnored,
    FinishTaskRefused, Return, SameRow, jobVars
<1>2. CASE StartTask(w) \/ ReturnTaskPending(w) \/ ReturnTaskQueuedForRetry(w)
           \/ FinishTaskFailed(w)
  BY <1>2 DEF StartTask, ReturnTaskPending, ReturnTaskQueuedForRetry, FinishTaskFailed,
    Return, SameRow, jobVars
<1>3. CASE SkipValidation(w) \/ StartAgentRun(w) \/ StartProcess(w) \/ ProcessKilled(w)
           \/ ProcessExit(w)
  BY <1>3 DEF SkipValidation, StartAgentRun, StartProcess, ProcessKilled, ProcessExit,
    Return, SameRow, jobVars
<1>4. CASE FinishTask(w)
  <2>1. \A j \in Jobs : jobSt[j] # "none" => SameRow(j)
    <3>1. UNCHANGED jobVars \/ \E k \in Jobs, u \in Tasks : InsertJob(k, u)
      BY <1>4 DEF FinishTask, TasksAfter, TasksOf
    <3> QED
      BY <3>1 DEF InsertJob, SameRow, jobVars, JobTypes
  <2> QED
    BY <1>4, <2>1 DEF FinishTask, Return
<1> QED
  BY <1>1, <1>2, <1>3, <1>4

\* The worker is done with its job: no row but the one it owns changes.
LEMMA SettleStep ==
  ASSUME TypeInv, NEW w \in Workers,
         \/ CompleteJob(w) \/ DeferJobForWorkspace(w) \/ CancelJob(w) \/ FailJob(w)
         \/ BlockTaskJobForDrift(w) \/ SettleLost(w)
  PROVE  /\ pc[w] = "settle"
         /\ pc' = [pc EXCEPT ![w] = "idle"]
         /\ wJob' = [wJob EXCEPT ![w] = None]
         /\ UNCHANGED <<wsVars, instVars, runSt, proc, jobTask>>
         /\ \A j \in Jobs : SameRow(j) \/ (j = wJob[w] /\ Owns(w, Live))
<1> USE DEF Done, SameRow, TypeInv, TypeOK, JobTypes
<1>1. wJob[w] \in Jobs
  BY DEF References, Busy, CompleteJob, DeferJobForWorkspace, CancelJob, FailJob,
    BlockTaskJobForDrift, SettleLost, Settles
<1>2. ASSUME NEW S \in SUBSET Live, NEW st, SettleJob(w, S, st)
      PROVE  /\ UNCHANGED jobTask
             /\ \A j \in Jobs : SameRow(j) \/ (j = wJob[w] /\ Owns(w, Live))
  BY <1>1, <1>2 DEF SettleJob, Owns
<1>3. CASE CompleteJob(w) \/ CancelJob(w) \/ FailJob(w)
  <2>1. \E S \in SUBSET Live : \E st : SettleJob(w, S, st)
    BY <1>3 DEF CompleteJob, CancelJob, FailJob, Live
  <2> QED
    BY <1>2, <1>3, <2>1 DEF CompleteJob, CancelJob, FailJob, Settles
<1>4. CASE DeferJobForWorkspace(w)
  BY <1>1, <1>4 DEF DeferJobForWorkspace, Settles, Requeue, Owns, Live, jobVars
<1>5. CASE BlockTaskJobForDrift(w)
  <2>1. SettleJob(w, Live, "failed") \/ UNCHANGED jobVars
    BY <1>5 DEF BlockTaskJobForDrift, Live
  <2>2. /\ UNCHANGED jobTask
        /\ \A j \in Jobs : SameRow(j) \/ (j = wJob[w] /\ Owns(w, Live))
    BY <1>2, <2>1 DEF jobVars
  <2> QED
    BY <1>5, <2>2 DEF BlockTaskJobForDrift, Settles
<1>6. CASE SettleLost(w)
  BY <1>6 DEF SettleLost, jobVars
<1> QED
  BY <1>3, <1>4, <1>5, <1>6

\* Requests of the user add rows and cancel rows, and close runs.
LEMMA UserStepRows ==
  ASSUME TypeInv, UserStep
  PROVE  /\ UNCHANGED <<pc, wJob, wsVars, inst, fresh, proc, jobWorker>>
         /\ \A w \in Workers : runSt'[w] \in {runSt[w], "none"}
         /\ \A j \in Jobs : jobSt[j] # "none" => /\ jobTask'[j] = jobTask[j]
                                                 /\ SameRow(j) \/ jobSt'[j] = "cancelled"
<1> USE DEF SameRow, TypeInv, TypeOK, JobTypes, WorkerTypes, workerVars, instVars
<1>1. ASSUME NEW p \in Plans, QueuePlan(p) \/ QueuePlanAutomatically(p)
      PROVE  /\ UNCHANGED <<pc, wJob, wsVars, inst, fresh, proc, jobWorker, runSt>>
             /\ \A j \in Jobs : jobSt[j] # "none" => SameRow(j)
  BY <1>1 DEF QueuePlan, QueuePlanAutomatically, QueuePlanTx, InsertJob
<1>2. ASSUME NEW t \in Tasks, QueueTask(t)
      PROVE  /\ UNCHANGED <<pc, wJob, wsVars, inst, fresh, proc, jobWorker, runSt>>
             /\ \A j \in Jobs : jobSt[j] # "none" => SameRow(j)
  BY <1>2 DEF QueueTask, InsertJob
<1>3. ASSUME NEW r \in Projects, StartAutomation(r)
      PROVE  /\ UNCHANGED <<pc, wJob, wsVars, inst, fresh, proc, jobWorker, runSt>>
             /\ \A j \in Jobs : jobSt[j] # "none" => SameRow(j)
  <2> DEFINE R == {p \in Plans : ProjectOf[p] = r /\ planSt[p] = "ready"}
             T == {t \in Tasks : PlanOf[t] \in R /\ t \in NextTasks(PlanOf[t])}
  <2>1. PICK f \in [T -> NewJobs(Cardinality(T))] : InsertJobs(f)
    BY <1>3 DEF StartAutomation
  <2>2. \A t \in T : jobSt[f[t]] = "none"
    BY <2>1 DEF NewJobs, FreeJobs
  <2>3. \A j \in Jobs : \/ jobSt'[j] = jobSt[j] /\ jobTask'[j] = jobTask[j]
                        \/ \E t \in T : j = f[t]
    BY <2>1 DEF InsertJobs
  <2>4. UNCHANGED <<jobWorker, leaseOk>>
    BY <2>1 DEF InsertJobs
  <2>5. UNCHANGED <<pc, wJob, wsVars, inst, fresh, proc, runSt>>
    BY <1>3 DEF StartAutomation
  <2> HIDE DEF T
  <2> QED
    BY <2>2, <2>3, <2>4, <2>5
<1>4. ASSUME NEW p \in Plans, StopPlan(p)
      PROVE  /\ UNCHANGED <<pc, wJob, wsVars, inst, fresh, proc, jobWorker, runSt, jobTask>>
             /\ \A j \in Jobs : SameRow(j) \/ jobSt'[j] = "cancelled"
  BY <1>4 DEF StopPlan
<1>5. ASSUME NEW t \in Tasks, StopTask(t)
      PROVE  /\ UNCHANGED <<pc, wJob, wsVars, inst, fresh, proc, jobWorker, runSt, jobTask>>
             /\ \A j \in Jobs : SameRow(j) \/ jobSt'[j] = "cancelled"
  BY <1>5 DEF StopTask
<1>6. ASSUME NEW r \in Projects, NEW i \in Instances, StopAutomation(r, i)
      PROVE  /\ UNCHANGED <<pc, wJob, wsVars, inst, fresh, proc, jobWorker, jobTask>>
             /\ \A w \in Workers : runSt'[w] \in {runSt[w], "none"}
             /\ \A j \in Jobs : SameRow(j) \/ jobSt'[j] = "cancelled"
  BY <1>6 DEF StopAutomation
<1> QED
  BY <1>1, <1>2, <1>3, <1>4, <1>5, <1>6 DEF UserStep

-----------------------------------------------------------------------------
(* The workspace lease is never left behind.                               *)

LeaseNamed == \A r \in Projects : wsJob[r] # None => wsWorker[r] \in Workers

LeaseInv == TypeInv /\ LeaseNamed /\ NoLeakedLease

\* A lease stays, is deleted, or is taken by a worker for its own job.
LeaseMove(r) ==
  \/ wsJob'[r] = wsJob[r] /\ wsWorker'[r] = wsWorker[r]
  \/ wsJob'[r] = None
  \/ \E w \in Workers : wsWorker'[r] = w /\ wsJob'[r] = wJob'[w] /\ pc'[w] = "owns"

\* A worker that may hold a lease stays where it may, with the same job, or
\* dies, or has deleted its leases.
HolderMove(w) ==
  /\ pc[w] = "dead" => pc'[w] = "dead"
  /\ pc[w] \in Holding =>
       \/ pc'[w] = "dead"
       \/ pc'[w] \in Holding /\ wJob'[w] = wJob[w]
       \/ \A r \in Projects : HeldLease(w, r) => wsJob'[r] = None

LeaseMoves == (\A r \in Projects : LeaseMove(r)) /\ (\A w \in Workers : HolderMove(w))

LEMMA LeaseMovesKeepInv ==
  ASSUME LeaseInv, TypeInv', LeaseMoves
  PROVE  LeaseInv'
<1> USE DEF LeaseInv, LeaseMoves
<1>1. ASSUME NEW r \in Projects, wsJob'[r] # None
      PROVE  /\ wsWorker'[r] \in Workers
             /\ pc'[wsWorker'[r]] # "dead" => /\ wJob'[wsWorker'[r]] = wsJob'[r]
                                              /\ pc'[wsWorker'[r]] \in Holding
  <2>1. CASE wsJob'[r] = wsJob[r] /\ wsWorker'[r] = wsWorker[r]
    <3> DEFINE w == wsWorker[r]
    <3>1. /\ w \in Workers /\ HolderMove(w)
          /\ pc[w] # "dead" => wJob[w] = wsJob[r] /\ pc[w] \in Holding
      BY <1>1, <2>1 DEF LeaseNamed, NoLeakedLease, Holding
    <3> QED
      BY <1>1, <2>1, <3>1 DEF HolderMove, HeldLease
  <2>2. ASSUME NEW w \in Workers, wsWorker'[r] = w, wsJob'[r] = wJob'[w], pc'[w] = "owns"
        PROVE  /\ wsWorker'[r] \in Workers
               /\ wJob'[wsWorker'[r]] = wsJob'[r] /\ pc'[wsWorker'[r]] \in Holding
    BY <2>2 DEF Holding
  <2> QED
    BY <1>1, <2>1, <2>2 DEF LeaseMove
<1> QED
  BY <1>1 DEF LeaseNamed, NoLeakedLease, Holding

\* A step that leaves the leases alone and every holder in its place.
LEMMA LeasesAlone ==
  ASSUME UNCHANGED wsVars,
         \A w \in Workers : /\ pc[w] = "dead" => pc'[w] = "dead"
                            /\ pc[w] \in Holding => \/ pc'[w] = "dead"
                                                    \/ pc'[w] \in Holding /\ wJob'[w] = wJob[w]
  PROVE  LeaseMoves
BY DEF LeaseMoves, LeaseMove, HolderMove, wsVars

LEMMA NextLeaseMoves == LeaseInv /\ [Next]_vars => LeaseMoves
<1> SUFFICES ASSUME LeaseInv, [Next]_vars PROVE LeaseMoves
  OBVIOUS
<1> USE DEF LeaseInv
<1>1. CASE UNCHANGED vars
  BY <1>1, LeasesAlone DEF vars, workerVars
<1>2. CASE UserStep
  BY <1>2, UserStepRows, LeasesAlone
<1>3. ASSUME NEW w \in Workers,
             WorkerStep(w) \/ ProcessExit(w) \/ Renew(w) \/ OrphanExit(w)
      PROVE  LeaseMoves
  <2> USE DEF TypeInv, TypeOK, WorkerTypes, LeaseTypes
  <2>1. CASE \/ PrepareFails(w) \/ DriftDetected(w) \/ StartTask(w) \/ SkipValidation(w)
             \/ StartAgentRun(w) \/ StartProcess(w) \/ ProcessKilled(w) \/ ProcessExit(w)
             \/ ResultLost(w) \/ CheckpointDrift(w) \/ ReturnTaskPending(w)
             \/ ReturnTaskQueuedForRetry(w) \/ FinishTaskFailed(w) \/ FinishTaskIgnored(w)
             \/ FinishTask(w) \/ FinishTaskRefused(w)
    <3>1. /\ pc[w] \in Holding /\ \E x \in Holding : pc' = [pc EXCEPT ![w] = x]
          /\ UNCHANGED <<wJob, wsVars>>
      BY <2>1, WorkStep
    <3> QED
      BY <3>1, LeasesAlone DEF Holding
  <2>2. CASE \/ CompleteJob(w) \/ DeferJobForWorkspace(w) \/ CancelJob(w) \/ FailJob(w)
             \/ BlockTaskJobForDrift(w) \/ SettleLost(w)
    <3>1. /\ pc[w] = "settle" /\ pc' = [pc EXCEPT ![w] = "idle"]
          /\ wJob' = [wJob EXCEPT ![w] = None] /\ UNCHANGED wsVars
      BY <2>2, SettleStep
    <3> QED
      BY <3>1, LeasesAlone DEF Holding
  <2>3. CASE \/ ClaimSelect(w) \/ ClaimLock(w) \/ MarkJobRunning(w)
             \/ ReleaseLeasedJob(w) \/ WorkerExit(w)
    <3>1. /\ pc[w] \notin Holding \cup {"dead"}
          /\ \A v \in Workers \ {w} : pc'[v] = pc[v] /\ wJob'[v] = wJob[v]
          /\ UNCHANGED wsVars
      BY <2>3 DEF ClaimSelect, ClaimLock, MarkJobRunning, ReleaseLeasedJob, WorkerExit, Holding
    <3> QED
      BY <3>1, LeasesAlone
  <2>4. CASE Renew(w) \/ OrphanExit(w)
    BY <2>4, LeasesAlone DEF Renew, OrphanExit
  <2>5. CASE AcquireWorkspaceLease(w)
    <3>1. /\ pc[w] = "exec" /\ UNCHANGED wJob
          /\ \A v \in Workers \ {w} : pc'[v] = pc[v]
      BY <2>5 DEF AcquireWorkspaceLease
    <3>2. \A v \in Workers : HolderMove(v)
      BY <3>1 DEF HolderMove, Holding
    <3>3. \/ UNCHANGED wsVars
          \/ \E r \in Projects : /\ wsJob' = [wsJob EXCEPT ![r] = wJob[w]]
                                 /\ wsWorker' = [wsWorker EXCEPT ![r] = w]
                                 /\ pc'[w] = "owns"
      <4>1. JobProject(wJob[w]) \in Projects
        BY <3>1, RowAssumption DEF References, Busy, JobProject
      <4> QED
        BY <2>5, <4>1 DEF AcquireWorkspaceLease
    <3>4. \A r \in Projects : LeaseMove(r)
      BY <3>1, <3>3 DEF LeaseMove, wsVars
    <3> QED
      BY <3>2, <3>4 DEF LeaseMoves
  <2>6. CASE Unwind(w)
    <3>1. \A v \in Workers \ {w} : pc'[v] = pc[v] /\ wJob'[v] = wJob[v]
      BY <2>6 DEF Unwind
    <3>2. /\ pc[w] = "unwind"
          /\ wsJob' = [r \in Projects |-> IF HeldLease(w, r) THEN None ELSE wsJob[r]]
          /\ wsWorker' = [r \in Projects |-> IF HeldLease(w, r) THEN None ELSE wsWorker[r]]
      BY <2>6 DEF Unwind
    <3> QED
      BY <3>1, <3>2 DEF LeaseMoves, LeaseMove, HolderMove
  <2> QED
    BY <1>3, <2>1, <2>2, <2>3, <2>4, <2>5, <2>6 DEF WorkerStep
<1>4. CASE ClockStep
  <2>1. UNCHANGED <<pc, wJob, wsJob, wsWorker>>
    BY <1>4 DEF ClockStep, ExpireJobLease, ExpireWorkspaceLease, InstanceStale,
      HeartbeatRuntimeInstance, workerVars, wsVars
  <2> QED
    BY <2>1 DEF LeaseMoves, LeaseMove, HolderMove
<1>5. ASSUME NEW i \in Instances,
             \/ BeginDraining(i) \/ CancelAll(i) \/ StopPool(i) \/ Exit(i)
             \/ \E r \in Projects : CancelPrefix(r, i)
      PROVE  LeaseMoves
  <2>1. UNCHANGED <<pc, wJob, wsVars>>
    BY <1>5 DEF BeginDraining, CancelAll, StopPool, Exit, CancelPrefix, workerVars
  <2> QED
    BY <2>1, LeasesAlone
<1>6. ASSUME NEW i \in Instances, Crash(i)
      PROVE  LeaseMoves
  <2>1. \A w \in Workers : \/ pc'[w] = "dead"
                           \/ pc'[w] = pc[w] /\ wJob'[w] = wJob[w]
    BY <1>6 DEF Crash
  <2>2. UNCHANGED wsVars
    BY <1>6 DEF Crash
  <2> QED
    BY <2>1, <2>2, LeasesAlone
<1>7. ASSUME NEW i \in Instances, ReconcileInstanceShutdown(i) \/ ReconcileRuntimeState(i)
      PROVE  LeaseMoves
  <2>1. UNCHANGED <<pc, wJob>>
    BY <1>7 DEF ReconcileInstanceShutdown, ReconcileRuntimeState, ReleaseRecovered
  <2>2. \A r \in Projects : LeaseMove(r)
    <3>1. CASE ReconcileInstanceShutdown(i)
      BY <3>1 DEF ReconcileInstanceShutdown, LeaseMove, wsVars
    <3>2. CASE ReconcileRuntimeState(i)
      BY <3>2 DEF ReconcileRuntimeState, ReleaseRecovered, LeaseMove
    <3> QED
      BY <1>7, <3>1, <3>2
  <2> QED
    BY <2>1, <2>2 DEF LeaseMoves, HolderMove
<1> QED
  BY <1>1, <1>2, <1>3, <1>4, <1>5, <1>6, <1>7 DEF Next, ShutdownStep

\* The workspace lease of a project always names a worker that is between
\* AcquireWorkspaceLease and its deferred ReleaseWorkspaceLease for the very
\* job of the lease, or one that died with its instance: through faults,
\* stalls, stops, shutdowns and recovery passes no live worker leaves a lease
\* behind.
THEOREM LeaseNeverLeaks == Spec => []NoLeakedLease
<1>1. Init => LeaseInv
  BY InitTyped DEF Init, LeaseInv, LeaseNamed, NoLeakedLease
<1>2. LeaseInv /\ [Next]_vars => LeaseInv'
  BY NextTyped, NextLeaseMoves, LeaseMovesKeepInv DEF LeaseInv
<1>3. LeaseInv => NoLeakedLease
  BY DEF LeaseInv
<1> QED
  BY <1>1, <1>2, <1>3, PTL DEF Spec

-----------------------------------------------------------------------------
(* Which CLI may run.  These invariants hold as long as every instance     *)
(* that is up keeps its heartbeats and none is shut down gracefully.       *)

Undisturbed == Env \cap {"stall", "shutdown"} = {}

\* A worker from the moment ClaimJob returns a job.
AtWork == {"leased"} \cup Executing

\* The worker, or the open agent run that a dead worker left behind, stands
\* for its job.
InHand(w) == pc[w] \in AtWork \/ (pc[w] = "dead" /\ runSt[w] # "none")

\* An agent run is open, and a CLI exists, only in these phases.
RunPhase ==
  \A w \in Workers :
    /\ runSt[w] # "none" => pc[w] \in {"spawn", "cli", "exited", "unwind", "dead"}
    /\ proc[w] => pc[w] \in {"cli", "dead"}

\* An instance is up, and heartbeats, until it crashes with its workers.
UpOrCrashed ==
  /\ \A i \in Instances : inst[i] \in {"up", "down"} /\ (inst[i] = "up" => fresh[i])
  /\ \A w \in Workers : pc[w] # "dead" => inst[InstanceOf[w]] = "up"

\* Whoever stands for a job owns its row until somebody settles it ...
RowOwned ==
  \A w \in Workers : InHand(w) => /\ wJob[w] \in Jobs
                                  /\ jobSt[wJob[w]] \in JobTerminal \/ Owns(w, Live)
\* ... nobody else stands for that job, and a live worker's lease is current.
OneHand ==
  \A v, w \in Workers : InHand(v) /\ InHand(w) /\ wJob[v] = wJob[w] => v = w
LeaseCurrent ==
  \A w \in Workers : pc[w] \in AtWork /\ Owns(w, Live) => leaseOk[wJob[w]]

\* Between AcquireWorkspaceLease and its release the worker has the lease.
HoldersHold ==
  \A w \in Workers :
    pc[w] \in Holding => /\ HeldLease(w, JobProject(wJob[w]))
                         /\ wsOk[JobProject(wJob[w])]

HandInv == /\ LeaseInv /\ RunPhase /\ UpOrCrashed
           /\ RowOwned /\ OneHand /\ LeaseCurrent /\ HoldersHold

-----------------------------------------------------------------------------
\* Runs and processes follow their worker, in every environment.
LEMMA NextRunPhase == LeaseInv /\ RunPhase /\ [Next]_vars => RunPhase'
<1> SUFFICES ASSUME LeaseInv, RunPhase, [Next]_vars PROVE RunPhase'
  OBVIOUS
<1> USE DEF LeaseInv
<1>1. ASSUME UNCHANGED <<pc, proc>>, \A w \in Workers : runSt'[w] \in {runSt[w], "none"}
      PROVE  RunPhase'
  BY <1>1 DEF RunPhase
<1>2. CASE UNCHANGED vars
  BY <1>1, <1>2 DEF vars, workerVars
<1>3. CASE UserStep
  BY <1>1, <1>3, UserStepRows
<1>4. ASSUME NEW w \in Workers,
             WorkerStep(w) \/ ProcessExit(w) \/ Renew(w) \/ OrphanExit(w)
      PROVE  RunPhase'
  <2> USE DEF TypeInv, TypeOK, WorkerTypes, RunPhase
  <2>1. CASE PrepareFails(w) \/ DriftDetected(w) \/ ResultLost(w) \/ CheckpointDrift(w)
             \/ FinishTaskIgnored(w) \/ FinishTaskRefused(w)
    BY <2>1 DEF PrepareFails, DriftDetected, ResultLost, CheckpointDrift, FinishTaskIgnored,
      FinishTaskRefused, Return
  <2>2. CASE StartTask(w) \/ ReturnTaskPending(w) \/ ReturnTaskQueuedForRetry(w)
             \/ FinishTaskFailed(w) \/ FinishTask(w)
    <3>1. /\ pc[w] \in {"owns", "exited"} /\ UNCHANGED <<runSt, proc>>
          /\ \/ pc' = [pc EXCEPT ![w] = "unwind"]
             \/ pc[w] = "owns" /\ pc' = [pc EXCEPT ![w] = "started"]
      BY <2>2 DEF StartTask, ReturnTaskPending, ReturnTaskQueuedForRetry, FinishTaskFailed,
        FinishTask, Return
    <3> QED
      BY <3>1
  <2>3. CASE SkipValidation(w) \/ StartAgentRun(w) \/ StartProcess(w) \/ ProcessKilled(w)
    BY <2>3 DEF SkipValidation, StartAgentRun, StartProcess, ProcessKilled, Return
  <2>4. CASE ProcessExit(w)
    BY <2>4 DEF ProcessExit
  <2>5. CASE \/ CompleteJob(w) \/ DeferJobForWorkspace(w) \/ CancelJob(w) \/ FailJob(w)
             \/ BlockTaskJobForDrift(w) \/ SettleLost(w)
    <3>1. /\ pc[w] = "settle" /\ pc' = [pc EXCEPT ![w] = "idle"]
          /\ UNCHANGED <<runSt, proc>>
      BY <2>5, SettleStep
    <3> QED
      BY <3>1
  <2>6. CASE \/ ClaimSelect(w) \/ ClaimLock(w) \/ MarkJobRunning(w)
             \/ ReleaseLeasedJob(w) \/ WorkerExit(w) \/ AcquireWorkspaceLease(w)
    <3>1. /\ pc[w] \in {"idle", "claim", "leased", "exec"}
          /\ \A v \in Workers \ {w} : pc'[v] = pc[v]
          /\ UNCHANGED <<runSt, proc>>
      BY <2>6 DEF ClaimSelect, ClaimLock, MarkJobRunning, ReleaseLeasedJob, WorkerExit,
        AcquireWorkspaceLease
    <3> QED
      BY <3>1
  <2>7. CASE Renew(w) \/ OrphanExit(w) \/ Unwind(w)
    BY <2>7 DEF Renew, OrphanExit, Unwind
  <2> QED
    BY <1>4, <2>1, <2>2, <2>3, <2>4, <2>5, <2>6, <2>7 DEF WorkerStep
<1>5. CASE ClockStep
  BY <1>1, <1>5 DEF ClockStep, ExpireJobLease, ExpireWorkspaceLease, InstanceStale,
    HeartbeatRuntimeInstance, workerVars
<1>6. ASSUME NEW i \in Instances,
             \/ BeginDraining(i) \/ CancelAll(i) \/ StopPool(i) \/ Exit(i)
             \/ \E r \in Projects : CancelPrefix(r, i)
      PROVE  RunPhase'
  BY <1>1, <1>6 DEF BeginDraining, CancelAll, StopPool, Exit, CancelPrefix, workerVars
<1>7. ASSUME NEW i \in Instances, Crash(i)
      PROVE  RunPhase'
  <2>1. \A w \in Workers : /\ pc'[w] = "dead" \/ pc'[w] = pc[w]
                           /\ runSt'[w] = runSt[w] /\ (proc'[w] => proc[w])
    BY <1>7 DEF Crash
  <2> QED
    BY <2>1 DEF RunPhase
<1>8. ASSUME NEW i \in Instances, ReconcileInstanceShutdown(i) \/ ReconcileRuntimeState(i)
      PROVE  RunPhase'
  <2>1. UNCHANGED <<pc, proc>>
    BY <1>8 DEF ReconcileInstanceShutdown, ReconcileRuntimeState, ReleaseRecovered
  <2>2. \A w \in Workers : runSt'[w] \in {runSt[w], "none"}
    BY <1>8 DEF ReconcileInstanceShutdown, ReconcileRuntimeState, ReleaseRecovered
  <2> QED
    BY <1>1, <2>1, <2>2
<1> QED
  BY <1>2, <1>3, <1>4, <1>5, <1>6, <1>7, <1>8 DEF Next, ShutdownStep

\* Without stalls and shutdowns an instance only ever goes down in a crash.
LEMMA NextUpOrCrashed ==
  Undisturbed /\ LeaseInv /\ UpOrCrashed /\ [Next]_vars => UpOrCrashed'
<1> SUFFICES ASSUME Undisturbed, LeaseInv, UpOrCrashed, [Next]_vars PROVE UpOrCrashed'
  OBVIOUS
<1> USE RowAssumption DEF LeaseInv, TypeInv, TypeOK, InstanceTypes
<1>1. ASSUME UNCHANGED <<inst, fresh>>
      PROVE  UpOrCrashed'
  <2>1. \A w \in Workers : pc[w] = "dead" => pc'[w] = "dead"
    BY NextLeaseMoves DEF LeaseMoves, HolderMove
  <2> QED
    BY <1>1, <2>1 DEF UpOrCrashed
<1>2. CASE UNCHANGED vars
  BY <1>1, <1>2 DEF vars, instVars
<1>3. CASE UserStep
  BY <1>1, <1>3, UserStepRows
<1>4. ASSUME NEW w \in Workers,
             WorkerStep(w) \/ ProcessExit(w) \/ Renew(w) \/ OrphanExit(w)
      PROVE  UNCHANGED <<inst, fresh>>
  <2>1. CASE \/ PrepareFails(w) \/ DriftDetected(w) \/ StartTask(w) \/ SkipValidation(w)
             \/ StartAgentRun(w) \/ StartProcess(w) \/ ProcessKilled(w) \/ ProcessExit(w)
             \/ ResultLost(w) \/ CheckpointDrift(w) \/ ReturnTaskPending(w)
             \/ ReturnTaskQueuedForRetry(w) \/ FinishTaskFailed(w) \/ FinishTaskIgnored(w)
             \/ FinishTask(w) \/ FinishTaskRefused(w)
    BY <2>1, WorkStep DEF instVars
  <2>2. CASE \/ CompleteJob(w) \/ DeferJobForWorkspace(w) \/ CancelJob(w) \/ FailJob(w)
             \/ BlockTaskJobForDrift(w) \/ SettleLost(w)
    BY <2>2, SettleStep DEF instVars
  <2>3. CASE \/ ClaimSelect(w) \/ ClaimLock(w) \/ MarkJobRunning(w) \/ ReleaseLeasedJob(w)
             \/ WorkerExit(w) \/ AcquireWorkspaceLease(w) \/ Unwind(w) \/ Renew(w)
             \/ OrphanExit(w)
    BY <2>3 DEF ClaimSelect, ClaimLock, MarkJobRunning, ReleaseLeasedJob, WorkerExit,
      AcquireWorkspaceLease, Unwind, Renew, OrphanExit, instVars
  <2> QED
    BY <1>4, <2>1, <2>2, <2>3 DEF WorkerStep
<1>5. CASE ClockStep
  <2>1. ASSUME NEW i \in Instances, InstanceStale(i)
        PROVE  UpOrCrashed'
    BY <2>1 DEF InstanceStale, Undisturbed, UpOrCrashed, workerVars
  <2>2. ASSUME NEW i \in Instances, HeartbeatRuntimeInstance(i)
        PROVE  UpOrCrashed'
    BY <2>2 DEF HeartbeatRuntimeInstance, UpOrCrashed, workerVars
  <2>3. ASSUME \/ \E j \in Jobs : ExpireJobLease(j)
               \/ \E r \in Projects : ExpireWorkspaceLease(r)
        PROVE  UpOrCrashed'
    BY <1>1, <2>3 DEF ExpireJobLease, ExpireWorkspaceLease, instVars
  <2> QED
    BY <1>5, <2>1, <2>2, <2>3 DEF ClockStep
<1>6. ASSUME NEW i \in Instances, BeginDraining(i) \/ ShutdownStep(i)
      PROVE  FALSE
  BY <1>6 DEF Undisturbed, UpOrCrashed, BeginDraining, ShutdownStep,
    ReconcileInstanceShutdown, CancelAll, StopPool, Exit
<1>7. ASSUME NEW i \in Instances, NEW r \in Projects, CancelPrefix(r, i)
      PROVE  UNCHANGED <<inst, fresh>>
  BY <1>7 DEF CancelPrefix
<1>8. ASSUME NEW i \in Instances, Crash(i)
      PROVE  UpOrCrashed'
  <2>1. \A w \in Workers : IF InstanceOf[w] = i THEN pc'[w] = "dead" ELSE pc'[w] = pc[w]
    BY <1>8 DEF Crash
  <2>2. inst' = [inst EXCEPT ![i] = "down"] /\ UNCHANGED fresh
    BY <1>8 DEF Crash
  <2> QED
    BY <2>1, <2>2 DEF UpOrCrashed
<1>9. ASSUME NEW i \in Instances, ReconcileRuntimeState(i)
      PROVE  UNCHANGED <<inst, fresh>>
  BY <1>9 DEF ReconcileRuntimeState, instVars
<1> QED
  BY <1>1, <1>2, <1>3, <1>4, <1>5, <1>6, <1>7, <1>8, <1>9 DEF Next

-----------------------------------------------------------------------------
(* The rows that workers stand for.                                        *)

\* ClaimJob gives the waiting job of worker w to it.
Claims(w) ==
  /\ wJob[w] \in Jobs /\ jobSt[wJob[w]] \in {"queued", "retry_wait"}
  /\ Owns(w, Live)' /\ leaseOk'[wJob[w]]

\* A worker comes by a job only by claiming it, and keeps a row that it owns
\* until the row is settled.
HandMove(w) ==
  InHand(w)' =>
    /\ wJob'[w] = wJob[w]
    /\ \/ Claims(w)
       \/ /\ InHand(w)
          /\ Owns(w, Live) =>
               \/ jobSt'[wJob[w]] \in JobTerminal
               \/ /\ jobSt'[wJob[w]] \in Live /\ jobWorker'[wJob[w]] = w
                  /\ pc'[w] # "dead" /\ leaseOk[wJob[w]] => leaseOk'[wJob[w]]

\* A worker comes by the lease of its workspace by taking it, and keeps it.
HoldMove(w) ==
  LET r == JobProject(wJob[w])
      next == wsJob'[r] = wJob[w] /\ wsWorker'[r] = w /\ wsOk'[r]
  IN
  pc'[w] \in Holding =>
    /\ wJob'[w] = wJob[w]
    /\ \/ pc[w] \in Holding /\ (HeldLease(w, r) /\ wsOk[r] => next)
       \/ pc[w] = "exec" /\ next

\* The task of a job never changes.
TaskKept == \A j \in Jobs : jobSt[j] # "none" => jobTask'[j] = jobTask[j]

HandMoves == TaskKept /\ \A w \in Workers : HandMove(w) /\ HoldMove(w)

LEMMA HandMovesKeepInv ==
  ASSUME HandInv, LeaseInv', RunPhase', UpOrCrashed', Moves, LeaseMoves, HandMoves
  PROVE  HandInv'
<1> USE DEF HandInv, LeaseInv
<1>1. \A w \in Workers : pc[w] = "dead" => pc'[w] = "dead"
  BY DEF LeaseMoves, HolderMove
<1>2. ASSUME NEW w \in Workers, InHand(w)'
      PROVE  /\ wJob'[w] \in Jobs /\ wJob'[w] = wJob[w]
             /\ jobSt'[wJob[w]] \in JobTerminal \/ Owns(w, Live)'
             /\ Claims(w) \/ InHand(w)
  <2>1. HandMove(w)
    BY DEF HandMoves
  <2>2. CASE Claims(w)
    BY <1>2, <2>1, <2>2 DEF HandMove, Claims
  <2>3. CASE InHand(w) /\ ~Claims(w)
    <3>1. /\ wJob[w] \in Jobs
          /\ jobSt[wJob[w]] \in JobTerminal \/ Owns(w, Live)
      BY <2>3 DEF RowOwned
    <3>2. jobSt[wJob[w]] \in JobTerminal => jobSt'[wJob[w]] \in JobTerminal
      BY <3>1 DEF Moves, JobMove
    <3> QED
      BY <1>2, <2>1, <2>3, <3>1, <3>2 DEF HandMove, Owns
  <2> QED
    BY <1>2, <2>1, <2>2, <2>3 DEF HandMove
<1>3. RowOwned'
  BY <1>2 DEF RowOwned
<1>4. OneHand'
  <2> SUFFICES ASSUME NEW v \in Workers, NEW w \in Workers,
                      InHand(v)', InHand(w)', wJob'[v] = wJob'[w], v # w
               PROVE  FALSE
    BY DEF OneHand
  <2>1. wJob[v] = wJob[w]
    BY <1>2
  <2>2. ~(InHand(v) /\ InHand(w))
    BY <2>1 DEF OneHand
  <2>3. ASSUME NEW x \in Workers, NEW y \in Workers, Claims(x), wJob[y] = wJob[x], InHand(y)
        PROVE  FALSE
    BY <2>3 DEF RowOwned, Claims, Owns, Live, JobTerminal
  <2>4. ~(Claims(v) /\ Claims(w))
    BY <1>2, <2>1 DEF Claims, Owns
  <2> QED
    BY <1>2, <2>1, <2>2, <2>3, <2>4
<1>5. LeaseCurrent'
  <2> SUFFICES ASSUME NEW w \in Workers, pc'[w] \in AtWork, Owns(w, Live)'
               PROVE  leaseOk'[wJob'[w]]
    BY DEF LeaseCurrent
  <2>1. InHand(w)' /\ HandMove(w) /\ pc[w] # "dead" /\ pc'[w] # "dead"
    BY <1>1 DEF InHand, HandMoves, AtWork, Executing
  <2>2. CASE Claims(w)
    BY <2>1, <2>2 DEF HandMove, Claims
  <2>3. CASE ~Claims(w)
    <3>1. wJob[w] \in Jobs /\ InHand(w) /\ pc[w] \in AtWork /\ wJob'[w] = wJob[w]
      BY <2>1, <2>3 DEF HandMove, InHand, RowOwned
    <3>2. jobSt'[wJob[w]] \in Live
      BY <3>1 DEF Owns
    <3>3. jobSt[wJob[w]] \notin JobTerminal
      BY <3>1, <3>2 DEF Moves, JobMove, Live, JobTerminal
    <3>4. Owns(w, Live) /\ leaseOk[wJob[w]]
      BY <3>1, <3>3 DEF RowOwned, LeaseCurrent
    <3> QED
      BY <2>1, <2>3, <3>1, <3>2, <3>4 DEF HandMove, Live, JobTerminal
  <2> QED
    BY <2>2, <2>3
<1>6. HoldersHold'
  <2> SUFFICES ASSUME NEW w \in Workers, pc'[w] \in Holding
               PROVE  HeldLease(w, JobProject(wJob[w]))' /\ wsOk'[JobProject(wJob[w])']
    BY DEF HoldersHold
  <2>1. HoldMove(w) /\ wJob'[w] = wJob[w] /\ pc[w] \in Holding \cup {"exec"}
    BY DEF HandMoves, HoldMove
  <2>2. wJob[w] \in Jobs /\ jobSt[wJob[w]] # "none"
    BY <2>1 DEF TypeInv, References, Busy, Holding
  <2>3. JobProject(wJob[w])' = JobProject(wJob[w])
    BY <2>1, <2>2 DEF JobProject, HandMoves, TaskKept
  <2>4. pc[w] \in Holding => HeldLease(w, JobProject(wJob[w])) /\ wsOk[JobProject(wJob[w])]
    BY DEF HoldersHold
  <2> QED
    BY <2>1, <2>3, <2>4 DEF HoldMove, HeldLease
<1> QED
  BY <1>3, <1>4, <1>5, <1>6

\* Steps that leave the place of every worker, its lease and the rows in
\* flight alone.
LEMMA HandsAlone ==
  ASSUME HandInv, UNCHANGED <<pc, wJob, wsVars>>, TaskKept,
         \A w \in Workers : runSt'[w] \in {runSt[w], "none"},
         \A w \in Workers : LET j == wJob[w] IN
           InHand(w) /\ Owns(w, Live) =>
             \/ jobSt'[j] \in JobTerminal
             \/ /\ jobSt'[j] = jobSt[j] /\ jobWorker'[j] = jobWorker[j]
                /\ pc[w] # "dead" /\ leaseOk[j] => leaseOk'[j]
  PROVE  HandMoves
<1>1. \A w \in Workers : InHand(w)' => InHand(w)
  BY DEF InHand
<1> QED
  BY <1>1 DEF HandMoves, HandMove, HoldMove, HeldLease, Owns, wsVars

\* The steps of a worker.
LEMMA WorkerHandMoves ==
  ASSUME HandInv, Undisturbed, NEW w \in Workers,
         WorkerStep(w) \/ ProcessExit(w) \/ Renew(w) \/ OrphanExit(w)
  PROVE  HandMoves
<1> USE DEF HandInv, LeaseInv
<1>0. \A v \in Workers : InHand(v) => /\ wJob[v] \in Jobs
                                      /\ Owns(v, Live) => jobSt[wJob[v]] # "none"
  BY DEF RowOwned, Owns, Live
<1>1. CASE \/ PrepareFails(w) \/ DriftDetected(w) \/ StartTask(w) \/ SkipValidation(w)
           \/ StartAgentRun(w) \/ StartProcess(w) \/ ProcessKilled(w) \/ ProcessExit(w)
           \/ ResultLost(w) \/ CheckpointDrift(w) \/ ReturnTaskPending(w)
           \/ ReturnTaskQueuedForRetry(w) \/ FinishTaskFailed(w) \/ FinishTaskIgnored(w)
           \/ FinishTask(w) \/ FinishTaskRefused(w)
  <2>1. /\ pc[w] \in Holding
        /\ \E x \in Holding : pc' = [pc EXCEPT ![w] = x]
        /\ UNCHANGED <<wJob, wsVars>>
        /\ \A j \in Jobs : jobSt[j] # "none" => SameRow(j)
        /\ \A v \in Workers \ {w} : runSt'[v] = runSt[v]
    BY <1>1, WorkStep
  <2>2. /\ pc'[w] \in Holding
        /\ \A v \in Workers \ {w} : pc'[v] = pc[v]
    BY <2>1 DEF TypeInv, TypeOK, WorkerTypes
  <2>3. TaskKept
    BY <2>1 DEF TaskKept, SameRow
  <2>4. \A v \in Workers : HandMove(v)
    <3>1. \A v \in Workers : InHand(v)' => InHand(v)
      BY <2>1, <2>2 DEF InHand, AtWork, Executing, Holding
    <3> QED
      BY <1>0, <2>1, <3>1 DEF HandMove, SameRow, Owns
  <2>5. \A v \in Workers : HoldMove(v)
    BY <2>1, <2>2 DEF HoldMove, HeldLease, wsVars
  <2> QED
    BY <2>3, <2>4, <2>5 DEF HandMoves
<1>2. CASE \/ CompleteJob(w) \/ DeferJobForWorkspace(w) \/ CancelJob(w) \/ FailJob(w)
           \/ BlockTaskJobForDrift(w) \/ SettleLost(w)
  <2>1. /\ pc[w] = "settle" /\ pc' = [pc EXCEPT ![w] = "idle"]
        /\ wJob' = [wJob EXCEPT ![w] = None]
        /\ UNCHANGED <<wsVars, runSt, jobTask>>
        /\ \A j \in Jobs : SameRow(j) \/ (j = wJob[w] /\ Owns(w, Live))
    BY <1>2, SettleStep
  <2>2. /\ pc'[w] = "idle"
        /\ \A v \in Workers \ {w} : pc'[v] = pc[v] /\ wJob'[v] = wJob[v]
    BY <2>1 DEF TypeInv, TypeOK, WorkerTypes
  <2>3. \A v \in Workers : HandMove(v)
    <3>1. ~InHand(w)'
      BY <2>2 DEF InHand, AtWork, Executing
    <3>2. \A v \in Workers \ {w} : InHand(v)' => InHand(v) /\ wJob'[v] = wJob[v]
      BY <2>1, <2>2 DEF InHand
    <3>3. \A v \in Workers \ {w} : InHand(v) /\ Owns(v, Live) => SameRow(wJob[v])
      BY <1>0, <2>1 DEF Owns
    <3> QED
      BY <3>1, <3>2, <3>3 DEF HandMove, SameRow, Owns
  <2>4. \A v \in Workers : HoldMove(v)
    BY <2>1, <2>2 DEF HoldMove, HeldLease, wsVars, Holding
  <2> QED
    BY <2>1, <2>3, <2>4 DEF HandMoves, TaskKept
<1>3. CASE ClaimSelect(w)
  <2>1. /\ \A v \in Workers \ {w} : pc'[v] = pc[v] /\ wJob'[v] = wJob[v]
        /\ pc'[w] = "claim" /\ UNCHANGED <<runSt, jobVars, wsVars>>
    BY <1>3 DEF ClaimSelect, TypeInv, TypeOK, WorkerTypes
  <2>2. \A v \in Workers : HandMove(v)
    BY <2>1 DEF HandMove, InHand, AtWork, Executing, Owns, jobVars
  <2>3. \A v \in Workers : HoldMove(v)
    BY <2>1 DEF HoldMove, HeldLease, wsVars, Holding
  <2> QED
    BY <2>1, <2>2, <2>3 DEF HandMoves, TaskKept, jobVars
<1>4. CASE ClaimLock(w) \/ MarkJobRunning(w)
  <2> DEFINE j == wJob[w]
  <2>1. j \in Jobs /\ pc[w] \in {"claim", "leased"}
    BY <1>4 DEF TypeInv, References, Busy, ClaimLock, MarkJobRunning
  <2>2. \/ /\ pc'[w] = "idle" /\ UNCHANGED jobVars
        \/ /\ pc'[w] = "leased" /\ jobSt[j] \in {"queued", "retry_wait"} /\ wJob'[w] = j
           /\ jobSt' = [jobSt EXCEPT ![j] = "leased"]
           /\ jobWorker' = [jobWorker EXCEPT ![j] = w]
           /\ leaseOk' = [leaseOk EXCEPT ![j] = TRUE]
        \/ /\ pc'[w] = "exec" /\ pc[w] = "leased" /\ wJob'[w] = j
           /\ Owns(w, {"leased"})
           /\ jobSt' = [jobSt EXCEPT ![j] = "running"]
           /\ UNCHANGED <<jobWorker, leaseOk>>
    BY <1>4 DEF ClaimLock, MarkJobRunning, TypeInv, TypeOK, WorkerTypes, jobVars
  <2>3. /\ \A v \in Workers \ {w} : pc'[v] = pc[v] /\ wJob'[v] = wJob[v]
        /\ UNCHANGED <<runSt, jobTask, wsVars>>
    BY <1>4 DEF ClaimLock, MarkJobRunning, TypeInv, TypeOK, WorkerTypes, jobVars
  <2> HIDE DEF j
  <2>4. \A v \in Workers \ {w} : HandMove(v)
    <3>1. \A v \in Workers \ {w} : InHand(v)' => InHand(v) /\ wJob'[v] = wJob[v]
      BY <2>3 DEF InHand
    <3>2. \A k \in Jobs : \/ jobSt'[k] = jobSt[k] /\ jobWorker'[k] = jobWorker[k]
                             /\ leaseOk'[k] = leaseOk[k]
                          \/ k = j /\ (jobSt[j] \in {"queued", "retry_wait"} \/ jobWorker[j] = w)
      BY <2>1, <2>2 DEF TypeInv, TypeOK, JobTypes, Owns, jobVars, j
    <3>3. \A v \in Workers \ {w} : InHand(v) /\ Owns(v, Live) =>
             LET k == wJob[v] IN jobSt'[k] = jobSt[k] /\ jobWorker'[k] = jobWorker[k]
                                 /\ leaseOk'[k] = leaseOk[k]
      BY <1>0, <3>2 DEF Owns, Live
    <3> QED
      BY <3>1, <3>3 DEF HandMove, Owns
  <2>5. HandMove(w)
    <3>1. CASE pc'[w] = "idle"
      BY <3>1 DEF HandMove, InHand, AtWork, Executing
    <3>2. CASE /\ pc'[w] = "leased" /\ jobSt[j] \in {"queued", "retry_wait"} /\ wJob'[w] = j
               /\ jobSt' = [jobSt EXCEPT ![j] = "leased"]
               /\ jobWorker' = [jobWorker EXCEPT ![j] = w]
               /\ leaseOk' = [leaseOk EXCEPT ![j] = TRUE]
      <4>1. jobSt'[j] = "leased" /\ jobWorker'[j] = w /\ leaseOk'[j]
        BY <2>1, <3>2 DEF TypeInv, TypeOK, JobTypes
      <4> QED
        BY <2>1, <3>2, <4>1 DEF HandMove, Claims, Owns, Live, j
    <3>3. CASE /\ pc'[w] = "exec" /\ pc[w] = "leased" /\ wJob'[w] = j
               /\ Owns(w, {"leased"})
               /\ jobSt' = [jobSt EXCEPT ![j] = "running"]
               /\ UNCHANGED <<jobWorker, leaseOk>>
      <4>1. jobSt'[j] = "running" /\ jobWorker'[j] = w /\ leaseOk'[j] = leaseOk[j]
        BY <2>1, <3>3 DEF TypeInv, TypeOK, JobTypes, Owns, j
      <4> QED
        BY <3>3, <4>1 DEF HandMove, InHand, AtWork, Live, j
    <3> QED
      BY <2>2, <3>1, <3>2, <3>3
  <2>6. \A v \in Workers : HoldMove(v)
    BY <2>2, <2>3 DEF HoldMove, HeldLease, wsVars, Holding
  <2> QED
    BY <2>3, <2>4, <2>5, <2>6 DEF HandMoves, TaskKept
<1>5. CASE ReleaseLeasedJob(w) \/ WorkerExit(w)
  BY <1>5, RowAssumption DEF ReleaseLeasedJob, WorkerExit, UpOrCrashed
<1>6. CASE AcquireWorkspaceLease(w)
  <2> DEFINE s == JobProject(wJob[w])
  <2>1. /\ pc[w] = "exec" /\ wJob[w] \in Jobs /\ s \in Projects
        /\ \A v \in Workers \ {w} : pc'[v] = pc[v]
        /\ pc'[w] \in {"settle", "owns"} /\ UNCHANGED <<wJob, runSt, jobVars>>
    <3>1. pc[w] = "exec"
      BY <1>6 DEF AcquireWorkspaceLease
    <3>2. wJob[w] \in Jobs /\ s \in Projects
      BY <3>1, RowAssumption DEF TypeInv, References, Busy, JobProject
    <3> QED
      BY <1>6, <3>1, <3>2 DEF AcquireWorkspaceLease, TypeInv, TypeOK, WorkerTypes
  <2>2. \/ UNCHANGED wsVars /\ pc'[w] = "settle"
        \/ /\ LeaseFree(w, s)
           /\ wsJob' = [wsJob EXCEPT ![s] = wJob[w]]
           /\ wsWorker' = [wsWorker EXCEPT ![s] = w]
           /\ wsOk' = [wsOk EXCEPT ![s] = TRUE]
    BY <1>6 DEF AcquireWorkspaceLease, TypeInv, TypeOK, WorkerTypes
  <2>3. \A v \in Workers : HandMove(v)
    <3>1. InHand(w) /\ \A v \in Workers : InHand(v)' => InHand(v)
      BY <2>1 DEF InHand, AtWork, Executing
    <3> QED
      BY <2>1, <3>1 DEF HandMove, Owns, jobVars
  <2>4. HoldMove(w)
    BY <2>1, <2>2 DEF HoldMove, Holding, TypeInv, TypeOK, LeaseTypes
  <2>5. ASSUME NEW v \in Workers \ {w}
        PROVE  HoldMove(v)
    <3> SUFFICES ASSUME pc[v] \in Holding
                 PROVE  HoldMove(v)
      BY <2>1 DEF HoldMove
    <3> DEFINE r == JobProject(wJob[v])
    <3>1. /\ HeldLease(v, r) /\ wsOk[r]
          /\ InHand(v) /\ InHand(w) /\ wJob[v] \in Jobs
      BY <2>1 DEF HoldersHold, InHand, AtWork, Executing, Holding, RowOwned
    <3>2. wJob[v] # wJob[w] /\ wJob[v] # None
      BY <3>1, RowAssumption DEF OneHand
    <3>3. r = s => ~LeaseFree(w, s)
      BY <3>1, <3>2 DEF LeaseFree, HeldLease
    <3>4. r \in Projects
      BY RowAssumption DEF TypeInv, References, Busy, JobProject, Holding
    <3> HIDE DEF r, s
    <3>5. wsJob'[r] = wsJob[r] /\ wsWorker'[r] = wsWorker[r] /\ wsOk'[r] = wsOk[r]
      BY <2>2, <3>3, <3>4 DEF TypeInv, TypeOK, LeaseTypes, wsVars
    <3> QED
      BY <2>1, <3>1, <3>5 DEF HoldMove, HeldLease, r
  <2> QED
    BY <2>1, <2>3, <2>4, <2>5 DEF HandMoves, TaskKept, jobVars
<1>7. CASE Unwind(w)
  <2>1. /\ pc[w] = "unwind" /\ pc' = [pc EXCEPT ![w] = "settle"]
        /\ UNCHANGED <<wJob, jobVars>>
        /\ wsJob' = [r \in Projects |-> IF HeldLease(w, r) THEN None ELSE wsJob[r]]
        /\ wsWorker' = [r \in Projects |-> IF HeldLease(w, r) THEN None ELSE wsWorker[r]]
        /\ wsOk' = [r \in Projects |-> wsOk[r] /\ ~HeldLease(w, r)]
        /\ runSt' = [runSt EXCEPT ![w] = "none"]
    BY <1>7 DEF Unwind
  <2>2. /\ pc'[w] = "settle" /\ \A v \in Workers \ {w} : pc'[v] = pc[v] /\ runSt'[v] = runSt[v]
    BY <2>1 DEF TypeInv, TypeOK, WorkerTypes
  <2>3. \A v \in Workers : HandMove(v)
    <3>1. \A v \in Workers : InHand(v)' => InHand(v)
      BY <2>1, <2>2 DEF InHand, AtWork, Executing
    <3> QED
      BY <2>1, <3>1 DEF HandMove, Owns, jobVars
  <2>4. ASSUME NEW v \in Workers, pc'[v] \in Holding
        PROVE  HoldMove(v)
    <3> DEFINE r == JobProject(wJob[v])
    <3>1. v # w /\ pc[v] \in Holding
      BY <2>2, <2>4 DEF Holding
    <3>2. r \in Projects
      BY <3>1, RowAssumption DEF TypeInv, References, Busy, JobProject, Holding
    <3>3. HeldLease(v, r) => ~HeldLease(w, r)
      BY <3>1 DEF HeldLease
    <3> HIDE DEF r
    <3>4. HeldLease(v, r) /\ wsOk[r] => wsJob'[r] = wJob[v] /\ wsWorker'[r] = v /\ wsOk'[r]
      BY <2>1, <3>2, <3>3 DEF HeldLease
    <3> QED
      BY <2>1, <3>1, <3>4 DEF HoldMove, r
  <2> QED
    BY <2>1, <2>3, <2>4 DEF HandMoves, TaskKept, HoldMove, jobVars
<1>8. CASE Renew(w) \/ OrphanExit(w)
  <2>1. UNCHANGED <<pc, wJob, wsVars, runSt, jobSt, jobTask, jobWorker>>
    BY <1>8 DEF Renew, OrphanExit, jobVars
  <2>2. \A j \in Jobs : leaseOk[j] => leaseOk'[j]
    BY <1>8 DEF Renew, OrphanExit, jobVars, TypeInv, TypeOK, JobTypes
  <2>3. TaskKept
    BY <2>1 DEF TaskKept
  <2> QED
    BY <1>0, <2>1, <2>2, <2>3, HandsAlone
<1> QED
  BY <1>1, <1>2, <1>3, <1>4, <1>5, <1>6, <1>7, <1>8 DEF WorkerStep

\* A recovery pass never takes the job of a live worker for lost.
LEMMA NotLost ==
  ASSUME HandInv, NEW i \in Instances, NEW pick \in [LiveJobs -> Workers \cup {None}],
         NEW skip,
         \A j \in LiveJobs : IF RunsOf(j) = {} THEN pick[j] = None ELSE pick[j] \in RunsOf(j),
         NEW w \in Workers, pc[w] \in AtWork
  PROVE  wJob[w] \notin LostJobs(i, pick, skip)
<1> SUFFICES ASSUME wJob[w] \in LostJobs(i, pick, skip) PROVE FALSE
  OBVIOUS
<1> USE DEF HandInv
<1> DEFINE j == wJob[w]
<1>1. /\ j \in LiveJobs /\ j \in Jobs /\ InHand(w)
      /\ ~RecoveryCandidateActive(j, pick[j], i)
  BY DEF LostJobs, LiveJobs, InHand
<1>2. jobWorker[j] = w /\ leaseOk[j]
  <2>1. Owns(w, Live)
    BY <1>1 DEF RowOwned, LiveJobs, JobTerminal
  <2> QED
    BY <2>1 DEF Owns, LeaseCurrent
<1>3. fresh[InstanceOf[w]]
  BY RowAssumption DEF UpOrCrashed, AtWork, Executing
<1>4. CASE RunsOf(j) = {}
  BY <1>1, <1>2, <1>3, <1>4 DEF RecoveryCandidateActive
<1>5. CASE RunsOf(j) # {}
  <2>1. pick[j] \in Workers /\ wJob[pick[j]] = j /\ runSt[pick[j]] # "none"
    BY <1>1, <1>5 DEF RunsOf
  <2>2. InHand(pick[j])
    BY <2>1 DEF RunPhase, InHand, AtWork, Executing
  <2>3. pick[j] = w
    BY <1>1, <2>1, <2>2 DEF OneHand
  <2> QED
    BY <1>1, <1>3, <2>1, <2>3, RowAssumption DEF RecoveryCandidateActive
<1> QED
  BY <1>4, <1>5

\* So it takes neither its job nor its lease away.
LEMMA RecoveryHandMoves ==
  ASSUME HandInv, Undisturbed, NEW i \in Instances, ReconcileRuntimeState(i)
  PROVE  HandMoves
<1> USE DEF HandInv, LeaseInv
<1>1. PICK pick \in [LiveJobs -> Workers \cup {None}], skip \in SUBSET LiveJobs :
        LET lost == LostJobs(i, pick, skip)
            unstarted == {j \in lost : Unstarted(j, pick[j])}
            converged == lost \ unstarted
        IN
        /\ \A j \in LiveJobs : IF RunsOf(j) = {} THEN pick[j] = None ELSE pick[j] \in RunsOf(j)
        /\ ConvergeLostJobs(pick, unstarted, converged)
        /\ ReleaseRecovered(i, pick, converged)
  BY DEF ReconcileRuntimeState
<1> DEFINE lost == LostJobs(i, pick, skip)
           unstarted == {j \in lost : Unstarted(j, pick[j])}
           converged == lost \ unstarted
<1>2. /\ lost \subseteq LiveJobs /\ lost \subseteq Jobs
      /\ \A j \in lost : ~RecoveryCandidateActive(j, pick[j], i)
  BY DEF LostJobs, LiveJobs
<1>3. /\ \A j \in Jobs : j \notin lost => /\ jobSt'[j] = jobSt[j]
                                          /\ jobWorker'[j] = jobWorker[j]
                                          /\ leaseOk'[j] = leaseOk[j]
      /\ \A j \in converged : jobSt'[j] \in JobTerminal
      /\ UNCHANGED jobTask
  BY <1>1, <1>2 DEF ConvergeLostJobs, JobTerminal, TypeInv, TypeOK, JobTypes
<1>4. /\ UNCHANGED <<pc, wJob>>
      /\ \A w \in Workers : runSt'[w] \in {runSt[w], "none"}
      /\ \A r \in Projects : wsOk[r] /\ wsJob[r] \notin converged =>
            wsJob'[r] = wsJob[r] /\ wsWorker'[r] = wsWorker[r] /\ wsOk'[r]
  BY <1>1 DEF ReleaseRecovered
<1>5. \A w \in Workers : wJob[w] \in lost /\ runSt[w] # "none"
                           => wJob[w] \in converged /\ pick[wJob[w]] \in RunsOf(wJob[w])
  <2> SUFFICES ASSUME NEW w \in Workers, wJob[w] \in lost, runSt[w] # "none"
               PROVE  wJob[w] \in converged /\ pick[wJob[w]] \in RunsOf(wJob[w])
    OBVIOUS
  <2>1. w \in RunsOf(wJob[w])
    BY DEF RunsOf
  <2>2. pick[wJob[w]] \in RunsOf(wJob[w])
    BY <1>1, <1>2, <2>1
  <2>3. pick[wJob[w]] # None
    BY <2>2, RowAssumption DEF RunsOf
  <2> QED
    BY <2>2, <2>3 DEF Unstarted
<1>6. \A w \in Workers : pc[w] \in AtWork => wJob[w] \notin lost
  BY <1>1, NotLost
<1> HIDE DEF lost, unstarted, converged
<1>7. \A w \in Workers : HandMove(w)
  <2> SUFFICES ASSUME NEW w \in Workers, InHand(w)' PROVE HandMove(w)
    BY DEF HandMove
  <2>1. InHand(w) /\ wJob'[w] = wJob[w] /\ wJob[w] \in Jobs
    BY <1>4 DEF InHand, RowOwned
  <2>2. CASE pc[w] \in AtWork
    BY <1>3, <1>6, <2>1, <2>2 DEF HandMove, Owns
  <2>3. CASE pc[w] = "dead" /\ runSt[w] # "none"
    <3>1. CASE wJob[w] \in lost
      BY <1>3, <1>5, <2>1, <2>3, <3>1 DEF HandMove
    <3>2. CASE wJob[w] \notin lost
      BY <1>3, <2>1, <3>2 DEF HandMove, Owns
    <3> QED
      BY <3>1, <3>2
  <2> QED
    BY <2>1, <2>2, <2>3 DEF InHand
<1>8. ASSUME NEW w \in Workers, pc[w] \in Holding
      PROVE  HoldMove(w)
  <2> DEFINE r == JobProject(wJob[w])
  <2>1. r \in Projects
    BY <1>8, RowAssumption DEF TypeInv, References, Busy, JobProject, Holding
  <2>2. HeldLease(w, r) => wsJob[r] \notin converged
    <3>1. wJob[w] \notin lost
      BY <1>6, <1>8 DEF Holding, AtWork, Executing
    <3> QED
      BY <3>1 DEF HeldLease, converged
  <2> HIDE DEF r
  <2>3. HeldLease(w, r) /\ wsOk[r] => wsJob'[r] = wJob[w] /\ wsWorker'[r] = w /\ wsOk'[r]
    BY <1>4, <2>1, <2>2 DEF HeldLease
  <2> QED
    BY <1>4, <1>8, <2>3 DEF HoldMove, r
<1> QED
  BY <1>3, <1>4, <1>7, <1>8 DEF HandMoves, HoldMove, TaskKept

LEMMA NextHandMoves == Undisturbed /\ HandInv /\ [Next]_vars => HandMoves
<1> SUFFICES ASSUME Undisturbed, HandInv, [Next]_vars PROVE HandMoves
  OBVIOUS
<1> USE DEF HandInv, LeaseInv
<1>0. \A v \in Workers : InHand(v) => wJob[v] \in Jobs
  BY DEF RowOwned
<1>1. ASSUME UNCHANGED <<pc, wJob, wsVars, runSt, jobVars>>
      PROVE  HandMoves
  <2>1. TaskKept
    BY <1>1 DEF TaskKept, jobVars
  <2> QED
    BY <1>1, <2>1, HandsAlone DEF jobVars
<1>2. CASE UNCHANGED vars
  BY <1>1, <1>2 DEF vars, workerVars
<1>3. CASE UserStep
  <2>1. /\ UNCHANGED <<pc, wJob, wsVars>>
        /\ \A w \in Workers : runSt'[w] \in {runSt[w], "none"}
        /\ \A j \in Jobs : jobSt[j] # "none" => /\ jobTask'[j] = jobTask[j]
                                                /\ SameRow(j) \/ jobSt'[j] = "cancelled"
    BY <1>3, UserStepRows
  <2>2. \A w \in Workers : InHand(w) /\ Owns(w, Live) => jobSt[wJob[w]] # "none"
    BY DEF Owns, Live
  <2>3. TaskKept
    BY <2>1 DEF TaskKept
  <2> QED
    BY <1>0, <2>1, <2>2, <2>3, HandsAlone DEF SameRow, JobTerminal
<1>4. ASSUME NEW w \in Workers,
             WorkerStep(w) \/ ProcessExit(w) \/ Renew(w) \/ OrphanExit(w)
      PROVE  HandMoves
  BY <1>4, WorkerHandMoves
<1>5. CASE ClockStep
  <2>1. ASSUME NEW i \in Instances, InstanceStale(i) \/ HeartbeatRuntimeInstance(i)
        PROVE  HandMoves
    BY <1>1, <2>1 DEF InstanceStale, HeartbeatRuntimeInstance, workerVars
  <2>2. ASSUME NEW k \in Jobs, ExpireJobLease(k)
        PROVE  HandMoves
    <3>1. UNCHANGED <<pc, wJob, wsVars, runSt, jobSt, jobTask, jobWorker>>
      BY <2>2 DEF ExpireJobLease, workerVars
    <3>2. \A j \in Jobs : leaseOk[j] => leaseOk'[j] \/ j = k
      BY <2>2 DEF ExpireJobLease, TypeInv, TypeOK, JobTypes
    <3>3. ASSUME NEW w \in Workers, InHand(w), Owns(w, Live), pc[w] # "dead"
          PROVE  wJob[w] # k
      <4>1. inst[InstanceOf[w]] # "down" /\ "stall" \notin Env
        BY <3>3, RowAssumption DEF UpOrCrashed, Undisturbed
      <4> QED
        BY <2>2, <3>3, <4>1 DEF ExpireJobLease, Silent, Owns
    <3>4. TaskKept
      BY <3>1 DEF TaskKept
    <3> QED
      BY <1>0, <3>1, <3>2, <3>3, <3>4, HandsAlone
  <2>3. ASSUME NEW s \in Projects, ExpireWorkspaceLease(s)
        PROVE  HandMoves
    <3>1. UNCHANGED <<pc, wJob, wsJob, wsWorker, runSt, jobVars>>
      BY <2>3 DEF ExpireWorkspaceLease, workerVars
    <3>2. \A w \in Workers : HandMove(w)
      BY <3>1 DEF HandMove, InHand, Owns, jobVars
    <3>3. ASSUME NEW w \in Workers, pc[w] \in Holding
          PROVE  HoldMove(w)
      <4> DEFINE r == JobProject(wJob[w])
      <4>1. inst[InstanceOf[w]] # "down" /\ "stall" \notin Env
        BY <3>3, RowAssumption DEF UpOrCrashed, Undisturbed, Holding
      <4>2. HeldLease(w, r) => r # s
        BY <2>3, <4>1 DEF ExpireWorkspaceLease, Silent, HeldLease
      <4>3. HeldLease(w, r) /\ wsOk[r] => wsOk'[r]
        BY <2>3, <4>2 DEF ExpireWorkspaceLease, TypeInv, TypeOK, LeaseTypes
      <4> QED
        BY <3>1, <3>3, <4>3 DEF HoldMove, HeldLease
    <3> QED
      BY <3>1, <3>2, <3>3 DEF HandMoves, TaskKept, HoldMove, jobVars
  <2> QED
    BY <1>5, <2>1, <2>2, <2>3 DEF ClockStep
<1>6. ASSUME NEW i \in Instances, BeginDraining(i) \/ ShutdownStep(i)
      PROVE  HandMoves
  BY <1>6 DEF Undisturbed, UpOrCrashed, BeginDraining, ShutdownStep,
    ReconcileInstanceShutdown, CancelAll, StopPool, Exit
<1>7. ASSUME NEW i \in Instances, NEW r \in Projects, CancelPrefix(r, i)
      PROVE  HandMoves
  BY <1>1, <1>7 DEF CancelPrefix
<1>8. ASSUME NEW i \in Instances, Crash(i)
      PROVE  HandMoves
  <2>1. \A w \in Workers : \/ pc'[w] = pc[w] /\ wJob'[w] = wJob[w]
                           \/ /\ pc'[w] = "dead"
                              /\ runSt[w] # "none" => wJob'[w] = wJob[w]
    BY <1>8 DEF Crash
  <2>2. UNCHANGED <<jobVars, wsVars, runSt>>
    BY <1>8 DEF Crash
  <2>3. \A w \in Workers : InHand(w)' => InHand(w) /\ wJob'[w] = wJob[w]
    BY <2>1, <2>2 DEF InHand, RunPhase, AtWork, Executing
  <2>4. \A w \in Workers : HandMove(w)
    BY <2>2, <2>3 DEF HandMove, Owns, jobVars
  <2>5. \A w \in Workers : HoldMove(w)
    BY <2>1, <2>2 DEF HoldMove, HeldLease, wsVars, Holding
  <2> QED
    BY <2>2, <2>4, <2>5 DEF HandMoves, TaskKept, jobVars
<1>9. ASSUME NEW i \in Instances, ReconcileRuntimeState(i)
      PROVE  HandMoves
  BY <1>9, RecoveryHandMoves
<1> QED
  BY <1>2, <1>3, <1>4, <1>5, <1>6, <1>7, <1>8, <1>9 DEF Next

-----------------------------------------------------------------------------
LEMMA InitHandInv == Init => HandInv
<1> SUFFICES ASSUME Init PROVE HandInv
  OBVIOUS
<1>1. LeaseInv
  BY InitTyped DEF Init, LeaseInv, LeaseNamed, NoLeakedLease
<1>2. \A w \in Workers : ~InHand(w) /\ pc[w] = "idle"
  BY DEF Init, InHand, AtWork, Executing
<1>3. RunPhase /\ UpOrCrashed
  BY RowAssumption DEF Init, RunPhase, UpOrCrashed
<1> QED
  BY <1>1, <1>2, <1>3 DEF HandInv, RowOwned, OneHand, LeaseCurrent, HoldersHold, AtWork,
    Executing, Holding

LEMMA NextHandInv == Undisturbed /\ HandInv /\ [Next]_vars => HandInv'
<1> SUFFICES ASSUME Undisturbed, HandInv, [Next]_vars PROVE HandInv'
  OBVIOUS
<1>1. LeaseInv /\ TypeInv /\ RunPhase /\ UpOrCrashed
  BY DEF HandInv, LeaseInv
<1>2. LeaseMoves /\ TypeInv' /\ Moves
  BY <1>1, NextLeaseMoves, NextTyped, NextMoves
<1>3. LeaseInv'
  BY <1>1, <1>2, LeaseMovesKeepInv
<1>4. RunPhase' /\ UpOrCrashed'
  BY <1>1, NextRunPhase, NextUpOrCrashed
<1> QED
  BY <1>2, <1>3, <1>4, NextHandMoves, HandMovesKeepInv

\* No two CLIs of live backends ever run in the workspace of one project,
\* although a job may be cancelled under its CLI and the next job of the
\* project claimed at once, transactions may fail and instances may crash:
\* a CLI runs only between AcquireWorkspaceLease and its release, the lease
\* is the worker's for all of that time, and recovery takes neither the lease
\* nor the job of a worker whose instance heartbeats.
THEOREM OneCLIPerWorkspace ==
  ASSUME Undisturbed
  PROVE  Spec => []WorkspaceExclusive
<1>1. Init => HandInv
  BY InitHandInv
<1>2. HandInv /\ [Next]_vars => HandInv'
  BY NextHandInv
<1>3. HandInv => WorkspaceExclusive
  <2> SUFFICES ASSUME HandInv, NEW v \in Workers, NEW w \in Workers,
                      Attended(v), Attended(w), JobProject(wJob[v]) = JobProject(wJob[w])
               PROVE  v = w
    BY DEF WorkspaceExclusive
  <2>1. pc[v] \in Holding /\ pc[w] \in Holding
    BY DEF Attended, HandInv, RunPhase, Holding
  <2> QED
    BY <2>1 DEF HandInv, HoldersHold, HeldLease
<1> QED
  BY <1>1, <1>2, <1>3, PTL DEF Spec
=============================================================================
