-------------------------- MODULE ExecutionJobProofs --------------------------
(***************************************************************************)
(* Jobs in flight and running tasks of Execution: a job that keeps its     *)
(* project waiting is in somebody's hands, and a task shown as running has *)
(* a job.                                                                  *)
(***************************************************************************)
EXTENDS ExecutionLeaseProofs

-----------------------------------------------------------------------------
(* The worker of a job in flight.                                          *)

\* An instance in one of these phases never works on a job again.
Ending == {"stopping", "down"}

\* The status of a row that a worker owns tells how far the worker is.
RowPhase ==
  \A w \in Workers :
    pc[w] \in AtWork /\ Owns(w, Live) =>
      jobSt[wJob[w]] = IF pc[w] = "leased" THEN "leased" ELSE "running"

\* A job in flight is with the worker it names, or that worker's instance has
\* stopped its pool or is gone.
JobsAttended ==
  \A j \in Jobs : jobSt[j] \in Live =>
    /\ jobWorker[j] \in Workers
    /\ \/ wJob[jobWorker[j]] = j /\ pc[jobWorker[j]] \in AtWork
       \/ inst[InstanceOf[jobWorker[j]]] \in Ending

AttendedInv == AttemptInv /\ RowPhase /\ JobsAttended

\* What one step may do to worker w: it comes by a job only by claiming it,
\* and turns away from a row that it owns only when it has settled it or its
\* pool has stopped.
FlightMove(w) ==
  /\ pc'[w] \in AtWork =>
       /\ wJob'[w] = wJob[w]
       /\ \/ pc[w] \in AtWork /\ (pc[w] = "leased" <=> pc'[w] = "leased")
          \/ pc[w] = "leased" /\ pc'[w] = "exec" /\ jobSt'[wJob[w]] = "running"
          \/ pc[w] = "claim" /\ pc'[w] = "leased" /\ jobSt'[wJob[w]] = "leased"
  /\ pc[w] \in AtWork /\ pc'[w] \notin AtWork /\ Owns(w, Live) =>
       jobSt'[wJob[w]] \notin Live \/ inst'[InstanceOf[w]] \in Ending

FlightMoves ==
  /\ \A w \in Workers : FlightMove(w)
  /\ \A i \in Instances : inst[i] \in Ending => inst'[i] \in Ending

LEMMA FlightsKeepInv ==
  ASSUME AttendedInv, AttemptInv', Charges, FlightMoves
  PROVE  AttendedInv'
<1> USE DEF AttendedInv, AttemptInv
<1>1. ASSUME NEW w \in Workers, pc'[w] \in AtWork, Owns(w, Live)'
      PROVE  jobSt'[wJob'[w]] = IF pc'[w] = "leased" THEN "leased" ELSE "running"
  <2> DEFINE j == wJob[w]
  <2>1. FlightMove(w) /\ wJob'[w] = j
    BY <1>1 DEF FlightMoves, FlightMove
  <2>2. CASE pc[w] \in AtWork /\ (pc[w] = "leased" <=> pc'[w] = "leased")
    <3>1. j \in Jobs /\ jobSt'[j] \in Live /\ jobWorker'[j] = w
      BY <1>1, <2>1, <2>2 DEF Owns, TypeInv, References, Busy, AtWork, Executing
    <3>2. RowMove(j)
      BY <3>1 DEF Charges
    <3> HIDE DEF j
    <3>3. jobSt[j] = jobSt'[j] /\ jobWorker[j] = w
      BY <2>2, <3>1, <3>2 DEF RowMove, Live, JobTerminal, AtWork, Executing
    <3> QED
      BY <2>1, <2>2, <3>1, <3>3 DEF RowPhase, Owns, j
  <2> QED
    BY <1>1, <2>1, <2>2 DEF FlightMove
<1>2. ASSUME NEW j \in Jobs, jobSt'[j] \in Live
      PROVE  /\ jobWorker'[j] \in Workers
             /\ \/ wJob'[jobWorker'[j]] = j /\ pc'[jobWorker'[j]] \in AtWork
                \/ inst'[InstanceOf[jobWorker'[j]]] \in Ending
  <2>1. RowMove(j)
    BY DEF Charges
  <2>2. CASE jobSt[j] \in Live /\ jobWorker'[j] = jobWorker[j]
    <3> DEFINE w == jobWorker[j]
    <3>1. /\ w \in Workers
          /\ (wJob[w] = j /\ pc[w] \in AtWork) \/ inst[InstanceOf[w]] \in Ending
      BY <2>2 DEF JobsAttended
    <3>2. CASE inst[InstanceOf[w]] \in Ending
      BY <2>2, <3>1, <3>2, RowAssumption DEF FlightMoves
    <3>3. CASE wJob[w] = j /\ pc[w] \in AtWork
      <4>1. FlightMove(w) /\ Owns(w, Live)
        BY <2>2, <3>1, <3>3 DEF FlightMoves, Owns
      <4> QED
        BY <1>2, <2>2, <3>1, <3>3, <4>1 DEF FlightMove
    <3> QED
      BY <3>1, <3>2, <3>3
  <2>3. CASE \E w \in Workers : jobWorker'[j] = w /\ wJob'[w] = j /\ pc'[w] = "leased"
    BY <2>3 DEF AtWork
  <2> QED
    BY <1>2, <2>1, <2>2, <2>3 DEF RowMove, Live, JobTerminal
<1>3. RowPhase'
  BY <1>1 DEF RowPhase
<1>4. JobsAttended'
  BY <1>2 DEF JobsAttended
<1> QED
  BY <1>3, <1>4

\* A drift that is about to be recorded will be: the transaction of
\* BlockTaskJobForDrift commits.
DriftRecorded ==
  \A w \in Workers :
    pc[w] = "settle" /\ out[w] = "drift" /\ Owns(w, Live) =>
      /\ taskSt[jobTask[wJob[w]]] \in {"queued", "running", "failed", "pending"}
      /\ planSt[PlanOf[jobTask[wJob[w]]]] # "ready"

\* The worker records its outcome: it settles the row that it owns.
LEMMA SettleFlight ==
  ASSUME AttendedInv, DriftRecorded, "fault" \notin Env, NEW w \in Workers,
         \/ CompleteJob(w) \/ DeferJobForWorkspace(w) \/ CancelJob(w) \/ FailJob(w)
         \/ BlockTaskJobForDrift(w) \/ SettleLost(w),
         Owns(w, Live)
  PROVE  jobSt'[wJob[w]] \notin Live \/ inst'[InstanceOf[w]] \in Ending
<1> USE DEF AttendedInv, AttemptInv, TypeInv, TypeOK, JobTypes
<1>1. pc[w] = "settle"
  BY SettleStep
<1>2. wJob[w] \in Jobs /\ jobSt[wJob[w]] = "running" /\ jobWorker[wJob[w]] = w
  BY <1>1 DEF References, Busy, RowPhase, AtWork, Executing, Owns
<1>3. ASSUME NEW S, NEW st, "running" \in S, st \notin Live, SettleJob(w, S, st)
      PROVE  jobSt'[wJob[w]] \notin Live
  BY <1>2, <1>3 DEF SettleJob, Owns
<1>4. CASE CompleteJob(w) \/ CancelJob(w) \/ FailJob(w)
  <2>1. \E S, st : "running" \in S /\ st \notin Live /\ SettleJob(w, S, st)
    BY <1>4 DEF CompleteJob, CancelJob, FailJob, Live
  <2> QED
    BY <1>3, <2>1
<1>5. CASE DeferJobForWorkspace(w)
  BY <1>2, <1>5 DEF DeferJobForWorkspace, Owns, Requeue, Live
<1>6. CASE BlockTaskJobForDrift(w)
  <2>1. out[w] = "drift"
    BY <1>6 DEF BlockTaskJobForDrift, Settles
  <2>2. SettleJob(w, {"leased", "running"}, "failed")
    BY <1>1, <1>6, <2>1 DEF BlockTaskJobForDrift, DriftRecorded, Live
  <2> QED
    BY <1>3, <2>2 DEF Live
<1>7. CASE SettleLost(w)
  BY <1>7 DEF SettleLost, Done, instVars, Ending
<1> QED
  BY <1>4, <1>5, <1>6, <1>7

LEMMA NextFlights ==
  "fault" \notin Env /\ AttendedInv /\ DriftRecorded /\ [Next]_vars => FlightMoves
<1> SUFFICES ASSUME "fault" \notin Env, AttendedInv, DriftRecorded, [Next]_vars
             PROVE  FlightMoves
  OBVIOUS
<1> USE DEF AttendedInv, AttemptInv
<1>1. ASSUME UNCHANGED <<pc, wJob>>,
             \A i \in Instances : inst[i] \in Ending => inst'[i] \in Ending
      PROVE  FlightMoves
  BY <1>1 DEF FlightMoves, FlightMove
<1>2. CASE UNCHANGED vars
  BY <1>1, <1>2 DEF vars, workerVars, instVars
<1>3. CASE UserStep
  BY <1>1, <1>3, UserStepRows
<1>4. ASSUME NEW w \in Workers,
             WorkerStep(w) \/ ProcessExit(w) \/ Renew(w) \/ OrphanExit(w)
      PROVE  FlightMoves
  <2> USE DEF TypeInv, TypeOK, WorkerTypes
  <2>1. ASSUME \A v \in Workers \ {w} : pc'[v] = pc[v] /\ wJob'[v] = wJob[v],
               UNCHANGED inst, FlightMove(w)
        PROVE  FlightMoves
    BY <2>1 DEF FlightMoves, FlightMove
  <2>2. CASE \/ PrepareFails(w) \/ DriftDetected(w) \/ StartTask(w) \/ SkipValidation(w)
             \/ StartAgentRun(w) \/ StartProcess(w) \/ ProcessKilled(w) \/ ProcessExit(w)
             \/ ResultLost(w) \/ CheckpointDrift(w) \/ ReturnTaskPending(w)
             \/ ReturnTaskQueuedForRetry(w) \/ FinishTaskFailed(w) \/ FinishTaskIgnored(w)
             \/ FinishTask(w) \/ FinishTaskRefused(w)
    <3>1. /\ pc[w] \in Holding /\ \E x \in Holding : pc' = [pc EXCEPT ![w] = x]
          /\ UNCHANGED <<wJob, instVars>>
      BY <2>2, WorkStep
    <3>2. FlightMove(w)
      BY <3>1 DEF FlightMove, AtWork, Executing, Holding
    <3> QED
      BY <2>1, <3>1, <3>2 DEF instVars
  <2>3. CASE \/ CompleteJob(w) \/ DeferJobForWorkspace(w) \/ CancelJob(w) \/ FailJob(w)
             \/ BlockTaskJobForDrift(w) \/ SettleLost(w)
    <3>1. /\ pc' = [pc EXCEPT ![w] = "idle"] /\ wJob' = [wJob EXCEPT ![w] = None]
          /\ UNCHANGED instVars
      BY <2>3, SettleStep
    <3>2. Owns(w, Live) => jobSt'[wJob[w]] \notin Live \/ inst'[InstanceOf[w]] \in Ending
      BY <2>3, SettleFlight
    <3>3. FlightMove(w)
      BY <3>1, <3>2 DEF FlightMove, AtWork, Executing
    <3> QED
      BY <2>1, <3>1, <3>3 DEF instVars
  <2>4. CASE \/ ClaimSelect(w) \/ WorkerExit(w) \/ AcquireWorkspaceLease(w) \/ Unwind(w)
             \/ Renew(w) \/ OrphanExit(w)
    <3>1. /\ \A v \in Workers \ {w} : pc'[v] = pc[v] /\ wJob'[v] = wJob[v]
          /\ UNCHANGED inst
      BY <2>4 DEF ClaimSelect, WorkerExit, AcquireWorkspaceLease, Unwind, Renew, OrphanExit,
        instVars
    <3>2. FlightMove(w)
      BY <2>4 DEF ClaimSelect, WorkerExit, AcquireWorkspaceLease, Unwind, Renew, OrphanExit,
        FlightMove, AtWork, Executing
    <3> QED
      BY <2>1, <3>1, <3>2
  <2>5. CASE ClaimLock(w) \/ MarkJobRunning(w) \/ ReleaseLeasedJob(w)
    <3>1. /\ \A v \in Workers \ {w} : pc'[v] = pc[v] /\ wJob'[v] = wJob[v]
          /\ UNCHANGED inst
      BY <2>5 DEF ClaimLock, MarkJobRunning, ReleaseLeasedJob, instVars
    <3>2. wJob[w] \in Jobs
      BY <2>5 DEF ClaimLock, MarkJobRunning, ReleaseLeasedJob, References, Busy
    <3>3. pc[w] = "leased" /\ Owns(w, Live) => Owns(w, {"leased"})
      BY DEF RowPhase, Owns, AtWork
    <3>4. FlightMove(w)
      <4> USE DEF FlightMove, AtWork, Executing, JobTypes
      <4>1. CASE ClaimLock(w)
        BY <3>2, <4>1 DEF ClaimLock
      <4>2. CASE MarkJobRunning(w)
        BY <3>2, <3>3, <4>2 DEF MarkJobRunning
      <4>3. CASE ReleaseLeasedJob(w)
        <5>1. /\ pc[w] = "leased" /\ pc'[w] = "gone"
              /\ Owns(w, Live) => \/ jobSt' = [jobSt EXCEPT ![wJob[w]] = "queued"]
                                  \/ inst[InstanceOf[w]] = "stopping"
          BY <3>3, <4>3 DEF ReleaseLeasedJob, Requeue
        <5> QED
          BY <3>1, <3>2, <5>1 DEF Live, Ending
      <4> QED
        BY <2>5, <4>1, <4>2, <4>3
    <3> QED
      BY <2>1, <3>1, <3>4
  <2> QED
    BY <1>4, <2>2, <2>3, <2>4, <2>5 DEF WorkerStep
<1>5. CASE ClockStep
  BY <1>1, <1>5 DEF ClockStep, ExpireJobLease, ExpireWorkspaceLease, InstanceStale,
    HeartbeatRuntimeInstance, workerVars, instVars
<1>6. ASSUME NEW i \in Instances,
             \/ BeginDraining(i) \/ ShutdownStep(i) \/ ReconcileRuntimeState(i)
             \/ \E r \in Projects : CancelPrefix(r, i)
      PROVE  FlightMoves
  <2>1. UNCHANGED <<pc, wJob>>
    BY <1>6 DEF BeginDraining, ShutdownStep, ReconcileInstanceShutdown, CancelAll, StopPool,
      Exit, ReconcileRuntimeState, ReleaseRecovered, CancelPrefix, workerVars
  <2>2. \/ UNCHANGED inst
        \/ /\ inst[i] # "down"
           /\ \E x : /\ inst' = [inst EXCEPT ![i] = x]
                     /\ inst[i] = "stopping" => x = "down"
    BY <1>6 DEF BeginDraining, ShutdownStep, ReconcileInstanceShutdown, CancelAll, StopPool,
      Exit, ReconcileRuntimeState, CancelPrefix, instVars
  <2>3. \A k \in Instances : inst[k] \in Ending => inst'[k] \in Ending
    BY <2>2 DEF Ending, TypeInv, TypeOK, InstanceTypes
  <2> QED
    BY <1>1, <2>1, <2>3
<1>7. ASSUME NEW i \in Instances, Crash(i)
      PROVE  FlightMoves
  <2>1. \A w \in Workers : \/ pc'[w] = pc[w] /\ wJob'[w] = wJob[w]
                           \/ InstanceOf[w] = i /\ pc'[w] = "dead"
    BY <1>7 DEF Crash
  <2>2. inst' = [inst EXCEPT ![i] = "down"]
    BY <1>7 DEF Crash
  <2> QED
    BY <2>1, <2>2 DEF FlightMoves, FlightMove, AtWork, Executing, Ending, TypeInv, TypeOK,
      InstanceTypes
<1> QED
  BY <1>2, <1>3, <1>4, <1>5, <1>6, <1>7 DEF Next

-----------------------------------------------------------------------------
\* Without drift in the environment no execution ends with a drift report.
LEMMA NoDriftReported ==
  ASSUME "drift" \notin Env, TypeInv, \A w \in Workers : out[w] # "drift", [Next]_vars
  PROVE  \A w \in Workers : out'[w] # "drift"
<1>1. CASE UNCHANGED out
  BY <1>1
<1>2. ASSUME NEW w \in Workers, NEW x, x # "drift", out' = [out EXCEPT ![w] = x]
      PROVE  \A v \in Workers : out'[v] # "drift"
  BY <1>2 DEF TypeInv, TypeOK, WorkerTypes
<1>3. ASSUME NEW w \in Workers,
             WorkerStep(w) \/ ProcessExit(w) \/ Renew(w) \/ OrphanExit(w)
      PROVE  UNCHANGED out \/ \E x : x # "drift" /\ out' = [out EXCEPT ![w] = x]
  <2>1. CASE PrepareFails(w) \/ DriftDetected(w) \/ ResultLost(w) \/ CheckpointDrift(w)
             \/ FinishTaskIgnored(w) \/ FinishTaskRefused(w) \/ ReturnTaskPending(w)
             \/ ReturnTaskQueuedForRetry(w) \/ FinishTaskFailed(w)
    BY <2>1 DEF PrepareFails, DriftDetected, ResultLost, CheckpointDrift, FinishTaskIgnored,
      FinishTaskRefused, ReturnTaskPending, ReturnTaskQueuedForRetry, FinishTaskFailed, Return
  <2>2. CASE FinishTask(w)
    BY <2>2 DEF FinishTask, Return
  <2>3. CASE StartTask(w) \/ SkipValidation(w) \/ StartAgentRun(w) \/ StartProcess(w)
             \/ ProcessKilled(w) \/ ProcessExit(w) \/ AcquireWorkspaceLease(w)
    BY <2>3 DEF StartTask, SkipValidation, StartAgentRun, StartProcess, ProcessKilled,
      ProcessExit, AcquireWorkspaceLease, Return
  <2>4. CASE \/ ClaimSelect(w) \/ ClaimLock(w) \/ MarkJobRunning(w) \/ ReleaseLeasedJob(w)
             \/ WorkerExit(w) \/ Unwind(w) \/ Renew(w) \/ OrphanExit(w)
    BY <2>4 DEF ClaimSelect, ClaimLock, MarkJobRunning, ReleaseLeasedJob, WorkerExit, Unwind,
      Renew, OrphanExit
  <2>5. CASE \/ CompleteJob(w) \/ DeferJobForWorkspace(w) \/ CancelJob(w) \/ FailJob(w)
             \/ BlockTaskJobForDrift(w) \/ SettleLost(w)
    BY <2>5 DEF CompleteJob, DeferJobForWorkspace, CancelJob, FailJob, BlockTaskJobForDrift,
      SettleLost, Settles, Done
  <2> QED
    BY <1>3, <2>1, <2>2, <2>3, <2>4, <2>5 DEF WorkerStep
<1>4. CASE UserStep
  BY <1>1, <1>4 DEF UserStep, QueuePlan, QueuePlanAutomatically, QueuePlanTx, QueueTask,
    StopTask, StopPlan, StopAutomation, StartAutomation, workerVars
<1>5. CASE ClockStep
  BY <1>1, <1>5 DEF ClockStep, ExpireJobLease, ExpireWorkspaceLease, InstanceStale,
    HeartbeatRuntimeInstance, workerVars
<1>6. ASSUME NEW i \in Instances,
             \/ BeginDraining(i) \/ ShutdownStep(i) \/ ReconcileRuntimeState(i)
             \/ \E r \in Projects : CancelPrefix(r, i)
      PROVE  UNCHANGED out
  BY <1>6 DEF BeginDraining, ShutdownStep, ReconcileInstanceShutdown, CancelAll, StopPool,
    Exit, ReconcileRuntimeState, ReleaseRecovered, CancelPrefix, workerVars
<1>7. ASSUME NEW i \in Instances, Crash(i)
      PROVE  \A w \in Workers : out'[w] # "drift"
  BY <1>7 DEF Crash
<1> QED
  BY <1>1, <1>2, <1>3, <1>4, <1>5, <1>6, <1>7 DEF Next, vars, workerVars

LEMMA InitAttended == Init => AttendedInv
BY InitAttemptInv DEF Init, AttendedInv, RowPhase, JobsAttended, AtWork, Executing, Live

LEMMA AttendedNotAbandoned == AttendedInv => NoAbandonedJob
BY DEF AttendedInv, JobsAttended, NoAbandonedJob, LiveJobs, Live, Ending

\* Every job that keeps its project waiting is in the hands of the worker it
\* names, or of an instance that stops or is gone and that recovery finds
\* stale: crashes, stalls that outlive every lease, stop requests, the
\* automation switch, graceful shutdowns and recovery passes leave no job
\* leased or running with nobody to end it.
THEOREM NoJobAbandoned ==
  ASSUME Env \cap {"fault", "drift"} = {}
  PROVE  Spec => []NoAbandonedJob
<1> DEFINE Inv == AttendedInv /\ \A w \in Workers : out[w] # "drift"
<1>1. Init => Inv
  BY InitAttended DEF Init
<1>2. Inv /\ [Next]_vars => Inv'
  <2> SUFFICES ASSUME AttendedInv, \A w \in Workers : out[w] # "drift", [Next]_vars
               PROVE  Inv'
    OBVIOUS
  <2>1. AttemptInv /\ TypeInv
    BY DEF AttendedInv, AttemptInv
  <2>2. FlightMoves
    BY NextFlights DEF DriftRecorded
  <2>3. AttendedInv'
    BY <2>1, <2>2, NextAttemptInv, NextCharges, FlightsKeepInv
  <2> QED
    BY <2>1, <2>3, NoDriftReported
<1>3. Inv => NoAbandonedJob
  BY AttendedNotAbandoned
<1> QED
  BY <1>1, <1>2, <1>3, PTL DEF Spec

-----------------------------------------------------------------------------
(* As long as nobody stops anything and no instance stalls, a worker keeps *)
(* the row of its job until it settles it.                                 *)

HandsOff == Env \cap {"stall", "shutdown", "stop", "toggle"} = {}

RowHeld == \A w \in Workers : pc[w] \in AtWork => Owns(w, Live)

\* A plan that has a job has left ready, and does not get back.
Touched == \A j \in Jobs : jobSt[j] # "none" => planSt[PlanOf[jobTask[j]]] # "ready"

\* No lease heartbeat finds anything missing.
NeverCancelled == \A w \in Workers : ~ctxDone[w]

HeldInv == HandInv /\ RowHeld /\ Touched /\ NeverCancelled

\* The only requests left queue the next task of an idle plan.
LEMMA QueueStep ==
  ASSUME HandsOff, UserStep
  PROVE  \E t \in Tasks, j \in Jobs :
           LET p == PlanOf[t] IN
           /\ ActiveTasks(p) = {} /\ t \in NextTasks(p)
           /\ planSt' = [planSt EXCEPT ![p] = "running"]
           /\ taskSt' = [taskSt EXCEPT ![t] = "queued"]
           /\ InsertJob(j, t)
           /\ UNCHANGED <<automation, wsVars, workerVars, instVars>>
<1>1. ASSUME NEW p \in Plans, NEW t \in Tasks, NEW j \in Jobs, QueuePlanTx(p, t, j)
      PROVE  /\ PlanOf[t] = p /\ ActiveTasks(p) = {} /\ t \in NextTasks(p)
             /\ planSt' = [planSt EXCEPT ![p] = "running"]
             /\ taskSt' = [taskSt EXCEPT ![t] = "queued"]
             /\ InsertJob(j, t)
             /\ UNCHANGED <<automation, wsVars, workerVars, instVars>>
  BY <1>1 DEF QueuePlanTx, NextTasks, TasksOf
<1>2. ASSUME NEW p \in Plans, QueuePlan(p) \/ QueuePlanAutomatically(p)
      PROVE  \E t \in Tasks, j \in Jobs : QueuePlanTx(p, t, j)
  BY <1>2 DEF QueuePlan, QueuePlanAutomatically
<1>3. \/ \E p \in Plans : QueuePlan(p) \/ QueuePlanAutomatically(p)
      \/ \E t \in Tasks : QueueTask(t)
  BY DEF HandsOff, UserStep, StopPlan, StopTask, StartAutomation, StopAutomation
<1>4. CASE \E p \in Plans : QueuePlan(p) \/ QueuePlanAutomatically(p)
  BY <1>1, <1>2, <1>4
<1>5. CASE \E t \in Tasks : QueueTask(t)
  BY <1>5 DEF QueueTask
<1> QED
  BY <1>3, <1>4, <1>5

\* A plan never becomes ready, and a new row belongs to a plan in execution.
PlansLeave ==
  /\ \A p \in Plans : planSt'[p] = "ready" => planSt[p] = "ready"
  /\ \A j \in Jobs : jobSt[j] = "none" /\ jobSt'[j] # "none"
                       => planSt'[PlanOf[jobTask'[j]]] # "ready"

LEMMA NextPlansLeave == HandsOff /\ HeldInv /\ [Next]_vars => PlansLeave
<1> SUFFICES ASSUME HandsOff, HeldInv, [Next]_vars PROVE PlansLeave
  OBVIOUS
<1> USE RowAssumption DEF HeldInv, HandInv, LeaseInv
<1>0. TypeInv /\ planSt \in [Plans -> PlanStatuses]
  BY DEF TypeInv, TypeOK, DbTypes
<1>1. ASSUME UNCHANGED planSt, \A j \in Jobs : jobSt[j] = "none" => jobSt'[j] = "none"
      PROVE  PlansLeave
  BY <1>1 DEF PlansLeave
<1>2. ASSUME NEW p \in Plans, NEW x, x # "ready",
             planSt' = [planSt EXCEPT ![p] = x], UNCHANGED jobSt
      PROVE  PlansLeave
  BY <1>0, <1>2 DEF PlansLeave
<1>3. CASE UserStep
  <2>1. PICK t \in Tasks, j \in Jobs : /\ planSt' = [planSt EXCEPT ![PlanOf[t]] = "running"]
                                       /\ InsertJob(j, t)
    BY <1>3, QueueStep
  <2>2. /\ \A k \in Jobs : k # j => jobSt'[k] = jobSt[k]
        /\ jobTask'[j] = t
    BY <1>0, <2>1 DEF InsertJob, TypeInv, TypeOK, JobTypes
  <2> QED
    BY <1>0, <2>1, <2>2 DEF PlansLeave
<1>4. ASSUME NEW w \in Workers,
             WorkerStep(w) \/ ProcessExit(w) \/ Renew(w) \/ OrphanExit(w)
      PROVE  PlansLeave
  <2> DEFINE t == jobTask[wJob[w]]
             p == PlanOf[t]
  <2>1. pc[w] \in Busy => /\ wJob[w] \in Jobs /\ t \in Tasks /\ p \in Plans
                          /\ jobSt[wJob[w]] # "none" /\ planSt[p] \in PlanStatuses \ {"ready"}
    BY <1>0 DEF TypeInv, References, Touched
  <2>2. CASE FinishTask(w)
    <3>1. /\ pc[w] = "exited"
          /\ \E x : /\ planSt' = [planSt EXCEPT ![p] = x]
                    /\ x \in PlanTerminal \cup {"blocked", planSt[p]}
      <4>1. pc[w] = "exited"
        BY <2>2 DEF FinishTask
      <4>2. planSt = [planSt EXCEPT ![p] = planSt[p]]
        BY <1>0
      <4> QED
        BY <2>2, <4>1, <4>2 DEF FinishTask, PlanTerminal
    <3>2. \/ UNCHANGED jobSt
          \/ \E u \in TasksAfter(t), k \in Jobs : InsertJob(k, u)
      BY <2>2 DEF FinishTask, jobVars
    <3>3. \A u \in TasksAfter(t) : PlanOf[u] = p
      BY DEF TasksAfter, TasksOf
    <3>4. \A j \in Jobs : jobSt[j] = "none" /\ jobSt'[j] # "none" => PlanOf[jobTask'[j]] = p
      BY <1>0, <3>2, <3>3 DEF InsertJob, TypeInv, TypeOK, JobTypes
    <3>5. planSt[p] # "ready" /\ p \in Plans
      BY <2>1, <3>1 DEF Busy
    <3> HIDE DEF p
    <3> QED
      BY <1>0, <3>1, <3>4, <3>5 DEF PlansLeave, PlanTerminal
  <2>3. CASE StartTask(w) \/ FinishTaskFailed(w) \/ BlockTaskJobForDrift(w)
    <3>1. pc[w] \in Busy
      BY <2>3 DEF StartTask, FinishTaskFailed, BlockTaskJobForDrift, Settles, Busy
    <3>2. planSt = [planSt EXCEPT ![p] = planSt[p]]
      BY <1>0
    <3>3. \E x : /\ planSt' = [planSt EXCEPT ![p] = x]
                 /\ x \in PlanTerminal \cup {"blocked", "validating", planSt[p]}
      BY <2>3, <3>2 DEF StartTask, FinishTaskFailed, BlockTaskJobForDrift
    <3>4. \A j \in Jobs : jobSt[j] = "none" => jobSt'[j] = "none"
      <4>1. CASE BlockTaskJobForDrift(w)
        BY <2>1, <3>1, <4>1, SettleStep DEF SameRow
      <4> QED
        BY <2>3, <4>1 DEF StartTask, FinishTaskFailed, jobVars
    <3> HIDE DEF p
    <3> QED
      BY <1>0, <2>1, <3>1, <3>3, <3>4 DEF PlansLeave, PlanTerminal
  <2>4. CASE \/ ClaimLock(w) \/ MarkJobRunning(w) \/ ReleaseLeasedJob(w)
             \/ CompleteJob(w) \/ DeferJobForWorkspace(w) \/ CancelJob(w) \/ FailJob(w)
    <3>1. UNCHANGED planSt /\ pc[w] \in Busy
      BY <2>4 DEF ClaimLock, MarkJobRunning, ReleaseLeasedJob, CompleteJob,
        DeferJobForWorkspace, CancelJob, FailJob, Settles, dbVars, Busy
    <3>2. \A j \in Jobs : j # wJob[w] => jobSt'[j] = jobSt[j]
      BY <1>0, <2>4 DEF ClaimLock, MarkJobRunning, ReleaseLeasedJob, CompleteJob,
        DeferJobForWorkspace, CancelJob, FailJob, SettleJob, Requeue, jobVars, TypeInv,
        TypeOK, JobTypes
    <3> QED
      BY <1>1, <2>1, <3>1, <3>2
  <2>5. CASE UNCHANGED <<planSt, jobSt>>
    BY <1>1, <2>5
  <2>6. \/ FinishTask(w) \/ StartTask(w) \/ FinishTaskFailed(w) \/ BlockTaskJobForDrift(w)
        \/ ClaimLock(w) \/ MarkJobRunning(w) \/ ReleaseLeasedJob(w)
        \/ CompleteJob(w) \/ DeferJobForWorkspace(w) \/ CancelJob(w) \/ FailJob(w)
        \/ UNCHANGED <<planSt, jobSt>>
    BY <1>4 DEF WorkerStep, ClaimSelect, WorkerExit, AcquireWorkspaceLease, PrepareFails,
      DriftDetected, SkipValidation, StartAgentRun, StartProcess, ProcessKilled, ResultLost,
      CheckpointDrift, ReturnTaskPending, ReturnTaskQueuedForRetry, FinishTaskIgnored,
      FinishTaskRefused, Unwind, SettleLost, ProcessExit, Renew, OrphanExit, jobVars, dbVars
  <2> QED
    BY <2>2, <2>3, <2>4, <2>5, <2>6
<1>5. CASE ClockStep
  BY <1>1, <1>5 DEF ClockStep, ExpireJobLease, ExpireWorkspaceLease, InstanceStale,
    HeartbeatRuntimeInstance, jobVars, dbVars
<1>6. ASSUME NEW i \in Instances, BeginDraining(i) \/ ShutdownStep(i)
      PROVE  PlansLeave
  BY <1>6 DEF HandsOff, UpOrCrashed, BeginDraining, ShutdownStep, ReconcileInstanceShutdown,
    CancelAll, StopPool, Exit
<1>7. ASSUME NEW i \in Instances, Crash(i) \/ \E r \in Projects : CancelPrefix(r, i)
      PROVE  PlansLeave
  BY <1>1, <1>7 DEF Crash, CancelPrefix, jobVars, dbVars
<1>8. ASSUME NEW i \in Instances, ReconcileRuntimeState(i)
      PROVE  PlansLeave
  <2>1. PICK pick, unstarted, converged :
          /\ unstarted \subseteq LiveJobs /\ converged \subseteq LiveJobs
          /\ ConvergeLostJobs(pick, unstarted, converged)
          /\ ConvergeRecoveredTasks(pick, converged)
    BY <1>8 DEF ReconcileRuntimeState, LostJobs
  <2>2. \A p \in Plans : planSt'[p] \in {planSt[p], "blocked"}
    BY <2>1 DEF ConvergeRecoveredTasks
  <2>3. \A j \in Jobs : jobSt[j] = "none" => jobSt'[j] = "none"
    BY <2>1 DEF ConvergeLostJobs, LiveJobs
  <2> QED
    BY <2>2, <2>3 DEF PlansLeave
<1> QED
  BY <1>1, <1>3, <1>4, <1>5, <1>6, <1>7, <1>8 DEF Next, vars, jobVars, dbVars

\* Only the worker itself ends a job that it works on.
LEMMA NextRowHeld ==
  ASSUME HandsOff, HeldInv, [Next]_vars, HandMoves, LeaseMoves, Moves
  PROVE  RowHeld'
<1> USE DEF HeldInv, HandInv, LeaseInv
<1>1. ASSUME NEW w \in Workers, pc[w] \in AtWork, pc'[w] \in AtWork
      PROVE  jobSt'[wJob[w]] \notin JobTerminal
  <2> DEFINE j == wJob[w]
  <2>1. /\ j \in Jobs /\ jobSt[j] \in Live /\ jobWorker[j] = w
        /\ jobSt[j] \notin JobTerminal \cup {"none"}
    <3>1. Owns(w, Live) /\ j \in Jobs
      BY <1>1 DEF RowHeld, TypeInv, References, Busy, AtWork, Executing
    <3> QED
      BY <3>1 DEF Owns, Live, JobTerminal
  <2> HIDE DEF j
  <2>2. CASE jobSt'[j] = jobSt[j]
    BY <2>1, <2>2 DEF j
  <2>3. CASE UserStep
    <3>1. \E t \in Tasks, k \in Jobs : InsertJob(k, t)
      BY <2>3, QueueStep
    <3> QED
      BY <2>1, <2>2, <3>1 DEF InsertJob, TypeInv, TypeOK, JobTypes
  <2>4. ASSUME NEW v \in Workers,
               WorkerStep(v) \/ ProcessExit(v) \/ Renew(v) \/ OrphanExit(v)
        PROVE  jobSt'[j] \notin JobTerminal
    <3>1. CASE \/ PrepareFails(v) \/ DriftDetected(v) \/ StartTask(v) \/ SkipValidation(v)
               \/ StartAgentRun(v) \/ StartProcess(v) \/ ProcessKilled(v) \/ ProcessExit(v)
               \/ ResultLost(v) \/ CheckpointDrift(v) \/ ReturnTaskPending(v)
               \/ ReturnTaskQueuedForRetry(v) \/ FinishTaskFailed(v) \/ FinishTaskIgnored(v)
               \/ FinishTask(v) \/ FinishTaskRefused(v)
      <4>1. SameRow(j)
        BY <2>1, <3>1, WorkStep
      <4> QED
        BY <2>1, <4>1 DEF SameRow
    <3>2. CASE \/ CompleteJob(v) \/ DeferJobForWorkspace(v) \/ CancelJob(v) \/ FailJob(v)
               \/ BlockTaskJobForDrift(v) \/ SettleLost(v)
      <4>1. /\ pc' = [pc EXCEPT ![v] = "idle"]
            /\ SameRow(j) \/ (j = wJob[v] /\ Owns(v, Live))
        BY <2>1, <3>2, SettleStep
      <4>2. v # w
        BY <1>1, <4>1 DEF AtWork, Executing, TypeInv, TypeOK, WorkerTypes
      <4>3. SameRow(j)
        BY <2>1, <4>1, <4>2 DEF Owns
      <4> QED
        BY <2>1, <4>3 DEF SameRow
    <3>3. CASE ClaimLock(v) \/ MarkJobRunning(v)
      <4>1. UNCHANGED jobSt \/ \E x \in Live : jobSt' = [jobSt EXCEPT ![wJob[v]] = x]
        BY <3>3 DEF ClaimLock, MarkJobRunning, Live, jobVars
      <4> QED
        BY <2>1, <4>1 DEF Live, JobTerminal, TypeInv, TypeOK, JobTypes
    <3>4. CASE ReleaseLeasedJob(v)
      BY <3>4, RowAssumption DEF ReleaseLeasedJob, UpOrCrashed
    <3>5. CASE \/ ClaimSelect(v) \/ WorkerExit(v) \/ AcquireWorkspaceLease(v) \/ Unwind(v)
               \/ Renew(v) \/ OrphanExit(v)
      BY <2>1, <3>5 DEF ClaimSelect, WorkerExit, AcquireWorkspaceLease, Unwind, Renew,
        OrphanExit, jobVars
    <3> QED
      BY <2>4, <3>1, <3>2, <3>3, <3>4, <3>5 DEF WorkerStep
  <2>5. CASE ClockStep
    BY <2>2, <2>5 DEF ClockStep, ExpireJobLease, ExpireWorkspaceLease, InstanceStale,
      HeartbeatRuntimeInstance, jobVars
  <2>6. ASSUME NEW i \in Instances, BeginDraining(i) \/ ShutdownStep(i)
        PROVE  FALSE
    BY <2>6 DEF HandsOff, UpOrCrashed, BeginDraining, ShutdownStep,
      ReconcileInstanceShutdown, CancelAll, StopPool, Exit
  <2>7. ASSUME NEW i \in Instances, Crash(i) \/ \E r \in Projects : CancelPrefix(r, i)
        PROVE  jobSt'[j] = jobSt[j]
    BY <2>7 DEF Crash, CancelPrefix, jobVars
  <2>8. ASSUME NEW i \in Instances, ReconcileRuntimeState(i)
        PROVE  jobSt'[j] = jobSt[j]
    <3>1. PICK pick \in [LiveJobs -> Workers \cup {None}], skip \in SUBSET LiveJobs :
            LET lost == LostJobs(i, pick, skip)
                unstarted == {k \in lost : Unstarted(k, pick[k])}
            IN
            /\ \A k \in LiveJobs :
                 IF RunsOf(k) = {} THEN pick[k] = None ELSE pick[k] \in RunsOf(k)
            /\ ConvergeLostJobs(pick, unstarted, lost \ unstarted)
      BY <2>8 DEF ReconcileRuntimeState
    <3>2. j \notin LostJobs(i, pick, skip)
      BY <1>1, <3>1, NotLost DEF j
    <3> QED
      BY <2>1, <3>1, <3>2 DEF ConvergeLostJobs
  <2> QED
    BY <2>1, <2>2, <2>3, <2>4, <2>5, <2>6, <2>7, <2>8 DEF Next, vars, jobVars, j
<1>2. ASSUME NEW w \in Workers, pc'[w] \in AtWork
      PROVE  Owns(w, Live)'
  <2>1. HandMove(w) /\ InHand(w)' /\ pc[w] # "dead"
    BY <1>2 DEF HandMoves, LeaseMoves, HolderMove, InHand, AtWork, Executing
  <2>2. CASE Claims(w)
    BY <2>2 DEF Claims
  <2>3. CASE ~Claims(w)
    <3>1. pc[w] \in AtWork /\ wJob'[w] = wJob[w] /\ Owns(w, Live)
      BY <2>1, <2>3 DEF HandMove, InHand, RowHeld
    <3>2. jobSt'[wJob[w]] \notin JobTerminal
      BY <1>1, <1>2, <3>1
    <3> QED
      BY <2>1, <2>3, <3>1, <3>2 DEF HandMove, Owns
  <2> QED
    BY <2>2, <2>3
<1> QED
  BY <1>2 DEF RowHeld

\* The heartbeat of a worker always finds both leases.
LEMMA NextNeverCancelled ==
  ASSUME HandsOff, HeldInv, [Next]_vars
  PROVE  NeverCancelled'
<1> USE DEF HeldInv, HandInv, LeaseInv, NeverCancelled
<1>1. ASSUME NEW w \in Workers, Renew(w)
      PROVE  UNCHANGED ctxDone
  <2>1. pc[w] \in Holding \cap AtWork
    BY <1>1 DEF Renew, Holding, AtWork, Executing, HandsOff
  <2>2. HoldsLease(w)
    BY <2>1 DEF HoldsLease, HoldersHold, RowHeld, Live
  <2> QED
    BY <1>1, <2>2 DEF Renew
<1>2. ASSUME NEW w \in Workers, WorkerStep(w) \/ ProcessExit(w) \/ OrphanExit(w)
      PROVE  UNCHANGED ctxDone \/ ctxDone' = [ctxDone EXCEPT ![w] = FALSE]
  <2>1. CASE \/ PrepareFails(w) \/ DriftDetected(w) \/ ResultLost(w) \/ CheckpointDrift(w)
             \/ FinishTaskIgnored(w) \/ FinishTaskRefused(w) \/ ReturnTaskPending(w)
             \/ ReturnTaskQueuedForRetry(w) \/ FinishTaskFailed(w) \/ FinishTask(w)
    BY <2>1 DEF PrepareFails, DriftDetected, ResultLost, CheckpointDrift, FinishTaskIgnored,
      FinishTaskRefused, ReturnTaskPending, ReturnTaskQueuedForRetry, FinishTaskFailed,
      FinishTask, Return
  <2>2. CASE \/ StartTask(w) \/ SkipValidation(w) \/ StartAgentRun(w) \/ StartProcess(w)
             \/ ProcessKilled(w) \/ ProcessExit(w) \/ AcquireWorkspaceLease(w)
    BY <2>2 DEF StartTask, SkipValidation, StartAgentRun, StartProcess, ProcessKilled,
      ProcessExit, AcquireWorkspaceLease, Return
  <2>3. CASE \/ ClaimSelect(w) \/ ClaimLock(w) \/ MarkJobRunning(w) \/ ReleaseLeasedJob(w)
             \/ WorkerExit(w) \/ Unwind(w) \/ OrphanExit(w)
    BY <2>3 DEF ClaimSelect, ClaimLock, MarkJobRunning, ReleaseLeasedJob, WorkerExit, Unwind,
      OrphanExit
  <2>4. CASE \/ CompleteJob(w) \/ DeferJobForWorkspace(w) \/ CancelJob(w) \/ FailJob(w)
             \/ BlockTaskJobForDrift(w) \/ SettleLost(w)
    BY <2>4 DEF CompleteJob, DeferJobForWorkspace, CancelJob, FailJob, BlockTaskJobForDrift,
      SettleLost, Settles, Done
  <2> QED
    BY <1>2, <2>1, <2>2, <2>3, <2>4 DEF WorkerStep
<1>3. CASE UserStep
  BY <1>3, QueueStep DEF workerVars
<1>4. CASE ClockStep
  BY <1>4 DEF ClockStep, ExpireJobLease, ExpireWorkspaceLease, InstanceStale,
    HeartbeatRuntimeInstance, workerVars
<1>5. ASSUME NEW i \in Instances,
             \/ BeginDraining(i) \/ ShutdownStep(i) \/ ReconcileRuntimeState(i)
             \/ \E r \in Projects : CancelPrefix(r, i)
      PROVE  UNCHANGED ctxDone
  BY <1>5 DEF BeginDraining, ShutdownStep, ReconcileInstanceShutdown, CancelAll, StopPool,
    Exit, ReconcileRuntimeState, ReleaseRecovered, CancelPrefix, workerVars
<1>6. ASSUME NEW i \in Instances, Crash(i)
      PROVE  NeverCancelled'
  BY <1>6 DEF Crash
<1>7. CASE UNCHANGED ctxDone
  BY <1>7
<1>8. ASSUME NEW w \in Workers, ctxDone' = [ctxDone EXCEPT ![w] = FALSE]
      PROVE  NeverCancelled'
  BY <1>8 DEF TypeInv, TypeOK, WorkerTypes
<1> QED
  BY <1>1, <1>2, <1>3, <1>4, <1>5, <1>6, <1>7, <1>8 DEF Next, vars, workerVars

LEMMA InitHeld == Init => HeldInv
BY InitHandInv DEF Init, HeldInv, RowHeld, Touched, NeverCancelled, AtWork, Executing

LEMMA NextHeld == HandsOff /\ HeldInv /\ [Next]_vars => HeldInv'
<1> SUFFICES ASSUME HandsOff, HeldInv, [Next]_vars PROVE HeldInv'
  OBVIOUS
<1>1. /\ Undisturbed /\ HandInv /\ LeaseInv /\ TypeInv
  BY DEF HandsOff, Undisturbed, HeldInv, HandInv, LeaseInv
<1>2. /\ HandInv' /\ TypeInv' /\ HandMoves /\ LeaseMoves /\ Moves
  BY <1>1, NextHandInv, NextTyped, NextHandMoves, NextLeaseMoves, NextMoves
<1>3. Touched'
  <2>1. PlansLeave /\ TaskKept
    BY <1>2, NextPlansLeave DEF HandMoves
  <2> SUFFICES ASSUME NEW j \in Jobs, jobSt'[j] # "none"
               PROVE  planSt'[PlanOf[jobTask'[j]]] # "ready"
    BY DEF Touched
  <2>2. CASE jobSt[j] = "none"
    BY <2>1, <2>2 DEF PlansLeave
  <2>3. CASE jobSt[j] # "none"
    <3>1. /\ PlanOf[jobTask[j]] \in Plans /\ jobTask'[j] = jobTask[j]
          /\ planSt[PlanOf[jobTask[j]]] # "ready"
      BY <1>1, <2>1, <2>3, RowAssumption DEF TypeInv, References, TaskKept, HeldInv, Touched
    <3> QED
      BY <2>1, <3>1 DEF PlansLeave
  <2> QED
    BY <2>2, <2>3
<1> QED
  BY <1>2, <1>3, NextRowHeld, NextNeverCancelled DEF HeldInv

-----------------------------------------------------------------------------
(* A running task and the job behind it, when instances may crash and the  *)
(* others go on.                                                           *)

CrashOnly == Env \subseteq {"crash"}

\* The worker has taken its task to running and not stored a result yet.
Started == {"started", "spawn", "cli", "exited"}

WTask(w) == jobTask[wJob[w]]
Preceding(t) == {u \in Tasks : PlanOf[u] = PlanOf[t] /\ Position[u] < Position[t]}

\* Work begins, and an agent run is opened, only on a task whose turn it is.
InOrder ==
  \A w \in Workers :
    pc[w] \in Started \/ runSt[w] # "none" =>
      \A u \in Preceding(WTask(w)) : taskSt[u] = "succeeded"

\* The plan of a task that a worker runs is in execution.
PlanActive ==
  \A w \in Workers :
    pc[w] \in Started /\ taskSt[WTask(w)] = "running" =>
      planSt[PlanOf[WTask(w)]] \in {"running", "validating"}

\* A running task has a job in flight whose worker runs it, or died.
RunningHeld ==
  \A t \in Tasks : taskSt[t] = "running" =>
    \E j \in Jobs :
      /\ jobTask[j] = t /\ jobSt[j] \in Live /\ jobWorker[j] \in Workers
      /\ \/ pc[jobWorker[j]] = "dead"
         \/ wJob[jobWorker[j]] = j /\ pc[jobWorker[j]] \in Started

NoDrift == \A w \in Workers : out[w] # "drift"

RunInv == HeldInv /\ StrictOrder /\ NoDrift /\ InOrder /\ PlanActive /\ RunningHeld

\* A worker leaves a running task only by storing its result, or dies.
ResultMove(w) ==
  pc[w] \in Started => pc'[w] \in Started \cup {"dead"} \/ taskSt'[WTask(w)] # "running"

\* Only StartTask begins one, on a task whose turn it is.
BeginMove(w) ==
  /\ pc'[w] \in Started =>
       /\ wJob'[w] = wJob[w]
       /\ \/ pc[w] \in Started
          \/ /\ pc[w] = "owns" /\ WTask(w) \in NextTasks(PlanOf[WTask(w)])
             /\ planSt'[PlanOf[WTask(w)]] \in {"running", "validating"}
  /\ runSt'[w] # "none" => wJob'[w] = wJob[w] /\ (runSt[w] # "none" \/ pc[w] = "started")
TaskBegins(t) ==
  taskSt'[t] = "running" =>
    \/ taskSt[t] = "running"
    \/ \E w \in Workers : pc[w] = "owns" /\ pc'[w] = "started" /\ WTask(w) = t

\* The plan of a task that runs is left alone, or the task ends with it.
PlanStays(w) ==
  pc[w] \in Started /\ taskSt[WTask(w)] = "running" =>
    \/ pc'[w] \notin Started \/ taskSt'[WTask(w)] # "running"
    \/ planSt'[PlanOf[WTask(w)]] \in {planSt[PlanOf[WTask(w)]], "running"}

\* The job of a dead worker stays in flight, or its task ends with it.
LossMove(j) ==
  jobSt[j] \in Live /\ jobWorker[j] \in Workers /\ pc[jobWorker[j]] = "dead" =>
    \/ jobSt'[j] = jobSt[j] /\ jobWorker'[j] = jobWorker[j]
    \/ taskSt'[jobTask[j]] # "running"

RunMoves ==
  /\ \A w \in Workers : ResultMove(w) /\ BeginMove(w) /\ PlanStays(w)
  /\ \A t \in Tasks : TaskBegins(t)
  /\ \A j \in Jobs : LossMove(j)

LEMMA RunMovesKeepInv ==
  ASSUME RunInv, HeldInv', StrictOrder', NoDrift', Moves, LeaseMoves, HandMoves, RunMoves,
         \A w \in Workers : pc'[w] = "dead" /\ pc[w] # "dead" => UNCHANGED <<jobSt, jobWorker>>
  PROVE  RunInv'
<1> USE DEF RunInv, HeldInv, HandInv, LeaseInv
<1>1. ASSUME NEW w \in Workers, pc[w] \in AtWork \/ runSt[w] # "none"
      PROVE  /\ wJob[w] \in Jobs /\ jobSt[wJob[w]] # "none"
             /\ WTask(w) \in Tasks /\ jobTask'[wJob[w]] = WTask(w)
  <2>1. InHand(w)
    BY <1>1 DEF RunPhase, InHand, AtWork, Executing
  <2>2. wJob[w] \in Jobs /\ jobSt[wJob[w]] # "none"
    BY <2>1 DEF RowOwned, Owns, Live, JobTerminal
  <2> QED
    BY <2>2 DEF TypeInv, References, HandMoves, TaskKept, WTask
<1>2. Started \cup {"owns"} \subseteq Holding /\ Holding \subseteq AtWork
  BY DEF Started, Holding, AtWork, Executing
<1>3. \A t \in Tasks : taskSt[t] = "succeeded" => taskSt'[t] = "succeeded"
  BY DEF Moves, TaskMove
<1>4. \A w \in Workers : pc[w] = "dead" => pc'[w] = "dead"
  BY DEF LeaseMoves, HolderMove
<1>5. InOrder'
  <2> SUFFICES ASSUME NEW w \in Workers, pc'[w] \in Started \/ runSt'[w] # "none"
               PROVE  \A u \in Preceding(WTask(w)') : taskSt'[u] = "succeeded"
    BY DEF InOrder, Preceding
  <2>1. /\ wJob'[w] = wJob[w]
        /\ \/ pc[w] \in Started \/ runSt[w] # "none"
           \/ pc[w] = "owns" /\ WTask(w) \in NextTasks(PlanOf[WTask(w)])
    BY DEF RunMoves, BeginMove, Started
  <2>2. WTask(w) \in Tasks /\ WTask(w)' = WTask(w)
    BY <1>1, <1>2, <2>1 DEF WTask
  <2>3. \A u \in Preceding(WTask(w)) : taskSt[u] = "succeeded"
    BY <2>1, <2>2 DEF InOrder, Preceding, NextTasks, TasksOf
  <2> QED
    BY <1>3, <2>2, <2>3 DEF Preceding
<1>6. PlanActive'
  <2> SUFFICES ASSUME NEW w \in Workers, pc'[w] \in Started, taskSt'[WTask(w)'] = "running"
               PROVE  planSt'[PlanOf[WTask(w)']] \in {"running", "validating"}
    BY DEF PlanActive
  <2>1. /\ wJob'[w] = wJob[w]
        /\ \/ pc[w] \in Started
           \/ pc[w] = "owns" /\ planSt'[PlanOf[WTask(w)]] \in {"running", "validating"}
    BY DEF RunMoves, BeginMove
  <2>2. WTask(w) \in Tasks /\ WTask(w)' = WTask(w)
    BY <1>1, <1>2, <2>1 DEF WTask
  <2>3. CASE pc[w] \in Started
    <3>1. taskSt[WTask(w)] = "running"
      <4> SUFFICES ASSUME NEW v \in Workers, pc[v] = "owns", WTask(v) = WTask(w)
                   PROVE  FALSE
        BY <2>2 DEF RunMoves, TaskBegins
      <4>1. HeldLease(v, JobProject(wJob[v])) /\ HeldLease(w, JobProject(wJob[w]))
        BY <1>2, <2>3 DEF HoldersHold
      <4>2. v = w
        BY <4>1 DEF HeldLease, JobProject, WTask
      <4> QED
        BY <2>3, <4>2 DEF Started
    <3>2. planSt[PlanOf[WTask(w)]] \in {"running", "validating"}
      BY <2>3, <3>1 DEF PlanActive
    <3> QED
      BY <2>2, <2>3, <3>1, <3>2 DEF RunMoves, PlanStays
  <2> QED
    BY <2>1, <2>2, <2>3
<1>7. RunningHeld'
  <2> SUFFICES ASSUME NEW t \in Tasks, taskSt'[t] = "running"
               PROVE  \E j \in Jobs :
                        /\ jobTask'[j] = t /\ jobSt'[j] \in Live /\ jobWorker'[j] \in Workers
                        /\ \/ pc'[jobWorker'[j]] = "dead"
                           \/ /\ wJob'[jobWorker'[j]] = j
                              /\ pc'[jobWorker'[j]] \in Started
    BY DEF RunningHeld
  <2>1. ASSUME NEW w \in Workers, pc[w] \in AtWork, WTask(w) = t, pc'[w] \in Started
        PROVE  /\ jobTask'[wJob[w]] = t /\ jobSt'[wJob[w]] \in Live /\ jobWorker'[wJob[w]] = w
               /\ wJob[w] \in Jobs /\ wJob'[w] = wJob[w]
    <3>1. wJob'[w] = wJob[w] /\ Owns(w, Live)'
      BY <1>2, <2>1 DEF RunMoves, BeginMove, RowHeld
    <3> QED
      BY <1>1, <2>1, <3>1 DEF Owns
  <2>2. CASE taskSt[t] = "running"
    <3>1. PICK j \in Jobs : /\ jobTask[j] = t /\ jobSt[j] \in Live /\ jobWorker[j] \in Workers
                            /\ \/ pc[jobWorker[j]] = "dead"
                               \/ wJob[jobWorker[j]] = j /\ pc[jobWorker[j]] \in Started
      BY <2>2 DEF RunningHeld
    <3> DEFINE w == jobWorker[j]
    <3>2. jobTask'[j] = t
      BY <3>1 DEF HandMoves, TaskKept, Live
    <3>3. CASE pc[w] = "dead"
      <4>1. jobSt'[j] = jobSt[j] /\ jobWorker'[j] = w
        BY <3>1, <3>3 DEF RunMoves, LossMove
      <4> QED
        BY <1>4, <3>1, <3>2, <3>3, <4>1
    <3>4. CASE pc[w] # "dead" /\ pc'[w] = "dead"
      BY <3>1, <3>2, <3>4
    <3>5. CASE pc[w] # "dead" /\ pc'[w] # "dead"
      <4>1. wJob[w] = j /\ pc[w] \in Started /\ WTask(w) = t /\ w \in Workers
        BY <3>1, <3>5 DEF WTask
      <4>2. pc'[w] \in Started
        BY <3>5, <4>1 DEF RunMoves, ResultMove
      <4> QED
        BY <1>2, <2>1, <4>1, <4>2
    <3> QED
      BY <3>3, <3>4, <3>5
  <2>3. CASE taskSt[t] # "running"
    <3>1. PICK w \in Workers : pc[w] = "owns" /\ pc'[w] = "started" /\ WTask(w) = t
      BY <2>3 DEF RunMoves, TaskBegins
    <3> QED
      BY <1>2, <2>1, <3>1 DEF Started
  <2> QED
    BY <2>2, <2>3
<1> QED
  BY <1>5, <1>6, <1>7

\* Steps that leave tasks, plans and the places of the workers alone.
LEMMA RunsAlone ==
  ASSUME UNCHANGED <<taskSt, planSt>>,
         \A w \in Workers : /\ pc'[w] = pc[w] \/ {pc[w], pc'[w]} \cap Started = {}
                            /\ pc[w] \in Started => wJob'[w] = wJob[w]
                            /\ runSt'[w] # "none" => runSt[w] # "none" /\ wJob'[w] = wJob[w],
         \A j \in Jobs : LossMove(j)
  PROVE  RunMoves
BY DEF RunMoves, ResultMove, BeginMove, TaskBegins, PlanStays

\* A worker that holds its lease goes on with its job.
LEMMA WorkRuns ==
  ASSUME CrashOnly, RunInv, NEW w \in Workers,
         \/ PrepareFails(w) \/ DriftDetected(w) \/ StartTask(w) \/ SkipValidation(w)
         \/ StartAgentRun(w) \/ StartProcess(w) \/ ProcessKilled(w) \/ ProcessExit(w)
         \/ ResultLost(w) \/ CheckpointDrift(w) \/ ReturnTaskPending(w)
         \/ ReturnTaskQueuedForRetry(w) \/ FinishTaskFailed(w) \/ FinishTaskIgnored(w)
         \/ FinishTask(w) \/ FinishTaskRefused(w)
  PROVE  RunMoves
<1> USE DEF RunInv, HeldInv, HandInv, LeaseInv
<1> DEFINE t == WTask(w)
           p == PlanOf[t]
<1>1. /\ pc[w] \in Holding \ {"unwind"} /\ wJob' = wJob
      /\ \E x \in Holding : pc' = [pc EXCEPT ![w] = x]
      /\ \A j \in Jobs : jobSt[j] # "none" => SameRow(j)
      /\ \A v \in Workers \ {w} : runSt'[v] = runSt[v]
  BY WorkStep
<1>2. /\ \A v \in Workers \ {w} : pc'[v] = pc[v]
      /\ WorkerTypes
  BY <1>1 DEF TypeInv, TypeOK, WorkerTypes
<1>3. \A j \in Jobs : LossMove(j)
  BY <1>1 DEF LossMove, SameRow, Live
<1>4. /\ wJob[w] \in Jobs /\ t \in Tasks /\ p \in Plans /\ planSt[p] # "ready"
  BY <1>1, RowAssumption DEF TypeInv, References, Busy, Holding, WTask, Touched
<1>5. \A v \in Workers \ {w} : pc[v] \in Started => PlanOf[WTask(v)] # p
  <2> SUFFICES ASSUME NEW v \in Workers, pc[v] \in Started, PlanOf[WTask(v)] = p
               PROVE  v = w
    OBVIOUS
  <2>1. HeldLease(v, JobProject(wJob[v])) /\ HeldLease(w, JobProject(wJob[w]))
    BY <1>1 DEF HoldersHold, Started, Holding
  <2> QED
    BY <2>1 DEF HeldLease, JobProject, WTask
<1>6. ~Cancelled(w) /\ Env \cap {"fault", "drift"} = {}
  BY <1>1, RowAssumption DEF Cancelled, NeverCancelled, UpOrCrashed, CrashOnly, Holding
<1>7. taskSt \in [Tasks -> TaskStatuses] /\ planSt \in [Plans -> PlanStatuses]
  BY DEF TypeInv, TypeOK, DbTypes
<1>8. ASSUME \A q \in Plans : q # p => planSt'[q] = planSt[q],
             \A u \in Tasks : taskSt'[u] = "running" => taskSt[u] = "running" \/ u = t,
             ResultMove(w), BeginMove(w), TaskBegins(t), PlanStays(w)
      PROVE  RunMoves
  <2>1. \A u \in Tasks : TaskBegins(u)
    BY <1>8 DEF TaskBegins
  <2>2. ASSUME NEW v \in Workers \ {w}
        PROVE  ResultMove(v) /\ BeginMove(v) /\ PlanStays(v)
    <3>1. ResultMove(v) /\ BeginMove(v)
      BY <1>1, <1>2 DEF ResultMove, BeginMove
    <3>2. PlanStays(v)
      <4> SUFFICES ASSUME pc[v] \in Started PROVE PlanStays(v)
        BY DEF PlanStays
      <4>1. PlanOf[WTask(v)] \in Plans
        BY RowAssumption DEF TypeInv, References, Busy, WTask, Started
      <4> QED
        BY <1>5, <1>8, <4>1 DEF PlanStays
    <3> QED
      BY <3>1, <3>2
  <2> QED
    BY <1>3, <1>8, <2>1, <2>2 DEF RunMoves
<1>9. CASE PrepareFails(w) \/ DriftDetected(w) \/ ResultLost(w) \/ CheckpointDrift(w)
  BY <1>6, <1>9 DEF PrepareFails, DriftDetected, ResultLost, CheckpointDrift
<1>10. CASE StartTask(w)
  <2>1. \/ /\ pc[w] = "owns" /\ pc'[w] = "unwind" /\ UNCHANGED runSt
           /\ \A q \in Plans : q # p => planSt'[q] = planSt[q]
           /\ \A u \in Tasks : taskSt'[u] \in {taskSt[u], "pending"}
        \/ /\ pc[w] = "owns" /\ pc'[w] = "started" /\ UNCHANGED runSt
           /\ t \in NextTasks(p) /\ planSt[p] = "running"
           /\ planSt' \in {planSt, [planSt EXCEPT ![p] = "validating"]}
           /\ taskSt' = [taskSt EXCEPT ![t] = "running"]
    BY <1>2, <1>4, <1>7, <1>10 DEF StartTask, Return, WTask, WorkerTypes
  <2> HIDE DEF p, t
  <2>2. /\ \A q \in Plans : q # p => planSt'[q] = planSt[q]
        /\ \A u \in Tasks : taskSt'[u] = "running" => taskSt[u] = "running" \/ u = t
    BY <1>7, <2>1
  <2>3. ResultMove(w) /\ PlanStays(w)
    BY <2>1 DEF ResultMove, PlanStays, Started
  <2>4. BeginMove(w)
    <3>1. pc'[w] = "started" => planSt'[p] \in {"running", "validating"}
      BY <1>4, <1>7, <2>1
    <3> QED
      BY <1>1, <2>1, <3>1 DEF BeginMove, Started, t, p
  <2>5. TaskBegins(t)
    BY <1>4, <2>1 DEF TaskBegins, t
  <2> QED
    BY <1>8, <2>2, <2>3, <2>4, <2>5
<1>11. CASE SkipValidation(w) \/ StartAgentRun(w) \/ StartProcess(w) \/ ProcessKilled(w)
            \/ ProcessExit(w)
  <2>1. /\ UNCHANGED <<taskSt, planSt>> /\ pc[w] \in Started /\ pc'[w] \in Started
        /\ runSt'[w] # "none" => runSt[w] # "none" \/ pc[w] = "started"
    BY <1>2, <1>6, <1>11 DEF SkipValidation, StartAgentRun, StartProcess, ProcessKilled,
      ProcessExit, Started, dbVars, WorkerTypes
  <2>2. ResultMove(w) /\ PlanStays(w) /\ BeginMove(w) /\ TaskBegins(t)
    BY <1>1, <2>1 DEF ResultMove, PlanStays, BeginMove, TaskBegins
  <2> QED
    BY <1>8, <2>1, <2>2
<1>12. CASE \/ ReturnTaskPending(w) \/ ReturnTaskQueuedForRetry(w) \/ FinishTaskFailed(w)
            \/ FinishTaskIgnored(w) \/ FinishTask(w) \/ FinishTaskRefused(w)
  <2>1. pc[w] = "exited" /\ pc'[w] = "unwind" /\ UNCHANGED runSt
    BY <1>2, <1>12 DEF ReturnTaskPending, ReturnTaskQueuedForRetry, FinishTaskFailed,
      FinishTaskIgnored, FinishTask, FinishTaskRefused, Return, WorkerTypes
  <2>2. taskSt[t] = "running" => planSt[p] \in {"running", "validating"}
    BY <2>1 DEF PlanActive, Started
  <2>3. /\ taskSt'[t] # "running"
        /\ \A u \in Tasks : taskSt'[u] = "running" => taskSt[u] = "running"
        /\ \A q \in Plans : q # p => planSt'[q] = planSt[q]
    <3>1. CASE ReturnTaskPending(w) \/ ReturnTaskQueuedForRetry(w) \/ FinishTaskIgnored(w)
               \/ FinishTaskRefused(w)
      BY <1>4, <1>7, <2>2, <3>1 DEF ReturnTaskPending, ReturnTaskQueuedForRetry,
        FinishTaskIgnored, FinishTaskRefused, WTask, dbVars
    <3>2. CASE FinishTaskFailed(w)
      BY <1>4, <1>7, <2>2, <3>2 DEF FinishTaskFailed, WTask
    <3>3. CASE FinishTask(w)
      <4>1. \/ taskSt' = [taskSt EXCEPT ![t] = "succeeded"]
            \/ \E u \in TasksAfter(t) : taskSt' = [taskSt EXCEPT ![t] = "succeeded",
                                                                ![u] = "queued"]
        BY <3>3 DEF FinishTask, WTask
      <4>2. \E x : planSt' = [planSt EXCEPT ![p] = x]
        <5>1. planSt = [planSt EXCEPT ![p] = planSt[p]]
          BY <1>7
        <5> QED
          BY <3>3, <5>1 DEF FinishTask, WTask
      <4> HIDE DEF t, p
      <4> QED
        BY <1>4, <1>7, <4>1, <4>2
    <3> QED
      BY <1>12, <3>1, <3>2, <3>3
  <2> HIDE DEF p
  <2>4. ResultMove(w) /\ PlanStays(w) /\ BeginMove(w) /\ TaskBegins(t)
    BY <1>1, <1>4, <2>1, <2>3 DEF ResultMove, PlanStays, BeginMove, TaskBegins, Started
  <2> QED
    BY <1>8, <2>3, <2>4
<1> QED
  BY <1>9, <1>10, <1>11, <1>12

\* A recovery pass that takes a job away ends its task if that runs, and
\* blocks no plan one of whose tasks runs elsewhere: the task of a lost job
\* whose turn it is not cannot have an open run.
LEMMA RecoveryRuns ==
  ASSUME CrashOnly, RunInv, NEW i \in Instances, ReconcileRuntimeState(i)
  PROVE  RunMoves
<1> USE DEF RunInv, HeldInv, HandInv, LeaseInv
<1>1. PICK pick \in [LiveJobs -> Workers \cup {None}], skip \in SUBSET LiveJobs :
        LET lost == LostJobs(i, pick, skip)
            unstarted == {j \in lost : Unstarted(j, pick[j])}
            converged == lost \ unstarted
        IN
        /\ \A j \in LiveJobs : IF RunsOf(j) = {} THEN pick[j] = None ELSE pick[j] \in RunsOf(j)
        /\ ConvergeLostJobs(pick, unstarted, converged)
        /\ ConvergeRecoveredTasks(pick, converged)
        /\ ReleaseRecovered(i, pick, converged)
  BY DEF ReconcileRuntimeState
<1> DEFINE lost == LostJobs(i, pick, skip)
           unstarted == {j \in lost : Unstarted(j, pick[j])}
           converged == lost \ unstarted
           open == {j \in converged : taskSt[jobTask[j]] \notin TaskTerminal}
<1>2. lost \subseteq LiveJobs /\ lost \subseteq Jobs
  BY DEF LostJobs, LiveJobs
<1>3. \A j \in Jobs : j \notin lost => jobSt'[j] = jobSt[j] /\ jobWorker'[j] = jobWorker[j]
  BY <1>1, <1>2 DEF ConvergeLostJobs, TypeInv, TypeOK, JobTypes
<1>4. /\ UNCHANGED <<pc, wJob>>
      /\ \A w \in Workers : runSt'[w] \in {runSt[w], "none"}
  BY <1>1 DEF ReleaseRecovered
<1>5. /\ \A t \in Tasks : taskSt'[t] = taskSt[t] \/ taskSt'[t] # "running"
      /\ \A j \in open : jobTask[j] \in Tasks => taskSt'[jobTask[j]] # "running"
  <2>1. PICK end \in [{jobTask[j] : j \in open} -> {"cancelled", "abandoned", "interrupted"}] :
          taskSt' = [t \in Tasks |->
            IF t \in DOMAIN end
              THEN (IF end[t] = "abandoned" THEN "pending" ELSE end[t])
              ELSE taskSt[t]]
    BY <1>1 DEF ConvergeRecoveredTasks
  <2> HIDE DEF open
  <2> QED
    BY <2>1
<1>6. \A p \in Plans : \/ planSt'[p] = planSt[p]
                       \/ /\ planSt[p] \in {"running", "validating"}
                          /\ \E j \in open : /\ PlanOf[jobTask[j]] = p
                                             /\ RecoveryOutcome(j, pick[j]) # "cancelled"
  BY <1>1 DEF ConvergeRecoveredTasks
<1>7. \A j \in lost : jobTask[j] \in Tasks
  BY <1>2 DEF LiveJobs, TypeInv, References
<1>8. \A j \in Jobs : LossMove(j)
  <2> SUFFICES ASSUME NEW j \in lost, taskSt'[jobTask[j]] = "running"
               PROVE  FALSE
    BY <1>3 DEF LossMove
  <2>1. taskSt[jobTask[j]] = "running"
    BY <1>5, <1>7
  <2>2. j \in open
    BY <2>1 DEF Unstarted, TaskTerminal
  <2> HIDE DEF open
  <2> QED
    BY <1>5, <1>7, <2>2
<1>9. ASSUME NEW w \in Workers, pc[w] \in Started, taskSt[WTask(w)] = "running",
             taskSt'[WTask(w)] = "running"
      PROVE  planSt'[PlanOf[WTask(w)]] = planSt[PlanOf[WTask(w)]]
  <2> DEFINE t == WTask(w)
             p == PlanOf[t]
  <2>1. t \in Tasks /\ p \in Plans /\ planSt[p] \in {"running", "validating"}
    BY <1>9, RowAssumption DEF TypeInv, References, Busy, WTask, Started, PlanActive
  <2> SUFFICES ASSUME NEW j \in open, PlanOf[jobTask[j]] = p,
                      RecoveryOutcome(j, pick[j]) # "cancelled"
               PROVE  FALSE
    BY <1>6, <2>1
  <2> DEFINE u == jobTask[j]
  <2>2. /\ j \in LiveJobs /\ u \in Tasks /\ taskSt[u] \notin TaskTerminal
        /\ ~Unstarted(j, pick[j])
    BY <1>2, <1>7
  <2>3. u # t
    BY <1>5, <1>9, <2>2
  <2> HIDE DEF open, t, u, p
  <2>4. Position[u] # Position[t] /\ Position[u] \in Nat /\ Position[t] \in Nat
    BY <2>1, <2>2, <2>3, PositionAssumption, RowAssumption DEF p, u
  <2>5. CASE Position[u] < Position[t]
    <3>1. taskSt[u] = "succeeded"
      BY <1>9, <2>1, <2>2, <2>5 DEF StrictOrder, t, u, p
    <3> QED
      BY <2>2, <3>1 DEF TaskTerminal
  <2>6. CASE Position[t] < Position[u]
    <3>1. taskSt[t] # "succeeded" /\ taskSt[u] = "pending"
      BY <1>9, <2>1, <2>2, <2>6 DEF StrictOrder, t, u, p
    <3>2. ~RecoveryCancellationIntent(j)
      BY DEF RecoveryOutcome
    <3>3. pick[j] # None
      BY <2>2, <3>1, <3>2 DEF Unstarted, u
    <3>4. pick[j] \in Workers /\ wJob[pick[j]] = j /\ runSt[pick[j]] # "none"
      BY <1>1, <2>2, <3>3 DEF RunsOf
    <3>5. \A v \in Preceding(u) : taskSt[v] = "succeeded"
      BY <3>4 DEF InOrder, WTask, u
    <3>6. t \in Preceding(u)
      BY <2>1, <2>6 DEF Preceding, u, p
    <3> QED
      BY <3>1, <3>5, <3>6
  <2> QED
    BY <2>4, <2>5, <2>6
<1> HIDE DEF lost, open, unstarted, converged
<1>10. \A w \in Workers : ResultMove(w) /\ BeginMove(w)
  BY <1>4 DEF ResultMove, BeginMove
<1>11. \A w \in Workers : PlanStays(w)
  BY <1>9 DEF PlanStays
<1>12. \A t \in Tasks : TaskBegins(t)
  BY <1>5 DEF TaskBegins
<1> QED
  BY <1>8, <1>10, <1>11, <1>12 DEF RunMoves

LEMMA NextRunMoves == CrashOnly /\ RunInv /\ [Next]_vars => RunMoves
<1> SUFFICES ASSUME CrashOnly, RunInv, [Next]_vars PROVE RunMoves
  OBVIOUS
<1> USE DEF RunInv, HeldInv, HandInv, LeaseInv
<1>0. HandsOff
  BY DEF CrashOnly, HandsOff
<1>1. ASSUME UNCHANGED <<taskSt, planSt, jobSt, jobWorker, pc, wJob, runSt>>
      PROVE  RunMoves
  <2>1. \A j \in Jobs : LossMove(j)
    BY <1>1 DEF LossMove
  <2> QED
    BY <1>1, <2>1, RunsAlone
<1>2. CASE UserStep
  <2>1. PICK t \in Tasks, k \in Jobs : /\ planSt' = [planSt EXCEPT ![PlanOf[t]] = "running"]
                                       /\ taskSt' = [taskSt EXCEPT ![t] = "queued"]
                                       /\ InsertJob(k, t) /\ UNCHANGED workerVars
    BY <1>0, <1>2, QueueStep
  <2>2. /\ \A u \in Tasks : taskSt'[u] = taskSt[u] \/ taskSt'[u] = "queued"
        /\ \A p \in Plans : planSt'[p] = planSt[p] \/ planSt'[p] = "running"
        /\ UNCHANGED <<pc, wJob, runSt>>
    BY <2>1 DEF TypeInv, TypeOK, DbTypes, workerVars
  <2>3. \A j \in Jobs : LossMove(j)
    BY <2>1 DEF LossMove, InsertJob, Live, TypeInv, TypeOK, JobTypes
  <2>4. ASSUME NEW w \in Workers, pc[w] \in Started
        PROVE  PlanOf[WTask(w)] \in Plans
    BY <2>4, RowAssumption DEF TypeInv, References, Busy, WTask, Started
  <2> QED
    BY <2>2, <2>3, <2>4 DEF RunMoves, ResultMove, BeginMove, TaskBegins, PlanStays
<1>3. ASSUME NEW w \in Workers,
             WorkerStep(w) \/ ProcessExit(w) \/ Renew(w) \/ OrphanExit(w)
      PROVE  RunMoves
  <2> USE DEF TypeInv, TypeOK, WorkerTypes
  <2>1. CASE \/ PrepareFails(w) \/ DriftDetected(w) \/ StartTask(w) \/ SkipValidation(w)
             \/ StartAgentRun(w) \/ StartProcess(w) \/ ProcessKilled(w) \/ ProcessExit(w)
             \/ ResultLost(w) \/ CheckpointDrift(w) \/ ReturnTaskPending(w)
             \/ ReturnTaskQueuedForRetry(w) \/ FinishTaskFailed(w) \/ FinishTaskIgnored(w)
             \/ FinishTask(w) \/ FinishTaskRefused(w)
    BY <2>1, WorkRuns
  <2>2. CASE \/ CompleteJob(w) \/ DeferJobForWorkspace(w) \/ CancelJob(w) \/ FailJob(w)
             \/ BlockTaskJobForDrift(w) \/ SettleLost(w)
    <3>1. /\ pc[w] = "settle" /\ pc' = [pc EXCEPT ![w] = "idle"]
          /\ wJob' = [wJob EXCEPT ![w] = None] /\ UNCHANGED runSt
          /\ \A j \in Jobs : SameRow(j) \/ (j = wJob[w] /\ Owns(w, Live))
      BY <2>2, SettleStep
    <3>2. UNCHANGED <<taskSt, planSt>>
      BY <2>2 DEF NoDrift, CompleteJob, DeferJobForWorkspace, CancelJob, FailJob,
        BlockTaskJobForDrift, SettleLost, Settles, dbVars
    <3>3. \A j \in Jobs : LossMove(j)
      BY <3>1 DEF LossMove, SameRow, Owns
    <3>4. runSt[w] = "none"
      BY <3>1 DEF RunPhase
    <3> QED
      BY <3>1, <3>2, <3>3, <3>4, RunsAlone DEF Started
  <2>3. CASE \/ ClaimSelect(w) \/ ClaimLock(w) \/ MarkJobRunning(w) \/ ReleaseLeasedJob(w)
             \/ WorkerExit(w)
    <3>1. /\ pc[w] \in {"idle", "claim", "leased"}
          /\ pc'[w] \notin Started /\ UNCHANGED <<taskSt, planSt, runSt>>
          /\ \A v \in Workers \ {w} : pc'[v] = pc[v] /\ wJob'[v] = wJob[v]
      BY <2>3 DEF ClaimSelect, ClaimLock, MarkJobRunning, ReleaseLeasedJob, WorkerExit,
        Started, dbVars
    <3>2. \A j \in Jobs : LossMove(j)
      <4>1. CASE ClaimLock(w) \/ MarkJobRunning(w)
        <5>1. \/ UNCHANGED <<jobSt, jobWorker>>
              \/ /\ jobSt[wJob[w]] \in {"queued", "retry_wait"} \/ Owns(w, {"leased"})
                 /\ \E x : jobSt' = [jobSt EXCEPT ![wJob[w]] = x]
                 /\ \E x : jobWorker' = [jobWorker EXCEPT ![wJob[w]] = x]
                           \/ UNCHANGED jobWorker
          BY <4>1 DEF ClaimLock, MarkJobRunning, jobVars
        <5> QED
          BY <3>1, <5>1 DEF LossMove, Owns, Live, JobTypes
      <4>2. CASE ReleaseLeasedJob(w) \/ WorkerExit(w)
        BY <4>2, RowAssumption DEF ReleaseLeasedJob, WorkerExit, UpOrCrashed
      <4>3. CASE ClaimSelect(w)
        BY <4>3 DEF ClaimSelect, LossMove, jobVars
      <4> QED
        BY <2>3, <4>1, <4>2, <4>3
    <3>3. runSt[w] = "none"
      BY <3>1 DEF RunPhase
    <3> QED
      BY <3>1, <3>2, <3>3, RunsAlone DEF Started
  <2>4. CASE AcquireWorkspaceLease(w) \/ Unwind(w)
    <3>1. /\ pc[w] \in {"exec", "unwind"} /\ pc'[w] \in {"owns", "settle"}
          /\ UNCHANGED <<taskSt, planSt, jobSt, jobWorker, wJob>>
          /\ \A v \in Workers \ {w} : pc'[v] = pc[v]
          /\ \A v \in Workers : runSt'[v] \in {runSt[v], "none"}
      BY <2>4 DEF AcquireWorkspaceLease, Unwind, dbVars, jobVars
    <3>2. \A j \in Jobs : LossMove(j)
      BY <3>1 DEF LossMove
    <3> QED
      BY <3>1, <3>2, RunsAlone DEF Started
  <2>5. CASE Renew(w) \/ OrphanExit(w)
    BY <1>1, <2>5 DEF Renew, OrphanExit, dbVars, jobVars
  <2> QED
    BY <1>3, <2>1, <2>2, <2>3, <2>4, <2>5 DEF WorkerStep
<1>4. CASE ClockStep
  BY <1>1, <1>4 DEF ClockStep, ExpireJobLease, ExpireWorkspaceLease, InstanceStale,
    HeartbeatRuntimeInstance, jobVars, dbVars, workerVars
<1>5. ASSUME NEW i \in Instances, BeginDraining(i) \/ ShutdownStep(i)
      PROVE  FALSE
  BY <1>0, <1>5 DEF HandsOff, UpOrCrashed, BeginDraining, ShutdownStep,
    ReconcileInstanceShutdown, CancelAll, StopPool, Exit
<1>6. ASSUME NEW i \in Instances, NEW r \in Projects, CancelPrefix(r, i)
      PROVE  RunMoves
  BY <1>1, <1>6 DEF CancelPrefix, jobVars, dbVars
<1>7. ASSUME NEW i \in Instances, Crash(i)
      PROVE  RunMoves
  <2>1. \A w \in Workers : /\ pc'[w] \in {pc[w], "dead"}
                           /\ pc'[w] # "dead" => wJob'[w] = wJob[w]
                           /\ runSt[w] # "none" => wJob'[w] = wJob[w]
    BY <1>7 DEF Crash
  <2>2. UNCHANGED <<taskSt, planSt, jobSt, jobWorker, runSt>>
    BY <1>7 DEF Crash, dbVars, jobVars
  <2> QED
    BY <2>1, <2>2 DEF RunMoves, ResultMove, BeginMove, TaskBegins, PlanStays, LossMove, Started
<1>8. ASSUME NEW i \in Instances, ReconcileRuntimeState(i)
      PROVE  RunMoves
  BY <1>8, RecoveryRuns
<1>9. CASE UNCHANGED vars
  BY <1>1, <1>9 DEF vars, dbVars, jobVars, workerVars
<1> QED
  BY <1>2, <1>3, <1>4, <1>5, <1>6, <1>7, <1>8, <1>9 DEF Next

\* Only a crash kills a worker, and it touches no row.
LEMMA CrashKeepsRows ==
  ASSUME TypeInv, [Next]_vars, NEW w \in Workers, pc'[w] = "dead", pc[w] # "dead"
  PROVE  UNCHANGED <<jobSt, jobWorker>>
<1> USE DEF TypeInv, TypeOK, WorkerTypes
<1>1. ASSUME UNCHANGED pc PROVE FALSE
  BY <1>1
<1>2. ASSUME NEW v \in Workers,
             WorkerStep(v) \/ ProcessExit(v) \/ Renew(v) \/ OrphanExit(v)
      PROVE  \E x : x # "dead" /\ pc' = [pc EXCEPT ![v] = x]
  <2>1. CASE \/ PrepareFails(v) \/ DriftDetected(v) \/ StartTask(v) \/ SkipValidation(v)
             \/ StartAgentRun(v) \/ StartProcess(v) \/ ProcessKilled(v) \/ ProcessExit(v)
             \/ ResultLost(v) \/ CheckpointDrift(v) \/ ReturnTaskPending(v)
             \/ ReturnTaskQueuedForRetry(v) \/ FinishTaskFailed(v) \/ FinishTaskIgnored(v)
             \/ FinishTask(v) \/ FinishTaskRefused(v)
    <3>1. \E x \in Holding : pc' = [pc EXCEPT ![v] = x]
      BY <2>1, WorkStep
    <3> QED
      BY <3>1 DEF Holding
  <2>2. CASE \/ CompleteJob(v) \/ DeferJobForWorkspace(v) \/ CancelJob(v) \/ FailJob(v)
             \/ BlockTaskJobForDrift(v) \/ SettleLost(v)
    BY <2>2, SettleStep
  <2>3. CASE \/ ClaimSelect(v) \/ WorkerExit(v) \/ AcquireWorkspaceLease(v) \/ Unwind(v)
             \/ Renew(v) \/ OrphanExit(v) \/ ClaimLock(v) \/ MarkJobRunning(v)
             \/ ReleaseLeasedJob(v)
    BY <1>1, <2>3 DEF ClaimSelect, WorkerExit, AcquireWorkspaceLease, Unwind, Renew, OrphanExit,
      ClaimLock, MarkJobRunning, ReleaseLeasedJob
  <2> QED
    BY <1>2, <2>1, <2>2, <2>3 DEF WorkerStep
<1>3. CASE UserStep
  BY <1>1, <1>3, UserStepRows
<1>4. CASE ClockStep
  BY <1>1, <1>4 DEF ClockStep, ExpireJobLease, ExpireWorkspaceLease, InstanceStale,
    HeartbeatRuntimeInstance, workerVars
<1>5. ASSUME NEW i \in Instances,
             \/ BeginDraining(i) \/ ShutdownStep(i) \/ ReconcileRuntimeState(i)
             \/ \E r \in Projects : CancelPrefix(r, i)
      PROVE  FALSE
  BY <1>1, <1>5 DEF BeginDraining, ShutdownStep, ReconcileInstanceShutdown, CancelAll, StopPool,
    Exit, ReconcileRuntimeState, ReleaseRecovered, CancelPrefix, workerVars
<1>6. ASSUME NEW i \in Instances, Crash(i)
      PROVE  UNCHANGED <<jobSt, jobWorker>>
  BY <1>6 DEF Crash, jobVars
<1> QED
  BY <1>1, <1>2, <1>3, <1>4, <1>5, <1>6 DEF Next, vars, workerVars

\* A task shown as running has a job in flight, from StartTask to the
\* transaction that stores its result: however often instances crash at any
\* point in between, and whichever of the others runs recovery, the task does
\* not stay running without a job that the next recovery pass can find.
THEOREM RunningTasksHaveJobs ==
  ASSUME CrashOnly
  PROVE  Spec => []RunningTaskHasJob
<1>1. Init => RunInv
  <2> SUFFICES ASSUME Init PROVE RunInv
    OBVIOUS
  <2>1. HeldInv
    BY InitHeld
  <2> QED
    BY <2>1 DEF Init, RunInv, StrictOrder, NoDrift, InOrder, PlanActive, RunningHeld, Started
<1>2. RunInv /\ [Next]_vars => RunInv'
  <2> SUFFICES ASSUME RunInv, [Next]_vars PROVE RunInv'
    OBVIOUS
  <2>1. /\ HandsOff /\ Undisturbed /\ "drift" \notin Env
        /\ HeldInv /\ HandInv /\ LeaseInv /\ TypeInv /\ StrictOrder /\ NoDrift
    BY DEF CrashOnly, HandsOff, Undisturbed, RunInv, HeldInv, HandInv, LeaseInv
  <2>2. HeldInv' /\ Moves /\ LeaseMoves /\ HandMoves /\ RunMoves
    BY <2>1, NextHeld, NextMoves, NextLeaseMoves, NextHandMoves, NextRunMoves
  <2>3. StrictOrder'
    BY <2>1, NextOrdered
  <2>4. NoDrift'
    BY <2>1, NoDriftReported DEF NoDrift
  <2>5. \A w \in Workers : pc'[w] = "dead" /\ pc[w] # "dead" => UNCHANGED <<jobSt, jobWorker>>
    BY <2>1, CrashKeepsRows
  <2> QED
    BY <2>2, <2>3, <2>4, <2>5, RunMovesKeepInv
<1>3. RunInv => RunningTaskHasJob
  BY DEF RunInv, RunningHeld, RunningTaskHasJob, LiveJobs, Live
<1> QED
  BY <1>1, <1>2, <1>3, PTL DEF Spec

-----------------------------------------------------------------------------
(* Jobs in flight when executions may end with a drift report.  The        *)
(* transaction that records it refuses a task that is over, and then the   *)
(* job would stay with nobody; it never has to, because the worker's job   *)
(* is the only one of its task that is still to be executed.               *)

DriftOnly == Env \subseteq {"drift"}

Active == {"queued", "running"}

\* The worker still has its task to do, or returns to have it done again or
\* put back.
Pursues(w) ==
  \/ pc[w] \in {"leased", "exec"} \cup (Holding \ {"unwind"})
  \/ pc[w] \in {"unwind", "settle"} /\ out[w] \in {"drift", "retry", "busy"}

\* The job will still be executed, or is being.
Effective(j) ==
  \/ jobSt[j] \in {"queued", "retry_wait"}
  \/ jobSt[j] \in Live /\ \E w \in Workers : jobWorker[j] = w /\ wJob[w] = j /\ Pursues(w)

\* The task of such a job is in hand ...
EffectiveActive == \A j \in Jobs : Effective(j) => taskSt[jobTask[j]] \in Active
\* ... and has no other.
EffectiveAlone ==
  \A j, k \in Jobs : Effective(j) /\ Effective(k) /\ jobTask[j] = jobTask[k] => j = k

AllUp == \A i \in Instances : inst[i] = "up"

DriftInv == HeldInv /\ AttendedInv /\ AllUp /\ EffectiveActive /\ EffectiveAlone

\* A task is put back or ends only with the job that pursues it.
TaskEnds(t) ==
  taskSt[t] \in Active /\ taskSt'[t] \notin Active =>
    \E j \in Jobs : jobTask[j] = t /\ Effective(j) /\ ~Effective(j)'

\* A job comes to be executed only as the one new row of a task nobody has in
\* hand.
NewRow(j) ==
  /\ jobSt[j] = "none"
  /\ taskSt[jobTask'[j]] \notin Active /\ taskSt'[jobTask'[j]] = "queued"
  /\ \A k \in Jobs : jobSt[k] = "none" /\ jobSt'[k] # "none" => k = j

EffectMoves ==
  /\ \A t \in Tasks : TaskEnds(t)
  /\ \A j \in Jobs : Effective(j)' => Effective(j) \/ NewRow(j)

LEMMA EffectMovesKeepInv ==
  ASSUME EffectiveActive, EffectiveAlone, References, TaskKept, EffectMoves
  PROVE  EffectiveActive' /\ EffectiveAlone'
<1>1. ASSUME NEW j \in Jobs, Effective(j)
      PROVE  jobSt[j] # "none" /\ jobTask[j] \in Tasks /\ jobTask'[j] = jobTask[j]
  <2>1. jobSt[j] # "none"
    BY <1>1 DEF Effective, Live
  <2> QED
    BY <2>1 DEF References, TaskKept
<1>2. ASSUME NEW j \in Jobs, Effective(j)', Effective(j)
      PROVE  taskSt'[jobTask'[j]] \in Active
  <2>1. jobTask[j] \in Tasks /\ jobTask'[j] = jobTask[j] /\ taskSt[jobTask[j]] \in Active
    BY <1>1, <1>2 DEF EffectiveActive
  <2> SUFFICES ASSUME taskSt'[jobTask[j]] \notin Active PROVE FALSE
    BY <2>1
  <2>2. PICK k \in Jobs : jobTask[k] = jobTask[j] /\ Effective(k) /\ ~Effective(k)'
    BY <2>1 DEF EffectMoves, TaskEnds
  <2> QED
    BY <1>2, <2>2 DEF EffectiveAlone
<1>3. EffectiveActive'
  BY <1>2 DEF EffectiveActive, EffectMoves, NewRow, Active
<1>4. ASSUME NEW j \in Jobs, NEW k \in Jobs, Effective(j)', Effective(k)',
             jobTask'[j] = jobTask'[k], NewRow(j)
      PROVE  j = k
  <2>1. CASE Effective(k)
    BY <1>1, <1>4, <2>1 DEF EffectiveActive, NewRow
  <2>2. CASE NewRow(k)
    <3>1. jobSt'[k] # "none"
      BY <1>4 DEF Effective, Live
    <3> QED
      BY <1>4, <2>2, <3>1 DEF NewRow
  <2> QED
    BY <1>4, <2>1, <2>2 DEF EffectMoves
<1>5. ASSUME NEW j \in Jobs, NEW k \in Jobs, Effective(j)', Effective(k)',
             jobTask'[j] = jobTask'[k]
      PROVE  j = k
  <2>1. CASE Effective(j) /\ Effective(k)
    BY <1>1, <1>5, <2>1 DEF EffectiveAlone
  <2> QED
    BY <1>4, <1>5, <2>1 DEF EffectMoves
<1> QED
  BY <1>3, <1>5 DEF EffectiveAlone

\* A worker at work owns its row, so its job is effective while it pursues it.
LEMMA WorkersJob ==
  ASSUME HeldInv, NEW w \in Workers, pc[w] \in AtWork
  PROVE  /\ wJob[w] \in Jobs /\ jobSt[wJob[w]] \in Live /\ jobWorker[wJob[w]] = w
         /\ jobSt[wJob[w]] # "none" /\ jobTask[wJob[w]] \in Tasks
         /\ Effective(wJob[w]) <=> Pursues(w)
<1>1. Owns(w, Live) /\ wJob[w] \in Jobs
  BY DEF HeldInv, RowHeld, HandInv, RowOwned, InHand
<1>2. jobSt[wJob[w]] \notin {"none", "queued", "retry_wait"}
  BY <1>1 DEF Owns, Live
<1> QED
  BY <1>1, <1>2 DEF Owns, Effective, HeldInv, HandInv, LeaseInv, TypeInv, References

\* A step that touches neither rows nor workers nor tasks in hand.
LEMMA EffectsAlone ==
  ASSUME UNCHANGED <<jobSt, jobWorker, pc, wJob, out>>,
         \A t \in Tasks : taskSt[t] \in Active => taskSt'[t] \in Active
  PROVE  EffectMoves
BY DEF EffectMoves, TaskEnds, Effective, Pursues

\* The worker goes on with its task: it lets go of the task when it returns for
\* good, and FinishTask queues the next one.
LEMMA WorkEffects ==
  ASSUME DriftInv, NEW w \in Workers,
         \/ PrepareFails(w) \/ DriftDetected(w) \/ StartTask(w) \/ SkipValidation(w)
         \/ StartAgentRun(w) \/ StartProcess(w) \/ ProcessKilled(w) \/ ProcessExit(w)
         \/ ResultLost(w) \/ CheckpointDrift(w) \/ ReturnTaskPending(w)
         \/ ReturnTaskQueuedForRetry(w) \/ FinishTaskFailed(w) \/ FinishTaskIgnored(w)
         \/ FinishTask(w) \/ FinishTaskRefused(w)
  PROVE  EffectMoves
<1> USE DEF DriftInv
<1> DEFINE t == jobTask[wJob[w]]
           Gone == pc'[w] = "unwind" /\ out'[w] \in {"fail", "ok", "cancelled"}
           LetGo == \A u \in Tasks :
                      taskSt[u] \in Active /\ taskSt'[u] \notin Active => u = t /\ Gone
           Queued == \A j \in Jobs : jobSt[j] = "none" /\ jobSt'[j] # "none" => NewRow(j)
<1>0. TypeInv /\ TypeOK /\ taskSt \in [Tasks -> TaskStatuses]
  BY DEF HeldInv, HandInv, LeaseInv, TypeInv, TypeOK, DbTypes
<1>1. /\ pc[w] \in Holding \ {"unwind"}
      /\ \E x \in Holding : pc' = [pc EXCEPT ![w] = x]
      /\ UNCHANGED wJob
      /\ \A j \in Jobs : jobSt[j] # "none" => SameRow(j)
  BY <1>0, WorkStep
<1>2. /\ wJob[w] \in Jobs /\ jobSt[wJob[w]] \in Live /\ jobWorker[wJob[w]] = w
      /\ jobSt[wJob[w]] # "none" /\ t \in Tasks /\ Effective(wJob[w]) /\ Pursues(w)
  BY <1>1, WorkersJob DEF Pursues, Holding, AtWork, Executing
<1>3. \A v \in Workers \ {w} : pc'[v] = pc[v] /\ wJob'[v] = wJob[v] /\ out'[v] = out[v]
  <2>1. UNCHANGED out \/ \E x : out' = [out EXCEPT ![w] = x]
    BY DEF PrepareFails, DriftDetected, StartTask, SkipValidation, StartAgentRun, StartProcess,
      ProcessKilled, ProcessExit, ResultLost, CheckpointDrift, ReturnTaskPending,
      ReturnTaskQueuedForRetry, FinishTaskFailed, FinishTaskIgnored, FinishTask,
      FinishTaskRefused, Return
  <2> QED
    BY <1>0, <1>1, <2>1 DEF TypeOK, WorkerTypes
<1>4. LetGo /\ Queued
  <2>1. CASE FinishTask(w)
    <3>1. Gone
      BY <1>0, <2>1 DEF FinishTask, Return, TypeOK, WorkerTypes
    <3>2. \/ /\ taskSt' = [taskSt EXCEPT ![t] = "succeeded"]
             /\ UNCHANGED jobVars
          \/ \E u \in TasksAfter(t), j \in Jobs :
               /\ InsertJob(j, u) /\ taskSt[u] = "pending"
               /\ taskSt' = [taskSt EXCEPT ![t] = "succeeded", ![u] = "queued"]
      BY <2>1 DEF FinishTask
    <3> HIDE DEF Gone
    <3>3. CASE /\ taskSt' = [taskSt EXCEPT ![t] = "succeeded"]
               /\ UNCHANGED jobVars
      <4> HIDE DEF t
      <4> QED
        BY <1>0, <1>2, <3>1, <3>3 DEF jobVars
    <3>4. ASSUME NEW u \in TasksAfter(t), NEW j \in Jobs,
                 InsertJob(j, u), taskSt[u] = "pending",
                 taskSt' = [taskSt EXCEPT ![t] = "succeeded", ![u] = "queued"]
          PROVE  LetGo /\ Queued
      <4>1. u \in Tasks /\ u # t
        BY DEF TasksAfter, TasksOf
      <4>2. /\ jobSt[j] = "none" /\ jobTask'[j] = u
            /\ \A k \in Jobs : k # j => jobSt'[k] = jobSt[k]
        BY <1>0, <3>4 DEF InsertJob, TypeOK, JobTypes
      <4> HIDE DEF t
      <4>3. taskSt'[u] = "queued" /\ \A v \in Tasks \ {t, u} : taskSt'[v] = taskSt[v]
        BY <1>0, <1>2, <3>4, <4>1
      <4> QED
        BY <3>1, <3>4, <4>1, <4>2, <4>3 DEF NewRow, Active
    <3> QED
      BY <3>2, <3>3, <3>4
  <2>2. CASE ~FinishTask(w)
    <3>1. UNCHANGED jobSt
      BY <2>2 DEF PrepareFails, DriftDetected, StartTask, SkipValidation, StartAgentRun,
        StartProcess, ProcessKilled, ProcessExit, ResultLost, CheckpointDrift,
        ReturnTaskPending, ReturnTaskQueuedForRetry, FinishTaskFailed, FinishTaskIgnored,
        FinishTaskRefused, jobVars
    <3>2. \/ UNCHANGED taskSt
          \/ \E x \in Active : taskSt' = [taskSt EXCEPT ![t] = x]
          \/ Gone /\ \E x : taskSt' = [taskSt EXCEPT ![t] = x]
      <4> USE DEF Return, TypeOK, WorkerTypes, Active
      <4>1. CASE StartTask(w)
        BY <1>0, <4>1 DEF StartTask
      <4>2. CASE ReturnTaskQueuedForRetry(w)
        <5>1. taskSt = [taskSt EXCEPT ![t] = taskSt[t]]
          BY <1>0
        <5> QED
          BY <4>2, <5>1 DEF ReturnTaskQueuedForRetry
      <4>3. CASE ReturnTaskPending(w) \/ FinishTaskFailed(w)
        BY <1>0, <4>3 DEF ReturnTaskPending, FinishTaskFailed
      <4> QED
        BY <2>2, <4>1, <4>2, <4>3 DEF PrepareFails, DriftDetected, SkipValidation,
          StartAgentRun, StartProcess, ProcessKilled, ProcessExit, ResultLost, CheckpointDrift,
          FinishTaskIgnored, FinishTaskRefused, dbVars
    <3> HIDE DEF Gone, t
    <3> QED
      BY <1>0, <1>2, <3>1, <3>2
  <2> QED
    BY <2>1, <2>2
<1> HIDE DEF t
<1>5. ASSUME NEW j \in Jobs, j = wJob[w], Gone PROVE ~Effective(j)'
  <2>1. /\ jobSt'[j] \in Live /\ jobWorker'[j] = w
        /\ jobSt'[j] \notin {"queued", "retry_wait"} /\ wJob'[w] = j
    BY <1>1, <1>2, <1>5 DEF SameRow, Live
  <2>2. ~Pursues(w)'
    BY <1>5 DEF Pursues, Holding
  <2> QED
    BY <1>1, <2>1, <2>2 DEF Effective
<1>6. ASSUME NEW u \in Tasks PROVE TaskEnds(u)
  BY <1>2, <1>4, <1>5 DEF TaskEnds, t
<1>7. ASSUME NEW j \in Jobs, Effective(j)', jobSt[j] # "none" PROVE Effective(j)
  <2>1. jobSt'[j] = jobSt[j] /\ jobWorker'[j] = jobWorker[j] /\ UNCHANGED wJob
    BY <1>1, <1>7 DEF SameRow
  <2>2. \A v \in Workers : Pursues(v)' => Pursues(v)
    BY <1>2, <1>3 DEF Pursues
  <2> QED
    BY <1>7, <2>1, <2>2 DEF Effective
<1>8. ASSUME NEW j \in Jobs, Effective(j)', jobSt[j] = "none" PROVE NewRow(j)
  <2>1. jobSt'[j] # "none"
    BY <1>8 DEF Effective, Live
  <2> QED
    BY <1>4, <1>8, <2>1
<1> QED
  BY <1>6, <1>7, <1>8 DEF EffectMoves

\* The worker settles its job, which returns to the queue only when the worker
\* pursued it.
LEMMA SettleEffects ==
  ASSUME DriftInv, NEW w \in Workers,
         \/ CompleteJob(w) \/ DeferJobForWorkspace(w) \/ CancelJob(w) \/ FailJob(w)
         \/ BlockTaskJobForDrift(w) \/ SettleLost(w)
  PROVE  EffectMoves
<1> USE DEF DriftInv
<1> DEFINE t == jobTask[wJob[w]]
<1>0. TypeInv /\ TypeOK /\ taskSt \in [Tasks -> TaskStatuses]
  BY DEF HeldInv, HandInv, LeaseInv, TypeInv, TypeOK, DbTypes
<1>1. /\ pc[w] = "settle"
      /\ pc' = [pc EXCEPT ![w] = "idle"] /\ wJob' = [wJob EXCEPT ![w] = None]
      /\ \A j \in Jobs : SameRow(j) \/ j = wJob[w]
  BY <1>0, SettleStep
<1>2. /\ wJob[w] \in Jobs /\ jobSt[wJob[w]] \in Live /\ jobWorker[wJob[w]] = w
      /\ jobSt[wJob[w]] # "none" /\ t \in Tasks
      /\ Pursues(w) <=> out[w] \in {"drift", "retry", "busy"}
      /\ Effective(wJob[w]) <=> Pursues(w)
  BY <1>1, WorkersJob DEF Pursues, Holding, AtWork, Executing
<1>3. \A v \in Workers \ {w} : pc'[v] = pc[v] /\ wJob'[v] = wJob[v] /\ out'[v] = out[v]
  <2>1. out' = [out EXCEPT ![w] = "none"]
    BY DEF CompleteJob, DeferJobForWorkspace, CancelJob, FailJob, BlockTaskJobForDrift,
      SettleLost, Settles, Done
  <2> QED
    BY <1>0, <1>1, <2>1 DEF TypeOK, WorkerTypes
<1>4. wJob'[w] = None
  BY <1>0, <1>1 DEF TypeOK, WorkerTypes
<1>5. /\ jobWorker'[wJob[w]] \in {w, None}
      /\ jobSt'[wJob[w]] \in {"queued", "retry_wait"} => out[w] \in {"retry", "busy"}
  <2> USE DEF TypeOK, JobTypes
  <2>1. ASSUME NEW S, NEW st, SettleJob(w, S, st)
        PROVE  jobWorker'[wJob[w]] = w /\ jobSt'[wJob[w]] \in {jobSt[wJob[w]], st}
    BY <1>0, <1>2, <2>1 DEF SettleJob
  <2>2. CASE CompleteJob(w) \/ CancelJob(w)
    <3>1. \E S, st : st \notin {"queued", "retry_wait"} /\ SettleJob(w, S, st)
      BY <2>2 DEF CompleteJob, CancelJob
    <3> QED
      BY <1>2, <2>1, <3>1 DEF Live
  <2>3. CASE FailJob(w)
    <3>1. \E S, st : /\ st \in {"queued", "retry_wait"} => out[w] = "retry"
                     /\ SettleJob(w, S, st)
      BY <2>3 DEF FailJob
    <3> QED
      BY <1>2, <2>1, <3>1 DEF Live
  <2>4. CASE DeferJobForWorkspace(w)
    BY <1>0, <1>2, <2>4 DEF DeferJobForWorkspace, Settles, Requeue, jobVars
  <2>5. CASE BlockTaskJobForDrift(w)
    <3>1. UNCHANGED <<jobSt, jobWorker>> \/ SettleJob(w, {"leased", "running"}, "failed")
      BY <2>5 DEF BlockTaskJobForDrift, jobVars
    <3> QED
      BY <1>2, <2>1, <3>1 DEF Live
  <2>6. CASE SettleLost(w)
    BY <1>2, <2>6 DEF SettleLost, jobVars, Live
  <2> QED
    BY <2>2, <2>3, <2>4, <2>5, <2>6
<1>6. ASSUME NEW j \in Jobs, Effective(j)' PROVE Effective(j)
  <2>1. CASE j = wJob[w]
    <3>1. jobSt'[j] \in {"queued", "retry_wait"}
      <4>1. ASSUME NEW v \in Workers, jobWorker'[j] = v, wJob'[v] = j PROVE FALSE
        BY <1>2, <1>4, <1>5, <2>1, <4>1, RowAssumption
      <4> QED
        BY <1>6, <4>1 DEF Effective
    <3> QED
      BY <1>2, <1>5, <2>1, <3>1
  <2>2. CASE j # wJob[w]
    <3>1. jobSt'[j] = jobSt[j] /\ jobWorker'[j] = jobWorker[j]
      BY <1>1, <2>2 DEF SameRow
    <3>2. ASSUME NEW v \in Workers, wJob'[v] = j, Pursues(v)' PROVE wJob[v] = j /\ Pursues(v)
      <4>1. v # w
        BY <1>4, <3>2, RowAssumption
      <4> QED
        BY <1>3, <3>2, <4>1 DEF Pursues
    <3> QED
      BY <1>6, <3>1, <3>2 DEF Effective
  <2> QED
    BY <2>1, <2>2
<1>7. ASSUME NEW u \in Tasks, taskSt[u] \in Active, taskSt'[u] \notin Active
      PROVE  \E j \in Jobs : jobTask[j] = u /\ Effective(j) /\ ~Effective(j)'
  <2>1. BlockTaskJobForDrift(w) /\ taskSt' = [taskSt EXCEPT ![t] = "pending"]
    BY <1>7 DEF CompleteJob, DeferJobForWorkspace, CancelJob, FailJob, BlockTaskJobForDrift,
      SettleLost, dbVars
  <2>2. out[w] = "drift"
    BY <2>1 DEF BlockTaskJobForDrift, Settles
  <2> HIDE DEF t
  <2>3. u = t
    BY <1>0, <1>2, <1>7, <2>1
  <2>4. ASSUME NEW j \in Jobs, j = wJob[w], Effective(j)' PROVE FALSE
    <3>1. jobSt'[j] \notin {"queued", "retry_wait"}
      BY <1>5, <2>2, <2>4
    <3>2. ASSUME NEW v \in Workers, jobWorker'[j] = v, wJob'[v] = j PROVE FALSE
      BY <1>2, <1>4, <1>5, <2>4, <3>2, RowAssumption
    <3> QED
      BY <2>4, <3>1, <3>2 DEF Effective
  <2> QED
    BY <1>2, <2>2, <2>3, <2>4 DEF t
<1> QED
  BY <1>6, <1>7 DEF EffectMoves, TaskEnds

\* Recovery finds every job in flight in the hands of its worker.
LEMMA NothingLost ==
  ASSUME DriftInv, NEW i \in Instances, ReconcileRuntimeState(i)
  PROVE  UNCHANGED <<jobSt, jobWorker, taskSt>>
<1> USE DEF DriftInv
<1>1. PICK pick \in [LiveJobs -> Workers \cup {None}], skip \in SUBSET LiveJobs :
        LET lost == LostJobs(i, pick, skip)
            unstarted == {k \in lost : Unstarted(k, pick[k])}
        IN
        /\ \A k \in LiveJobs :
             IF RunsOf(k) = {} THEN pick[k] = None ELSE pick[k] \in RunsOf(k)
        /\ ConvergeLostJobs(pick, unstarted, lost \ unstarted)
        /\ ConvergeRecoveredTasks(pick, lost \ unstarted)
  BY DEF ReconcileRuntimeState
<1>2. ASSUME NEW j \in LostJobs(i, pick, skip) PROVE FALSE
  <2>1. j \in Jobs /\ jobSt[j] \in Live
    BY DEF LostJobs, LiveJobs, Live
  <2>2. /\ jobWorker[j] \in Workers
        /\ wJob[jobWorker[j]] = j /\ pc[jobWorker[j]] \in AtWork
    BY <2>1, RowAssumption DEF AttendedInv, JobsAttended, AllUp, Ending
  <2> QED
    BY <1>1, <1>2, <2>2, NotLost DEF HeldInv
<1>3. ConvergeLostJobs(pick, {}, {}) /\ ConvergeRecoveredTasks(pick, {})
  <2>1. LostJobs(i, pick, skip) = {}
    BY <1>2
  <2>2. {k \in LostJobs(i, pick, skip) : Unstarted(k, pick[k])} = {}
    BY <2>1
  <2> QED
    BY <1>1, <2>1, <2>2
<1>4. /\ jobSt \in [Jobs -> JobStatuses \cup {"none"}]
      /\ jobWorker \in [Jobs -> Workers \cup {None}]
      /\ taskSt \in [Tasks -> TaskStatuses]
  BY DEF HeldInv, HandInv, LeaseInv, TypeInv, TypeOK, JobTypes, DbTypes
<1>5. jobSt' = [j \in Jobs |-> jobSt[j]] /\ jobWorker' = [j \in Jobs |-> jobWorker[j]]
  BY <1>3 DEF ConvergeLostJobs
<1>6. taskSt' = [t \in Tasks |-> taskSt[t]]
  BY <1>3 DEF ConvergeRecoveredTasks
<1> QED
  BY <1>4, <1>5, <1>6

LEMMA NextEffects ==
  ASSUME DriftOnly, DriftInv, [Next]_vars
  PROVE  EffectMoves /\ AllUp'
<1> USE DEF DriftInv
<1>0. TypeInv /\ TypeOK /\ HandsOff
  BY DEF HeldInv, HandInv, LeaseInv, TypeInv, DriftOnly, HandsOff
<1>1. CASE UNCHANGED vars
  BY <1>1, EffectsAlone DEF vars, dbVars, jobVars, workerVars, instVars, AllUp
<1>2. CASE UserStep
  <2>1. PICK t \in Tasks, j \in Jobs :
          /\ ActiveTasks(PlanOf[t]) = {}
          /\ taskSt' = [taskSt EXCEPT ![t] = "queued"]
          /\ InsertJob(j, t)
          /\ UNCHANGED <<workerVars, instVars>>
    BY <1>0, <1>2, QueueStep
  <2>2. taskSt[t] \notin Active
    BY <2>1 DEF ActiveTasks, TasksOf, Active
  <2>3. \A u \in Tasks : taskSt[u] \in Active => taskSt'[u] \in Active
    BY <1>0, <2>1 DEF Active, TypeOK, DbTypes
  <2>4. /\ jobSt[j] = "none" /\ jobTask'[j] = t /\ taskSt'[t] = "queued"
        /\ \A k \in Jobs : k # j => jobSt'[k] = jobSt[k]
        /\ UNCHANGED <<jobWorker, pc, wJob, out, inst>>
    BY <1>0, <2>1 DEF InsertJob, TypeOK, JobTypes, DbTypes, workerVars, instVars
  <2>5. NewRow(j)
    BY <2>2, <2>4 DEF NewRow
  <2>6. ASSUME NEW k \in Jobs, Effective(k)', k # j PROVE Effective(k)
    BY <2>4, <2>6 DEF Effective, Pursues
  <2> QED
    BY <2>3, <2>4, <2>5, <2>6 DEF EffectMoves, TaskEnds, AllUp
<1>3. ASSUME NEW w \in Workers,
             WorkerStep(w) \/ ProcessExit(w) \/ Renew(w) \/ OrphanExit(w)
      PROVE  EffectMoves /\ AllUp'
  <2> USE DEF TypeOK, WorkerTypes
  <2>1. CASE \/ PrepareFails(w) \/ DriftDetected(w) \/ StartTask(w) \/ SkipValidation(w)
             \/ StartAgentRun(w) \/ StartProcess(w) \/ ProcessKilled(w) \/ ProcessExit(w)
             \/ ResultLost(w) \/ CheckpointDrift(w) \/ ReturnTaskPending(w)
             \/ ReturnTaskQueuedForRetry(w) \/ FinishTaskFailed(w) \/ FinishTaskIgnored(w)
             \/ FinishTask(w) \/ FinishTaskRefused(w)
    BY <1>0, <2>1, WorkEffects, WorkStep DEF instVars, AllUp
  <2>2. CASE \/ CompleteJob(w) \/ DeferJobForWorkspace(w) \/ CancelJob(w) \/ FailJob(w)
             \/ BlockTaskJobForDrift(w) \/ SettleLost(w)
    BY <1>0, <2>2, SettleEffects, SettleStep DEF instVars, AllUp
  <2>3. CASE Renew(w) \/ OrphanExit(w)
    BY <2>3, EffectsAlone DEF Renew, OrphanExit, dbVars, jobVars, instVars, AllUp
  <2>4. ASSUME UNCHANGED <<taskSt, inst>>,
               \A v \in Workers \ {w} : pc'[v] = pc[v] /\ wJob'[v] = wJob[v] /\ out'[v] = out[v],
               \A j \in Jobs : Effective(j)' => Effective(j)
        PROVE  EffectMoves /\ AllUp'
    BY <2>4 DEF EffectMoves, TaskEnds, AllUp
  <2>5. CASE ClaimSelect(w) \/ WorkerExit(w)
    <3>1. /\ pc[w] = "idle" /\ pc' = [pc EXCEPT ![w] = IF ClaimSelect(w) THEN "claim" ELSE "gone"]
          /\ UNCHANGED <<taskSt, inst, out, jobSt, jobWorker>>
          /\ \A v \in Workers \ {w} : wJob'[v] = wJob[v]
      BY <1>0, <2>5 DEF ClaimSelect, WorkerExit, dbVars, jobVars, instVars
    <3>2. \A v \in Workers : Pursues(v)' => v # w /\ Pursues(v)
      BY <1>0, <3>1 DEF Pursues, Holding
    <3>3. \A j \in Jobs : Effective(j)' => Effective(j)
      BY <3>1, <3>2 DEF Effective
    <3> QED
      BY <1>0, <2>4, <3>1, <3>3
  <2>6. CASE AcquireWorkspaceLease(w) \/ Unwind(w)
    <3>1. /\ pc[w] = "exec" \/ (pc[w] = "unwind" /\ UNCHANGED out /\ pc' = [pc EXCEPT ![w] = "settle"])
          /\ UNCHANGED <<taskSt, inst, jobSt, jobWorker, wJob>>
          /\ \A v \in Workers \ {w} : pc'[v] = pc[v] /\ out'[v] = out[v]
      BY <1>0, <2>6 DEF AcquireWorkspaceLease, Unwind, dbVars, jobVars, instVars
    <3>2. \A v \in Workers : Pursues(v)' => Pursues(v)
      BY <1>0, <3>1 DEF Pursues, Holding
    <3>3. \A j \in Jobs : Effective(j)' => Effective(j)
      BY <3>1, <3>2 DEF Effective
    <3> QED
      BY <2>4, <3>1, <3>3
  <2>7. CASE ClaimLock(w) \/ MarkJobRunning(w)
    <3>1. wJob[w] \in Jobs
      BY <1>0, <2>7 DEF ClaimLock, MarkJobRunning, TypeInv, References, Busy
    <3>2. /\ UNCHANGED <<taskSt, inst, out>>
          /\ \A v \in Workers \ {w} : pc'[v] = pc[v] /\ wJob'[v] = wJob[v]
          /\ \A j \in Jobs \ {wJob[w]} : jobSt'[j] = jobSt[j] /\ jobWorker'[j] = jobWorker[j]
      BY <1>0, <2>7, <3>1 DEF ClaimLock, MarkJobRunning, dbVars, jobVars, instVars, JobTypes
    <3>3. \/ /\ pc'[w] = "idle" /\ wJob'[w] = None
             /\ UNCHANGED <<jobSt, jobWorker>>
          \/ /\ wJob'[w] = wJob[w] /\ Effective(wJob[w])
      <4>1. CASE ClaimLock(w)
        BY <1>0, <4>1 DEF ClaimLock, jobVars, Effective
      <4>2. CASE MarkJobRunning(w)
        <5>1. pc[w] = "leased"
          BY <4>2 DEF MarkJobRunning
        <5>2. Effective(wJob[w])
          BY <5>1, WorkersJob DEF Pursues, AtWork
        <5> QED
          BY <1>0, <4>2, <5>2 DEF MarkJobRunning
      <4> QED
        BY <2>7, <4>1, <4>2
    <3>4. \A j \in Jobs : Effective(j)' => Effective(j)
      <4> SUFFICES ASSUME NEW j \in Jobs, Effective(j)' PROVE Effective(j)
        OBVIOUS
      <4>1. CASE j = wJob[w] /\ Effective(wJob[w])
        BY <4>1
      <4>2. CASE ~(j = wJob[w] /\ Effective(wJob[w]))
        <5>1. jobSt'[j] = jobSt[j] /\ jobWorker'[j] = jobWorker[j]
          BY <3>2, <3>3, <4>2
        <5>2. ASSUME NEW v \in Workers, wJob'[v] = j, Pursues(v)' PROVE wJob[v] = j /\ Pursues(v)
          <6>1. v # w
            BY <3>3, <4>2, <5>2, RowAssumption
          <6> QED
            BY <3>2, <5>2, <6>1 DEF Pursues
        <5> QED
          BY <5>1, <5>2 DEF Effective
      <4> QED
        BY <4>1, <4>2
    <3> QED
      BY <2>4, <3>2, <3>4
  <2>8. CASE ReleaseLeasedJob(w)
    BY <2>8, RowAssumption DEF ReleaseLeasedJob, AllUp
  <2> QED
    BY <1>3, <2>1, <2>2, <2>3, <2>5, <2>6, <2>7, <2>8 DEF WorkerStep
<1>4. CASE ClockStep
  BY <1>4, EffectsAlone DEF ClockStep, ExpireJobLease, ExpireWorkspaceLease, InstanceStale,
    HeartbeatRuntimeInstance, dbVars, jobVars, workerVars, instVars, AllUp
<1>5. ASSUME NEW i \in Instances, BeginDraining(i) \/ ShutdownStep(i) \/ Crash(i)
      PROVE  FALSE
  BY <1>5 DEF DriftOnly, AllUp, BeginDraining, ShutdownStep, ReconcileInstanceShutdown,
    CancelAll, StopPool, Exit, Crash
<1>6. ASSUME NEW i \in Instances, \E r \in Projects : CancelPrefix(r, i)
      PROVE  EffectMoves /\ AllUp'
  BY <1>6, EffectsAlone DEF CancelPrefix, dbVars, jobVars, AllUp
<1>7. ASSUME NEW i \in Instances, ReconcileRuntimeState(i)
      PROVE  EffectMoves /\ AllUp'
  <2>1. UNCHANGED <<jobSt, jobWorker, taskSt>>
    BY <1>7, NothingLost
  <2>2. UNCHANGED <<pc, wJob, out, inst>>
    BY <1>7 DEF ReconcileRuntimeState, ReleaseRecovered, instVars
  <2> QED
    BY <2>1, <2>2, EffectsAlone DEF AllUp
<1> QED
  BY <1>1, <1>2, <1>3, <1>4, <1>5, <1>6, <1>7 DEF Next

\* The same when the drift check stops executions before the CLI or after it
\* (and nothing else interferes): the transaction that fails the job and puts
\* its task back never refuses, so no drift report leaves a job in flight that
\* nobody works on.
THEOREM NoJobAbandonedInDrift ==
  ASSUME DriftOnly
  PROVE  Spec => []NoAbandonedJob
<1>1. Init => DriftInv
  BY InitHeld, InitAttended DEF Init, DriftInv, AllUp, EffectiveActive, EffectiveAlone,
    Effective, Live
<1>2. DriftInv /\ [Next]_vars => DriftInv'
  <2> SUFFICES ASSUME DriftInv, [Next]_vars PROVE DriftInv'
    OBVIOUS
  <2>1. /\ HandsOff /\ Undisturbed /\ "fault" \notin Env
        /\ HeldInv /\ HandInv /\ AttendedInv /\ AttemptInv /\ TypeInv /\ References
    BY DEF DriftOnly, HandsOff, Undisturbed, DriftInv, HeldInv, HandInv, LeaseInv, AttendedInv,
      AttemptInv, TypeInv
  <2>2. HeldInv' /\ HandMoves
    BY <2>1, NextHeld, NextHandMoves
  <2>3. EffectMoves /\ AllUp'
    BY NextEffects
  <2>4. EffectiveActive' /\ EffectiveAlone'
    BY <2>1, <2>2, <2>3, EffectMovesKeepInv DEF DriftInv, HandMoves
  <2>5. DriftRecorded
    <3> SUFFICES ASSUME NEW w \in Workers, pc[w] = "settle", out[w] = "drift"
                 PROVE  /\ taskSt[jobTask[wJob[w]]] \in Active
                        /\ planSt[PlanOf[jobTask[wJob[w]]]] # "ready"
      BY DEF DriftRecorded, Active
    <3>1. /\ wJob[w] \in Jobs /\ jobSt[wJob[w]] # "none" /\ Effective(wJob[w])
      BY <2>1, WorkersJob DEF Pursues, AtWork, Executing
    <3> QED
      BY <2>1, <3>1 DEF DriftInv, EffectiveActive, HeldInv, Touched
  <2>6. AttendedInv'
    BY <2>1, <2>5, NextFlights, NextAttemptInv, NextCharges, FlightsKeepInv
  <2> QED
    BY <2>2, <2>3, <2>4, <2>6 DEF DriftInv
<1>3. DriftInv => NoAbandonedJob
  BY AttendedNotAbandoned DEF DriftInv
<1> QED
  BY <1>1, <1>2, <1>3, PTL DEF Spec
=============================================================================
