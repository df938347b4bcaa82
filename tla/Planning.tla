------------------------------ MODULE Planning ------------------------------
(***************************************************************************)
(* From an intake to a plan that runs: intakes, the plan.generate jobs, the *)
(* workers that execute them, the agent sessions they resume, the feedback *)
(* discussion that creates a revision intake, and the automation switch    *)
(* that cancels and restarts all of it.  Every transaction is one action;  *)
(* what a worker or a request read before it is in its local record.  A    *)
(* plan's tasks are here only the number of its live task.execute jobs     *)
(* (module Execution has the rest), and claiming a job includes marking it *)
(* running.                                                                *)
(***************************************************************************)
EXTENDS Integers, Sequences, FiniteSets

CONSTANTS
  Requirement, Revision,      \* an intake, and the one its feedback discussion creates
  Workers, Providers,
  DefaultProvider,            \* the project's own agent provider
  MaxAttempts,                \* max_retries of the project
  MaxJobs, MaxPlans,          \* bounds of the model
  MaxSessions, MaxToggles,
  MaxFaults,                  \* crashes, shutdowns and database errors
  Users,                      \* what users do besides: "edit", "run", "discuss"
  None

ASSUME PlanningAssumption ==
  /\ Requirement # Revision
  /\ DefaultProvider \in Providers
  /\ {MaxAttempts, MaxJobs, MaxPlans} \subseteq Nat \ {0}
  /\ {MaxSessions, MaxToggles, MaxFaults} \subseteq Nat
  /\ Users \subseteq {"edit", "run", "discuss"}

VARIABLES
  automation,   \* projects.automation_enabled
  intake,       \* intakes.status
  jobs,         \* the plan.generate jobs
  plans,        \* the plans, each with the number of its live task jobs
  rows,         \* agent_sessions
  threads,      \* provider of each session the CLIs have opened
  lost,         \* the sessions that a CLI no longer finds
  worker,       \* one generatePlan each
  feedback,     \* the feedback: None, or the plan it is linked to (0: to no plan)
  talk,         \* one DiscussRequirement about the feedback
  toggles, faults

vars == <<automation, intake, jobs, plans, rows, threads, lost, worker, feedback, talk, toggles, faults>>
sessionVars == <<rows, threads, lost>>

Intakes == {Requirement, Revision}
JobIds == 1..Len(jobs)
PlanIds == 1..Len(plans)
Rows == {<<"requirement", i>> : i \in Intakes} \cup {<<"execution", n>> : n \in 1..MaxPlans}
Live == {"queued", "retry_wait", "running"}
Terminal == {"succeeded", "failed", "cancelled", "interrupted"}

NoRow == [provider |-> DefaultProvider, cli |-> None, status |-> "none"]
Idle == [pc |-> "idle", job |-> None, row |-> None, prior |-> None, dead |-> None,
         session |-> None, plan |-> None, attempt |-> 0, retry |-> FALSE, closing |-> FALSE]
Quiet == [pc |-> "idle", automation |-> FALSE, provider |-> DefaultProvider, row |-> None,
          prior |-> None, dead |-> None, session |-> None]

Init ==
  /\ automation = TRUE
  /\ intake = [i \in Intakes |-> "none"]
  /\ jobs = <<>> /\ plans = <<>>
  /\ rows = [r \in Rows |-> NoRow] /\ threads = <<>> /\ lost = {}
  /\ worker = [w \in Workers |-> Idle]
  /\ feedback = None /\ talk = Quiet
  /\ toggles = 0 /\ faults = 0

(***************************************************************************)
(* Intakes.                                                                *)
(***************************************************************************)

\* The value of automation_enabled that a request in flight may have read: a
\* switch since then has made it stale.
AutomationRead == {automation} \cup (IF toggles > 0 THEN {~automation} ELSE {})

NewJob(i, p) == [intake |-> i, provider |-> p, status |-> "queued", attempt |-> 0,
                 worker |-> None, run |-> "none"]

\* The intake row and, when the project was automated, its first job.
InsertIntake(i, queuePlan, p) ==
  /\ intake[i] = "none"
  /\ intake' = [intake EXCEPT ![i] = IF queuePlan THEN "planning" ELSE "open"]
  /\ jobs' = IF queuePlan THEN Append(jobs, NewJob(i, p)) ELSE jobs

\* A requirement that was discussed first carries the session of its discussion.
CreateIntake(p) ==
  /\ Len(jobs) < MaxJobs
  /\ \E queuePlan \in AutomationRead : InsertIntake(Requirement, queuePlan, p)
  /\ \/ UNCHANGED <<rows, threads>>
     \/ /\ Len(threads) < MaxSessions
        /\ \E q \in Providers :
             /\ threads' = Append(threads, q)
             /\ rows' = [rows EXCEPT ![<<"requirement", Requirement>>] =
                           [provider |-> q, cli |-> Len(threads'), status |-> "active"]]
  /\ UNCHANGED <<automation, plans, lost, worker, feedback, talk, toggles, faults>>

\* A feedback is linked to its requirement, and possibly to one plan of it.
CreateFeedback(n) ==
  /\ "discuss" \in Users
  /\ feedback = None /\ intake[Requirement] # "none"
  /\ n = 0 \/ (n \in PlanIds /\ plans[n].intake = Requirement)
  /\ feedback' = n
  /\ UNCHANGED <<automation, intake, jobs, plans, sessionVars, worker, talk, toggles, faults>>

QueuePlanGeneration(i, p) ==
  /\ Len(jobs) < MaxJobs
  /\ intake[i] \in {"open", "plan_failed"}
  /\ intake' = [intake EXCEPT ![i] = "planning"]
  /\ jobs' = Append(jobs, NewJob(i, p))
  /\ UNCHANGED <<automation, plans, sessionVars, worker, feedback, talk, toggles, faults>>

\* The only check is the version: any status follows any other, and no job is
\* looked at.
UpdateIntake(i, status) ==
  /\ "edit" \in Users
  /\ intake[i] \notin {"none", status}
  /\ intake' = [intake EXCEPT ![i] = status]
  /\ UNCHANGED <<automation, jobs, plans, sessionVars, worker, feedback, talk, toggles, faults>>

(***************************************************************************)
(* The automation switch.                                                  *)
(***************************************************************************)

\* queuePlanTx for a ready plan: running, with one job for its next task.
Queued(p) == [p EXCEPT !.status = "running", !.tasks = @ + 1]

IntakesOfLiveJobs == {jobs[j].intake : j \in {k \in JobIds : jobs[k].status \in Live}}

\* Mutant of Reopened: the stop leaves the intakes alone.
ReopenedNone == {}

\* The intakes whose generation a stop gives up.
Reopened == {i \in IntakesOfLiveJobs : intake[i] = "planning"}

DisableAutomation ==
  /\ automation /\ toggles < MaxToggles
  /\ automation' = FALSE
  /\ jobs' = [j \in JobIds |->
       IF jobs[j].status \in Live
       THEN [jobs[j] EXCEPT !.status = "cancelled", !.run = "none"] ELSE jobs[j]]
  /\ intake' = [i \in Intakes |-> IF i \in Reopened THEN "open" ELSE intake[i]]
  /\ plans' = [n \in PlanIds |->
       IF plans[n].status = "running" THEN [plans[n] EXCEPT !.status = "ready", !.tasks = 0]
       ELSE plans[n]]
  /\ toggles' = toggles + 1
  /\ UNCHANGED <<sessionVars, worker, feedback, talk, faults>>

\* Every open or failed intake gets a job for the default provider, in any order.
EnableAutomation ==
  LET pending == {i \in Intakes : intake[i] \in {"open", "plan_failed"}}
  IN  /\ ~automation /\ toggles < MaxToggles
      /\ Len(jobs) + Cardinality(pending) <= MaxJobs
      /\ automation' = TRUE
      /\ intake' = [i \in Intakes |-> IF i \in pending THEN "planning" ELSE intake[i]]
      /\ \E order \in {s \in [1..Cardinality(pending) -> pending] :
                         \A i \in pending : \E k \in DOMAIN s : s[k] = i} :
           jobs' = jobs \o [k \in DOMAIN order |-> NewJob(order[k], DefaultProvider)]
      /\ plans' = [n \in PlanIds |->
           IF plans[n].status = "ready" THEN Queued(plans[n]) ELSE plans[n]]
      /\ toggles' = toggles + 1
      /\ UNCHANGED <<sessionVars, worker, feedback, talk, faults>>

(***************************************************************************)
(* Plans, as far as planning meets them.                                   *)
(***************************************************************************)

\* A user starts a ready plan.
QueuePlan(n) ==
  /\ "run" \in Users
  /\ plans[n].status = "ready"
  /\ plans' = [plans EXCEPT ![n] = Queued(@)]
  /\ UNCHANGED <<automation, intake, jobs, sessionVars, worker, feedback, talk, toggles, faults>>

\* finishTask of the last task.
FinishPlan(n) ==
  /\ plans[n].status = "running"
  /\ plans' = [plans EXCEPT ![n].status = "completed", ![n].tasks = @ - 1]
  /\ intake' = [intake EXCEPT ![plans[n].intake] = IF @ = "planned" THEN "closed" ELSE @]
  /\ UNCHANGED <<automation, jobs, sessionVars, worker, feedback, talk, toggles, faults>>

(***************************************************************************)
(* Sessions.                                                               *)
(***************************************************************************)

\* Mutant of GetActiveSession: the provider is not compared.
GetActiveSessionAny(r, p) == {r} \cap {q \in Rows : rows[q].status = "active"}

\* The row, when it can be resumed by this provider.
GetActiveSession(r, p) ==
  {r} \cap {q \in Rows : rows[q].status = "active" /\ rows[q].provider = p}

\* The execution session of the plan that the feedback was given on, if any.
FeedbackExecution == IF feedback \in PlanIds THEN <<<<"execution", feedback>>>> ELSE <<>>

\* The rows that generatePlan tries, in order.
PlanSessions(i) ==
  IF i = Revision
  THEN FeedbackExecution \o <<<<"requirement", Revision>>, <<"requirement", Requirement>>>>
  ELSE <<<<"requirement", i>>>>

\* The rows that DiscussRequirement tries for a feedback, in order.
DiscussionSessions == Append(FeedbackExecution, <<"requirement", Requirement>>)

\* The first that is active with the provider, None when there is none.
Selected(candidates, p) ==
  LET hits == {k \in DOMAIN candidates : GetActiveSession(candidates[k], p) # {}}
  IN  IF hits = {} THEN None
      ELSE candidates[CHOOSE k \in hits : \A l \in hits : k <= l]

Upsert(r, p, s) ==
  rows' = [rows EXCEPT ![r] = [provider |-> p, cli |-> s, status |-> "active"]]

\* By row id alone: whatever session the row holds by now.
MarkAgentSessionStale(r) ==
  rows' = [rows EXCEPT ![r].status = IF @ = "active" THEN "stale" ELSE @]

\* The session that a CLI which ran well leaves: a new one that it reports, or
\* the one it was given, which is None for a new conversation.
EffectiveSessionID(p, prior, s) ==
  \/ s = prior /\ UNCHANGED threads
  \/ /\ Len(threads) < MaxSessions
     /\ threads' = Append(threads, p)
     /\ s = Len(threads')

LoseSession(s) ==
  /\ s \notin lost
  /\ lost' = lost \cup {s}
  /\ UNCHANGED <<automation, intake, jobs, plans, rows, threads, worker, feedback, talk, toggles, faults>>

(***************************************************************************)
(* A worker that executes a plan.generate job.                             *)
(***************************************************************************)
At(w, pc) == worker[w].pc = pc
Job(w) == jobs[worker[w].job]
Owns(w) == Job(w).status = "running" /\ Job(w).worker = w
Go(w, pc) == worker' = [worker EXCEPT ![w].pc = pc]

\* The record of the agent run: a run that a stop, a shutdown or recovery has
\* already finished stays finished.
Run(w, phase) == [jobs EXCEPT ![worker[w].job].run = IF Owns(w) THEN phase ELSE @]
finishRun(w) == jobs' = Run(w, "none")

GiveUp(w, retry) ==
  /\ worker' = [worker EXCEPT ![w].pc = "fail", ![w].retry = retry]
  /\ finishRun(w)

ClaimJob(w, j) ==
  /\ At(w, "idle") /\ automation
  /\ jobs[j].status \in {"queued", "retry_wait"}
  /\ \A k \in 1..j - 1 : jobs[k].status # "queued"
  /\ jobs' = [jobs EXCEPT ![j].status = "running", ![j].worker = w, ![j].attempt = @ + 1]
  /\ worker' = [worker EXCEPT ![w] = [Idle EXCEPT !.pc = "load", !.job = j,
                                            !.attempt = jobs[j].attempt + 1]]
  /\ UNCHANGED <<automation, intake, plans, sessionVars, feedback, talk, toggles, faults>>

\* ExecuteJob and the beginning of generatePlan, up to the record of the run.
Load(w) ==
  /\ At(w, "load")
  /\ \/ /\ ~automation
        /\ GiveUp(w, FALSE)
     \/ /\ automation
        /\ LET r == Selected(PlanSessions(Job(w).intake), Job(w).provider)
           IN  worker' = [worker EXCEPT ![w].pc = "starting", ![w].row = r,
                            ![w].prior = IF r = None THEN None ELSE rows[r].cli]
        /\ jobs' = Run(w, "starting")
  /\ UNCHANGED <<automation, intake, plans, sessionVars, feedback, talk, toggles, faults>>

\* The CLI starts and its process id is recorded.
StartCLI(w) ==
  /\ At(w, "starting")
  /\ Go(w, "running")
  /\ jobs' = Run(w, "running")
  /\ UNCHANGED <<automation, intake, plans, sessionVars, feedback, talk, toggles, faults>>

Unavailable(prior) == prior # None /\ prior \in lost

\* Mutant of Fallback: the failover does not reset the prior session.
FallbackKept(run) == IF run.dead # None THEN run.dead ELSE run.prior

\* The session taken when the CLI reports none.
Fallback(run) == run.prior

RunSucceeds(w) ==
  /\ At(w, "running") /\ ~Unavailable(worker[w].prior)
  /\ \E s \in 1..MaxSessions \cup {None} :
       /\ EffectiveSessionID(Job(w).provider, Fallback(worker[w]), s)
       /\ worker' = [worker EXCEPT ![w].pc = "save", ![w].session = s]
  /\ UNCHANGED <<automation, intake, jobs, plans, rows, lost, feedback, talk, toggles, faults>>

\* A CLI that exits with an error may be retried; one that cannot be started,
\* runs out of time, or prints no plan may not.
RunFails(w) ==
  /\ At(w, "running") /\ ~Unavailable(worker[w].prior)
  /\ \E retry \in BOOLEAN : GiveUp(w, retry)
  /\ UNCHANGED <<automation, intake, plans, sessionVars, feedback, talk, toggles, faults>>

SessionUnavailable(w) ==
  /\ At(w, "running") /\ Unavailable(worker[w].prior)
  /\ Go(w, "stale")
  /\ finishRun(w)
  /\ UNCHANGED <<automation, intake, plans, sessionVars, feedback, talk, toggles, faults>>

\* A new conversation from the snapshot; the lost session is forgotten.
Forget(w) == [worker[w] EXCEPT !.pc = "starting", !.prior = None, !.dead = worker[w].prior]

RestoreFromSnapshot(w) ==
  /\ At(w, "stale")
  /\ MarkAgentSessionStale(worker[w].row)
  /\ worker' = [worker EXCEPT ![w] = Forget(w)]
  /\ jobs' = Run(w, "starting")
  /\ UNCHANGED <<automation, intake, plans, threads, lost, feedback, talk, toggles, faults>>

\* Mutant of Wanted: a plan is saved whatever became of the intake.
WantedAlways(i) == TRUE

Wanted(i) == intake[i] = "planning"

\* saveGeneratedPlan: one transaction, and an intake that is no longer being
\* planned rolls all of it back.
SaveGeneratedPlan(w) ==
  LET i == Job(w).intake
  IN  /\ At(w, "save")
      /\ \/ /\ Wanted(i) /\ Len(plans) < MaxPlans
            /\ plans' = Append(plans, [intake |-> i, status |-> "ready", tasks |-> 0,
                                       traced |-> FALSE])
            /\ intake' = [intake EXCEPT ![i] = "planned"]
            /\ worker' = [worker EXCEPT ![w].pc = "trace", ![w].plan = Len(plans')]
            /\ UNCHANGED jobs
         \/ /\ ~Wanted(i)
            /\ GiveUp(w, FALSE)
            /\ UNCHANGED <<intake, plans>>
      /\ UNCHANGED <<automation, sessionVars, feedback, talk, toggles, faults>>

\* The intake is the revision of a feedback.
RevisionOf(i) == i = Revision

RecordFeedbackRevision(w) ==
  /\ At(w, "trace")
  /\ plans' = [plans EXCEPT ![worker[w].plan].traced = RevisionOf(Job(w).intake)]
  /\ Go(w, IF worker[w].session = None THEN "finish" ELSE "session")
  /\ UNCHANGED <<automation, intake, jobs, sessionVars, feedback, talk, toggles, faults>>

UpsertRequirementSession(w) ==
  /\ At(w, "session")
  /\ Upsert(<<"requirement", Job(w).intake>>, Job(w).provider, worker[w].session)
  /\ Go(w, "execution")
  /\ UNCHANGED <<automation, intake, jobs, plans, threads, lost, feedback, talk, toggles, faults>>

UpsertExecutionSession(w) ==
  /\ At(w, "execution")
  /\ Upsert(<<"execution", worker[w].plan>>, Job(w).provider, worker[w].session)
  /\ Go(w, "finish")
  /\ UNCHANGED <<automation, intake, jobs, plans, threads, lost, feedback, talk, toggles, faults>>

\* Mutant of FinishRun: the job ends with its run.
FinishRunLast(w) ==
  /\ At(w, "finish")
  /\ finishRun(w)
  /\ Go(w, "complete")
  /\ UNCHANGED <<automation, intake, plans, sessionVars, feedback, talk, toggles, faults>>

FinishRun(w) ==
  /\ At(w, "finish")
  /\ finishRun(w)
  /\ Go(w, "queue")
  /\ UNCHANGED <<automation, intake, plans, sessionVars, feedback, talk, toggles, faults>>

\* Mutant of Startable: whatever its status.
StartableAlways(p) == TRUE

Startable(p) == p.status = "ready"

QueuePlanAutomatically(w) ==
  /\ At(w, "queue")
  /\ plans' = [plans EXCEPT ![worker[w].plan] =
       IF automation /\ Startable(@) THEN Queued(@) ELSE @]
  /\ Go(w, "complete")
  /\ UNCHANGED <<automation, intake, jobs, sessionVars, feedback, talk, toggles, faults>>

CompleteJob(w) ==
  /\ At(w, "complete")
  /\ jobs' = [jobs EXCEPT ![worker[w].job].status = IF Owns(w) THEN "succeeded" ELSE @]
  /\ worker' = [worker EXCEPT ![w] = Idle]
  /\ UNCHANGED <<automation, intake, plans, sessionVars, feedback, talk, toggles, faults>>

\* Mutant: the intake is left as it is.
FailedIntakeKept(status) == status

MayRetry(w) == worker[w].retry /\ worker[w].attempt < MaxAttempts
FailedIntake(status) == IF status = "planning" THEN "plan_failed" ELSE status

\* A job that is already terminal counts as settled, and the intake is failed
\* all the same; a job that is queued again or has another owner stops FailJob.
FailJob(w) ==
  LET j == worker[w].job
      settled == jobs[j].status \in Terminal
  IN  /\ At(w, "fail")
      /\ jobs' = [jobs EXCEPT ![j].status =
           IF ~Owns(w) THEN @ ELSE IF MayRetry(w) THEN "retry_wait" ELSE "failed"]
      /\ intake' = [intake EXCEPT ![jobs[j].intake] =
           IF (Owns(w) \/ settled) /\ ~MayRetry(w) THEN FailedIntake(@) ELSE @]
      /\ worker' = [worker EXCEPT ![w] = Idle]
      /\ UNCHANGED <<automation, plans, sessionVars, feedback, talk, toggles, faults>>

Working == {"load", "starting", "running", "stale", "save", "trace", "session", "execution",
            "finish", "queue"}

\* The heartbeat finds that the job is not the worker's any more and cancels
\* its context: the CLI ends, and no later query is made.
LeaseLost(w) ==
  /\ worker[w].pc \in Working /\ ~Owns(w)
  /\ GiveUp(w, FALSE)
  /\ UNCHANGED <<automation, intake, plans, sessionVars, feedback, talk, toggles, faults>>

(***************************************************************************)
(* Faults and recovery.                                                    *)
(***************************************************************************)

\* A query of the worker fails, or its lease runs out while the database is
\* away; after ExecuteJob, the result is then never recorded.
Fault(w) ==
  /\ faults < MaxFaults /\ faults' = faults + 1
  /\ \/ worker[w].pc \in Working /\ GiveUp(w, FALSE)
     \/ /\ worker[w].pc \in {"complete", "fail"}
        /\ worker' = [worker EXCEPT ![w] = Idle]
        /\ UNCHANGED jobs
  /\ UNCHANGED <<automation, intake, plans, sessionVars, feedback, talk, toggles>>

Crash(w) ==
  /\ ~At(w, "idle")
  /\ \/ faults < MaxFaults /\ faults' = faults + 1
     \/ worker[w].closing /\ UNCHANGED faults
  /\ worker' = [worker EXCEPT ![w] = Idle]
  /\ UNCHANGED <<automation, intake, jobs, plans, sessionVars, feedback, talk, toggles>>

\* The attempt is given back.
Requeued(job) == [job EXCEPT !.status = "queued", !.worker = None, !.run = "none",
                             !.attempt = IF @ = 0 THEN 0 ELSE @ - 1]

\* A graceful shutdown requeues the job first; the worker goes on until its
\* context is cancelled.
ReconcileInstanceShutdown(w) ==
  /\ faults < MaxFaults /\ faults' = faults + 1
  /\ ~At(w, "idle") /\ Owns(w)
  /\ jobs' = [jobs EXCEPT ![worker[w].job] = Requeued(@)]
  /\ worker' = [worker EXCEPT ![w].closing = TRUE]
  /\ UNCHANGED <<automation, intake, plans, sessionVars, feedback, talk, toggles>>

\* A running job that no worker executes any more.
Abandoned(j) ==
  j \in JobIds /\ jobs[j].status = "running" /\ \A w \in Workers : worker[w].job # j

\* Mutant of Converged: a job without a run is taken for a healthy one.
ConvergedRunsOnly(job) ==
  IF job.run = "none" THEN job
  ELSE [job EXCEPT !.status = "interrupted", !.worker = None, !.run = "none"]

\* Recovery: requeued when no run was under way, otherwise ended.  Nothing is
\* done about the intake.
Converged(job) ==
  IF job.run = "none" THEN Requeued(job)
  ELSE [job EXCEPT !.status = IF job.run = "starting" THEN "cancelled" ELSE "interrupted",
                   !.worker = None, !.run = "none"]

ReconcileRuntimeState(j) ==
  /\ Abandoned(j)
  /\ jobs' = [jobs EXCEPT ![j] = Converged(@)]
  /\ UNCHANGED <<automation, intake, plans, sessionVars, worker, feedback, talk, toggles, faults>>

(***************************************************************************)
(* The discussion of a feedback that ends in a revision intake.            *)
(***************************************************************************)
StartDiscussion(p) ==
  LET r == Selected(DiscussionSessions, p)
  IN  /\ talk.pc = "idle" /\ feedback # None /\ intake[Revision] = "none"
      /\ talk' = [Quiet EXCEPT !.pc = "running", !.automation = automation, !.provider = p,
                               !.row = r, !.prior = IF r = None THEN None ELSE rows[r].cli]
      /\ UNCHANGED <<automation, intake, jobs, plans, sessionVars, worker, feedback, toggles, faults>>

\* The CLI fails, or asks further questions.
DiscussionEnds ==
  /\ talk.pc = "running" /\ ~Unavailable(talk.prior)
  /\ talk' = Quiet
  /\ UNCHANGED <<automation, intake, jobs, plans, sessionVars, worker, feedback, toggles, faults>>

DiscussionReady ==
  /\ talk.pc = "running" /\ ~Unavailable(talk.prior)
  /\ \E s \in 1..MaxSessions \cup {None} :
       /\ EffectiveSessionID(talk.provider, Fallback(talk), s)
       /\ talk' = [talk EXCEPT !.pc = "create", !.session = s]
  /\ UNCHANGED <<automation, intake, jobs, plans, rows, lost, worker, feedback, toggles, faults>>

DiscussionUnavailable ==
  /\ talk.pc = "running" /\ Unavailable(talk.prior)
  /\ talk' = [talk EXCEPT !.pc = "stale"]
  /\ UNCHANGED <<automation, intake, jobs, plans, sessionVars, worker, feedback, toggles, faults>>

DiscussionRestores ==
  /\ talk.pc = "stale"
  /\ MarkAgentSessionStale(talk.row)
  /\ talk' = [talk EXCEPT !.pc = "running", !.prior = None, !.dead = talk.prior]
  /\ UNCHANGED <<automation, intake, jobs, plans, threads, lost, worker, feedback, toggles, faults>>

\* With the automation that the discussion read when it began.
CreateFeedbackRevisionIntake ==
  /\ talk.pc = "create" /\ (talk.automation => Len(jobs) < MaxJobs)
  /\ InsertIntake(Revision, talk.automation, talk.provider)
  /\ IF talk.session = None THEN UNCHANGED rows
     ELSE Upsert(<<"requirement", Revision>>, talk.provider, talk.session)
  /\ talk' = Quiet
  /\ UNCHANGED <<automation, plans, threads, lost, worker, feedback, toggles, faults>>

(***************************************************************************)
(* The specification.                                                      *)
(***************************************************************************)
WorkerStep(w) ==
  \/ Load(w) \/ StartCLI(w) \/ RunSucceeds(w) \/ RunFails(w) \/ SessionUnavailable(w)
  \/ RestoreFromSnapshot(w) \/ SaveGeneratedPlan(w) \/ RecordFeedbackRevision(w)
  \/ UpsertRequirementSession(w) \/ UpsertExecutionSession(w) \/ FinishRun(w)
  \/ QueuePlanAutomatically(w) \/ CompleteJob(w) \/ FailJob(w)

Discussion ==
  \/ \E p \in Providers : StartDiscussion(p)
  \/ DiscussionEnds \/ DiscussionReady \/ DiscussionUnavailable \/ DiscussionRestores
  \/ CreateFeedbackRevisionIntake

Next ==
  \/ \E p \in Providers : CreateIntake(p) \/ \E i \in Intakes : QueuePlanGeneration(i, p)
  \/ \E n \in 0..MaxPlans : CreateFeedback(n)
  \/ \E i \in Intakes, status \in {"open", "closed"} : UpdateIntake(i, status)
  \/ DisableAutomation \/ EnableAutomation
  \/ \E n \in PlanIds : QueuePlan(n) \/ FinishPlan(n)
  \/ \E s \in 1..Len(threads) : LoseSession(s)
  \/ \E w \in Workers : \/ \E j \in JobIds : ClaimJob(w, j)
                         \/ WorkerStep(w) \/ LeaseLost(w)
                         \/ Fault(w) \/ Crash(w) \/ ReconcileInstanceShutdown(w)
  \/ \E j \in JobIds : ReconcileRuntimeState(j)
  \/ Discussion

\* The worker pool keeps claiming and executing, and recovery runs periodically.
Fairness ==
  /\ \A w \in Workers : WF_vars(WorkerStep(w))
  /\ WF_vars(\E w \in Workers, j \in JobIds : ClaimJob(w, j))
  /\ WF_vars(\E j \in JobIds : ReconcileRuntimeState(j))

Spec == Init /\ [][Next]_vars /\ Fairness

(***************************************************************************)
(* What holds of it.                                                       *)
(***************************************************************************)

JobsOf(i) == {j \in JobIds : jobs[j].intake = i}

\* A request for a plan yields at most one plan, however often its job is
\* executed: after a crash between saving the plan and completing the job, when
\* a stopped worker saves late, when two jobs of an edited intake race.
\* saveGeneratedPlan is what has to refuse the second.  Nor is a job executed
\* more than MaxAttempts times, though shutdown and recovery give attempts back.
OnePlanPerRequest ==
  /\ \A i \in Intakes :
       Cardinality({n \in PlanIds : plans[n].intake = i}) <= Cardinality(JobsOf(i))
  /\ \A j \in JobIds : jobs[j].attempt <= MaxAttempts

\* Recovery ended the job of a dead worker for good (convergeLostJob).
LostInCrash(j) ==
  /\ jobs[j].status \in {"interrupted", "cancelled"}
  /\ jobs[j].worker = None /\ jobs[j].attempt > 0

\* An intake that says 'planning' has a job that can still plan it, unless that
\* job was lost with its backend: the switch, FailJob and saveGeneratedPlan
\* leave none behind.  (After a crash one is left behind: recovery repairs tasks
\* and plans, and no intake.)
PlanningHasJob ==
  \A i \in Intakes : intake[i] = "planning" =>
    \E j \in JobsOf(i) : jobs[j].status \in Live \/ LostInCrash(j)

\* A plan has exactly one task job while it runs and none before: the worker
\* that generated it, the switch and a user may all try to start it.
OneTaskJob ==
  \A n \in PlanIds : plans[n].tasks = IF plans[n].status = "running" THEN 1 ELSE 0

\* A CLI is only ever asked to resume a session that its own provider opened,
\* though a row changes provider and a revision looks in three rows for it.
ResumesOwnProvider ==
  /\ \A w \in Workers : worker[w].prior # None => threads[worker[w].prior] = Job(w).provider
  /\ talk.prior # None => threads[talk.prior] = talk.provider

\* The session recorded after a failover is never the one that was found lost:
\* the intake, its plan and the revision would all be sent back to it.
LostSessionDropped ==
  /\ \A w \in Workers : worker[w].session # None => worker[w].session # worker[w].dead
  /\ talk.session # None => talk.session # talk.dead

\* While automation stays on and nothing fails, planning ends: in a plan, in
\* plan_failed, or because a user took the intake away.
PlanningResolves ==
  \A i \in Intakes :
    (intake[i] = "planning" /\ automation /\ faults = 0)
      ~> (intake[i] # "planning" \/ ~automation \/ faults > 0)

\* The worker that generated a plan and still owns the job gets it running.
PlanCarried ==
  \A n \in 1..MaxPlans :
    (automation /\ faults = 0 /\ \E w \in Workers : worker[w].plan = n /\ Owns(w))
      ~> ((n \in PlanIds /\ plans[n].status # "ready") \/ ~automation \/ faults > 0)

\* A job lost with its worker is queued again or ended.
LostPlanningRecovered ==
  (\E j \in JobIds : Abandoned(j)) ~> ~(\E j \in JobIds : Abandoned(j))
=============================================================================
