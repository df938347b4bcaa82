------------------------------- MODULE Drift -------------------------------
(***************************************************************************)
(* The execution-context gate of one plan: the snapshots a plan collects   *)
(* (its generation baseline, a checkpoint per finished task, the contexts  *)
(* a user accepted), the check that compares the latest of them with the   *)
(* live requirement, settings, provider and workspace, the requests that   *)
(* review, accept and queue behind that check, and the worker that repeats *)
(* it before every CLI.  A check reads the rows of the database first and  *)
(* the workspace after them, and each request commits in a transaction of  *)
(* its own later: users, worker and the people who edit the project        *)
(* interleave between those steps.                                         *)
(*                                                                         *)
(* A work tree is one of Trees, two of which may have the same porcelain   *)
(* status.  Digests are tagged with what was hashed.  The server's         *)
(* resource versions only grow and never block; plan content and spec      *)
(* never change after generation (nothing in the program calls             *)
(* UpdatePlanExecutionSnapshot), so both are left out.                     *)
(***************************************************************************)
EXTENDS Integers, Sequences, FiniteSetsExt

CONSTANTS
  Users, Providers,
  DefaultProvider,   \* the project's agent provider when the plan is generated
  Trees,             \* the contents of work tree and index
  StatusOf,          \* git status --porcelain of each tree
  Untouched,         \* a tree without any change
  Conflicts,         \* the trees with unresolved merge conflicts
  Checkouts,         \* branch and HEAD
  Origin,            \* is remote.origin.url configured?
  NumTasks,          \* the last task is the final validation
  Edits,             \* what people change: "requirement", "settings", ...
  MaxEdits,          \* edits, and Git commands that are late
  MaxAccepted,       \* user_accepted snapshots
  MaxVersion,        \* the plan version up to which users begin requests
  None

ASSUME DriftAssumption ==
  /\ Untouched \in Trees /\ Conflicts \subseteq Trees /\ Untouched \notin Conflicts
  /\ DOMAIN StatusOf = Trees
  /\ Origin \in BOOLEAN /\ DefaultProvider \in Providers
  /\ NumTasks \in Nat \ {0} /\ {MaxEdits, MaxAccepted, MaxVersion} \subseteq Nat
  /\ Edits \subseteq {"requirement", "settings", "provider", "tree", "checkout", "place"}

VARIABLES
  rows,         \* what a check reads from the database about requirement, settings, plan
  work,         \* the workspace itself
  plan,         \* status and resource version of the plan
  task,         \* the next task: its position and status
  job,          \* its task.execute job, or None
  snapshots,    \* plan_execution_snapshots, by sequence
  audits,       \* plan_drift_audits, by sequence
  request,      \* one request of each user
  seen,         \* the report each user reviewed last, and the snapshot it names
  worker,       \* the worker's executeTask
  edits         \* how many there were, for the bound

vars == <<rows, work, plan, task, job, snapshots, audits, request, seen, worker, edits>>
liveVars == <<rows, work>>
queueVars == <<plan, task, job>>
historyVars == <<snapshots, audits, edits>>

Settings == [validation : BOOLEAN, agent : BOOLEAN]
Works == [place : {"home", "away", "gone"}, checkout : Checkouts, tree : Trees]
LiveRows == [requirement : Nat, settings : Settings, default : Providers, config : Providers \cup {None}]
Operations == {"review", "accept", "queuePlan", "queueTask"}
Latest == Len(snapshots)
IsValidation(n) == n = NumTasks

ASSUME NoneAssumption == None \notin [rows : LiveRows, work : Works] /\ None \notin Nat

-----------------------------------------------------------------------------
(* What a snapshot and a check record *)

StatusDigest(tree) == <<"status", StatusOf[tree]>>
ContentDigest(tree) == <<"content", tree>>

ExecutionProvider(r) == IF r.config = None THEN r.default ELSE r.config

\* The workspace as the collector reads it: without an origin its Git directory is its identity.
Collect(w) ==
  [path |-> w.place, git |-> TRUE, identity |-> IF Origin THEN "origin" ELSE "git directory",
   checkout |-> w.checkout, digest |-> ContentDigest(w.tree)]

\* Mutant: the exact content is digested instead of the status.
ReadGitContent(w) == [Collect(w) EXCEPT !.identity = IF Origin THEN "origin" ELSE "work tree root"]

\* The same read by the repository layer.  Each of its Git commands has two
\* seconds; one that fails or is late counts as empty output.
ReadGit(w) ==
  [path |-> w.place, git |-> TRUE, identity |-> IF Origin THEN "origin" ELSE "work tree root",
   checkout |-> w.checkout, digest |-> StatusDigest(w.tree)]

NoRepository(w) ==
  [path |-> w.place, git |-> FALSE, identity |-> None, checkout |-> None, digest |-> StatusDigest(Untouched)]

Late(w) ==
  {NoRepository(w),
   [ReadGit(w) EXCEPT !.identity = "work tree root"],
   [ReadGit(w) EXCEPT !.checkout = None],
   [ReadGit(w) EXCEPT !.digest = StatusDigest(Untouched)]}

readGitSnapshot(w, late) ==
  IF w.place = "gone" THEN {NoRepository(w)} ELSE IF late THEN Late(w) ELSE {ReadGit(w)}

\* live: the context it was captured from, for the properties; None if a Git command was late.
Snapshot(kind, r, ws, live) ==
  [kind |-> kind, requirement |-> r.requirement, settings |-> r.settings, config |-> r.config,
   provider |-> ExecutionProvider(r), work |-> ws, live |-> live]

\* capturePlanExecutionSnapshotTx without a workspace of the caller: it reads Git itself.
Captured(kind, r, late) ==
  {Snapshot(kind, r, ws, IF late THEN None ELSE [rows |-> r, work |-> work]) : ws \in readGitSnapshot(work, late)}

Lateness == {FALSE} \cup (IF edits < MaxEdits THEN {TRUE} ELSE {})
Counted(late) == edits' = edits + IF late THEN 1 ELSE 0

-----------------------------------------------------------------------------
(* The check *)

Newest(ns) == IF ns = {} THEN 0 ELSE Max(ns)
Baseline(n) == Newest({k \in 1..n : snapshots[k].kind # "task_checkpoint"})
Checkpoint(n) == Newest({k \in Baseline(n) + 1..n : snapshots[k].kind = "task_checkpoint"})

\* The fields of the settings that a check with this option compares.
KeyFields(option, x) ==
  CASE option = "full" -> <<x.settings, x.config>>
    [] option = "queue" -> x.settings
    [] option = "validation" -> x.settings.validation

\* A snapshot as the comparison sees it.
FromSnapshot(s, option) ==
  [requirement |-> s.requirement, path |-> s.work.path, git |-> s.work.git, identity |-> s.work.identity,
   key |-> KeyFields(option, s), provider |-> s.provider, checkout |-> s.work.checkout, digest |-> s.work.digest]

\* The live context in the same form, with the status digest for its content.
Current(r, w, provider, option) ==
  LET ws == Collect(w) IN
  [requirement |-> r.requirement, path |-> ws.path, git |-> ws.git, identity |-> ws.identity,
   key |-> KeyFields(option, r), provider |-> provider, checkout |-> ws.checkout, digest |-> StatusDigest(w.tree)]

workspaceStateEqual(a, b) == \A f \in {"path", "git", "identity", "checkout", "digest"} : a[f] = b[f]

\* Mutant: the requirement version is not compared.
BlockingWorkspace(b, c) == {f \in {"path", "git", "identity"} : b[f] # c[f]}

Blocking(b, c) == {f \in {"requirement", "path", "git", "identity"} : b[f] # c[f]}
Confirmed(b, c, matches) ==
  {f \in {"key", "provider"} \cup (IF matches THEN {} ELSE {"checkout", "digest"}) : b[f] # c[f]}

\* CompareExecutionContexts and finishDriftReport, for the history up to n.
Report(n, r, w, requested, option) ==
  LET b == FromSnapshot(snapshots[Baseline(n)], option)
      c == Current(r, w, IF option = "full" THEN requested ELSE b.provider, option)
      conflict == w.tree \in Conflicts
      matches == /\ Checkpoint(n) # 0 /\ ~conflict
                 /\ workspaceStateEqual(c, FromSnapshot(snapshots[Checkpoint(n)], option))
      blocking == Blocking(b, c)
      confirm == Confirmed(b, c, matches)
      severity == IF blocking # {} \/ conflict \/ w.place = "gone" THEN "must_block"
                  ELSE IF confirm # {} THEN "needs_confirmation" ELSE "safe_ignore"
  IN [severity |-> severity,
      fingerprint |-> <<[f \in blocking \cup confirm |-> b[f]], c, IF conflict THEN w.tree ELSE None>>]

AllowsCLI(report) == report.severity = "safe_ignore"

Requested(r, provider) == IF provider = None THEN r.default ELSE provider

-----------------------------------------------------------------------------
(* Requests.  Review is GetPlanExecutionContext; accept runs it again before *)
(* it commits, and the two queue requests check before theirs.              *)

NoRequest == [pc |-> "idle", op |-> None, provider |-> None, rows |-> None, history |-> 0,
              version |-> 0, at |-> 0, report |-> None, context |-> None]
NoWorker == [pc |-> "idle", context |-> None, history |-> 0, provider |-> None, captured |-> None]
Reading == [rows |-> rows, work |-> None]

\* What a check can see of a context; kept with a report, for the properties.
Visible(r, w) == <<r.requirement, r.settings, w.place, w.checkout, StatusOf[w.tree]>>

Init ==
  \E tree \in Trees, checkout \in Checkouts :
    /\ rows = [requirement |-> 1, settings |-> [validation |-> FALSE, agent |-> FALSE],
               default |-> DefaultProvider, config |-> None]
    /\ work = [place |-> "home", checkout |-> checkout, tree |-> tree]
    /\ plan = [status |-> "ready", version |-> 1]
    /\ task = [n |-> 1, status |-> "pending"]
    /\ job = None
    \* SaveGeneratedPlanWithWorkspace, with the workspace the service has just collected
    /\ snapshots = <<Snapshot("generation_baseline", rows, Collect(work), [rows |-> rows, work |-> work])>>
    /\ audits = <<>>
    /\ request = [u \in Users |-> NoRequest]
    /\ seen = [u \in Users |-> None]
    /\ worker = NoWorker
    /\ edits = 0

Option(op) == IF op = "queueTask" THEN "full" ELSE "queue"

\* The database half of the check.  An accept needs a review; its provider does not matter to the check.
Load(u, op, p) ==
  /\ request[u].pc = "idle"
  /\ op = "accept" => seen[u] # None
  /\ op \in {"review", "accept"} => p = None
  /\ plan.version < MaxVersion
  /\ request' = [request EXCEPT ![u] =
       [NoRequest EXCEPT !.pc = "collect", !.op = op, !.provider = p, !.rows = rows,
                         !.history = Latest, !.version = plan.version, !.at = edits]]
  /\ UNCHANGED <<liveVars, queueVars, historyVars, seen, worker>>

\* effectiveTaskProvider and adapterFor
EffectiveProvider(r, provider) == Requested(r, IF provider = None THEN r.config ELSE provider)

\* The workspace half, and the report.
Check(u) ==
  LET q == request[u]
      report == Report(q.history, q.rows, work, EffectiveProvider(q.rows, q.provider), Option(q.op))
      checked == [q EXCEPT !.rows = None, !.history = 0]
  IN
  /\ q.pc = "collect"
  /\ request' = [request EXCEPT ![u] =
       IF q.op \in {"review", "accept"}
       THEN [checked EXCEPT !.pc = "latest", !.report = report, !.context = Visible(q.rows, work)]
       ELSE IF AllowsCLI(report) THEN [checked EXCEPT !.pc = "store"]
       ELSE NoRequest]
  /\ UNCHANGED <<liveVars, queueVars, historyVars, seen, worker>>

\* GetLatestPlanExecutionSnapshot, read after the report: the user now has both.
Reviewed(u) ==
  /\ request[u].pc = "latest" /\ request[u].op = "review"
  /\ seen' = [seen EXCEPT ![u] = [fingerprint |-> request[u].report.fingerprint, original |-> Latest,
                                  context |-> request[u].context]]
  /\ request' = [request EXCEPT ![u] = NoRequest]
  /\ UNCHANGED <<liveVars, queueVars, historyVars, worker>>

\* Mutant: the fingerprint is not compared.
SameReviewBySnapshot(u) == seen[u].original = Latest

SameReview(u) == seen[u].fingerprint = request[u].report.fingerprint /\ seen[u].original = Latest

\* AcceptPlanExecutionContext up to the call of the store.
MayAccept(u) ==
  LET q == request[u] IN
  /\ q.pc = "latest" /\ q.op = "accept"
  /\ request' = [request EXCEPT ![u] =
       IF q.report.severity = "needs_confirmation" /\ SameReview(u)
       THEN [q EXCEPT !.pc = "store", !.report = None] ELSE NoRequest]
  /\ UNCHANGED <<liveVars, queueVars, historyVars, seen, worker>>

Accepted == Cardinality({n \in 1..Latest : snapshots[n].kind = "user_accepted"})

\* One user_accepted snapshot of the context as it is now, and its audit.
Accept(r, original, late) ==
  /\ Accepted < MaxAccepted
  /\ \E s \in Captured("user_accepted", r, late) : snapshots' = Append(snapshots, s)
  /\ audits' = Append(audits, [original |-> original, new |-> Latest + 1])

\* Mutant: the store trusts the service's own comparison.
StillLatestAlways(u) == TRUE

StillLatest(u) == seen[u].original = Latest

AcceptPlanExecutionSnapshot(u) ==
  /\ request[u].pc = "store" /\ request[u].op = "accept"
  /\ \/ /\ StillLatest(u)
        /\ \E late \in Lateness : Accept(rows, seen[u].original, late) /\ Counted(late)
     \/ /\ ~StillLatest(u)
        /\ UNCHANGED historyVars
  /\ request' = [request EXCEPT ![u] = NoRequest]
  /\ UNCHANGED <<liveVars, queueVars, seen, worker>>

Runnable(q) ==
  /\ q.version = plan.version
  /\ plan.status \in {"ready", "blocked"}
  /\ task.status \in {"pending", "failed"}

Queue(provider, at) ==
  /\ plan' = [status |-> "running", version |-> plan.version + 1]
  /\ task' = [task EXCEPT !.status = "queued"]
  /\ job' = [provider |-> provider, at |-> at]

\* Mutant: the selection is stored without a new snapshot.
RecordSelectionNever(p, late) == ~late /\ UNCHANGED <<snapshots, audits>>

\* A provider selection that changes the plan is recorded as an accepted context.
RecordSelection(p, late) ==
  IF p = rows.config THEN ~late /\ UNCHANGED <<snapshots, audits>> ELSE Accept(rows', Latest, late)

QueuePlan(u) ==
  LET q == request[u] IN
  /\ q.pc = "store" /\ q.op = "queuePlan"
  /\ \/ /\ Runnable(q)
        /\ rows' = [rows EXCEPT !.config = q.provider]
        /\ \E late \in Lateness : RecordSelection(q.provider, late) /\ Counted(late)
        /\ Queue(q.provider, q.at)
     \/ ~Runnable(q) /\ UNCHANGED <<rows, queueVars, historyVars>>
  /\ request' = [request EXCEPT ![u] = NoRequest]
  /\ UNCHANGED <<work, seen, worker>>

QueueTask(u) ==
  LET q == request[u] IN
  /\ q.pc = "store" /\ q.op = "queueTask"
  /\ \/ Runnable(q) /\ Queue(q.provider, q.at)
     \/ ~Runnable(q) /\ UNCHANGED queueVars
  /\ request' = [request EXCEPT ![u] = NoRequest]
  /\ UNCHANGED <<liveVars, historyVars, seen, worker>>

\* Automation queues a ready plan without a check of its own.
QueuePlanAutomatically ==
  /\ plan.status = "ready"
  /\ Queue(None, None)
  /\ UNCHANGED <<liveVars, historyVars, request, seen, worker>>

-----------------------------------------------------------------------------
(* executeTask *)

ClaimTask ==
  /\ worker.pc = "idle" /\ job # None
  /\ worker' = [NoWorker EXCEPT !.pc = "collect", !.context = Reading, !.history = Latest,
                                !.provider = EffectiveProvider(rows, job.provider)]
  /\ UNCHANGED <<liveVars, queueVars, historyVars, request, seen>>

GateReport ==
  Report(worker.history, worker.context.rows, work, worker.provider, IF IsValidation(task.n) THEN "validation" ELSE "full")

Gate ==
  /\ worker.pc = "collect"
  /\ worker' = [worker EXCEPT !.pc = IF AllowsCLI(GateReport) THEN "start" ELSE "block", !.context.work = work]
  /\ UNCHANGED <<liveVars, queueVars, historyVars, request, seen>>

Released(taskStatus) ==
  /\ task' = [task EXCEPT !.status = taskStatus]
  /\ plan' = [status |-> "blocked", version |-> plan.version + 1]
  /\ job' = None
  /\ worker' = NoWorker

BlockTaskJobForDrift ==
  /\ worker.pc = "block"
  /\ Released("pending")
  /\ UNCHANGED <<liveVars, historyVars, request, seen>>

StartTask ==
  /\ worker.pc = "start"
  /\ task' = [task EXCEPT !.status = "running"]
  /\ worker' = [worker EXCEPT !.pc = "cli"]
  /\ UNCHANGED <<liveVars, historyVars, plan, job, request, seen>>

\* The CLI, or the validation command, leaves any tree and any checkout behind.
RunCLI ==
  /\ worker.pc = "cli"
  /\ \E tree \in Trees, checkout \in Checkouts : work' = [work EXCEPT !.tree = tree, !.checkout = checkout]
  /\ \E outcome \in {"succeeded", "failed"} : worker' = [worker EXCEPT !.pc = outcome]
  /\ UNCHANGED <<queueVars, historyVars, rows, request, seen>>

\* A task's result is collected before the transaction that stores it; one that cannot be is drift.
CaptureWorkspaceSnapshot ==
  /\ worker.pc = "succeeded" /\ ~IsValidation(task.n)
  /\ worker' = IF work.place = "gone" THEN [worker EXCEPT !.pc = "block"]
               ELSE [worker EXCEPT !.pc = "captured", !.captured = work]
  /\ UNCHANGED <<liveVars, queueVars, historyVars, request, seen>>

\* A failed final validation cannot be told from a failed task here.
FinishTaskFailed ==
  /\ worker.pc = "failed"
  /\ Released("failed")
  /\ UNCHANGED <<liveVars, historyVars, request, seen>>

\* The next task is queued in the same transaction.
FinishTaskWithCheckpoint ==
  /\ worker.pc = "captured"
  /\ snapshots' = Append(snapshots, Snapshot("task_checkpoint", rows, Collect(worker.captured),
                                             [rows |-> rows, work |-> worker.captured]))
  /\ task' = [n |-> task.n + 1, status |-> "queued"]
  /\ job' = [provider |-> rows.config, at |-> None]
  /\ worker' = NoWorker
  /\ UNCHANGED <<liveVars, plan, audits, request, seen, edits>>

\* The last task completes the plan, and that closes the requirement.
FinishValidation ==
  /\ worker.pc = "succeeded" /\ IsValidation(task.n)
  /\ \E late \in Lateness :
       /\ \E s \in Captured("task_checkpoint", rows, late) : snapshots' = Append(snapshots, s)
       /\ Counted(late)
  /\ task' = [task EXCEPT !.status = "completed"]
  /\ plan' = [status |-> "completed", version |-> plan.version + 1]
  /\ rows' = [rows EXCEPT !.requirement = @ + 1]
  /\ job' = None
  /\ worker' = NoWorker
  /\ UNCHANGED <<work, audits, request, seen>>

-----------------------------------------------------------------------------
(* What people change meanwhile *)

Edit(what) ==
  /\ edits < MaxEdits
  /\ edits' = edits + 1
  /\ \/ /\ what = "requirement"
        /\ rows' = [rows EXCEPT !.requirement = @ + 1]
        /\ UNCHANGED work
     \/ /\ what = "settings"
        /\ \E f \in {"validation", "agent"} : rows' = [rows EXCEPT !.settings[f] = ~@]
        /\ UNCHANGED work
     \/ /\ what = "provider"
        /\ \E p \in Providers \ {rows.default} : rows' = [rows EXCEPT !.default = p]
        /\ UNCHANGED work
     \/ /\ what \in {"tree", "checkout", "place"}
        /\ \E w \in Works \ {work} :
             /\ \A f \in DOMAIN w \ {what} : w[f] = work[f]
             /\ work' = w
        /\ UNCHANGED rows
  /\ UNCHANGED <<queueVars, snapshots, audits, request, seen, worker>>

UserStep(u) ==
  \/ \E op \in Operations, p \in Providers \cup {None} : Load(u, op, p)
  \/ Check(u) \/ Reviewed(u) \/ MayAccept(u)
  \/ AcceptPlanExecutionSnapshot(u) \/ QueuePlan(u) \/ QueueTask(u)

WorkerStep ==
  \/ ClaimTask \/ Gate \/ BlockTaskJobForDrift \/ StartTask \/ RunCLI
  \/ CaptureWorkspaceSnapshot \/ FinishTaskFailed \/ FinishTaskWithCheckpoint \/ FinishValidation

Next ==
  \/ \E u \in Users : UserStep(u)
  \/ QueuePlanAutomatically
  \/ WorkerStep
  \/ \E what \in Edits : Edit(what)

Spec == Init /\ [][Next]_vars

-----------------------------------------------------------------------------
(* Properties *)

\* A CLI starts only in a context some baseline or accepted snapshot records: its
\* requirement and its place are the recorded ones, its settings and provider are (a
\* validation: its validation settings), it has no conflict, and its Git state is that
\* snapshot's or a later checkpoint's.  What the gate read may be old by then.
CLIRunsInRecordedContext ==
  worker.pc \in {"start", "cli"} =>
    LET r == worker.context.rows
        w == worker.context.work
        Git(s) == s.work.checkout = w.checkout /\ s.work.digest = StatusDigest(w.tree)
    IN
    /\ w.place # "gone" /\ w.tree \notin Conflicts
    /\ \E n \in 1..Latest :
         LET s == snapshots[n] IN
         /\ s.kind # "task_checkpoint"
         /\ s.requirement = r.requirement /\ s.work.path = w.place
         /\ IF IsValidation(task.n) THEN s.settings.validation = r.settings.validation
            ELSE s.settings = r.settings /\ s.config = r.config /\ s.provider = worker.provider
         /\ Git(s) \/ \E k \in n + 1..Latest : Git(snapshots[k])

\* An acceptance reaches the store only if the context is still the one its user
\* reviewed: any change of requirement, settings, place, checkout or status between
\* the review and the accept request makes the fingerprints differ, even when the
\* change is no difference to the baseline or replaces one difference by another.
AcceptsWhatWasReviewed ==
  \A u \in Users :
    request[u].pc = "store" /\ request[u].op = "accept" =>
      request[u].context = seen[u].context

\* The live context is still the one that snapshot n was captured from.
Unchanged(n) == snapshots[n].live = [rows |-> rows, work |-> work]

FullReport == Report(Latest, rows, work, ExecutionProvider(rows), "full")

\* Accepting settles the drift: while the context stays what the newest, accepted
\* snapshot was captured from, the worker's own check lets the CLI run.  It needs an
\* origin (without one the accepted identity is never the collected one) and Git
\* commands in time; conflicts and a missing workspace are never accepted away.
AcceptanceSettles ==
  /\ Origin /\ snapshots[Latest].kind = "user_accepted" /\ Unchanged(Latest)
  /\ work.tree \notin Conflicts /\ work.place # "gone"
  => AllowsCLI(FullReport)

\* A plan queued with an explicit provider is not stopped by the worker's gate when
\* nobody changed anything after the request began to check: the selection is recorded
\* with the queueing, so the gate compares what the user preflighted.
PreflightHolds ==
  worker.pc = "block" /\ task.status = "queued" /\ job.provider # None /\ job.at = edits =>
    ~Origin

\* Accepted snapshots and audits belong together one to one and in order, whichever way a
\* context was accepted, and each audit names the snapshot directly before the new one:
\* a checkpoint that lands between an accept's check and its commit makes the accept fail.
AuditsFollowSnapshots ==
  /\ Len(audits) = Accepted
  /\ \A a \in 1..Len(audits) :
       /\ audits[a].new = audits[a].original + 1
       /\ snapshots[audits[a].new].kind = "user_accepted"
       /\ \A b \in 1..a - 1 : audits[b].new <= audits[a].original

=============================================================================
