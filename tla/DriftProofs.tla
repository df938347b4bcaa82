---------------------------- MODULE DriftProofs ----------------------------
(***************************************************************************)
(* Proofs about Drift, for any number of users, tasks, edits and accepted  *)
(* contexts, any work trees and any provider.                              *)
(***************************************************************************)
EXTENDS Drift, FiniteSetTheorems, SequenceTheorems, NaturalsInduction, WellFoundedInduction, TLAPS

-----------------------------------------------------------------------------
(* Shapes.                                                                 *)

\* A sequence, of whatever elements.
IsSequence(s) == Len(s) \in Nat /\ s = [n \in 1..Len(s) |-> s[n]]

LEMMA EmptySequence == IsSequence(<<>>) /\ Len(<<>>) = 0
BY DEF IsSequence

LEMMA AppendSequence ==
  ASSUME NEW s, IsSequence(s), NEW e
  PROVE  /\ IsSequence(Append(s, e)) /\ Len(Append(s, e)) = Len(s) + 1
         /\ Append(s, e)[Len(s) + 1] = e
         /\ \A n \in 1..Len(s) : Append(s, e)[n] = s[n]
<1> DEFINE S == {s[n] : n \in 1..Len(s)} \cup {e}
<1>1. s \in [1..Len(s) -> S]
  BY DEF IsSequence
<1> HIDE DEF S
<1>2. s \in Seq(S) /\ e \in S
  BY <1>1, SeqDef DEF IsSequence, S
<1>3. /\ Append(s, e) \in Seq(S) /\ Len(Append(s, e)) = Len(s) + 1
      /\ \A n \in 1..Len(s) : Append(s, e)[n] = s[n]
      /\ Append(s, e)[Len(s) + 1] = e
  BY <1>2, AppendProperties
<1>4. IsSequence(Append(s, e))
  BY <1>3, LenProperties DEF IsSequence
<1> QED
  BY <1>3, <1>4

RequestFields == {"pc", "op", "provider", "rows", "history", "version", "at", "report", "context"}
WorkerFields == {"pc", "context", "history", "provider", "captured"}

Shapes ==
  /\ rows \in LiveRows /\ work \in Works
  /\ IsSequence(snapshots) /\ IsSequence(audits)
  /\ task \in [n : Nat, status : {"pending", "queued", "running", "failed", "completed"}]
  /\ DOMAIN request = Users /\ DOMAIN seen = Users
  /\ \A u \in Users : /\ DOMAIN request[u] = RequestFields
                      /\ request[u].provider \in Providers \cup {None}
  /\ DOMAIN worker = WorkerFields
  /\ worker.pc = "collect" => DOMAIN worker.context = {"rows", "work"}

-----------------------------------------------------------------------------
(* What a step may do.                                                     *)

\* A snapshot says what the context was that it was captured from.
Truthful(s) ==
  s.live # None =>
    LET r == s.live.rows IN
    /\ s.requirement = r.requirement /\ s.settings = r.settings /\ s.config = r.config
    /\ s.provider = ExecutionProvider(r)
    /\ s.kind = "user_accepted" => s.work \in readGitSnapshot(s.live.work, FALSE)

HistoryMove ==
  \/ UNCHANGED <<snapshots, audits>>
  \/ \E s : /\ snapshots' = Append(snapshots, s) /\ s.kind = "task_checkpoint" /\ Truthful(s)
            /\ UNCHANGED audits
  \/ \E s : /\ snapshots' = Append(snapshots, s) /\ s.kind = "user_accepted" /\ Truthful(s)
            /\ audits' = Append(audits, [original |-> Latest, new |-> Latest + 1])

\* What a fingerprint shows of the context it was taken from.
View(c) == <<c.requirement, c.key, c.path, c.checkout, c.digest[2]>>
SeenInView(s) == s.context = View(s.fingerprint[2])
ReportInView(q) == q.context = View(q.report.fingerprint[2])

RequestMove(u) ==
  \/ request'[u] = request[u] /\ seen'[u] = seen[u]
  \/ request'[u].pc = "idle" /\ (seen'[u] = seen[u] \/ SeenInView(seen'[u]))
  \/ /\ request'[u].pc = "collect" /\ seen'[u] = seen[u]
     /\ request'[u].op = "accept" => seen[u] # None
  \/ /\ request[u].pc = "collect" /\ seen'[u] = seen[u] /\ request'[u].op = request[u].op
     /\ \/ request'[u].pc = "latest" /\ ReportInView(request'[u])
        \/ request'[u].pc = "store" /\ request[u].op \notin {"review", "accept"}
  \/ /\ request[u].pc = "latest" /\ request[u].op = "accept" /\ seen'[u] = seen[u]
     /\ request'[u].pc = "store" /\ request'[u].op = "accept"
     /\ request'[u].context = request[u].context
     /\ seen[u].fingerprint = request[u].report.fingerprint

RequestsMove ==
  /\ DOMAIN request' = Users /\ DOMAIN seen' = Users
  /\ \A u \in Users : /\ DOMAIN request'[u] = RequestFields
                      /\ request'[u].provider \in Providers \cup {None}
                      /\ RequestMove(u)

\* The gate passed: what it read is the context of a recorded snapshot.
Recorded(r, w, provider, n, hist, top) ==
  LET Git(s) == s.work.checkout = w.checkout /\ s.work.digest = StatusDigest(w.tree) IN
  /\ w.place # "gone" /\ w.tree \notin Conflicts
  /\ \E m \in 1..top :
       LET s == hist[m] IN
       /\ s.kind # "task_checkpoint"
       /\ s.requirement = r.requirement /\ s.work.path = w.place
       /\ IF IsValidation(n) THEN s.settings.validation = r.settings.validation
          ELSE s.settings = r.settings /\ s.config = r.config /\ s.provider = provider
       /\ Git(s) \/ \E k \in m + 1..top : Git(hist[k])

WorkerRecorded ==
  Recorded(worker.context.rows, worker.context.work, worker.provider, task.n, snapshots, Latest)

WorkerMove ==
  \/ worker' = worker /\ task'.n = task.n
  \/ worker'.pc \notin {"collect", "start", "cli"}
  \/ /\ worker'.pc = "collect" /\ worker'.history = Latest /\ UNCHANGED snapshots
     /\ DOMAIN worker'.context = {"rows", "work"}
  \/ /\ worker.pc = "collect" /\ worker'.pc = "start" /\ UNCHANGED <<snapshots, task>>
     /\ AllowsCLI(GateReport)
     /\ worker'.context.rows = worker.context.rows /\ worker'.context.work = work
     /\ worker'.provider = worker.provider
  \/ /\ worker.pc = "start" /\ worker'.pc = "cli" /\ task'.n = task.n
     /\ worker'.context = worker.context /\ worker'.provider = worker.provider

WorkersMove ==
  /\ DOMAIN worker' = WorkerFields
  /\ task' \in [n : Nat, status : {"pending", "queued", "running", "failed", "completed"}]
  /\ WorkerMove

LiveMove == rows' \in LiveRows /\ work' \in Works

Moves == LiveMove /\ HistoryMove /\ RequestsMove /\ WorkersMove

LEMMA RequestsAlone == ASSUME Shapes, UNCHANGED <<request, seen>> PROVE RequestsMove
BY DEF Shapes, RequestsMove, RequestMove

LEMMA WorkerAlone == ASSUME Shapes, UNCHANGED <<worker, task>> PROVE WorkersMove
BY DEF Shapes, WorkersMove, WorkerMove

LEMMA LiveAlone == ASSUME Shapes, UNCHANGED <<rows, work>> PROVE LiveMove
BY DEF Shapes, LiveMove

LEMMA HistoryAlone == ASSUME UNCHANGED <<snapshots, audits>> PROVE HistoryMove
BY DEF HistoryMove

\* One request moves.
LEMMA RequestUpdate ==
  ASSUME Shapes, NEW u \in Users, NEW q, request' = [request EXCEPT ![u] = q],
         DOMAIN q = RequestFields, q.provider \in Providers \cup {None},
         DOMAIN seen' = Users, \A v \in Users \ {u} : seen'[v] = seen[v], RequestMove(u)
  PROVE  RequestsMove
BY DEF Shapes, RequestsMove, RequestMove

LEMMA RequestEnds ==
  ASSUME Shapes, NEW u \in Users, request' = [request EXCEPT ![u] = NoRequest],
         DOMAIN seen' = Users, \A v \in Users \ {u} : seen'[v] = seen[v],
         seen'[u] = seen[u] \/ SeenInView(seen'[u])
  PROVE  RequestsMove
<1>1. /\ DOMAIN NoRequest = RequestFields /\ NoRequest.provider \in Providers \cup {None}
      /\ NoRequest.pc = "idle"
  BY DEF NoRequest, RequestFields
<1>2. request'[u] = NoRequest
  BY DEF Shapes
<1>3. RequestMove(u)
  BY <1>1, <1>2 DEF RequestMove
<1> QED
  BY <1>1, <1>3, RequestUpdate

\* What the store captures is truthful.
LEMMA CapturedTruthful ==
  ASSUME NEW kind, NEW r, NEW late \in BOOLEAN, NEW s \in Captured(kind, r, late)
  PROVE  s.kind = kind /\ Truthful(s)
<1>1. PICK ws \in readGitSnapshot(work, late) :
        s = Snapshot(kind, r, ws, IF late THEN None ELSE [rows |-> r, work |-> work])
  BY DEF Captured
<1>2. CASE late
  BY <1>1, <1>2 DEF Snapshot, Truthful
<1>3. CASE ~late
  <2>1. s = Snapshot(kind, r, ws, [rows |-> r, work |-> work]) /\ ws \in readGitSnapshot(work, FALSE)
    BY <1>1, <1>3
  <2>2. /\ s.kind = kind /\ s.requirement = r.requirement /\ s.settings = r.settings
        /\ s.config = r.config /\ s.provider = ExecutionProvider(r) /\ s.work = ws
        /\ s.live.rows = r /\ s.live.work = work
    BY <2>1 DEF Snapshot
  <2> QED
    BY <2>1, <2>2 DEF Truthful
<1> QED
  BY <1>2, <1>3

LEMMA LatenessBoolean == Lateness \subseteq BOOLEAN
BY DEF Lateness

LEMMA AcceptMoves ==
  ASSUME NEW r, NEW late \in BOOLEAN, Accept(r, Latest, late)
  PROVE  HistoryMove
<1>1. PICK s \in Captured("user_accepted", r, late) : snapshots' = Append(snapshots, s)
  BY DEF Accept
<1>2. s.kind = "user_accepted" /\ Truthful(s)
  BY CapturedTruthful
<1> QED
  BY <1>1, <1>2 DEF Accept, HistoryMove

-----------------------------------------------------------------------------
(* The steps of a user.                                                    *)

LEMMA LoadMoves ==
  ASSUME Shapes, NEW u \in Users, NEW op \in Operations, NEW p \in Providers \cup {None},
         Load(u, op, p)
  PROVE  Moves
<1> DEFINE q == [NoRequest EXCEPT !.pc = "collect", !.op = op, !.provider = p, !.rows = rows,
                           !.history = Latest, !.version = plan.version, !.at = edits]
<1>1. /\ request' = [request EXCEPT ![u] = q] /\ (op = "accept" => seen[u] # None)
      /\ UNCHANGED <<rows, work, task, snapshots, audits, seen, worker>>
  BY DEF Load, liveVars, queueVars, historyVars
<1>2. DOMAIN q = RequestFields /\ q.provider = p /\ q.pc = "collect" /\ q.op = op
  BY DEF NoRequest, RequestFields
<1> HIDE DEF q
<1>3. request'[u] = q
  BY <1>1 DEF Shapes
<1>4. RequestMove(u)
  BY <1>1, <1>2, <1>3 DEF RequestMove
<1>5. RequestsMove
  BY <1>1, <1>2, <1>4, RequestUpdate DEF Shapes
<1> QED
  BY <1>1, <1>5, LiveAlone, HistoryAlone, WorkerAlone DEF Moves

\* A report of a review shows the context it was made for.
LEMMA ReviewInView ==
  ASSUME NEW n, NEW r, NEW w, NEW p
  PROVE  Visible(r, w) = View(Report(n, r, w, p, "queue").fingerprint[2])
<1> DEFINE b == FromSnapshot(snapshots[Baseline(n)], "queue")
           c == Current(r, w, b.provider, "queue")
<1>1. Report(n, r, w, p, "queue").fingerprint[2] = c
  BY DEF Report
<1>2. /\ c.requirement = r.requirement /\ c.key = r.settings /\ c.path = w.place
      /\ c.checkout = w.checkout /\ c.digest = <<"status", StatusOf[w.tree]>>
  BY DEF Current, Collect, KeyFields, StatusDigest
<1> QED
  BY <1>1, <1>2 DEF View, Visible

LEMMA CheckMoves ==
  ASSUME Shapes, NEW u \in Users, Check(u)
  PROVE  Moves
<1> DEFINE q == request[u]
           option == Option(q.op)
           report == Report(q.history, q.rows, work, EffectiveProvider(q.rows, q.provider), option)
           checked == [q EXCEPT !.rows = None, !.history = 0]
           latest == [checked EXCEPT !.pc = "latest", !.report = report,
                                     !.context = Visible(q.rows, work)]
           store == [checked EXCEPT !.pc = "store"]
<1>1. /\ q.pc = "collect"
      /\ request' = [request EXCEPT ![u] = IF q.op \in {"review", "accept"} THEN latest
                                           ELSE IF AllowsCLI(report) THEN store ELSE NoRequest]
      /\ UNCHANGED <<rows, work, task, snapshots, audits, seen, worker>>
  BY DEF Check, liveVars, queueVars, historyVars
<1>2. DOMAIN q = RequestFields /\ q.provider \in Providers \cup {None}
  BY DEF Shapes
<1>3. CASE q.op \in {"review", "accept"}
  <2>1. option = "queue"
    BY <1>3 DEF Option
  <2>2. Visible(q.rows, work) = View(report.fingerprint[2])
    BY <2>1, ReviewInView
  <2> HIDE DEF report, option
  <2>3. /\ DOMAIN latest = RequestFields /\ latest.provider = q.provider /\ latest.pc = "latest"
        /\ latest.op = q.op /\ latest.report = report /\ latest.context = Visible(q.rows, work)
    BY <1>2 DEF RequestFields
  <2>4. request' = [request EXCEPT ![u] = latest]
    BY <1>1, <1>3
  <2> HIDE DEF latest
  <2>5. request'[u] = latest
    BY <2>4 DEF Shapes
  <2>6. RequestMove(u)
    BY <1>1, <2>2, <2>3, <2>5 DEF RequestMove, ReportInView
  <2> QED
    BY <1>1, <1>2, <2>3, <2>4, <2>6, RequestUpdate, LiveAlone, HistoryAlone, WorkerAlone
       DEF Moves, Shapes
<1>4. CASE q.op \notin {"review", "accept"} /\ AllowsCLI(report)
  <2>1. request' = [request EXCEPT ![u] = store]
    BY <1>1, <1>4
  <2> HIDE DEF report, option
  <2>2. /\ DOMAIN store = RequestFields /\ store.provider = q.provider /\ store.pc = "store"
        /\ store.op = q.op
    BY <1>2 DEF RequestFields
  <2> HIDE DEF store
  <2>3. request'[u] = store
    BY <2>1 DEF Shapes
  <2>4. RequestMove(u)
    BY <1>1, <1>4, <2>2, <2>3 DEF RequestMove
  <2> QED
    BY <1>1, <1>2, <2>1, <2>2, <2>4, RequestUpdate, LiveAlone, HistoryAlone, WorkerAlone
       DEF Moves, Shapes
<1>5. CASE q.op \notin {"review", "accept"} /\ ~AllowsCLI(report)
  <2>1. request' = [request EXCEPT ![u] = NoRequest]
    BY <1>1, <1>5
  <2> QED
    BY <1>1, <2>1, RequestEnds, LiveAlone, HistoryAlone, WorkerAlone DEF Moves, Shapes
<1> QED
  BY <1>3, <1>4, <1>5

LEMMA ReviewedMoves ==
  ASSUME Shapes, NEW u \in Users, Reviewed(u), ReportInView(request[u])
  PROVE  Moves
<1> DEFINE s == [fingerprint |-> request[u].report.fingerprint, original |-> Latest,
                 context |-> request[u].context]
<1>1. /\ seen' = [seen EXCEPT ![u] = s] /\ request' = [request EXCEPT ![u] = NoRequest]
      /\ UNCHANGED <<rows, work, task, snapshots, audits, worker>>
  BY DEF Reviewed, liveVars, queueVars, historyVars
<1>2. SeenInView(s)
  BY DEF SeenInView, ReportInView
<1> HIDE DEF s
<1>3. DOMAIN seen' = Users /\ seen'[u] = s /\ \A v \in Users \ {u} : seen'[v] = seen[v]
  BY <1>1 DEF Shapes
<1> QED
  BY <1>1, <1>2, <1>3, RequestEnds, LiveAlone, HistoryAlone, WorkerAlone DEF Moves

LEMMA MayAcceptMoves ==
  ASSUME Shapes, NEW u \in Users, MayAccept(u)
  PROVE  Moves
<1> DEFINE q == request[u]
           store == [q EXCEPT !.pc = "store", !.report = None]
           same == q.report.severity = "needs_confirmation" /\ SameReview(u)
<1>1. /\ q.pc = "latest" /\ q.op = "accept"
      /\ request' = [request EXCEPT ![u] = IF same THEN store ELSE NoRequest]
      /\ UNCHANGED <<rows, work, task, snapshots, audits, seen, worker>>
  BY DEF MayAccept, liveVars, queueVars, historyVars
<1>2. CASE same
  <2>1. request' = [request EXCEPT ![u] = store]
    BY <1>1, <1>2
  <2>2. /\ DOMAIN store = RequestFields /\ store.provider \in Providers \cup {None}
        /\ store.pc = "store" /\ store.op = q.op /\ store.context = q.context
    BY DEF Shapes, RequestFields
  <2> HIDE DEF store
  <2>3. request'[u] = store
    BY <2>1 DEF Shapes
  <2>4. RequestMove(u)
    BY <1>1, <1>2, <2>2, <2>3 DEF RequestMove, SameReview
  <2> QED
    BY <1>1, <2>1, <2>2, <2>4, RequestUpdate, LiveAlone, HistoryAlone, WorkerAlone
       DEF Moves, Shapes
<1>3. CASE ~same
  BY <1>1, <1>3, RequestEnds, LiveAlone, HistoryAlone, WorkerAlone DEF Moves, Shapes
<1> QED
  BY <1>2, <1>3

LEMMA AcceptPlanExecutionSnapshotMoves ==
  ASSUME Shapes, NEW u \in Users, AcceptPlanExecutionSnapshot(u)
  PROVE  Moves
<1>1. /\ request' = [request EXCEPT ![u] = NoRequest]
      /\ UNCHANGED <<rows, work, task, seen, worker>>
  BY DEF AcceptPlanExecutionSnapshot, liveVars, queueVars
<1>2. HistoryMove
  <2>1. CASE UNCHANGED historyVars
    BY <2>1, HistoryAlone DEF historyVars
  <2>2. ASSUME NEW late \in Lateness, StillLatest(u), Accept(rows, seen[u].original, late)
        PROVE  HistoryMove
    BY <2>2, LatenessBoolean, AcceptMoves DEF StillLatest
  <2> QED
    BY <2>1, <2>2 DEF AcceptPlanExecutionSnapshot
<1> QED
  BY <1>1, <1>2, RequestEnds, LiveAlone, WorkerAlone DEF Moves, Shapes

LEMMA QueuedTask ==
  ASSUME Shapes, NEW p, NEW at, Queue(p, at), UNCHANGED worker
  PROVE  WorkersMove
<1>1. task' = [task EXCEPT !.status = "queued"]
  BY DEF Queue
<1>2. task' \in [n : Nat, status : {"pending", "queued", "running", "failed", "completed"}]
      /\ task'.n = task.n
  BY <1>1 DEF Shapes
<1> QED
  BY <1>2 DEF WorkersMove, WorkerMove, Shapes

LEMMA QueuePlanMoves ==
  ASSUME Shapes, NEW u \in Users, QueuePlan(u)
  PROVE  Moves
<1> DEFINE q == request[u]
<1>1. request' = [request EXCEPT ![u] = NoRequest] /\ UNCHANGED <<work, seen, worker>>
  BY DEF QueuePlan
<1>2. CASE ~Runnable(q) /\ UNCHANGED <<rows, queueVars, historyVars>>
  BY <1>1, <1>2, RequestEnds, LiveAlone, HistoryAlone, WorkerAlone
     DEF Moves, Shapes, queueVars, historyVars
<1>3. CASE /\ rows' = [rows EXCEPT !.config = q.provider]
           /\ \E late \in Lateness : RecordSelection(q.provider, late) /\ Counted(late)
           /\ Queue(q.provider, q.at)
  <2>1. LiveMove
    BY <1>1, <1>3 DEF LiveMove, Shapes, LiveRows
  <2>2. PICK late \in Lateness : RecordSelection(q.provider, late)
    BY <1>3
  <2>3. HistoryMove
    BY <2>2, LatenessBoolean, HistoryAlone, AcceptMoves DEF RecordSelection
  <2> QED
    BY <1>1, <1>3, <2>1, <2>3, QueuedTask, RequestEnds DEF Moves, Shapes
<1> QED
  BY <1>2, <1>3 DEF QueuePlan

LEMMA QueueTaskMoves ==
  ASSUME Shapes, NEW u \in Users, QueueTask(u)
  PROVE  Moves
<1>1. /\ request' = [request EXCEPT ![u] = NoRequest]
      /\ UNCHANGED <<rows, work, snapshots, audits, seen, worker>>
  BY DEF QueueTask, liveVars, historyVars
<1>2. WorkersMove
  BY <1>1, QueuedTask, WorkerAlone DEF QueueTask, queueVars
<1> QED
  BY <1>1, <1>2, RequestEnds, LiveAlone, HistoryAlone DEF Moves, Shapes

LEMMA QueuePlanAutomaticallyMoves ==
  ASSUME Shapes, QueuePlanAutomatically
  PROVE  Moves
<1>1. Queue(None, None) /\ UNCHANGED <<rows, work, snapshots, audits, request, seen, worker>>
  BY DEF QueuePlanAutomatically, liveVars, historyVars
<1> QED
  BY <1>1, QueuedTask, LiveAlone, HistoryAlone, RequestsAlone DEF Moves

-----------------------------------------------------------------------------
(* The steps of the worker.                                                *)

LEMMA ClaimTaskMoves ==
  ASSUME Shapes, ClaimTask
  PROVE  Moves
<1>1. /\ worker' = [NoWorker EXCEPT !.pc = "collect", !.context = Reading, !.history = Latest,
                                    !.provider = EffectiveProvider(rows, job.provider)]
      /\ UNCHANGED <<rows, work, task, snapshots, audits, request, seen>>
  BY DEF ClaimTask, liveVars, queueVars, historyVars
<1>2. /\ DOMAIN worker' = WorkerFields /\ worker'.pc = "collect" /\ worker'.history = Latest
      /\ worker'.context = Reading
  BY <1>1 DEF NoWorker, WorkerFields
<1>3. DOMAIN Reading = {"rows", "work"}
  BY DEF Reading
<1>4. WorkersMove
  BY <1>1, <1>2, <1>3 DEF WorkersMove, WorkerMove, Shapes
<1> QED
  BY <1>1, <1>4, LiveAlone, HistoryAlone, RequestsAlone DEF Moves

LEMMA GateMoves ==
  ASSUME Shapes, Gate
  PROVE  Moves
<1> DEFINE next == IF AllowsCLI(GateReport) THEN "start" ELSE "block"
<1>1. /\ worker.pc = "collect"
      /\ worker' = [worker EXCEPT !.pc = next, !.context.work = work]
      /\ UNCHANGED <<rows, work, task, snapshots, audits, request, seen>>
  BY DEF Gate, liveVars, queueVars, historyVars
<1>2. (next = "start" /\ AllowsCLI(GateReport)) \/ next = "block"
  OBVIOUS
<1> HIDE DEF next
<1>3. /\ DOMAIN worker' = WorkerFields /\ worker'.pc = next /\ worker'.provider = worker.provider
      /\ worker'.context = [worker.context EXCEPT !.work = work]
  BY <1>1 DEF Shapes, WorkerFields
<1>4. worker'.context.rows = worker.context.rows /\ worker'.context.work = work
  BY <1>1, <1>3 DEF Shapes
<1>5. WorkersMove
  BY <1>1, <1>2, <1>3, <1>4 DEF WorkersMove, WorkerMove, Shapes
<1> QED
  BY <1>1, <1>5, LiveAlone, HistoryAlone, RequestsAlone DEF Moves

\* The job is given back, and the worker is idle.
LEMMA ReleasedMoves ==
  ASSUME Shapes, NEW status \in {"pending", "failed"}, Released(status)
  PROVE  WorkersMove
<1>1. task' = [task EXCEPT !.status = status] /\ worker' = NoWorker
  BY DEF Released
<1>2. task' \in [n : Nat, status : {"pending", "queued", "running", "failed", "completed"}]
  BY <1>1 DEF Shapes
<1>3. DOMAIN NoWorker = WorkerFields /\ NoWorker.pc = "idle"
  BY DEF NoWorker, WorkerFields
<1> QED
  BY <1>1, <1>2, <1>3 DEF WorkersMove, WorkerMove

LEMMA BlockMoves ==
  ASSUME Shapes, BlockTaskJobForDrift \/ FinishTaskFailed
  PROVE  Moves
<1>1. /\ Released("pending") \/ Released("failed")
      /\ UNCHANGED <<rows, work, snapshots, audits, request, seen>>
  BY DEF BlockTaskJobForDrift, FinishTaskFailed, liveVars, historyVars
<1>2. WorkersMove
  BY <1>1, ReleasedMoves
<1> QED
  BY <1>1, <1>2, LiveAlone, HistoryAlone, RequestsAlone DEF Moves

LEMMA StartTaskMoves ==
  ASSUME Shapes, StartTask
  PROVE  Moves
<1>1. /\ worker.pc = "start" /\ task' = [task EXCEPT !.status = "running"]
      /\ worker' = [worker EXCEPT !.pc = "cli"]
      /\ UNCHANGED <<rows, work, snapshots, audits, request, seen>>
  BY DEF StartTask, liveVars, historyVars
<1>2. /\ task' \in [n : Nat, status : {"pending", "queued", "running", "failed", "completed"}]
      /\ task'.n = task.n
  BY <1>1 DEF Shapes
<1>3. /\ DOMAIN worker' = WorkerFields /\ worker'.pc = "cli" /\ worker'.context = worker.context
      /\ worker'.provider = worker.provider
  BY <1>1 DEF Shapes, WorkerFields
<1>4. WorkersMove
  BY <1>1, <1>2, <1>3 DEF WorkersMove, WorkerMove
<1> QED
  BY <1>1, <1>4, LiveAlone, HistoryAlone, RequestsAlone DEF Moves

LEMMA RunCLIMoves ==
  ASSUME Shapes, RunCLI
  PROVE  Moves
<1>1. UNCHANGED <<rows, task, snapshots, audits, request, seen>>
  BY DEF RunCLI, queueVars, historyVars
<1>2. PICK tree \in Trees, checkout \in Checkouts :
        work' = [work EXCEPT !.tree = tree, !.checkout = checkout]
  BY DEF RunCLI
<1>3. LiveMove
  BY <1>1, <1>2 DEF LiveMove, Shapes, Works
<1>4. PICK outcome \in {"succeeded", "failed"} : worker' = [worker EXCEPT !.pc = outcome]
  BY DEF RunCLI
<1>5. DOMAIN worker' = WorkerFields /\ worker'.pc = outcome
  BY <1>4 DEF Shapes, WorkerFields
<1>6. WorkersMove
  BY <1>1, <1>5 DEF WorkersMove, WorkerMove, Shapes
<1> QED
  BY <1>1, <1>3, <1>6, HistoryAlone, RequestsAlone DEF Moves

LEMMA CaptureWorkspaceSnapshotMoves ==
  ASSUME Shapes, CaptureWorkspaceSnapshot
  PROVE  Moves
<1>1. /\ UNCHANGED <<rows, work, task, snapshots, audits, request, seen>>
      /\ \/ worker' = [worker EXCEPT !.pc = "block"]
         \/ worker' = [worker EXCEPT !.pc = "captured", !.captured = work]
  BY DEF CaptureWorkspaceSnapshot, liveVars, queueVars, historyVars
<1>2. DOMAIN worker' = WorkerFields /\ worker'.pc \in {"block", "captured"}
  BY <1>1 DEF Shapes, WorkerFields
<1>3. WorkersMove
  BY <1>1, <1>2 DEF WorkersMove, WorkerMove, Shapes
<1> QED
  BY <1>1, <1>3, LiveAlone, HistoryAlone, RequestsAlone DEF Moves

LEMMA FinishTaskWithCheckpointMoves ==
  ASSUME Shapes, FinishTaskWithCheckpoint
  PROVE  Moves
<1> DEFINE s == Snapshot("task_checkpoint", rows, Collect(worker.captured),
                         [rows |-> rows, work |-> worker.captured])
<1>1. /\ snapshots' = Append(snapshots, s) /\ task' = [n |-> task.n + 1, status |-> "queued"]
      /\ worker' = NoWorker
      /\ UNCHANGED <<rows, work, audits, request, seen>>
  BY DEF FinishTaskWithCheckpoint, liveVars
<1>2. s.kind = "task_checkpoint" /\ Truthful(s)
  BY DEF Snapshot, Truthful
<1> HIDE DEF s
<1>3. HistoryMove
  BY <1>1, <1>2 DEF HistoryMove
<1>4. DOMAIN NoWorker = WorkerFields /\ NoWorker.pc = "idle"
  BY DEF NoWorker, WorkerFields
<1>5. task' \in [n : Nat, status : {"pending", "queued", "running", "failed", "completed"}]
  BY <1>1 DEF Shapes
<1>6. WorkersMove
  BY <1>1, <1>4, <1>5 DEF WorkersMove, WorkerMove
<1> QED
  BY <1>1, <1>3, <1>6, LiveAlone, RequestsAlone DEF Moves

LEMMA FinishValidationMoves ==
  ASSUME Shapes, FinishValidation
  PROVE  Moves
<1>1. /\ task' = [task EXCEPT !.status = "completed"] /\ worker' = NoWorker
      /\ rows' = [rows EXCEPT !.requirement = @ + 1]
      /\ UNCHANGED <<work, audits, request, seen>>
  BY DEF FinishValidation
<1>2. HistoryMove
  <2>1. PICK late \in BOOLEAN :
          \E s \in Captured("task_checkpoint", rows, late) : snapshots' = Append(snapshots, s)
    BY LatenessBoolean DEF FinishValidation
  <2>2. PICK s \in Captured("task_checkpoint", rows, late) : snapshots' = Append(snapshots, s)
    BY <2>1
  <2>3. s.kind = "task_checkpoint" /\ Truthful(s)
    BY CapturedTruthful
  <2> QED
    BY <1>1, <2>2, <2>3 DEF HistoryMove
<1>3. LiveMove
  BY <1>1 DEF LiveMove, Shapes, LiveRows
<1>4. DOMAIN NoWorker = WorkerFields /\ NoWorker.pc = "idle"
  BY DEF NoWorker, WorkerFields
<1>5. task' \in [n : Nat, status : {"pending", "queued", "running", "failed", "completed"}]
  BY <1>1 DEF Shapes
<1>6. WorkersMove
  BY <1>1, <1>4, <1>5 DEF WorkersMove, WorkerMove
<1> QED
  BY <1>1, <1>2, <1>3, <1>6, RequestsAlone DEF Moves

LEMMA EditMoves ==
  ASSUME Shapes, NEW what, Edit(what)
  PROVE  Moves
<1>1. UNCHANGED <<task, snapshots, audits, request, seen, worker>>
  BY DEF Edit, queueVars
<1>2. LiveMove
  <2>1. CASE rows' = [rows EXCEPT !.requirement = @ + 1] /\ UNCHANGED work
    BY <2>1 DEF LiveMove, Shapes, LiveRows
  <2>2. ASSUME NEW f \in {"validation", "agent"}, rows' = [rows EXCEPT !.settings[f] = ~@],
               UNCHANGED work
        PROVE  LiveMove
    <3>1. rows.settings \in Settings /\ [rows.settings EXCEPT ![f] = ~rows.settings[f]] \in Settings
      BY DEF Shapes, LiveRows, Settings
    <3>2. rows' = [rows EXCEPT !.settings = [rows.settings EXCEPT ![f] = ~rows.settings[f]]]
      BY <2>2
    <3> QED
      BY <2>2, <3>1, <3>2 DEF LiveMove, Shapes, LiveRows
  <2>3. ASSUME NEW p \in Providers, rows' = [rows EXCEPT !.default = p], UNCHANGED work
        PROVE  LiveMove
    BY <2>3 DEF LiveMove, Shapes, LiveRows
  <2>4. CASE work' \in Works /\ UNCHANGED rows
    BY <2>4 DEF LiveMove, Shapes
  <2> QED
    BY <2>1, <2>2, <2>3, <2>4 DEF Edit
<1> QED
  BY <1>1, <1>2, HistoryAlone, RequestsAlone, WorkerAlone DEF Moves

-----------------------------------------------------------------------------
(* The invariants.                                                         *)

\* A review and its acceptance, between the check and the store.
ReviewInv ==
  \A u \in Users :
    /\ request[u].op = "accept" /\ request[u].pc # "idle" => seen[u] # None
    /\ seen[u] # None => SeenInView(seen[u])
    /\ request[u].pc = "latest" => ReportInView(request[u])
    /\ request[u].pc = "store" /\ request[u].op = "accept" =>
         request[u].context = seen[u].context

LEMMA NextMoves ==
  ASSUME Shapes, ReviewInv, [Next]_vars
  PROVE  Moves
<1>1. ASSUME NEW u \in Users, UserStep(u) PROVE Moves
  <2>1. Reviewed(u) => ReportInView(request[u])
    BY DEF Reviewed, ReviewInv
  <2> QED
    BY <1>1, <2>1, LoadMoves, CheckMoves, ReviewedMoves, MayAcceptMoves,
       AcceptPlanExecutionSnapshotMoves, QueuePlanMoves, QueueTaskMoves, Zenon DEF UserStep
<1>2. CASE WorkerStep
  BY <1>2, ClaimTaskMoves, GateMoves, BlockMoves, StartTaskMoves, RunCLIMoves,
     CaptureWorkspaceSnapshotMoves, FinishTaskWithCheckpointMoves, FinishValidationMoves, Zenon
     DEF WorkerStep
<1>3. ASSUME NEW what \in Edits, Edit(what) PROVE Moves
  BY <1>3, EditMoves
<1>4. CASE UNCHANGED vars
  BY <1>4, LiveAlone, HistoryAlone, RequestsAlone, WorkerAlone DEF vars, Moves
<1> QED
  BY <1>1, <1>2, <1>3, <1>4, QueuePlanAutomaticallyMoves, Zenon DEF Next

LEMMA HistoryGrows ==
  ASSUME IsSequence(snapshots), IsSequence(audits), HistoryMove
  PROVE  /\ IsSequence(snapshots') /\ IsSequence(audits')
         /\ Len(snapshots') \in Nat /\ Len(snapshots) <= Len(snapshots')
         /\ \A n \in 1..Len(snapshots) : snapshots'[n] = snapshots[n]
<1>1. CASE UNCHANGED <<snapshots, audits>>
  BY <1>1 DEF IsSequence
<1>2. ASSUME NEW s, snapshots' = Append(snapshots, s),
             audits' = audits \/ \E a : audits' = Append(audits, a)
      PROVE  /\ IsSequence(snapshots') /\ IsSequence(audits')
             /\ Len(snapshots') \in Nat /\ Len(snapshots) <= Len(snapshots')
             /\ \A n \in 1..Len(snapshots) : snapshots'[n] = snapshots[n]
  <2>1. IsSequence(audits')
    <3>1. CASE audits' = audits
      BY <3>1
    <3>2. ASSUME NEW a, audits' = Append(audits, a) PROVE IsSequence(audits')
      <4>1. IsSequence(Append(audits, a))
        BY AppendSequence, Zenon
      <4> QED
        BY <3>2, <4>1, Zenon
    <3> QED
      BY <1>2, <3>1, <3>2
  <2>2. /\ IsSequence(snapshots') /\ Len(snapshots') = Len(snapshots) + 1
        /\ \A n \in 1..Len(snapshots) : snapshots'[n] = snapshots[n]
    BY <1>2, AppendSequence
  <2> QED
    BY <2>1, <2>2 DEF IsSequence
<1> QED
  BY <1>1, <1>2 DEF HistoryMove

LEMMA NextShapes ==
  ASSUME Shapes, Moves
  PROVE  Shapes'
<1>1. IsSequence(snapshots') /\ IsSequence(audits')
  BY HistoryGrows DEF Shapes, Moves
<1>2. worker'.pc = "collect" => DOMAIN worker'.context = {"rows", "work"}
  BY DEF Moves, WorkersMove, WorkerMove, Shapes
<1> QED
  BY <1>1, <1>2 DEF Moves, LiveMove, RequestsMove, WorkersMove, Shapes

LEMMA NextReview ==
  ASSUME ReviewInv, Moves
  PROVE  ReviewInv'
<1> SUFFICES ASSUME NEW u \in Users
             PROVE  /\ request'[u].op = "accept" /\ request'[u].pc # "idle" => seen'[u] # None
                    /\ seen'[u] # None => SeenInView(seen'[u])
                    /\ request'[u].pc = "latest" => ReportInView(request'[u])
                    /\ request'[u].pc = "store" /\ request'[u].op = "accept" =>
                         request'[u].context = seen'[u].context
  BY DEF ReviewInv
<1>1. RequestMove(u)
  BY DEF Moves, RequestsMove
<1>2. /\ request[u].op = "accept" /\ request[u].pc # "idle" => seen[u] # None
      /\ seen[u] # None => SeenInView(seen[u])
      /\ request[u].pc = "latest" => ReportInView(request[u])
      /\ request[u].pc = "store" /\ request[u].op = "accept" =>
           request[u].context = seen[u].context
  BY DEF ReviewInv
<1>3. CASE /\ request[u].pc = "latest" /\ request[u].op = "accept" /\ seen'[u] = seen[u]
           /\ request'[u].pc = "store" /\ request'[u].op = "accept"
           /\ request'[u].context = request[u].context
           /\ seen[u].fingerprint = request[u].report.fingerprint
  <2>1. SeenInView(seen[u]) /\ ReportInView(request[u])
    BY <1>2, <1>3
  <2>2. seen[u].context = request[u].context
    BY <1>3, <2>1 DEF SeenInView, ReportInView
  <2> QED
    BY <1>2, <1>3, <2>2
<1> QED
  BY <1>1, <1>2, <1>3 DEF RequestMove

Base == Shapes /\ ReviewInv

LEMMA InitBase == Init => Base
<1> SUFFICES ASSUME Init PROVE Base
  OBVIOUS
<1>1. rows \in LiveRows /\ work \in Works
  BY DriftAssumption DEF Init, LiveRows, Settings, Works
<1>2. IsSequence(audits) /\ IsSequence(snapshots)
  BY EmptySequence DEF Init, IsSequence
<1>3. task \in [n : Nat, status : {"pending", "queued", "running", "failed", "completed"}]
  BY DEF Init
<1>4. /\ DOMAIN request = Users /\ DOMAIN seen = Users
      /\ \A u \in Users : request[u] = NoRequest /\ seen[u] = None
      /\ worker = NoWorker
  BY DEF Init
<1>5. /\ DOMAIN NoRequest = RequestFields /\ NoRequest.provider = None /\ NoRequest.pc = "idle"
      /\ DOMAIN NoWorker = WorkerFields /\ NoWorker.pc = "idle"
  BY DEF NoRequest, RequestFields, NoWorker, WorkerFields
<1>6. Shapes
  BY <1>1, <1>2, <1>3, <1>4, <1>5 DEF Shapes
<1>7. ReviewInv
  BY <1>4, <1>5 DEF ReviewInv
<1> QED
  BY <1>6, <1>7 DEF Base

LEMMA NextBase == ASSUME Base, [Next]_vars PROVE Base' /\ Moves
BY NextMoves, NextShapes, NextReview DEF Base

\* An acceptance reaches the store only with the context its user reviewed
\* (AcceptsWhatWasReviewed), for any number of users who review, accept, queue and
\* edit at once: the fingerprint determines all of the context that a check sees.
THEOREM AcceptedAsReviewed == Spec => []AcceptsWhatWasReviewed
<1>1. Base /\ [Next]_vars => Base'
  BY NextBase
<1>2. Base => AcceptsWhatWasReviewed
  BY DEF Base, ReviewInv, AcceptsWhatWasReviewed
<1> QED
  BY <1>1, <1>2, InitBase, PTL DEF Spec

-----------------------------------------------------------------------------
(* The newest snapshot of a kind.                                          *)

LEMMA MaxIn ==
  ASSUME NEW n \in Nat, NEW S \in SUBSET (1..n), S # {}
  PROVE  Max(S) \in S /\ \A k \in S : Max(S) >= k
<1> DEFINE Less == {ss \in Nat \X Nat : ss[1] < ss[2]}
           T == {n - k : k \in S}
<1>1. IsWellFoundedOn(Less, Nat)
  BY NatLessThanWellFounded DEF OpToRel
<1>0. \A a, b \in Nat : a < b => <<a, b>> \in Less
  OBVIOUS
<1> HIDE DEF Less
<1>2. T \subseteq Nat /\ T # {}
  <2>1. \A k \in S : k \in 1..n /\ n - k \in Nat
    OBVIOUS
  <2>2. PICK k \in S : TRUE
    OBVIOUS
  <2>3. n - k \in T
    BY <2>2
  <2> QED
    BY <2>1, <2>3
<1>3. \E d \in T : \A e \in T : ~(<<e, d>> \in Less)
  <2> HIDE DEF T
  <2> QED
    BY <1>1, <1>2, WFMin, Zenon
<1>4. PICK k \in S : \A l \in S : ~(<<n - l, n - k>> \in Less)
  BY <1>3
<1>5. \A l \in S : ~(n - l < n - k)
  <2>1. \A l \in S : l \in 1..n /\ n - l \in Nat
    OBVIOUS
  <2> QED
    BY <1>0, <1>4, <2>1
<1>6. \A l \in S : k >= l
  BY <1>5
<1> HIDE DEF T
<1>7. \E x \in S : \A y \in S : x >= y
  BY <1>6
<1> QED
  BY <1>7, Zenon DEF Max

\* The history begins with the generation baseline and only grows.
HistoryInv ==
  /\ Latest >= 1 /\ snapshots[1].kind = "generation_baseline"
  /\ \A n \in 1..Latest : Truthful(snapshots[n])

LEMMA BaselineIn ==
  ASSUME Shapes, HistoryInv, NEW n \in 1..Latest
  PROVE  Baseline(n) \in 1..n /\ snapshots[Baseline(n)].kind # "task_checkpoint"
<1> DEFINE S == {k \in 1..n : snapshots[k].kind # "task_checkpoint"}
<1>1. n \in Nat /\ S \in SUBSET (1..n) /\ 1 \in S
  BY DEF HistoryInv, Shapes, IsSequence
<1>2. S # {} /\ Baseline(n) = Max(S)
  BY <1>1 DEF Baseline, Newest
<1> HIDE DEF S
<1>3. Max(S) \in S
  BY <1>1, <1>2, MaxIn
<1> QED
  BY <1>2, <1>3 DEF S

LEMMA CheckpointIn ==
  ASSUME Shapes, HistoryInv, NEW n \in 1..Latest, Checkpoint(n) # 0
  PROVE  Checkpoint(n) \in Baseline(n) + 1..n
<1> DEFINE S == {k \in Baseline(n) + 1..n : snapshots[k].kind = "task_checkpoint"}
<1>1. n \in Nat /\ Baseline(n) \in 1..n
  BY BaselineIn DEF Shapes, IsSequence
<1>2. S \in SUBSET (1..n)
  BY <1>1
<1>3. S # {} /\ Checkpoint(n) = Max(S)
  BY DEF Checkpoint, Newest
<1> HIDE DEF S
<1>4. Max(S) \in S
  BY <1>1, <1>2, <1>3, MaxIn
<1> QED
  BY <1>3, <1>4 DEF S

\* What it takes for a check to let the CLI run.
LEMMA SafeReport ==
  ASSUME NEW n, NEW r, NEW w, NEW p, NEW option, AllowsCLI(Report(n, r, w, p, option))
  PROVE  LET b == FromSnapshot(snapshots[Baseline(n)], option)
             c == Current(r, w, IF option = "full" THEN p ELSE b.provider, option)
         IN  /\ w.tree \notin Conflicts /\ w.place # "gone"
             /\ \A f \in {"requirement", "path", "git", "identity", "key", "provider"} : b[f] = c[f]
             /\ \/ b.checkout = c.checkout /\ b.digest = c.digest
                \/ /\ Checkpoint(n) # 0
                   /\ workspaceStateEqual(c, FromSnapshot(snapshots[Checkpoint(n)], option))
<1> DEFINE b == FromSnapshot(snapshots[Baseline(n)], option)
           c == Current(r, w, IF option = "full" THEN p ELSE b.provider, option)
           conflict == w.tree \in Conflicts
           matches == /\ Checkpoint(n) # 0 /\ ~conflict
                      /\ workspaceStateEqual(c, FromSnapshot(snapshots[Checkpoint(n)], option))
           blocking == Blocking(b, c)
           confirm == Confirmed(b, c, matches)
           severity == IF blocking # {} \/ conflict \/ w.place = "gone" THEN "must_block"
                       ELSE IF confirm # {} THEN "needs_confirmation" ELSE "safe_ignore"
<1>1. Report(n, r, w, p, option).severity = severity
  BY DEF Report
<1>2. blocking = {} /\ ~conflict /\ w.place # "gone" /\ confirm = {}
  <2> HIDE DEF b, c, conflict, blocking, confirm
  <2> QED
    BY <1>1 DEF AllowsCLI
<1> HIDE DEF b, c, matches
<1>3. \A f \in {"requirement", "path", "git", "identity", "key", "provider"} : b[f] = c[f]
  BY <1>2 DEF Blocking, Confirmed
<1>4. ~matches => b["checkout"] = c["checkout"] /\ b["digest"] = c["digest"]
  BY <1>2 DEF Confirmed
<1> QED
  BY <1>2, <1>3, <1>4 DEF b, c, matches

LEMMA GateRecords ==
  ASSUME Shapes, HistoryInv, NEW n \in 1..Latest, NEW r, NEW w, NEW p, NEW t,
         AllowsCLI(Report(n, r, w, p, IF IsValidation(t) THEN "validation" ELSE "full"))
  PROVE  Recorded(r, w, p, t, snapshots, Latest)
<1> DEFINE option == IF IsValidation(t) THEN "validation" ELSE "full"
           m == Baseline(n)
           k == Checkpoint(n)
           s == snapshots[m]
           b == FromSnapshot(s, option)
           c == Current(r, w, IF option = "full" THEN p ELSE b.provider, option)
<1>1. n \in Nat /\ Latest \in Nat /\ n <= Latest /\ m \in 1..n /\ s.kind # "task_checkpoint"
  <2>1. Latest \in Nat
    BY DEF Shapes, IsSequence, Latest
  <2>2. Baseline(n) \in 1..n /\ snapshots[Baseline(n)].kind # "task_checkpoint"
    BY BaselineIn
  <2> QED
    BY <2>1, <2>2
<1>2. /\ w.tree \notin Conflicts /\ w.place # "gone"
      /\ \A f \in {"requirement", "path", "git", "identity", "key", "provider"} : b[f] = c[f]
      /\ \/ b.checkout = c.checkout /\ b.digest = c.digest
         \/ k # 0 /\ workspaceStateEqual(c, FromSnapshot(snapshots[k], option))
  BY SafeReport
<1>3. /\ b.requirement = s.requirement /\ b.path = s.work.path /\ b.key = KeyFields(option, s)
      /\ b.provider = s.provider /\ b.checkout = s.work.checkout /\ b.digest = s.work.digest
  BY DEF FromSnapshot
<1>4. /\ c.requirement = r.requirement /\ c.path = w.place /\ c.key = KeyFields(option, r)
      /\ c.provider = (IF option = "full" THEN p ELSE b.provider)
      /\ c.checkout = w.checkout /\ c.digest = StatusDigest(w.tree)
  BY DEF Current, Collect
<1>5. /\ FromSnapshot(snapshots[k], option).checkout = snapshots[k].work.checkout
      /\ FromSnapshot(snapshots[k], option).digest = snapshots[k].work.digest
  BY DEF FromSnapshot
<1>6. k # 0 => k \in m + 1..n
  BY CheckpointIn
<1> HIDE DEF m, k, s, b, c, option
<1>7. /\ b.requirement = c.requirement /\ b.path = c.path /\ b.key = c.key /\ b.provider = c.provider
  BY <1>2
<1>8. s.requirement = r.requirement /\ s.work.path = w.place
  BY <1>3, <1>4, <1>7
<1>9. IF IsValidation(t) THEN s.settings.validation = r.settings.validation
      ELSE s.settings = r.settings /\ s.config = r.config /\ s.provider = p
  <2>1. CASE IsValidation(t)
    BY <1>3, <1>4, <1>7, <2>1 DEF option, KeyFields
  <2>2. CASE ~IsValidation(t)
    BY <1>3, <1>4, <1>7, <2>2 DEF option, KeyFields
  <2> QED
    BY <2>1, <2>2
<1>10. \/ s.work.checkout = w.checkout /\ s.work.digest = StatusDigest(w.tree)
       \/ \E l \in m + 1..Latest : /\ snapshots[l].work.checkout = w.checkout
                                   /\ snapshots[l].work.digest = StatusDigest(w.tree)
  <2>1. CASE b.checkout = c.checkout /\ b.digest = c.digest
    BY <1>3, <1>4, <2>1
  <2>2. CASE k # 0 /\ workspaceStateEqual(c, FromSnapshot(snapshots[k], option))
    <3>1. /\ c.checkout = FromSnapshot(snapshots[k], option).checkout
          /\ c.digest = FromSnapshot(snapshots[k], option).digest
      BY <2>2 DEF workspaceStateEqual
    <3>2. k \in m + 1..Latest
      BY <1>1, <1>6, <2>2
    <3> QED
      BY <1>4, <1>5, <3>1, <3>2
  <2> QED
    BY <1>2, <2>1, <2>2
<1>11. m \in 1..Latest
  BY <1>1
<1> QED
  BY <1>1, <1>2, <1>8, <1>9, <1>10, <1>11 DEF Recorded, s

\* A recorded context stays recorded as snapshots are added.
LEMMA StillRecorded ==
  ASSUME Shapes, HistoryMove, NEW r, NEW w, NEW p, NEW t, Recorded(r, w, p, t, snapshots, Latest)
  PROVE  Recorded(r, w, p, t, snapshots', Len(snapshots'))
<1>1. /\ Len(snapshots) \in Nat /\ Len(snapshots') \in Nat /\ Len(snapshots) <= Len(snapshots')
      /\ \A n \in 1..Len(snapshots) : snapshots'[n] = snapshots[n]
  BY HistoryGrows DEF Shapes, IsSequence
<1> DEFINE Git(s) == s.work.checkout = w.checkout /\ s.work.digest = StatusDigest(w.tree)
           Fits(s) == /\ s.kind # "task_checkpoint"
                      /\ s.requirement = r.requirement /\ s.work.path = w.place
                      /\ IF IsValidation(t) THEN s.settings.validation = r.settings.validation
                         ELSE s.settings = r.settings /\ s.config = r.config /\ s.provider = p
<1>2. PICK m \in 1..Latest :
        Fits(snapshots[m]) /\ (Git(snapshots[m]) \/ \E k \in m + 1..Latest : Git(snapshots[k]))
  BY DEF Recorded
<1>3. w.place # "gone" /\ w.tree \notin Conflicts
  BY DEF Recorded
<1> HIDE DEF Git, Fits
<1>4. m \in 1..Len(snapshots') /\ snapshots'[m] = snapshots[m]
  BY <1>1 DEF Latest
<1>5. \A k \in m + 1..Latest : k \in m + 1..Len(snapshots') /\ snapshots'[k] = snapshots[k]
  BY <1>1 DEF Latest
<1>6. Fits(snapshots'[m]) /\ (Git(snapshots'[m]) \/ \E k \in m + 1..Len(snapshots') : Git(snapshots'[k]))
  BY <1>2, <1>4, <1>5
<1> QED
  BY <1>3, <1>4, <1>6 DEF Recorded, Git, Fits

CLIInv ==
  /\ worker.pc = "collect" => worker.history \in 1..Latest
  /\ worker.pc \in {"start", "cli"} => WorkerRecorded

LEMMA NextHistory ==
  ASSUME Shapes, HistoryInv, HistoryMove
  PROVE  HistoryInv'
<1>1. /\ Len(snapshots) \in Nat /\ Len(snapshots') \in Nat /\ Len(snapshots) <= Len(snapshots')
      /\ \A n \in 1..Len(snapshots) : snapshots'[n] = snapshots[n]
  BY HistoryGrows DEF Shapes, IsSequence
<1>2. ASSUME NEW n \in 1..Len(snapshots') PROVE Truthful(snapshots'[n])
  <2>1. CASE n \in 1..Len(snapshots)
    BY <1>1, <2>1 DEF HistoryInv, Latest
  <2>2. CASE n \notin 1..Len(snapshots)
    <3>1. PICK s : snapshots' = Append(snapshots, s) /\ Truthful(s)
      BY <1>1, <2>2 DEF HistoryMove
    <3>2. /\ Len(snapshots') = Len(snapshots) + 1 /\ snapshots'[Len(snapshots) + 1] = s
      BY <3>1, AppendSequence DEF Shapes
    <3>3. n = Len(snapshots) + 1
      BY <1>1, <2>2, <3>2
    <3> QED
      BY <3>1, <3>2, <3>3
  <2> QED
    BY <2>1, <2>2
<1>3. Len(snapshots') >= 1 /\ snapshots'[1].kind = "generation_baseline"
  BY <1>1 DEF HistoryInv, Latest
<1>4. \A s : Truthful(s)' <=> Truthful(s)
  OBVIOUS
<1> QED
  BY <1>2, <1>3 DEF HistoryInv, Latest, Truthful

LEMMA NextCLI ==
  ASSUME Shapes, HistoryInv, CLIInv, Moves
  PROVE  CLIInv'
<1>1. /\ Len(snapshots) \in Nat /\ Len(snapshots') \in Nat /\ Len(snapshots) <= Len(snapshots')
  BY HistoryGrows DEF Shapes, IsSequence, Moves
<1>2. CASE worker' = worker /\ task'.n = task.n
  <2>1. worker.pc \in {"start", "cli"} =>
          Recorded(worker.context.rows, worker.context.work, worker.provider, task.n,
                   snapshots', Len(snapshots'))
    BY StillRecorded DEF CLIInv, WorkerRecorded, Moves
  <2> QED
    BY <1>1, <1>2, <2>1 DEF CLIInv, WorkerRecorded, Latest
<1>3. CASE worker'.pc \notin {"collect", "start", "cli"}
  BY <1>3 DEF CLIInv
<1>4. CASE worker'.pc = "collect" /\ worker'.history = Latest /\ UNCHANGED snapshots
  BY <1>1, <1>4 DEF CLIInv, Latest, HistoryInv
<1>5. CASE /\ worker.pc = "collect" /\ worker'.pc = "start" /\ UNCHANGED <<snapshots, task>>
           /\ AllowsCLI(GateReport)
           /\ worker'.context.rows = worker.context.rows /\ worker'.context.work = work
           /\ worker'.provider = worker.provider
  <2>1. worker.history \in 1..Latest
    BY <1>5 DEF CLIInv
  <2>2. Recorded(worker.context.rows, work, worker.provider, task.n, snapshots, Latest)
    BY <1>5, <2>1, GateRecords DEF GateReport
  <2> QED
    BY <1>5, <2>2 DEF CLIInv, WorkerRecorded, Latest
<1>6. CASE /\ worker.pc = "start" /\ worker'.pc = "cli" /\ task'.n = task.n
           /\ worker'.context = worker.context /\ worker'.provider = worker.provider
  <2>1. Recorded(worker.context.rows, worker.context.work, worker.provider, task.n,
                 snapshots', Len(snapshots'))
    BY <1>6, StillRecorded DEF CLIInv, WorkerRecorded, Moves
  <2> QED
    BY <1>6, <2>1 DEF CLIInv, WorkerRecorded, Latest
<1> QED
  BY <1>2, <1>3, <1>4, <1>5, <1>6 DEF Moves, WorkersMove, WorkerMove

LEMMA InitHistory == Init => HistoryInv /\ CLIInv
<1> SUFFICES ASSUME Init PROVE HistoryInv /\ CLIInv
  OBVIOUS
<1> DEFINE s == Snapshot("generation_baseline", rows, Collect(work), [rows |-> rows, work |-> work])
<1>1. snapshots = <<s>> /\ worker.pc = "idle"
  BY DEF Init, NoWorker
<1>2. s.kind = "generation_baseline" /\ Truthful(s)
  BY DEF Snapshot, Truthful
<1> HIDE DEF s
<1>3. Len(snapshots) = 1 /\ snapshots[1] = s
  BY <1>1
<1> QED
  BY <1>1, <1>2, <1>3 DEF HistoryInv, CLIInv, Latest

\* A CLI starts only in a context that some baseline or accepted snapshot records
\* (CLIRunsInRecordedContext), although snapshots, users and edits come between
\* what the gate read and the start of the CLI.
THEOREM GateHolds == Spec => []CLIRunsInRecordedContext
<1> DEFINE Inv == Base /\ HistoryInv /\ CLIInv
<1>1. Init => Inv
  BY InitBase, InitHistory
<1>2. ASSUME Inv, [Next]_vars PROVE Inv'
  <2>1. Base' /\ Moves
    BY <1>2, NextBase
  <2>2. HistoryInv' /\ CLIInv'
    BY <1>2, <2>1, NextHistory, NextCLI DEF Base, Moves
  <2> QED
    BY <2>1, <2>2
<1>3. Inv => CLIRunsInRecordedContext
  BY DEF CLIInv, WorkerRecorded, Recorded, CLIRunsInRecordedContext
<1> HIDE DEF Inv
<1> QED
  BY <1>1, <1>2, <1>3, PTL DEF Spec

-----------------------------------------------------------------------------
(* Accepting.                                                              *)

LEMMA AcceptedIsNewest ==
  ASSUME Shapes, HistoryInv, snapshots[Latest].kind = "user_accepted"
  PROVE  Baseline(Latest) = Latest /\ Checkpoint(Latest) = 0
<1> DEFINE S == {k \in 1..Latest : snapshots[k].kind # "task_checkpoint"}
<1>1. Latest \in Nat /\ Latest \in 1..Latest
  BY DEF Shapes, IsSequence, Latest, HistoryInv
<1>2. S \in SUBSET (1..Latest) /\ Latest \in S
  BY <1>1
<1>3. S # {} /\ Baseline(Latest) = Max(S)
  BY <1>2 DEF Baseline, Newest
<1> HIDE DEF S
<1>4. Max(S) \in S /\ Max(S) >= Latest
  BY <1>1, <1>2, <1>3, MaxIn
<1>5. Baseline(Latest) = Latest
  <2>1. Max(S) \in 1..Latest
    BY <1>2, <1>4
  <2> QED
    BY <1>1, <1>3, <1>4, <2>1
<1>6. {k \in Baseline(Latest) + 1..Latest : snapshots[k].kind = "task_checkpoint"} = {}
  BY <1>1, <1>5
<1> QED
  BY <1>5, <1>6 DEF Checkpoint, Newest

\* Two contexts that agree in all that is compared are safe.
LEMMA NoDrift ==
  ASSUME NEW n, NEW r, NEW w, NEW p,
         FromSnapshot(snapshots[Baseline(n)], "full") = Current(r, w, p, "full"),
         w.tree \notin Conflicts, w.place # "gone"
  PROVE  AllowsCLI(Report(n, r, w, p, "full"))
<1> DEFINE b == FromSnapshot(snapshots[Baseline(n)], "full")
           c == Current(r, w, IF "full" = "full" THEN p ELSE b.provider, "full")
           conflict == w.tree \in Conflicts
           matches == /\ Checkpoint(n) # 0 /\ ~conflict
                      /\ workspaceStateEqual(c, FromSnapshot(snapshots[Checkpoint(n)], "full"))
           blocking == Blocking(b, c)
           confirm == Confirmed(b, c, matches)
           severity == IF blocking # {} \/ conflict \/ w.place = "gone" THEN "must_block"
                       ELSE IF confirm # {} THEN "needs_confirmation" ELSE "safe_ignore"
<1>1. Report(n, r, w, p, "full").severity = severity
  BY DEF Report
<1>2. b = c
  OBVIOUS
<1>3. ~conflict
  OBVIOUS
<1> HIDE DEF b, c, matches, conflict
<1>4. blocking = {} /\ confirm = {}
  BY <1>2 DEF Blocking, Confirmed
<1> HIDE DEF blocking, confirm
<1>5. severity = "safe_ignore"
  BY <1>3, <1>4
<1> QED
  BY <1>1, <1>5 DEF AllowsCLI

LEMMA AcceptedSettles == ASSUME Shapes, HistoryInv PROVE AcceptanceSettles
<1> SUFFICES ASSUME Origin, snapshots[Latest].kind = "user_accepted", Unchanged(Latest),
                    work.tree \notin Conflicts, work.place # "gone"
             PROVE  AllowsCLI(FullReport)
  BY DEF AcceptanceSettles
<1> DEFINE s == snapshots[Latest]
<1>1. Truthful(s)
  BY DEF HistoryInv, Shapes, IsSequence, Latest
<1>2. s.live = [rows |-> rows, work |-> work] /\ s.kind = "user_accepted"
  BY DEF Unchanged
<1>3. [rows |-> rows, work |-> work] \in [rows : LiveRows, work : Works]
  BY DEF Shapes
<1> HIDE DEF s
<1>4. s.live # None /\ s.live.rows = rows /\ s.live.work = work
  BY <1>2, <1>3, NoneAssumption
<1>5. /\ s.requirement = rows.requirement /\ s.settings = rows.settings /\ s.config = rows.config
      /\ s.provider = ExecutionProvider(rows) /\ s.work \in readGitSnapshot(work, FALSE)
  BY <1>1, <1>2, <1>4 DEF Truthful
<1>6. s.work = ReadGit(work)
  BY <1>5 DEF readGitSnapshot
<1>7. FromSnapshot(s, "full") = Current(rows, work, ExecutionProvider(rows), "full")
  <2>1. /\ s.work.path = work.place /\ s.work.git = TRUE /\ s.work.identity = "origin"
        /\ s.work.checkout = work.checkout /\ s.work.digest = StatusDigest(work.tree)
    BY <1>6 DEF ReadGit
  <2>2. KeyFields("full", s) = KeyFields("full", rows)
    BY <1>5 DEF KeyFields
  <2> QED
    BY <1>5, <2>1, <2>2 DEF FromSnapshot, Current, Collect
<1>8. Baseline(Latest) = Latest
  BY AcceptedIsNewest
<1> QED
  BY <1>7, <1>8, NoDrift DEF FullReport, s

LEMMA NextInv ==
  ASSUME Base, HistoryInv, CLIInv, [Next]_vars
  PROVE  Base' /\ HistoryInv' /\ CLIInv' /\ Moves
<1>1. Base' /\ Moves
  BY NextBase
<1> QED
  BY <1>1, NextHistory, NextCLI DEF Base, Moves

\* Accepting settles the drift (AcceptanceSettles): with an origin and Git commands
\* in time, what is captured for a user_accepted snapshot is what the worker's check
\* computes of the same context, and no older snapshot or checkpoint interferes.
THEOREM AcceptingSettles == Spec => []AcceptanceSettles
<1> DEFINE Inv == Base /\ HistoryInv /\ CLIInv
<1>1. Init => Inv
  BY InitBase, InitHistory
<1>2. Inv /\ [Next]_vars => Inv'
  BY NextInv
<1>3. Inv => AcceptanceSettles
  BY AcceptedSettles DEF Base
<1> HIDE DEF Inv
<1> QED
  BY <1>1, <1>2, <1>3, PTL DEF Spec

-----------------------------------------------------------------------------
(* Audits.                                                                 *)

AcceptedIn(ss) == {n \in 1..Len(ss) : ss[n].kind = "user_accepted"}

LEMMA AcceptedInFinite ==
  ASSUME NEW ss, IsSequence(ss)
  PROVE  IsFiniteSet(AcceptedIn(ss)) /\ Cardinality(AcceptedIn(ss)) \in Nat
<1>1. IsFiniteSet(1..Len(ss))
  <2>1. 1 \in Int /\ Len(ss) \in Int
    BY DEF IsSequence
  <2> QED
    BY <2>1, FS_Interval, Zenon
<1>2. AcceptedIn(ss) \subseteq 1..Len(ss)
  BY DEF AcceptedIn
<1> QED
  BY <1>1, <1>2, FS_Subset, FS_CardinalityType

LEMMA AppendAccepted ==
  ASSUME NEW ss, IsSequence(ss), NEW s
  PROVE  Cardinality(AcceptedIn(Append(ss, s))) =
           Cardinality(AcceptedIn(ss)) + IF s.kind = "user_accepted" THEN 1 ELSE 0
<1>1. /\ Len(Append(ss, s)) = Len(ss) + 1 /\ Append(ss, s)[Len(ss) + 1] = s
      /\ \A n \in 1..Len(ss) : Append(ss, s)[n] = ss[n]
      /\ Len(ss) \in Nat
  BY AppendSequence DEF IsSequence
<1>2. CASE s.kind = "user_accepted"
  <2>1. AcceptedIn(Append(ss, s)) = AcceptedIn(ss) \cup {Len(ss) + 1}
    BY <1>1, <1>2 DEF AcceptedIn
  <2>2. Len(ss) + 1 \notin AcceptedIn(ss)
    BY <1>1 DEF AcceptedIn
  <2> QED
    BY <1>2, <2>1, <2>2, AcceptedInFinite, FS_AddElement
<1>3. CASE s.kind # "user_accepted"
  <2>1. AcceptedIn(Append(ss, s)) = AcceptedIn(ss)
    BY <1>1, <1>3 DEF AcceptedIn
  <2> QED
    BY <1>3, <2>1, AcceptedInFinite
<1> QED
  BY <1>2, <1>3

AuditInv ==
  /\ AuditsFollowSnapshots
  /\ \A a \in 1..Len(audits) : audits[a].original \in Nat /\ audits[a].new \in 1..Latest

LEMMA AuditsKept ==
  ASSUME Shapes, AuditInv, HistoryMove, UNCHANGED audits, Cardinality(AcceptedIn(snapshots')) = Accepted
  PROVE  AuditInv'
<1>1. /\ Len(snapshots) \in Nat /\ Len(snapshots') \in Nat /\ Len(snapshots) <= Len(snapshots')
      /\ \A n \in 1..Len(snapshots) : snapshots'[n] = snapshots[n]
  BY HistoryGrows DEF Shapes, IsSequence
<1>2. ASSUME NEW a \in 1..Len(audits)
      PROVE  /\ audits[a].original \in Nat /\ audits[a].new \in 1..Len(snapshots')
             /\ audits[a].new = audits[a].original + 1
             /\ snapshots'[audits[a].new].kind = "user_accepted"
             /\ \A b \in 1..a - 1 : audits[b].new <= audits[a].original
  BY <1>1 DEF AuditInv, AuditsFollowSnapshots, Latest
<1>3. Len(audits) = Cardinality(AcceptedIn(snapshots'))
  BY DEF AuditInv, AuditsFollowSnapshots
<1> QED
  BY <1>2, <1>3 DEF AuditInv, AuditsFollowSnapshots, Accepted, AcceptedIn, Latest

LEMMA NextAudits ==
  ASSUME Shapes, AuditInv, HistoryMove
  PROVE  AuditInv'
<1>1. Accepted = Cardinality(AcceptedIn(snapshots)) /\ Accepted \in Nat
  BY AcceptedInFinite DEF Accepted, AcceptedIn, Latest, Shapes
<1>2. CASE UNCHANGED <<snapshots, audits>>
  BY <1>1, <1>2, AuditsKept
<1>3. ASSUME NEW s, snapshots' = Append(snapshots, s), s.kind = "task_checkpoint", UNCHANGED audits
      PROVE  AuditInv'
  <2>1. Cardinality(AcceptedIn(snapshots')) = Accepted
    BY <1>1, <1>3, AppendAccepted DEF Shapes
  <2> QED
    BY <1>3, <2>1, AuditsKept
<1>4. ASSUME NEW s, snapshots' = Append(snapshots, s), s.kind = "user_accepted",
             audits' = Append(audits, [original |-> Latest, new |-> Latest + 1])
      PROVE  AuditInv'
  <2>1. Cardinality(AcceptedIn(snapshots')) = Accepted + 1
    BY <1>1, <1>4, AppendAccepted DEF Shapes
  <2>2. /\ Latest \in Nat /\ Len(snapshots') = Latest + 1 /\ snapshots'[Latest + 1] = s
        /\ \A n \in 1..Latest : snapshots'[n] = snapshots[n]
    BY <1>4, AppendSequence DEF Shapes, Latest, IsSequence
  <2>3. /\ Len(audits) \in Nat /\ Len(audits') = Len(audits) + 1
        /\ audits'[Len(audits) + 1] = [original |-> Latest, new |-> Latest + 1]
        /\ \A n \in 1..Len(audits) : audits'[n] = audits[n]
    BY <1>4, AppendSequence DEF Shapes, IsSequence
  <2>4. ASSUME NEW a \in 1..Len(audits')
        PROVE  /\ audits'[a].original \in Nat /\ audits'[a].new \in 1..Len(snapshots')
               /\ audits'[a].new = audits'[a].original + 1
               /\ snapshots'[audits'[a].new].kind = "user_accepted"
               /\ \A b \in 1..a - 1 : audits'[b].new <= audits'[a].original
    <3>1. CASE a \in 1..Len(audits)
      <4>1. /\ audits[a].original \in Nat /\ audits[a].new \in 1..Latest
            /\ audits[a].new = audits[a].original + 1
            /\ snapshots[audits[a].new].kind = "user_accepted"
            /\ \A b \in 1..a - 1 : audits[b].new <= audits[a].original
        BY <3>1 DEF AuditInv, AuditsFollowSnapshots
      <4>2. \A b \in 1..a - 1 : b \in 1..Len(audits)
        BY <2>3, <3>1
      <4>3. audits'[a] = audits[a] /\ \A b \in 1..a - 1 : audits'[b] = audits[b]
        BY <2>3, <3>1, <4>2
      <4> QED
        BY <2>2, <4>1, <4>3
    <3>2. CASE a = Len(audits) + 1
      <4>1. audits'[a].original = Latest /\ audits'[a].new = Latest + 1
        BY <2>3, <3>2
      <4>2. \A b \in 1..a - 1 : audits'[b].new <= Latest
        BY <2>2, <2>3, <3>2 DEF AuditInv
      <4> QED
        BY <1>4, <2>2, <4>1, <4>2
    <3> QED
      BY <2>3, <3>1, <3>2
  <2>5. Len(audits') = Cardinality(AcceptedIn(snapshots'))
    BY <2>1, <2>3 DEF AuditInv, AuditsFollowSnapshots
  <2> QED
    BY <2>4, <2>5 DEF AuditInv, AuditsFollowSnapshots, Accepted, AcceptedIn, Latest
<1> QED
  BY <1>2, <1>3, <1>4 DEF HistoryMove

LEMMA InitAudits == ASSUME Init PROVE AuditInv
<1> DEFINE s == Snapshot("generation_baseline", rows, Collect(work), [rows |-> rows, work |-> work])
<1>1. snapshots = <<s>> /\ audits = <<>>
  BY DEF Init
<1>2. s.kind = "generation_baseline"
  BY DEF Snapshot
<1> HIDE DEF s
<1>3. AcceptedIn(snapshots) = {}
  BY <1>1, <1>2 DEF AcceptedIn
<1>4. Accepted = 0
  BY <1>3, FS_EmptySet DEF Accepted, AcceptedIn, Latest
<1>5. Len(audits) = 0
  BY <1>1
<1> QED
  BY <1>4, <1>5 DEF AuditInv, AuditsFollowSnapshots

\* Accepted snapshots and audits belong together one to one and in order, and each audit
\* names the snapshot directly before the accepted one (AuditsFollowSnapshots), however
\* many users accept and select providers while checkpoints are written.
THEOREM AuditsMatch == Spec => []AuditsFollowSnapshots
<1> DEFINE Inv == Base /\ AuditInv
<1>1. Init => Inv
  BY InitBase, InitAudits
<1>2. Inv /\ [Next]_vars => Inv'
  BY NextBase, NextAudits DEF Base, Moves
<1>3. Inv => AuditsFollowSnapshots
  BY DEF AuditInv
<1> HIDE DEF Inv
<1> QED
  BY <1>1, <1>2, <1>3, PTL DEF Spec

-----------------------------------------------------------------------------
(* What a check compares, apart from the variables it reads it from.       *)

BaseOf(ss) == Newest({k \in 1..Len(ss) : ss[k].kind # "task_checkpoint"})
CheckOf(ss) == Newest({k \in BaseOf(ss) + 1..Len(ss) : ss[k].kind = "task_checkpoint"})

SameWork(x, w) ==
  /\ x.path = w.place /\ x.git = TRUE /\ x.identity = Collect(w).identity
  /\ x.checkout = w.checkout /\ x.digest = StatusDigest(w.tree)

SafeIn(ss, r, w, p, option) ==
  LET b == ss[BaseOf(ss)] IN
  /\ w.tree \notin Conflicts /\ w.place # "gone"
  /\ b.requirement = r.requirement /\ KeyFields(option, b) = KeyFields(option, r)
  /\ b.work.path = w.place /\ b.work.git = TRUE /\ b.work.identity = Collect(w).identity
  /\ option = "full" => b.provider = p
  /\ \/ b.work.checkout = w.checkout /\ b.work.digest = StatusDigest(w.tree)
     \/ CheckOf(ss) # 0 /\ SameWork(ss[CheckOf(ss)].work, w)

LEMMA SafeMeans ==
  ASSUME NEW r, NEW w, NEW p, NEW option
  PROVE  AllowsCLI(Report(Latest, r, w, p, option)) <=> SafeIn(snapshots, r, w, p, option)
<1> DEFINE s == snapshots[Baseline(Latest)]
           k == Checkpoint(Latest)
           b == FromSnapshot(s, option)
           c == Current(r, w, IF option = "full" THEN p ELSE b.provider, option)
           conflict == w.tree \in Conflicts
           matches == k # 0 /\ ~conflict /\ workspaceStateEqual(c, FromSnapshot(snapshots[k], option))
           blocking == Blocking(b, c)
           confirm == Confirmed(b, c, matches)
           severity == IF blocking # {} \/ conflict \/ w.place = "gone" THEN "must_block"
                       ELSE IF confirm # {} THEN "needs_confirmation" ELSE "safe_ignore"
<1>1. Report(Latest, r, w, p, option).severity = severity
  BY DEF Report
<1>2. BaseOf(snapshots) = Baseline(Latest) /\ CheckOf(snapshots) = Checkpoint(Latest)
  BY DEF BaseOf, CheckOf, Baseline, Checkpoint, Latest
<1>3. /\ b.requirement = s.requirement /\ b.path = s.work.path /\ b.git = s.work.git
      /\ b.identity = s.work.identity /\ b.key = KeyFields(option, s) /\ b.provider = s.provider
      /\ b.checkout = s.work.checkout /\ b.digest = s.work.digest
  BY DEF FromSnapshot
<1>4. /\ c.requirement = r.requirement /\ c.path = w.place /\ c.git = TRUE
      /\ c.identity = Collect(w).identity /\ c.key = KeyFields(option, r)
      /\ c.provider = (IF option = "full" THEN p ELSE b.provider)
      /\ c.checkout = w.checkout /\ c.digest = StatusDigest(w.tree)
  BY DEF Current, Collect
<1>5. workspaceStateEqual(c, FromSnapshot(snapshots[k], option)) <=> SameWork(snapshots[k].work, w)
  <2>1. workspaceStateEqual(c, FromSnapshot(snapshots[k], option)) <=>
          LET d == FromSnapshot(snapshots[k], option) IN
          c.path = d.path /\ c.git = d.git /\ c.identity = d.identity /\ c.checkout = d.checkout
            /\ c.digest = d.digest
    <3> HIDE DEF c
    <3> QED
      BY DEF workspaceStateEqual
  <2>2. LET d == FromSnapshot(snapshots[k], option) IN
        /\ d.path = snapshots[k].work.path /\ d.git = snapshots[k].work.git
        /\ d.identity = snapshots[k].work.identity /\ d.checkout = snapshots[k].work.checkout
        /\ d.digest = snapshots[k].work.digest
    BY DEF FromSnapshot
  <2> HIDE DEF c, k
  <2> QED
    BY <1>4, <2>1, <2>2 DEF SameWork
<1> HIDE DEF s, b, c, k
<1>6. blocking = {} <=> /\ b.requirement = c.requirement /\ b.path = c.path /\ b.git = c.git
                        /\ b.identity = c.identity
  BY DEF Blocking
<1>7. confirm = {} <=> /\ b.key = c.key /\ b.provider = c.provider
                       /\ matches \/ (b.checkout = c.checkout /\ b.digest = c.digest)
  <2> HIDE DEF matches
  <2> QED
    BY DEF Confirmed
<1>8. severity = "safe_ignore" <=> blocking = {} /\ confirm = {} /\ ~conflict /\ w.place # "gone"
  <2> HIDE DEF blocking, confirm, conflict
  <2> QED
    OBVIOUS
<1> HIDE DEF blocking, confirm, severity
<1>9. AllowsCLI(Report(Latest, r, w, p, option)) <=> severity = "safe_ignore"
  BY <1>1 DEF AllowsCLI
<1> QED
  BY <1>2, <1>3, <1>4, <1>5, <1>6, <1>7, <1>8, <1>9 DEF SafeIn, s, k

LEMMA FullIsAll ==
  ASSUME NEW ss, NEW r, NEW w, NEW p, NEW q, SafeIn(ss, r, w, p, "full")
  PROVE  SafeIn(ss, r, w, q, "queue") /\ SafeIn(ss, r, w, q, "validation")
BY DEF SafeIn, KeyFields

LEMMA QueueIsFull ==
  ASSUME NEW ss, NEW r, NEW w, NEW p, NEW q, SafeIn(ss, r, w, q, "queue"),
         ss[BaseOf(ss)].config = r.config, ss[BaseOf(ss)].provider = p
  PROVE  SafeIn(ss, r, w, p, "full")
BY DEF SafeIn, KeyFields

LEMMA NewestIsLast ==
  ASSUME NEW n \in Nat, NEW S \in SUBSET (1..n), n \in S
  PROVE  Newest(S) = n
<1>1. S # {} /\ Max(S) \in S /\ Max(S) >= n
  BY MaxIn
<1>2. Max(S) \in 1..n
  BY <1>1
<1> QED
  BY <1>1, <1>2 DEF Newest

LEMMA BaseAfterAccept ==
  ASSUME NEW ss, IsSequence(ss), NEW s, s.kind = "user_accepted", NEW tt, tt = Append(ss, s)
  PROVE  tt[BaseOf(tt)] = s
<1>1. Len(tt) = Len(ss) + 1 /\ tt[Len(tt)] = s /\ Len(tt) \in Nat /\ Len(tt) >= 1
  BY AppendSequence DEF IsSequence
<1> DEFINE S == {k \in 1..Len(tt) : tt[k].kind # "task_checkpoint"}
<1>2. S \in SUBSET (1..Len(tt)) /\ Len(tt) \in S
  BY <1>1
<1> HIDE DEF S
<1>3. Newest(S) = Len(tt)
  BY <1>1, <1>2, NewestIsLast
<1> QED
  BY <1>1, <1>3 DEF BaseOf, S

LEMMA BaseAfterCheckpoint ==
  ASSUME NEW ss, IsSequence(ss), BaseOf(ss) \in 1..Len(ss), NEW s, s.kind = "task_checkpoint",
         NEW tt, tt = Append(ss, s)
  PROVE  tt[BaseOf(tt)] = ss[BaseOf(ss)]
<1>1. /\ Len(tt) = Len(ss) + 1 /\ tt[Len(ss) + 1] = s /\ Len(ss) \in Nat
      /\ \A k \in 1..Len(ss) : tt[k] = ss[k]
  BY AppendSequence DEF IsSequence
<1>2. {k \in 1..Len(tt) : tt[k].kind # "task_checkpoint"} = {k \in 1..Len(ss) : ss[k].kind # "task_checkpoint"}
  <2>1. \A k : k \in 1..Len(tt) <=> k \in 1..Len(ss) \/ k = Len(ss) + 1
    BY <1>1
  <2> QED
    BY <1>1, <2>1
<1>3. BaseOf(tt) = BaseOf(ss)
  BY <1>2 DEF BaseOf
<1> QED
  BY <1>1, <1>3

\* A context is safe once it has been accepted.
LEMMA SafeOnceAccepted ==
  ASSUME Origin, NEW ss, IsSequence(ss), NEW r, NEW w, w.tree \notin Conflicts, w.place # "gone",
         NEW s \in {Snapshot("user_accepted", r, ws, [rows |-> r, work |-> w]) : ws \in readGitSnapshot(w, FALSE)},
         NEW tt, tt = Append(ss, s)
  PROVE  SafeIn(tt, r, w, ExecutionProvider(r), "full")
<1>0. s = Snapshot("user_accepted", r, ReadGit(w), [rows |-> r, work |-> w])
  BY DEF readGitSnapshot
<1>1. s.work = ReadGit(w)
  BY <1>0 DEF Snapshot
<1>2. /\ s.kind = "user_accepted" /\ s.requirement = r.requirement /\ s.settings = r.settings
      /\ s.config = r.config /\ s.provider = ExecutionProvider(r)
  <2> DEFINE x == Snapshot("user_accepted", r, ReadGit(w), [rows |-> r, work |-> w])
  <2>1. /\ x.kind = "user_accepted" /\ x.requirement = r.requirement /\ x.settings = r.settings
        /\ x.config = r.config /\ x.provider = ExecutionProvider(r)
    BY DEF Snapshot
  <2> QED
    BY <1>0, <2>1, Zenon
<1>3. /\ s.work.path = w.place /\ s.work.git = TRUE /\ s.work.identity = Collect(w).identity
      /\ s.work.checkout = w.checkout /\ s.work.digest = StatusDigest(w.tree)
  BY <1>1 DEF ReadGit, Collect
<1>4. KeyFields("full", s) = KeyFields("full", r)
  BY <1>2 DEF KeyFields
<1>5. tt[BaseOf(tt)] = s
  <2>1. \A x : x.kind = "user_accepted" => Append(ss, x)[BaseOf(Append(ss, x))] = x
    BY BaseAfterAccept
  <2> QED
    BY <1>2, <2>1, Zenon
<1> QED
  BY <1>2, <1>3, <1>4, <1>5 DEF SafeIn

-----------------------------------------------------------------------------
(* The queue: who works on the plan, and how old the requests and the job  *)
(* can be.                                                                 *)

RunInv ==
  /\ edits \in Nat
  /\ plan \in [status : {"ready", "blocked", "running", "completed"}, version : Nat]
  /\ plan.status # "running" => job = None
  /\ plan.status = "running" =>
       /\ job.provider \in Providers \cup {None} /\ job.at \in Nat \cup {None}
       /\ job.at # None => job.at <= edits
  /\ worker.pc \in {"idle", "collect", "start", "block", "cli", "succeeded", "failed", "captured"}
  /\ worker.pc # "idle" => plan.status = "running"
  /\ plan.status = "running" /\ worker.pc \in {"idle", "collect", "start"} => task.status = "queued"
  /\ worker.pc \in {"cli", "succeeded", "failed", "captured"} => task.status = "running"

StampInv ==
  \A u \in Users : LET q == request[u] IN
    q.version \in Nat /\ q.at \in Nat /\ q.version <= plan.version /\ q.at <= edits

\* A request keeps its stamps, ends, or begins now.
Stamped ==
  \A u \in Users :
    \/ request'[u].version = request[u].version /\ request'[u].at = request[u].at
    \/ request'[u].version = 0 /\ request'[u].at = 0
    \/ request'[u].version = plan.version /\ request'[u].at = edits

LEMMA NextStamps ==
  ASSUME RunInv, StampInv, Stamped, RunInv', plan.version <= plan'.version, edits <= edits'
  PROVE  StampInv'
<1>1. /\ edits \in Nat /\ edits' \in Nat /\ plan.version \in Nat /\ plan'.version \in Nat
  BY DEF RunInv
<1>2. ASSUME NEW u \in Users
      PROVE  /\ request'[u].version \in Nat /\ request'[u].at \in Nat
             /\ request'[u].version <= plan'.version /\ request'[u].at <= edits'
  BY <1>1, <1>2 DEF StampInv, Stamped
<1> QED
  BY <1>2 DEF StampInv

LEMMA OneStamped ==
  ASSUME Shapes, NEW u \in Users, NEW q, request' = [request EXCEPT ![u] = q],
         \/ q.version = request[u].version /\ q.at = request[u].at
         \/ q.version = 0 /\ q.at = 0
         \/ q.version = plan.version /\ q.at = edits
  PROVE  Stamped
BY DEF Shapes, Stamped

LEMMA EndStamped ==
  ASSUME Shapes, NEW u \in Users, request' = [request EXCEPT ![u] = NoRequest]
  PROVE  Stamped
<1>1. NoRequest.version = 0 /\ NoRequest.at = 0
  BY DEF NoRequest
<1> QED
  BY <1>1, OneStamped

LEMMA SameStamped == ASSUME UNCHANGED request PROVE Stamped
BY DEF Stamped

LEMMA CheckStamped ==
  ASSUME Shapes, NEW u \in Users, Check(u)
  PROVE  Stamped
<1> DEFINE q == request[u]
           report == Report(q.history, q.rows, work, EffectiveProvider(q.rows, q.provider), Option(q.op))
           checked == [q EXCEPT !.rows = None, !.history = 0]
           latest == [checked EXCEPT !.pc = "latest", !.report = report,
                                     !.context = Visible(q.rows, work)]
           store == [checked EXCEPT !.pc = "store"]
<1>1. request' = [request EXCEPT ![u] = IF q.op \in {"review", "accept"} THEN latest
                                        ELSE IF AllowsCLI(report) THEN store ELSE NoRequest]
  BY DEF Check
<1>2. DOMAIN q = RequestFields
  BY DEF Shapes
<1> HIDE DEF report
<1>3. /\ latest.version = q.version /\ latest.at = q.at
      /\ store.version = q.version /\ store.at = q.at
  BY <1>2 DEF RequestFields
<1>4. \/ request' = [request EXCEPT ![u] = latest] \/ request' = [request EXCEPT ![u] = store]
      \/ request' = [request EXCEPT ![u] = NoRequest]
  BY <1>1
<1> HIDE DEF latest, store
<1> QED
  BY <1>3, <1>4, OneStamped, EndStamped

LEMMA MayAcceptStamped ==
  ASSUME Shapes, NEW u \in Users, MayAccept(u)
  PROVE  Stamped
<1> DEFINE store == [request[u] EXCEPT !.pc = "store", !.report = None]
<1>1. \/ request' = [request EXCEPT ![u] = store] \/ request' = [request EXCEPT ![u] = NoRequest]
  BY DEF MayAccept
<1>2. store.version = request[u].version /\ store.at = request[u].at
  BY DEF Shapes, RequestFields
<1> HIDE DEF store
<1> QED
  BY <1>1, <1>2, OneStamped, EndStamped

LEMMA LoadStamped ==
  ASSUME Shapes, NEW u \in Users, NEW op, NEW p, Load(u, op, p)
  PROVE  Stamped
<1> DEFINE q == [NoRequest EXCEPT !.pc = "collect", !.op = op, !.provider = p, !.rows = rows,
                           !.history = Latest, !.version = plan.version, !.at = edits]
<1>1. request' = [request EXCEPT ![u] = q]
  BY DEF Load
<1>2. q.version = plan.version /\ q.at = edits
  BY DEF NoRequest
<1> HIDE DEF q
<1> QED
  BY <1>1, <1>2, OneStamped

LEMMA CountedGrows ==
  ASSUME edits \in Nat, NEW late \in Lateness, Counted(late)
  PROVE  edits' \in Nat /\ edits <= edits'
BY DEF Counted, Lateness

\* What a step leaves the queue, and what it may do to the stamps.
QueueMove == RunInv' /\ Stamped /\ plan.version <= plan'.version /\ edits <= edits'

LEMMA QueueAlone ==
  ASSUME RunInv, UNCHANGED <<plan, task, job, worker, edits>>, Stamped
  PROVE  QueueMove
BY DEF RunInv, QueueMove

\* A step of a request that leaves the queue alone, or queues the task.
LEMMA Queues ==
  ASSUME Shapes, RunInv, StampInv, plan.status # "running", NEW p \in Providers \cup {None}, NEW at \in Nat \cup {None},
         at # None => at <= edits, Queue(p, at), UNCHANGED worker, edits' \in Nat, edits <= edits', Stamped
  PROVE  QueueMove
<1>1. /\ plan' = [status |-> "running", version |-> plan.version + 1]
      /\ job'.provider = p /\ job'.at = at /\ task'.status = "queued"
  BY DEF Queue, Shapes
<1>2. edits \in Nat /\ plan.version \in Nat /\ worker.pc = "idle"
  BY DEF RunInv
<1>3. plan' \in [status : {"ready", "blocked", "running", "completed"}, version : Nat]
      /\ plan'.status = "running" /\ plan'.version = plan.version + 1
  BY <1>1, <1>2
<1>4. at # None => at <= edits'
  BY <1>2
<1> QED
  BY <1>1, <1>2, <1>3, <1>4 DEF RunInv, QueueMove

LEMMA UserQueueMove ==
  ASSUME Shapes, RunInv, StampInv, NEW u \in Users, UserStep(u)
  PROVE  QueueMove
<1>1. ASSUME NEW op \in Operations, NEW p \in Providers \cup {None}, Load(u, op, p) PROVE QueueMove
  <2>1. Stamped
    BY <1>1, LoadStamped
  <2>2. UNCHANGED <<plan, task, job, worker, edits>>
    BY <1>1 DEF Load, queueVars, historyVars
  <2> QED
    BY <2>1, <2>2, QueueAlone
<1>2. CASE Check(u)
  <2>1. Stamped
    BY <1>2, CheckStamped
  <2>2. UNCHANGED <<plan, task, job, worker, edits>>
    BY <1>2 DEF Check, queueVars, historyVars
  <2> QED
    BY <2>1, <2>2, QueueAlone
<1>3. CASE Reviewed(u)
  BY <1>3, EndStamped, QueueAlone DEF Reviewed, queueVars, historyVars
<1>4. CASE MayAccept(u)
  <2>1. Stamped
    BY <1>4, MayAcceptStamped
  <2>2. UNCHANGED <<plan, task, job, worker, edits>>
    BY <1>4 DEF MayAccept, queueVars, historyVars
  <2> QED
    BY <2>1, <2>2, QueueAlone
<1>5. CASE AcceptPlanExecutionSnapshot(u)
  <2>1. Stamped
    BY <1>5, EndStamped DEF AcceptPlanExecutionSnapshot
  <2>2. edits' \in Nat /\ edits <= edits'
    BY <1>5, CountedGrows DEF AcceptPlanExecutionSnapshot, RunInv, historyVars
  <2>3. UNCHANGED <<plan, task, job, worker>>
    BY <1>5 DEF AcceptPlanExecutionSnapshot, queueVars
  <2>4. ASSUME plan.status = "running", job.at # None PROVE job.at <= edits'
    <3>1. job.at \in Nat /\ job.at <= edits /\ edits \in Nat
      BY <2>4 DEF RunInv
    <3> QED
      BY <2>2, <3>1
  <2> QED
    BY <2>1, <2>2, <2>3, <2>4 DEF RunInv, QueueMove
<1>6. CASE QueuePlan(u)
  <2> DEFINE q == request[u]
  <2>1. Stamped /\ UNCHANGED worker
    BY <1>6, EndStamped DEF QueuePlan
  <2>2. CASE Runnable(q) /\ Queue(q.provider, q.at)
    <3>1. edits' \in Nat /\ edits <= edits'
      BY <1>6, <2>2, CountedGrows DEF QueuePlan, RunInv, historyVars
    <3>2. q.at \in Nat /\ q.at <= edits /\ q.provider \in Providers \cup {None}
      BY DEF StampInv, Shapes
    <3>3. plan.status # "running"
      BY <2>2 DEF Runnable
    <3> QED
      BY <2>1, <2>2, <3>1, <3>2, <3>3, Queues
  <2>3. CASE UNCHANGED <<queueVars, historyVars>>
    BY <2>1, <2>3, QueueAlone DEF queueVars, historyVars
  <2> QED
    BY <1>6, <2>2, <2>3 DEF QueuePlan
<1>7. CASE QueueTask(u)
  <2> DEFINE q == request[u]
  <2>1. Stamped /\ UNCHANGED <<worker, edits>>
    BY <1>7, EndStamped DEF QueueTask, historyVars
  <2>2. CASE Runnable(q) /\ Queue(q.provider, q.at)
    <3>1. edits' \in Nat /\ edits <= edits'
      BY <2>1 DEF RunInv
    <3>2. q.at \in Nat /\ q.at <= edits /\ q.provider \in Providers \cup {None}
      BY DEF StampInv, Shapes
    <3>3. plan.status # "running"
      BY <2>2 DEF Runnable
    <3> QED
      BY <2>1, <2>2, <3>1, <3>2, <3>3, Queues
  <2>3. CASE UNCHANGED queueVars
    BY <2>1, <2>3, QueueAlone DEF queueVars
  <2> QED
    BY <1>7, <2>2, <2>3 DEF QueueTask
<1> QED
  BY <1>1, <1>2, <1>3, <1>4, <1>5, <1>6, <1>7 DEF UserStep

\* The worker moves on with its task.
LEMMA WorkerMovesOn ==
  ASSUME Shapes, RunInv, UNCHANGED <<plan, job, edits, request>>, plan.status = "running",
         \/ worker'.pc \in {"collect", "start"} /\ task'.status = "queued"
         \/ worker'.pc = "block"
         \/ worker'.pc \in {"cli", "succeeded", "failed", "captured"} /\ task'.status = "running"
  PROVE  QueueMove
BY SameStamped DEF RunInv, QueueMove

LEMMA ReleasedQueue ==
  ASSUME RunInv, NEW status, Released(status), UNCHANGED <<request, edits>>
  PROVE  QueueMove
<1>1. /\ plan' = [status |-> "blocked", version |-> plan.version + 1] /\ job' = None /\ worker'.pc = "idle"
  BY DEF Released, NoWorker
<1>2. edits \in Nat /\ plan.version \in Nat
  BY DEF RunInv
<1>3. plan' \in [status : {"ready", "blocked", "running", "completed"}, version : Nat]
      /\ plan'.status = "blocked" /\ plan'.version = plan.version + 1
  BY <1>1, <1>2
<1> QED
  BY <1>1, <1>2, <1>3, SameStamped DEF RunInv, QueueMove

LEMMA WorkerQueueMove ==
  ASSUME Shapes, RunInv, WorkerStep
  PROVE  QueueMove
<1>1. CASE ClaimTask
  <2>1. /\ worker.pc = "idle" /\ job # None /\ worker'.pc = "collect"
        /\ UNCHANGED <<plan, job, task, edits, request>>
    BY <1>1 DEF ClaimTask, queueVars, historyVars, NoWorker
  <2> QED
    BY <2>1, WorkerMovesOn DEF RunInv
<1>2. CASE Gate
  <2>1. /\ worker.pc = "collect" /\ worker'.pc \in {"start", "block"}
        /\ UNCHANGED <<plan, job, task, edits, request>>
    BY <1>2 DEF Gate, queueVars, historyVars, Shapes, WorkerFields
  <2> QED
    BY <2>1, WorkerMovesOn DEF RunInv
<1>3. CASE BlockTaskJobForDrift
  BY <1>3, ReleasedQueue DEF BlockTaskJobForDrift, historyVars
<1>4. CASE StartTask
  <2>1. /\ worker.pc = "start" /\ worker'.pc = "cli" /\ task'.status = "running"
        /\ UNCHANGED <<plan, job, edits, request>>
    BY <1>4 DEF StartTask, historyVars, Shapes, WorkerFields
  <2> QED
    BY <2>1, WorkerMovesOn DEF RunInv
<1>5. CASE RunCLI
  <2>1. /\ worker.pc = "cli" /\ worker'.pc \in {"succeeded", "failed"}
        /\ UNCHANGED <<plan, job, task, edits, request>>
    BY <1>5 DEF RunCLI, queueVars, historyVars, Shapes, WorkerFields
  <2> QED
    BY <2>1, WorkerMovesOn DEF RunInv
<1>6. CASE CaptureWorkspaceSnapshot
  <2>1. /\ worker.pc = "succeeded" /\ worker'.pc \in {"block", "captured"}
        /\ UNCHANGED <<plan, job, task, edits, request>>
    BY <1>6 DEF CaptureWorkspaceSnapshot, queueVars, historyVars, Shapes, WorkerFields
  <2> QED
    BY <2>1, WorkerMovesOn DEF RunInv
<1>7. CASE FinishTaskFailed
  BY <1>7, ReleasedQueue DEF FinishTaskFailed, historyVars
<1>8. CASE FinishTaskWithCheckpoint
  <2>1. /\ worker.pc = "captured" /\ worker'.pc = "idle" /\ task'.status = "queued"
        /\ job'.provider = rows.config /\ job'.at = None /\ UNCHANGED <<plan, edits, request>>
    BY <1>8 DEF FinishTaskWithCheckpoint, NoWorker
  <2>2. rows.config \in Providers \cup {None}
    BY DEF Shapes, LiveRows
  <2> QED
    BY <2>1, <2>2, SameStamped DEF RunInv, QueueMove
<1>9. CASE FinishValidation
  <2>1. /\ plan' = [status |-> "completed", version |-> plan.version + 1] /\ job' = None
        /\ worker'.pc = "idle" /\ UNCHANGED request
    BY <1>9 DEF FinishValidation, NoWorker
  <2>2. edits \in Nat /\ plan.version \in Nat
    BY DEF RunInv
  <2>3. edits' \in Nat /\ edits <= edits'
    BY <1>9, <2>2, CountedGrows DEF FinishValidation
  <2>4. plan' \in [status : {"ready", "blocked", "running", "completed"}, version : Nat]
        /\ plan'.status = "completed" /\ plan'.version = plan.version + 1
    BY <2>1, <2>2
  <2> QED
    BY <2>1, <2>2, <2>3, <2>4, SameStamped DEF RunInv, QueueMove
<1> QED
  BY <1>1, <1>2, <1>3, <1>4, <1>5, <1>6, <1>7, <1>8, <1>9 DEF WorkerStep

LEMMA NextQueue ==
  ASSUME Shapes, RunInv, StampInv, [Next]_vars
  PROVE  QueueMove /\ StampInv'
<1>1. QueueMove
  <2>1. ASSUME NEW u \in Users, UserStep(u) PROVE QueueMove
    BY <2>1, UserQueueMove
  <2>2. CASE QueuePlanAutomatically
    <3>1. /\ plan.status = "ready" /\ Queue(None, None) /\ UNCHANGED <<worker, edits, request>>
      BY <2>2 DEF QueuePlanAutomatically, historyVars
    <3>2. edits' \in Nat /\ edits <= edits' /\ Stamped /\ plan.status # "running"
      BY <3>1, SameStamped DEF RunInv
    <3> QED
      BY <3>1, <3>2, Queues
  <2>3. CASE WorkerStep
    BY <2>3, WorkerQueueMove
  <2>4. ASSUME NEW what \in Edits, Edit(what) PROVE QueueMove
    <3>1. edits' = edits + 1 /\ UNCHANGED <<plan, task, job, request, worker>> /\ edits \in Nat
      BY <2>4 DEF Edit, queueVars, RunInv
    <3>2. ASSUME plan.status = "running", job.at # None PROVE job.at <= edits'
      <4>1. job.at \in Nat /\ job.at <= edits
        BY <3>2 DEF RunInv
      <4> QED
        BY <3>1, <4>1
    <3>3. edits' \in Nat /\ edits <= edits'
      BY <3>1
    <3> QED
      BY <3>1, <3>2, <3>3, SameStamped DEF RunInv, QueueMove
  <2>5. CASE UNCHANGED vars
    BY <2>5, SameStamped, QueueAlone DEF vars
  <2> QED
    BY <2>1, <2>2, <2>3, <2>4, <2>5 DEF Next
<1> QED
  BY <1>1, NextStamps DEF QueueMove

-----------------------------------------------------------------------------
(* The plan's own provider changes only together with the baseline.        *)

ConfigIn(ss, r) ==
  LET b == ss[BaseOf(ss)] IN b.config = r.config /\ (r.config # None => b.provider = r.config)

ConfigInv == ConfigIn(snapshots, rows)

LEMMA BaseInRange == ASSUME Shapes, HistoryInv PROVE BaseOf(snapshots) \in 1..Len(snapshots)
<1>1. Latest \in 1..Latest
  BY DEF HistoryInv, Shapes, IsSequence, Latest
<1> QED
  BY <1>1, BaselineIn DEF BaseOf, Baseline, Latest

\* Both kinds of acceptance: Git in time or late.
LEMMA ConfigAccepted ==
  ASSUME IsSequence(snapshots), NEW r, NEW original, NEW late, Accept(r, original, late)
  PROVE  ConfigIn(snapshots', r)
<1>1. PICK s \in Captured("user_accepted", r, late) : snapshots' = Append(snapshots, s)
  BY DEF Accept
<1>2. PICK ws \in readGitSnapshot(work, late) :
        s = Snapshot("user_accepted", r, ws, IF late THEN None ELSE [rows |-> r, work |-> work])
  BY <1>1 DEF Captured
<1>3. s.kind = "user_accepted" /\ s.config = r.config /\ s.provider = ExecutionProvider(r)
  BY <1>2 DEF Snapshot
<1>4. r.config # None => ExecutionProvider(r) = r.config
  BY DEF ExecutionProvider
<1>5. \A x : x.kind = "user_accepted" => Append(snapshots, x)[BaseOf(Append(snapshots, x))] = x
  BY BaseAfterAccept
<1>6. snapshots'[BaseOf(snapshots')] = s
  BY <1>1, <1>3, <1>5
<1> QED
  BY <1>3, <1>4, <1>6 DEF ConfigIn

LEMMA ConfigAfterCheckpoint ==
  ASSUME Shapes, HistoryInv, ConfigInv, rows'.config = rows.config,
         NEW s, s.kind = "task_checkpoint", snapshots' = Append(snapshots, s)
  PROVE  ConfigInv'
<1>1. \A x : x.kind = "task_checkpoint" =>
        Append(snapshots, x)[BaseOf(Append(snapshots, x))] = snapshots[BaseOf(snapshots)]
  BY BaseAfterCheckpoint, BaseInRange DEF Shapes
<1>2. snapshots'[BaseOf(snapshots')] = snapshots[BaseOf(snapshots)]
  BY <1>1
<1> QED
  BY <1>2 DEF ConfigInv, ConfigIn

LEMMA NextConfig ==
  ASSUME Shapes, HistoryInv, ConfigInv, [Next]_vars
  PROVE  ConfigInv'
<1>1. CASE UNCHANGED snapshots /\ rows'.config = rows.config
  BY <1>1 DEF ConfigInv, ConfigIn
<1>2. ASSUME NEW u \in Users, UserStep(u) PROVE ConfigInv'
  <2>1. CASE AcceptPlanExecutionSnapshot(u)
    <3>1. UNCHANGED rows
      BY <2>1 DEF AcceptPlanExecutionSnapshot, liveVars
    <3>2. CASE UNCHANGED historyVars
      BY <1>1, <3>1, <3>2 DEF historyVars
    <3>3. ASSUME NEW late, Accept(rows, seen[u].original, late) PROVE ConfigInv'
      BY <3>1, <3>3, ConfigAccepted DEF Shapes, ConfigInv
    <3> QED
      BY <2>1, <3>2, <3>3 DEF AcceptPlanExecutionSnapshot
  <2>2. CASE QueuePlan(u)
    <3> DEFINE p == request[u].provider
    <3>1. CASE UNCHANGED <<rows, historyVars>>
      BY <1>1, <3>1 DEF historyVars
    <3>2. ASSUME NEW late, rows' = [rows EXCEPT !.config = p], RecordSelection(p, late)
          PROVE  ConfigInv'
      <4>1. CASE p = rows.config
        <5>1. rows'.config = rows.config /\ UNCHANGED snapshots
          BY <3>2, <4>1 DEF RecordSelection, Shapes, LiveRows
        <5> QED
          BY <1>1, <5>1
      <4>2. CASE p # rows.config
        <5>1. Accept(rows', Latest, late)
          BY <3>2, <4>2 DEF RecordSelection
        <5> QED
          BY <5>1, ConfigAccepted DEF Shapes, ConfigInv
      <4> QED
        BY <4>1, <4>2
    <3> QED
      BY <2>2, <3>1, <3>2 DEF QueuePlan
  <2>3. ASSUME NEW op, NEW p, Load(u, op, p) PROVE UNCHANGED <<rows, snapshots>>
    BY <2>3 DEF Load, liveVars, historyVars
  <2>4. CASE Check(u) \/ Reviewed(u) \/ MayAccept(u) \/ QueueTask(u)
    <3>1. UNCHANGED <<liveVars, historyVars>>
      BY <2>4 DEF Check, Reviewed, MayAccept, QueueTask
    <3> QED
      BY <1>1, <3>1 DEF liveVars, historyVars
  <2> QED
    BY <1>1, <1>2, <2>1, <2>2, <2>3, <2>4 DEF UserStep
<1>3. CASE QueuePlanAutomatically
  BY <1>1, <1>3 DEF QueuePlanAutomatically, liveVars, historyVars
<1>4. CASE WorkerStep
  <2>1. CASE FinishTaskWithCheckpoint
    <3> DEFINE s == Snapshot("task_checkpoint", rows, Collect(worker.captured),
                             [rows |-> rows, work |-> worker.captured])
    <3>1. snapshots' = Append(snapshots, s) /\ UNCHANGED rows
      BY <2>1 DEF FinishTaskWithCheckpoint, liveVars
    <3>2. s.kind = "task_checkpoint"
      BY DEF Snapshot
    <3> HIDE DEF s
    <3> QED
      BY <3>1, <3>2, ConfigAfterCheckpoint
  <2>2. CASE FinishValidation
    <3>1. PICK late \in Lateness : \E s \in Captured("task_checkpoint", rows, late) : snapshots' = Append(snapshots, s)
      BY <2>2 DEF FinishValidation
    <3>2. PICK s \in Captured("task_checkpoint", rows, late) : snapshots' = Append(snapshots, s)
      BY <3>1
    <3>3. s.kind = "task_checkpoint"
      BY LatenessBoolean, CapturedTruthful
    <3>4. rows'.config = rows.config
      BY <2>2 DEF FinishValidation, Shapes, LiveRows
    <3> QED
      BY <3>2, <3>3, <3>4, ConfigAfterCheckpoint
  <2>3. CASE UNCHANGED <<rows, snapshots>>
    BY <1>1, <2>3
  <2>4. ASSUME ClaimTask \/ Gate \/ BlockTaskJobForDrift \/ StartTask \/ RunCLI
               \/ CaptureWorkspaceSnapshot \/ FinishTaskFailed
        PROVE  UNCHANGED <<rows, snapshots>>
    <3>1. UNCHANGED <<rows, historyVars>>
      BY <2>4, Zenon DEF ClaimTask, Gate, BlockTaskJobForDrift, StartTask, RunCLI, CaptureWorkspaceSnapshot,
                  FinishTaskFailed, liveVars
    <3> QED
      BY <3>1 DEF historyVars
  <2> QED
    BY <1>4, <2>1, <2>2, <2>3, <2>4 DEF WorkerStep
<1>5. ASSUME NEW what \in Edits, Edit(what) PROVE ConfigInv'
  <2>1. UNCHANGED snapshots
    BY <1>5 DEF Edit
  <2>2. rows'.config = rows.config
    BY <1>5 DEF Edit, Shapes, LiveRows
  <2> QED
    BY <1>1, <2>1, <2>2
<1>6. CASE UNCHANGED vars
  BY <1>1, <1>6 DEF vars
<1> QED
  BY <1>2, <1>3, <1>4, <1>5, <1>6 DEF Next

-----------------------------------------------------------------------------
(* A preflighted task: queued with an explicit provider, and nobody        *)
(* changed anything since the request that queued it began to check.       *)

Preflighted ==
  plan.status = "running" /\ task.status = "queued" /\ job.provider # None /\ job.at = edits

Fresh(q) == q.version = plan.version /\ q.at = edits

\* While the plan is not queued, or queued with a preflight, a fresh request has read the
\* rows as they are, and one that passed its check would pass it now.
RequestInv ==
  \A u \in Users : LET q == request[u] IN
    (plan.status \in {"ready", "blocked"} \/ Preflighted) /\ Fresh(q) =>
      /\ q.pc = "collect" => q.rows = rows /\ q.history = Latest
      /\ q.pc = "store" /\ q.op # "accept" /\ q.provider # None =>
           SafeIn(snapshots, rows, work, q.provider, Option(q.op))

\* A preflighted task would pass the gate, and no acceptance is under way that changes that.
PreflightInv ==
  Preflighted =>
    /\ SafeIn(snapshots, rows, work, job.provider, "full")
    /\ worker.pc \in {"idle", "collect", "start"}
    /\ worker.pc = "collect" =>
         worker.context.rows = rows /\ worker.history = Latest /\ worker.provider = job.provider
    /\ \A u \in Users : LET q == request[u] IN
         q.pc # "idle" => /\ Fresh(q)
                          /\ q.op = "accept" /\ q.pc = "latest" => q.report.severity = "safe_ignore"
                          /\ ~(q.op = "accept" /\ q.pc = "store")

QueueingInv == RunInv /\ StampInv /\ ConfigInv /\ RequestInv /\ PreflightInv

\* A step after which no task is preflighted and no request is fresh.
LEMMA OutOfDate ==
  ASSUME ~Preflighted',
         \A u \in Users : \/ request'[u].pc = "idle"
                          \/ plan'.status \notin {"ready", "blocked"}
                          \/ ~(request'[u].version = plan'.version /\ request'[u].at = edits')
  PROVE  RequestInv' /\ PreflightInv'
<1>1. PreflightInv'
  BY DEF PreflightInv
<1>2. ASSUME NEW u \in Users,
             (plan'.status \in {"ready", "blocked"} \/ Preflighted') /\ Fresh(request[u])'
      PROVE  request'[u].pc = "idle"
  BY <1>2 DEF Fresh
<1> QED
  BY <1>1, <1>2 DEF RequestInv

\* A step of the only user that leaves everything else alone.
LEMMA OnlyRequest ==
  ASSUME NEW u, Users = {u}, RequestInv, PreflightInv,
         UNCHANGED <<rows, work, plan, task, job, snapshots, worker, edits>>,
         (plan.status \in {"ready", "blocked"} \/ Preflighted) /\ Fresh(request'[u]) =>
           /\ request'[u].pc = "collect" => request'[u].rows = rows /\ request'[u].history = Latest
           /\ request'[u].pc = "store" /\ request'[u].op # "accept" /\ request'[u].provider # None =>
                SafeIn(snapshots, rows, work, request'[u].provider, Option(request'[u].op)),
         Preflighted /\ request'[u].pc # "idle" =>
           /\ Fresh(request'[u])
           /\ request'[u].op = "accept" /\ request'[u].pc = "latest" =>
                request'[u].report.severity = "safe_ignore"
           /\ ~(request'[u].op = "accept" /\ request'[u].pc = "store")
  PROVE  RequestInv' /\ PreflightInv'
<1>1. /\ Preflighted' <=> Preflighted
      /\ \A q : Fresh(q) <=> q.version = plan'.version /\ q.at = edits'
      /\ Latest' = Latest
  BY DEF Preflighted, Fresh, Latest
<1>2. RequestInv'
  BY <1>1 DEF RequestInv, Fresh
<1>3. PreflightInv'
  BY <1>1 DEF PreflightInv, Fresh
<1> QED
  BY <1>2, <1>3

LEMMA RequestDone ==
  ASSUME NEW u, Users = {u}, Shapes, request' = [request EXCEPT ![u] = NoRequest]
  PROVE  request'[u] = NoRequest /\ request'[u].pc = "idle"
BY DEF Shapes, NoRequest

LEMMA OnlyRequestEnds ==
  ASSUME NEW u, Users = {u}, Shapes, RequestInv, PreflightInv, request' = [request EXCEPT ![u] = NoRequest],
         UNCHANGED <<rows, work, plan, task, job, snapshots, worker, edits>>
  PROVE  RequestInv' /\ PreflightInv'
BY OnlyRequest, RequestDone

LEMMA LoadFresh ==
  ASSUME NEW u, Users = {u}, Shapes, QueueingInv, NEW op, NEW p, Load(u, op, p)
  PROVE  RequestInv' /\ PreflightInv'
<1> DEFINE q == [NoRequest EXCEPT !.pc = "collect", !.op = op, !.provider = p, !.rows = rows,
                           !.history = Latest, !.version = plan.version, !.at = edits]
<1>1. /\ request' = [request EXCEPT ![u] = q]
      /\ UNCHANGED <<rows, work, plan, task, job, snapshots, worker, edits>>
  BY DEF Load, liveVars, queueVars, historyVars
<1>2. /\ q.pc = "collect" /\ q.rows = rows /\ q.history = Latest /\ q.version = plan.version /\ q.at = edits
  BY DEF NoRequest
<1> HIDE DEF q
<1>3. request'[u] = q
  BY <1>1 DEF Shapes
<1> QED
  BY <1>1, <1>2, <1>3, OnlyRequest DEF QueueingInv, Fresh

LEMMA CheckFresh ==
  ASSUME NEW u, Users = {u}, Shapes, QueueingInv, Check(u)
  PROVE  RequestInv' /\ PreflightInv'
<1> DEFINE q == request[u]
           report == Report(q.history, q.rows, work, EffectiveProvider(q.rows, q.provider), Option(q.op))
           checked == [q EXCEPT !.rows = None, !.history = 0]
           latest == [checked EXCEPT !.pc = "latest", !.report = report,
                                     !.context = Visible(q.rows, work)]
           store == [checked EXCEPT !.pc = "store"]
           calm == plan.status \in {"ready", "blocked"} \/ Preflighted
<1>1. /\ q.pc = "collect"
      /\ request' = [request EXCEPT ![u] = IF q.op \in {"review", "accept"} THEN latest
                                           ELSE IF AllowsCLI(report) THEN store ELSE NoRequest]
      /\ UNCHANGED <<rows, work, plan, task, job, snapshots, worker, edits>>
  BY DEF Check, liveVars, queueVars, historyVars
<1>2. DOMAIN q = RequestFields
  BY DEF Shapes
<1>3. ASSUME calm, Fresh(q), q.provider # None
      PROVE  AllowsCLI(report) <=> SafeIn(snapshots, rows, work, q.provider, Option(q.op))
  <2>1. q.rows = rows /\ q.history = Latest
    BY <1>1, <1>3 DEF QueueingInv, RequestInv
  <2>2. EffectiveProvider(q.rows, q.provider) = q.provider
    BY <1>3 DEF EffectiveProvider, Requested
  <2> QED
    BY <2>1, <2>2, SafeMeans
<1>4. ASSUME Preflighted, q.op \in {"review", "accept"}
      PROVE  report.severity = "safe_ignore" /\ Fresh(q)
  <2>1. Fresh(q) /\ SafeIn(snapshots, rows, work, job.provider, "full")
    BY <1>1, <1>4 DEF QueueingInv, PreflightInv
  <2>2. q.rows = rows /\ q.history = Latest
    BY <1>1, <1>4, <2>1 DEF QueueingInv, RequestInv
  <2>3. Option(q.op) = "queue"
    BY <1>4 DEF Option
  <2>4. SafeIn(snapshots, rows, work, EffectiveProvider(q.rows, q.provider), "queue")
    BY <2>1, FullIsAll
  <2>5. AllowsCLI(report)
    BY <2>2, <2>3, <2>4, SafeMeans
  <2> QED
    BY <2>1, <2>5 DEF AllowsCLI
<1>5. CASE q.op \in {"review", "accept"}
  <2> HIDE DEF report
  <2>1. /\ latest.version = q.version /\ latest.at = q.at /\ latest.pc = "latest"
        /\ latest.report = report
    BY <1>2 DEF RequestFields
  <2>2. request' = [request EXCEPT ![u] = latest]
    BY <1>1, <1>5
  <2> HIDE DEF latest
  <2>3. request'[u] = latest
    BY <2>2 DEF Shapes
  <2> QED
    BY <1>1, <1>4, <1>5, <2>1, <2>3, OnlyRequest DEF QueueingInv, Fresh
<1>6. CASE q.op \notin {"review", "accept"} /\ AllowsCLI(report)
  <2>1. request' = [request EXCEPT ![u] = store]
    BY <1>1, <1>6
  <2> HIDE DEF report
  <2>2. /\ store.version = q.version /\ store.at = q.at /\ store.pc = "store" /\ store.op = q.op
        /\ store.provider = q.provider
    BY <1>2 DEF RequestFields
  <2> HIDE DEF store
  <2>3. request'[u] = store
    BY <2>1 DEF Shapes
  <2>4. Fresh(store) <=> Fresh(q)
    BY <2>2 DEF Fresh
  <2>5. Preflighted => Fresh(q)
    BY <1>1 DEF QueueingInv, PreflightInv
  <2> QED
    BY <1>1, <1>3, <1>6, <2>2, <2>3, <2>4, <2>5, OnlyRequest DEF QueueingInv
<1>7. CASE q.op \notin {"review", "accept"} /\ ~AllowsCLI(report)
  <2>1. request' = [request EXCEPT ![u] = NoRequest]
    BY <1>1, <1>7
  <2> QED
    BY <1>1, <2>1, OnlyRequestEnds DEF QueueingInv
<1> QED
  BY <1>5, <1>6, <1>7

LEMMA MayAcceptFresh ==
  ASSUME NEW u, Users = {u}, Shapes, QueueingInv, MayAccept(u)
  PROVE  RequestInv' /\ PreflightInv'
<1> DEFINE q == request[u]
           store == [q EXCEPT !.pc = "store", !.report = None]
           same == q.report.severity = "needs_confirmation" /\ SameReview(u)
<1>1. /\ q.pc = "latest" /\ q.op = "accept"
      /\ request' = [request EXCEPT ![u] = IF same THEN store ELSE NoRequest]
      /\ UNCHANGED <<rows, work, plan, task, job, snapshots, worker, edits>>
  BY DEF MayAccept, liveVars, queueVars, historyVars
<1>2. CASE same
  <2>1. ~Preflighted
    BY <1>1, <1>2 DEF QueueingInv, PreflightInv
  <2>2. request' = [request EXCEPT ![u] = store]
    BY <1>1, <1>2
  <2>3. store.pc = "store" /\ store.op = "accept"
    BY <1>1 DEF Shapes, RequestFields
  <2> HIDE DEF store
  <2>4. request'[u] = store
    BY <2>2 DEF Shapes
  <2> QED
    BY <1>1, <2>1, <2>3, <2>4, OnlyRequest DEF QueueingInv
<1>3. CASE ~same
  <2>1. request' = [request EXCEPT ![u] = NoRequest]
    BY <1>1, <1>3
  <2> QED
    BY <1>1, <2>1, OnlyRequestEnds DEF QueueingInv
<1> QED
  BY <1>2, <1>3

\* A preflight does not outlive a change: the job is not younger than the edits.
LEMMA NotPreflightedLater ==
  ASSUME RunInv, UNCHANGED <<plan, task, job>>, edits' = edits \/ edits' = edits + 1,
         edits' = edits => ~Preflighted
  PROVE  ~Preflighted'
<1>1. CASE edits' = edits
  BY <1>1 DEF Preflighted
<1>2. CASE edits' = edits + 1
  <2> SUFFICES ASSUME plan.status = "running", job.at = edits + 1 PROVE FALSE
    BY <1>2 DEF Preflighted
  <2>1. edits \in Nat /\ job.at \in Nat
    BY DEF RunInv
  <2>2. job.at # None
    BY <2>1, NoneAssumption
  <2>3. job.at <= edits
    BY <2>2 DEF RunInv
  <2> QED
    BY <2>1, <2>3
<1> QED
  BY <1>1, <1>2

LEMMA CountedIs ==
  ASSUME edits \in Nat, NEW late \in Lateness, Counted(late)
  PROVE  (late /\ edits' = edits + 1) \/ (~late /\ edits' = edits)
BY DEF Counted, Lateness

LEMMA AcceptFresh ==
  ASSUME NEW u, Users = {u}, Shapes, QueueingInv, AcceptPlanExecutionSnapshot(u)
  PROVE  RequestInv' /\ PreflightInv'
<1>1. /\ request[u].pc = "store" /\ request[u].op = "accept"
      /\ request' = [request EXCEPT ![u] = NoRequest] /\ UNCHANGED <<plan, task, job>>
  BY DEF AcceptPlanExecutionSnapshot, queueVars
<1>2. ~Preflighted
  BY <1>1 DEF QueueingInv, PreflightInv
<1>3. edits' = edits \/ edits' = edits + 1
  BY CountedIs DEF AcceptPlanExecutionSnapshot, QueueingInv, RunInv, historyVars
<1>4. ~Preflighted'
  BY <1>1, <1>2, <1>3, NotPreflightedLater DEF QueueingInv
<1>5. request'[u].pc = "idle"
  BY <1>1, RequestDone
<1> QED
  BY <1>4, <1>5, OutOfDate

\* The task is queued and the request has ended.
LEMMA QueuedFresh ==
  ASSUME NEW u, Users = {u}, Shapes, QueueingInv, plan.status # "running",
         request' = [request EXCEPT ![u] = NoRequest], UNCHANGED worker, NEW p, NEW at, Queue(p, at),
         p # None /\ at = edits' => SafeIn(snapshots', rows', work', p, "full")
  PROVE  RequestInv' /\ PreflightInv'
<1>1. /\ plan'.status = "running" /\ job'.provider = p /\ job'.at = at
  BY DEF Queue
<1>2. worker'.pc = "idle"
  BY DEF QueueingInv, RunInv
<1>3. request'[u].pc = "idle"
  BY RequestDone
<1>4. RequestInv'
  BY <1>3 DEF RequestInv
<1>5. PreflightInv'
  BY <1>1, <1>2, <1>3 DEF PreflightInv, Preflighted
<1> QED
  BY <1>4, <1>5

LEMMA QueueTaskFresh ==
  ASSUME NEW u, Users = {u}, Shapes, QueueingInv, QueueTask(u)
  PROVE  RequestInv' /\ PreflightInv'
<1> DEFINE q == request[u]
<1>1. /\ q.pc = "store" /\ q.op = "queueTask" /\ request' = [request EXCEPT ![u] = NoRequest]
      /\ UNCHANGED <<rows, work, snapshots, edits, worker>>
  BY DEF QueueTask, liveVars, historyVars
<1>2. CASE Runnable(q) /\ Queue(q.provider, q.at)
  <2>1. plan.status \in {"ready", "blocked"} /\ q.version = plan.version
    BY <1>2 DEF Runnable
  <2>2. ASSUME q.provider # None, q.at = edits'
        PROVE  SafeIn(snapshots', rows', work', q.provider, "full")
    <3>1. Fresh(q)
      BY <1>1, <2>1, <2>2 DEF Fresh
    <3>2. SafeIn(snapshots, rows, work, q.provider, Option(q.op))
      BY <1>1, <2>1, <2>2, <3>1 DEF QueueingInv, RequestInv
    <3>3. Option(q.op) = "full"
      BY <1>1 DEF Option
    <3> QED
      BY <1>1, <3>2, <3>3
  <2> QED
    BY <1>1, <1>2, <2>1, <2>2, QueuedFresh
<1>3. CASE UNCHANGED queueVars
  BY <1>1, <1>3, OnlyRequestEnds DEF QueueingInv, queueVars
<1> QED
  BY <1>2, <1>3 DEF QueueTask

LEMMA QueuePlanFresh ==
  ASSUME NEW u, Users = {u}, Origin, Shapes, HistoryInv, QueueingInv, QueuePlan(u)
  PROVE  RequestInv' /\ PreflightInv'
<1> DEFINE q == request[u]
<1>1. /\ q.pc = "store" /\ q.op = "queuePlan" /\ request' = [request EXCEPT ![u] = NoRequest]
      /\ UNCHANGED <<work, worker>>
  BY DEF QueuePlan
<1>2. ASSUME Runnable(q), rows' = [rows EXCEPT !.config = q.provider], Queue(q.provider, q.at),
             NEW late \in Lateness, RecordSelection(q.provider, late), Counted(late)
      PROVE  RequestInv' /\ PreflightInv'
  <2>1. plan.status \in {"ready", "blocked"} /\ q.version = plan.version
    BY <1>2 DEF Runnable
  <2>2. ASSUME q.provider # None, q.at = edits'
        PROVE  SafeIn(snapshots', rows', work', q.provider, "full")
    <3>1. edits \in Nat /\ q.at \in Nat /\ q.at <= edits
      BY DEF QueueingInv, RunInv, StampInv
    <3>2. ~late /\ edits' = edits
      BY <1>2, <2>2, <3>1, CountedIs
    <3>3. Fresh(q)
      BY <2>1, <2>2, <3>2 DEF Fresh
    <3>4. SafeIn(snapshots, rows, work, q.provider, "queue")
      BY <1>1, <2>1, <2>2, <3>3 DEF QueueingInv, RequestInv, Option
    <3>5. rows'.config = q.provider
      BY <1>2 DEF Shapes, LiveRows
    <3>6. CASE q.provider = rows.config
      <4>1. rows' = rows /\ UNCHANGED snapshots
        BY <1>2, <3>6 DEF RecordSelection, Shapes, LiveRows
      <4>2. snapshots[BaseOf(snapshots)].config = rows.config /\ snapshots[BaseOf(snapshots)].provider = q.provider
        BY <2>2, <3>6 DEF QueueingInv, ConfigInv, ConfigIn
      <4>3. SafeIn(snapshots, rows, work, q.provider, "full")
        BY <3>4, <4>2, QueueIsFull
      <4> QED
        BY <1>1, <4>1, <4>3
    <3>7. CASE q.provider # rows.config
      <4>1. Accept(rows', Latest, late)
        BY <1>2, <3>7 DEF RecordSelection
      <4>2. PICK s \in Captured("user_accepted", rows', late) : snapshots' = Append(snapshots, s)
        BY <4>1 DEF Accept
      <4>3. late = FALSE
        BY <1>2, <3>2 DEF Lateness
      <4>4. s \in {Snapshot("user_accepted", rows', ws, [rows |-> rows', work |-> work]) : ws \in readGitSnapshot(work, FALSE)}
        BY <4>2, <4>3 DEF Captured
      <4>5. work.tree \notin Conflicts /\ work.place # "gone"
        BY <3>4 DEF SafeIn
      <4>6. ExecutionProvider(rows') = q.provider
        BY <2>2, <3>5 DEF ExecutionProvider
      <4>7. IsSequence(snapshots)
        BY DEF Shapes
      <4>8. SafeIn(snapshots', rows', work, ExecutionProvider(rows'), "full")
        BY <4>2, <4>4, <4>5, <4>7, SafeOnceAccepted
      <4> QED
        BY <1>1, <4>6, <4>8
    <3> QED
      BY <3>6, <3>7
  <2> QED
    BY <1>1, <1>2, <2>1, <2>2, QueuedFresh
<1>3. CASE UNCHANGED <<rows, queueVars, historyVars>>
  BY <1>1, <1>3, OnlyRequestEnds DEF QueueingInv, queueVars, historyVars
<1> QED
  BY <1>2, <1>3 DEF QueuePlan

LEMMA UserFresh ==
  ASSUME NEW u, Users = {u}, Origin, Shapes, HistoryInv, QueueingInv, UserStep(u)
  PROVE  RequestInv' /\ PreflightInv'
<1>1. CASE Reviewed(u)
  <2>1. /\ request' = [request EXCEPT ![u] = NoRequest]
        /\ UNCHANGED <<rows, work, plan, task, job, snapshots, worker, edits>>
    BY <1>1 DEF Reviewed, liveVars, queueVars, historyVars
  <2> QED
    BY <2>1, OnlyRequestEnds DEF QueueingInv
<1> QED
  BY <1>1, LoadFresh, CheckFresh, MayAcceptFresh, AcceptFresh, QueuePlanFresh, QueueTaskFresh DEF UserStep

\* The worker claims a preflighted task and lets it pass the gate.
LEMMA ClaimFresh ==
  ASSUME Shapes, QueueingInv, ClaimTask
  PROVE  RequestInv' /\ PreflightInv'
<1>1. /\ worker'.pc = "collect" /\ worker'.context.rows = rows /\ worker'.history = Latest
      /\ worker'.provider = EffectiveProvider(rows, job.provider)
      /\ UNCHANGED <<rows, work, plan, task, job, snapshots, edits, request>>
  BY DEF ClaimTask, liveVars, queueVars, historyVars, NoWorker, Reading
<1>2. job.provider # None => EffectiveProvider(rows, job.provider) = job.provider
  BY DEF EffectiveProvider, Requested
<1>3. (Preflighted' <=> Preflighted) /\ Latest' = Latest
  BY <1>1 DEF Preflighted, Latest
<1>4. RequestInv'
  BY <1>1, <1>3 DEF QueueingInv, RequestInv, Fresh
<1>5. PreflightInv'
  BY <1>1, <1>2, <1>3 DEF QueueingInv, PreflightInv, Preflighted, Fresh
<1> QED
  BY <1>4, <1>5

LEMMA GateFresh ==
  ASSUME Shapes, QueueingInv, Gate
  PROVE  RequestInv' /\ PreflightInv'
<1>1. /\ worker.pc = "collect" /\ worker'.pc = IF AllowsCLI(GateReport) THEN "start" ELSE "block"
      /\ UNCHANGED <<rows, work, plan, task, job, snapshots, edits, request>>
  BY DEF Gate, liveVars, queueVars, historyVars, Shapes, WorkerFields
<1>2. (Preflighted' <=> Preflighted) /\ Latest' = Latest
  BY <1>1 DEF Preflighted, Latest
<1>3. ASSUME Preflighted PROVE AllowsCLI(GateReport)
  <2>1. /\ SafeIn(snapshots, rows, work, job.provider, "full") /\ worker.context.rows = rows
        /\ worker.history = Latest /\ worker.provider = job.provider
    BY <1>1, <1>3 DEF QueueingInv, PreflightInv
  <2>2. SafeIn(snapshots, rows, work, job.provider, "validation")
    BY <2>1, FullIsAll
  <2>3. /\ AllowsCLI(Report(Latest, rows, work, job.provider, "full"))
        /\ AllowsCLI(Report(Latest, rows, work, job.provider, "validation"))
    BY <2>1, <2>2, SafeMeans
  <2> QED
    BY <2>1, <2>3 DEF GateReport
<1>4. RequestInv'
  BY <1>1, <1>2 DEF QueueingInv, RequestInv, Fresh
<1>5. PreflightInv'
  BY <1>1, <1>2, <1>3 DEF QueueingInv, PreflightInv, Fresh
<1> QED
  BY <1>4, <1>5

\* The other steps of the worker leave no preflight.
LEMMA WorkerFresh ==
  ASSUME Shapes, QueueingInv, WorkerStep
  PROVE  RequestInv' /\ PreflightInv'
<1>1. CASE ClaimTask
  BY <1>1, ClaimFresh
<1>2. CASE Gate
  BY <1>2, GateFresh
<1>3. ASSUME NEW status, Released(status), UNCHANGED <<request, edits>>
      PROVE  RequestInv' /\ PreflightInv'
  <2>1. plan'.status = "blocked" /\ plan'.version = plan.version + 1 /\ plan.version \in Nat
    BY <1>3 DEF Released, QueueingInv, RunInv
  <2>2. ~Preflighted'
    BY <2>1 DEF Preflighted
  <2>3. ASSUME NEW u \in Users PROVE request'[u].version # plan'.version
    <3>1. request[u].version \in Nat /\ request[u].version <= plan.version
      BY DEF QueueingInv, StampInv
    <3> QED
      BY <1>3, <2>1, <3>1
  <2> QED
    BY <2>2, <2>3, OutOfDate
<1>4. ASSUME plan'.status \in {"running", "completed"},
             plan'.status = "running" => task'.status = "running" \/ job'.at = None,
             edits' \in Nat
      PROVE  RequestInv' /\ PreflightInv'
  <2>1. ~Preflighted'
    BY <1>4, NoneAssumption DEF Preflighted
  <2> QED
    BY <1>4, <2>1, OutOfDate
<1>5. CASE BlockTaskJobForDrift
  BY <1>3, <1>5 DEF BlockTaskJobForDrift, historyVars
<1>6. CASE FinishTaskFailed
  BY <1>3, <1>6 DEF FinishTaskFailed, historyVars
<1>7. CASE StartTask
  <2>1. plan' = plan /\ worker.pc = "start" /\ task'.status = "running" /\ edits' = edits
    BY <1>7 DEF StartTask, historyVars, Shapes
  <2> QED
    BY <1>4, <2>1 DEF QueueingInv, RunInv
<1>8. CASE RunCLI
  <2>1. plan' = plan /\ worker.pc = "cli" /\ task' = task /\ edits' = edits
    BY <1>8 DEF RunCLI, historyVars, queueVars
  <2> QED
    BY <1>4, <2>1 DEF QueueingInv, RunInv
<1>9. CASE CaptureWorkspaceSnapshot
  <2>1. plan' = plan /\ worker.pc = "succeeded" /\ task' = task /\ edits' = edits
    BY <1>9 DEF CaptureWorkspaceSnapshot, historyVars, queueVars
  <2> QED
    BY <1>4, <2>1 DEF QueueingInv, RunInv
<1>10. CASE FinishTaskWithCheckpoint
  <2>1. plan' = plan /\ worker.pc = "captured" /\ job'.at = None /\ edits' = edits
    BY <1>10 DEF FinishTaskWithCheckpoint
  <2> QED
    BY <1>4, <2>1 DEF QueueingInv, RunInv
<1>11. CASE FinishValidation
  <2>1. plan'.status = "completed"
    BY <1>11 DEF FinishValidation
  <2>2. edits' \in Nat
    BY <1>11, CountedGrows DEF FinishValidation, QueueingInv, RunInv
  <2> QED
    BY <1>4, <2>1, <2>2
<1> QED
  BY <1>1, <1>2, <1>5, <1>6, <1>7, <1>8, <1>9, <1>10, <1>11 DEF WorkerStep

LEMMA NextQueueing ==
  ASSUME NEW u, Users = {u}, Origin, Shapes, HistoryInv, QueueingInv, [Next]_vars
  PROVE  QueueingInv'
<1>1. RequestInv' /\ PreflightInv'
  <2>1. CASE UserStep(u)
    BY <2>1, UserFresh
  <2>2. CASE QueuePlanAutomatically
    <3>1. /\ plan'.status = "running" /\ job'.provider = None
      BY <2>2 DEF QueuePlanAutomatically, Queue
    <3>2. ~Preflighted'
      BY <3>1 DEF Preflighted
    <3> QED
      BY <3>1, <3>2, OutOfDate
  <2>3. CASE WorkerStep
    BY <2>3, WorkerFresh
  <2>4. ASSUME NEW what \in Edits, Edit(what) PROVE RequestInv' /\ PreflightInv'
    <3>1. edits' = edits + 1 /\ UNCHANGED <<plan, task, job, request>> /\ edits \in Nat
      BY <2>4 DEF Edit, queueVars, QueueingInv, RunInv
    <3>2. ~Preflighted'
      <4>1. edits' # edits
        BY <3>1
      <4> QED
        BY <3>1, <4>1, NotPreflightedLater DEF QueueingInv
    <3>3. ASSUME NEW v \in Users PROVE request'[v].at # edits'
      <4>1. request[v].at \in Nat /\ request[v].at <= edits
        BY DEF QueueingInv, StampInv
      <4> QED
        BY <3>1, <4>1
    <3> QED
      BY <3>2, <3>3, OutOfDate
  <2>5. CASE UNCHANGED vars
    <3>1. UNCHANGED <<rows, work, plan, task, job, snapshots, worker, edits, request>>
      BY <2>5 DEF vars
    <3>2. (Preflighted' <=> Preflighted) /\ Latest' = Latest
      BY <3>1 DEF Preflighted, Latest
    <3> QED
      BY <3>1, <3>2 DEF QueueingInv, RequestInv, PreflightInv, Fresh
  <2> QED
    BY <2>1, <2>2, <2>3, <2>4, <2>5 DEF Next
<1>2. RunInv' /\ StampInv'
  BY NextQueue DEF QueueingInv, QueueMove
<1>3. ConfigInv'
  BY NextConfig DEF QueueingInv
<1> QED
  BY <1>1, <1>2, <1>3 DEF QueueingInv

LEMMA InitQueueing == ASSUME Init PROVE QueueingInv
<1>1. /\ plan = [status |-> "ready", version |-> 1] /\ task = [n |-> 1, status |-> "pending"] /\ job = None
      /\ edits = 0 /\ request = [u \in Users |-> NoRequest] /\ worker = NoWorker /\ rows.config = None
  BY DEF Init
<1>2. NoRequest.pc = "idle" /\ NoRequest.version = 0 /\ NoRequest.at = 0 /\ NoWorker.pc = "idle"
  BY DEF NoRequest, NoWorker
<1>3. RunInv
  BY <1>1, <1>2 DEF RunInv
<1>4. StampInv
  BY <1>1, <1>2 DEF StampInv
<1>5. RequestInv
  BY <1>1, <1>2 DEF RequestInv
<1>6. PreflightInv
  BY <1>1 DEF PreflightInv, Preflighted
<1>7. ConfigInv
  <2> DEFINE s == Snapshot("generation_baseline", rows, Collect(work), [rows |-> rows, work |-> work])
  <2>1. snapshots = <<s>>
    BY DEF Init
  <2>2. s.kind = "generation_baseline" /\ s.config = None
    BY <1>1 DEF Snapshot
  <2> HIDE DEF s
  <2>3. Len(snapshots) = 1 /\ snapshots[1] = s
    BY <2>1
  <2>4. {k \in 1..Len(snapshots) : snapshots[k].kind # "task_checkpoint"} \in SUBSET (1..1)
        /\ 1 \in {k \in 1..Len(snapshots) : snapshots[k].kind # "task_checkpoint"}
    BY <2>2, <2>3
  <2>5. BaseOf(snapshots) = 1
    BY <2>4, NewestIsLast DEF BaseOf
  <2> QED
    BY <1>1, <2>2, <2>3, <2>5 DEF ConfigInv, ConfigIn
<1> QED
  BY <1>3, <1>4, <1>5, <1>6, <1>7 DEF QueueingInv

\* A plan with one user: a task queued with an explicit provider is not stopped by the
\* worker's gate unless somebody changed something after the request began its check
\* (PreflightHolds).  With a second user this is not so: an acceptance of theirs between
\* the check of queueTask and its commit makes the default provider the baseline again.
THEOREM PreflightIsKept ==
  ASSUME NEW u, Users = {u} PROVE Spec => []PreflightHolds
<1>1. CASE Origin
  <2> DEFINE Inv == Base /\ HistoryInv /\ CLIInv /\ QueueingInv
  <2>1. Init => Inv
    BY InitBase, InitHistory, InitQueueing
  <2>2. Inv /\ [Next]_vars => Inv'
    BY <1>1, NextInv, NextQueueing DEF Base
  <2>3. Inv => PreflightHolds
    <3> SUFFICES ASSUME QueueingInv, worker.pc = "block", task.status = "queued", job.provider # None,
                        job.at = edits
                 PROVE  FALSE
      BY DEF PreflightHolds
    <3>1. plan.status = "running"
      BY DEF QueueingInv, RunInv
    <3> QED
      BY <3>1 DEF QueueingInv, PreflightInv, Preflighted
  <2> HIDE DEF Inv
  <2> QED
    BY <2>1, <2>2, <2>3, PTL DEF Spec
<1>2. CASE ~Origin
  <2>1. PreflightHolds
    BY <1>2 DEF PreflightHolds
  <2> QED
    BY <2>1, PTL
<1> QED
  BY <1>1, <1>2
=============================================================================
