--------------------------- MODULE PlanningProofs ---------------------------
(***************************************************************************)
(* Proofs about Planning, for any number of workers, jobs, plans, sessions *)
(* and attempts, any sequence of switches, crashes and edits.              *)
(***************************************************************************)
EXTENDS Planning, FiniteSetTheorems, SequenceTheorems, NaturalsInduction,
        WellFoundedInduction, TLAPS

-----------------------------------------------------------------------------
(* Types.                                                                  *)

IntakeStatuses == {"none", "open", "planning", "planned", "plan_failed", "closed"}
Id == Nat \cup {None}
JobRecord == [intake : Intakes, provider : Providers, status : Live \cup Terminal,
              attempt : Nat, worker : Workers \cup {None}, run : {"none", "starting", "running"}]
PlanRecord == [intake : Intakes, status : {"ready", "running", "completed"}, tasks : Int,
               traced : BOOLEAN]
RowRecord == [provider : Providers, cli : Id, status : {"none", "active", "stale"}]
WorkerRecord == [pc : Working \cup {"idle", "complete", "fail"}, job : Id,
                 row : Rows \cup {None}, prior : Id, dead : Id, session : Id, plan : Id,
                 attempt : Nat, retry : BOOLEAN, closing : BOOLEAN]
TalkRecord == [pc : {"idle", "running", "stale", "create"}, automation : BOOLEAN,
               provider : Providers, row : Rows \cup {None}, prior : Id, dead : Id, session : Id]

QueueTypes ==
  /\ automation \in BOOLEAN
  /\ intake \in [Intakes -> IntakeStatuses]
  /\ jobs \in Seq(JobRecord)
  /\ plans \in Seq(PlanRecord)
SessionTypes ==
  /\ rows \in [Rows -> RowRecord]
  /\ threads \in Seq(Providers)
  /\ talk \in TalkRecord
WorkerTypes ==
  /\ worker \in [Workers -> WorkerRecord]
  /\ \A w \in Workers : worker[w].pc # "idle" => worker[w].job \in JobIds

TypeInv == QueueTypes /\ SessionTypes /\ WorkerTypes

LEMMA FunctionSeq ==
  ASSUME NEW S, NEW n \in Nat, NEW f \in [1..n -> S]
  PROVE  f \in Seq(S) /\ Len(f) = n
<1>1. f \in Seq(S)
  BY SeqDef
<1>2. DOMAIN f = 1..n /\ DOMAIN f = 1..Len(f) /\ Len(f) \in Nat
  BY <1>1, LenProperties
<1> QED
  BY <1>1, <1>2

\* Jobs and plans as functions.
LEMMA Tables ==
  ASSUME TypeInv
  PROVE  /\ Len(jobs) \in Nat /\ jobs \in [JobIds -> JobRecord]
         /\ Len(plans) \in Nat /\ plans \in [PlanIds -> PlanRecord]
         /\ Len(threads) \in Nat /\ threads \in [1..Len(threads) -> Providers]
BY LenProperties DEF TypeInv, QueueTypes, SessionTypes, JobIds, PlanIds

LEMMA MinExists ==
  ASSUME NEW S \in SUBSET Nat, S # {}
  PROVE  \E k \in S : \A l \in S : k <= l
<1> DEFINE Less == {ss \in Nat \X Nat : ss[1] < ss[2]}
<1>1. IsWellFoundedOn(Less, Nat)
  BY NatLessThanWellFounded DEF OpToRel
<1> HIDE DEF Less
<1>2. S \subseteq Nat
  OBVIOUS
<1>3. \E k \in S : \A l \in S : ~(<<l, k>> \in Less)
  BY <1>1, <1>2, WFMin, Zenon
<1>4. \A k, l \in Nat : l < k => <<l, k>> \in Less
  BY DEF Less
<1>5. \A k, l \in Nat : ~(l < k) => k <= l
  OBVIOUS
<1> QED
  BY <1>2, <1>3, <1>4, <1>5

\* A selected row is one that the provider can resume.
LEMMA SelectedRow ==
  ASSUME NEW c, DOMAIN c \subseteq Nat, NEW p, Selected(c, p) # None
  PROVE  /\ Selected(c, p) \in Rows
         /\ rows[Selected(c, p)].status = "active" /\ rows[Selected(c, p)].provider = p
<1> DEFINE hits == {k \in DOMAIN c : GetActiveSession(c[k], p) # {}}
           k == CHOOSE k \in hits : \A l \in hits : k <= l
<1>1. hits # {} /\ Selected(c, p) = c[k]
  BY DEF Selected
<1>2. \E m \in hits : \A l \in hits : m <= l
  BY <1>1, MinExists
<1>3. k \in hits
  BY <1>2
<1> QED
  BY <1>1, <1>3 DEF GetActiveSession

LEMMA PlanSessionsDomain ==
  ASSUME NEW i PROVE DOMAIN PlanSessions(i) \subseteq Nat
<1> DEFINE E == <<"execution", feedback>>
           R == <<"requirement", Revision>>
           Q == <<"requirement", Requirement>>
           I == <<"requirement", i>>
           S == {E, R, Q, I}
<1> HIDE DEF E, R, Q, I
<1>1. /\ <<>> \in Seq(S) /\ <<E>> \in Seq(S) /\ <<R, Q>> \in Seq(S) /\ <<I>> \in Seq(S)
  OBVIOUS
<1>2. /\ <<>> \o <<R, Q>> \in Seq(S) /\ <<E>> \o <<R, Q>> \in Seq(S)
  BY <1>1, ConcatProperties
<1>3. PlanSessions(i) \in Seq(S)
  BY <1>1, <1>2 DEF PlanSessions, FeedbackExecution, E, R, Q, I
<1> QED
  BY <1>3, LenProperties

LEMMA DiscussionSessionsDomain == DOMAIN DiscussionSessions \subseteq Nat
<1> DEFINE E == <<"execution", feedback>>
           Q == <<"requirement", Requirement>>
           S == {E, Q}
<1> HIDE DEF E, Q
<1>1. Append(<<>>, Q) \in Seq(S) /\ Append(<<E>>, Q) \in Seq(S)
  OBVIOUS
<1>2. DiscussionSessions \in Seq(S)
  BY <1>1 DEF DiscussionSessions, FeedbackExecution, E, Q
<1> QED
  BY <1>2, LenProperties

LEMMA InitTyped == Init => TypeInv
<1> SUFFICES ASSUME Init PROVE TypeInv
  OBVIOUS
<1>1. QueueTypes
  BY DEF Init, QueueTypes, Intakes, IntakeStatuses
<1>2. SessionTypes
  BY PlanningAssumption DEF Init, SessionTypes, RowRecord, NoRow, Id, TalkRecord, Quiet
<1>3. WorkerTypes
  BY DEF Init, WorkerTypes, WorkerRecord, Idle, Id
<1> QED
  BY <1>1, <1>2, <1>3 DEF TypeInv

-----------------------------------------------------------------------------
(* What a step may do to jobs, workers, intakes and plans.                 *)

\* The plan is stored; what is left is to record it.
Saved == {"trace", "session", "execution", "finish", "queue", "complete"}

NewIds == Len(jobs) + 1 .. Len(jobs')

Kept(j) ==
  /\ jobs'[j].status = jobs[j].status /\ jobs'[j].worker = jobs[j].worker
  /\ jobs'[j].attempt = jobs[j].attempt
Claimed(j) ==
  /\ jobs[j].status \in {"queued", "retry_wait"} /\ jobs'[j].status = "running"
  /\ jobs'[j].attempt = jobs[j].attempt + 1
  /\ \E w \in Workers : /\ worker[w].pc = "idle" /\ jobs'[j].worker = w
                        /\ worker'[w].pc = "load"
Returned(j) ==
  /\ jobs[j].status = "running" /\ jobs'[j].status = "queued"
  /\ jobs'[j].attempt = IF jobs[j].attempt = 0 THEN 0 ELSE jobs[j].attempt - 1
Ended(j) ==
  /\ jobs[j].status = "running" /\ jobs'[j].status \in {"cancelled", "interrupted"}
  /\ jobs'[j].worker = None /\ jobs'[j].attempt = jobs[j].attempt
Stopped(j) ==
  /\ jobs[j].status \in Live /\ jobs'[j].status = "cancelled"
  /\ jobs'[j].attempt = jobs[j].attempt
  /\ intake'[jobs[j].intake] # "planning"
\* The worker that owns the job records how it ended.
Settled(j) ==
  \E w \in Workers :
    /\ worker[w].job = j /\ Owns(w) /\ jobs'[j].attempt = jobs[j].attempt
    /\ \/ worker[w].pc = "complete" /\ jobs'[j].status = "succeeded"
       \/ /\ worker[w].pc = "fail" /\ worker[w].attempt < MaxAttempts
          /\ jobs'[j].status = "retry_wait"
       \/ /\ worker[w].pc = "fail" /\ jobs'[j].status = "failed"
          /\ intake'[jobs[j].intake] # "planning"

JobMove(j) ==
  /\ jobs'[j].intake = jobs[j].intake /\ jobs'[j].provider = jobs[j].provider
  /\ Kept(j) \/ Claimed(j) \/ Returned(j) \/ Ended(j) \/ Stopped(j) \/ Settled(j)

JobsMove ==
  /\ jobs' \in Seq(JobRecord) /\ Len(jobs) <= Len(jobs')
  /\ \A j \in JobIds : JobMove(j)
  /\ \A j \in NewIds : jobs'[j].status = "queued" /\ jobs'[j].attempt = 0

WorkerMove(w) ==
  \/ worker'[w].pc = "idle"
  \/ /\ worker[w].pc = "idle" /\ worker'[w].pc = "load" /\ worker'[w].job \in JobIds
     /\ jobs'[worker'[w].job].attempt = worker'[w].attempt
  \/ /\ worker[w].pc # "idle" /\ worker'[w].pc # "idle"
     /\ worker'[w].job = worker[w].job /\ worker'[w].attempt = worker[w].attempt
     /\ \/ worker'[w].pc \notin Saved \/ worker[w].pc \in Saved
        \/ intake'[Job(w).intake] # "planning"

WorkersMove == worker' \in [Workers -> WorkerRecord] /\ \A w \in Workers : WorkerMove(w)

IntakeMove(i) ==
  intake'[i] = "planning" =>
    intake[i] = "planning" \/ \E j \in NewIds : jobs'[j].intake = i

IntakesMove ==
  /\ intake' \in [Intakes -> IntakeStatuses] /\ automation' \in BOOLEAN
  /\ \A i \in Intakes : IntakeMove(i)

\* One plan starts, finishes or is taken back; a new one belongs to an intake
\* that is planned with it.
PlanMove(n) ==
  /\ plans'[n].intake = plans[n].intake
  /\ \/ plans'[n].status = plans[n].status /\ plans'[n].tasks = plans[n].tasks
     \/ /\ plans[n].status = "ready" /\ plans'[n].status = "running"
        /\ plans'[n].tasks = plans[n].tasks + 1
     \/ /\ plans[n].status = "running" /\ plans'[n].status = "completed"
        /\ plans'[n].tasks = plans[n].tasks - 1
     \/ plans'[n].status = "ready" /\ plans'[n].tasks = 0

NewPlan(p) ==
  /\ p.status = "ready" /\ p.tasks = 0
  /\ intake[p.intake] = "planning" /\ intake'[p.intake] # "planning"

PlansMove ==
  /\ plans' \in Seq(PlanRecord)
  /\ \A n \in PlanIds : PlanMove(n)
  /\ \/ Len(plans') = Len(plans)
     \/ Len(plans') = Len(plans) + 1 /\ NewPlan(plans'[Len(plans')])

Moves == JobsMove /\ WorkersMove /\ IntakesMove /\ PlansMove

LEMMA JobsAlone == ASSUME TypeInv, UNCHANGED jobs PROVE JobsMove
BY Tables DEF TypeInv, QueueTypes, JobsMove, JobMove, Kept, NewIds

LEMMA PlansAlone == ASSUME TypeInv, UNCHANGED plans PROVE PlansMove
BY Tables DEF TypeInv, QueueTypes, PlansMove, PlanMove

LEMMA WorkersAlone == ASSUME TypeInv, UNCHANGED worker PROVE WorkersMove
BY DEF TypeInv, WorkerTypes, WorkersMove, WorkerMove

LEMMA IntakesAlone == ASSUME TypeInv, UNCHANGED <<automation, intake>> PROVE IntakesMove
BY DEF TypeInv, QueueTypes, IntakesMove, IntakeMove

\* One row of jobs, of workers or of plans changes.
LEMMA JobUpdate ==
  ASSUME TypeInv, NEW j \in JobIds, NEW e \in JobRecord, jobs' = [jobs EXCEPT ![j] = e], JobMove(j)
  PROVE  JobsMove
<1>1. /\ Len(jobs) \in Nat /\ jobs' \in Seq(JobRecord) /\ Len(jobs') = Len(jobs)
      /\ \A k \in JobIds : k # j => jobs'[k] = jobs[k]
  BY Tables, ExceptSeq DEF TypeInv, QueueTypes, JobIds
<1> QED
  BY <1>1 DEF JobsMove, JobMove, Kept, NewIds

LEMMA JobAppend ==
  ASSUME TypeInv, NEW i \in Intakes, NEW p \in Providers, jobs' = Append(jobs, NewJob(i, p))
  PROVE  JobsMove /\ NewIds = {Len(jobs')} /\ jobs'[Len(jobs')].intake = i
<1>1. /\ Len(jobs) \in Nat /\ jobs \in Seq(JobRecord)
      /\ NewJob(i, p) \in JobRecord
  BY Tables DEF TypeInv, QueueTypes, NewJob, JobRecord, Live
<1>2. /\ jobs' \in Seq(JobRecord) /\ Len(jobs') = Len(jobs) + 1
      /\ \A k \in JobIds : jobs'[k] = jobs[k]
      /\ jobs'[Len(jobs')] = NewJob(i, p)
  BY <1>1 DEF JobIds
<1>3. NewIds = {Len(jobs')}
  BY <1>1, <1>2 DEF NewIds
<1>4. \A k \in JobIds : JobMove(k)
  BY <1>2 DEF JobMove, Kept
<1>5. \A k \in NewIds : jobs'[k].status = "queued" /\ jobs'[k].attempt = 0
  BY <1>2, <1>3 DEF NewJob
<1>6. Len(jobs) <= Len(jobs')
  BY <1>1, <1>2
<1>7. jobs'[Len(jobs')].intake = i
  BY <1>2 DEF NewJob
<1> QED
  BY <1>2, <1>3, <1>4, <1>5, <1>6, <1>7 DEF JobsMove

LEMMA WorkerUpdate ==
  ASSUME TypeInv, NEW w \in Workers, NEW e \in WorkerRecord, worker' = [worker EXCEPT ![w] = e],
         WorkerMove(w)
  PROVE  WorkersMove
BY DEF TypeInv, WorkerTypes, WorkersMove, WorkerMove

LEMMA PlanUpdate ==
  ASSUME TypeInv, NEW n \in PlanIds, NEW e \in PlanRecord, plans' = [plans EXCEPT ![n] = e],
         PlanMove(n)
  PROVE  PlansMove
<1>1. /\ Len(plans) \in Nat /\ plans' \in Seq(PlanRecord) /\ Len(plans') = Len(plans)
      /\ \A k \in PlanIds : k # n => plans'[k] = plans[k]
  BY Tables, ExceptSeq DEF TypeInv, QueueTypes, PlanIds
<1> QED
  BY <1>1 DEF PlansMove, PlanMove

-----------------------------------------------------------------------------
(* What a step may do to sessions.                                         *)

\* A session of the list t that provider p opened.
Opened(s, p, t) == s \in 1..Len(t) /\ t[s] = p

\* What a row, and what a run of a worker or of the discussion, knows of the
\* sessions: it resumes only what its provider opened, it has no session
\* before the CLI succeeded, and it never resumes after it found one lost.
RowSound(row, t) == row.cli # None => Opened(row.cli, row.provider, t)
RunSound(run, p, t) ==
  /\ run.prior # None => Opened(run.prior, p, t)
  /\ run.session # None => Opened(run.session, p, t)
  /\ run.dead # None => run.dead \in 1..Len(t) /\ run.prior = None
  /\ run.session # None => run.session # run.dead
  /\ run.pc \in {"idle", "load", "starting", "running", "stale"} => run.session = None
  /\ run.pc \in {"idle", "load"} => run.prior = None /\ run.dead = None

SessionsInv ==
  /\ \A r \in Rows : RowSound(rows[r], threads)
  /\ \A w \in Workers : RunSound(worker[w], Job(w).provider, threads)
  /\ RunSound(talk, talk.provider, threads)

ThreadsMove ==
  /\ threads' \in Seq(Providers) /\ Len(threads) <= Len(threads')
  /\ \A s \in 1..Len(threads) : threads'[s] = threads[s]
RowsMove ==
  /\ rows' \in [Rows -> RowRecord]
  /\ \A r \in Rows :
       \/ rows'[r].cli = rows[r].cli /\ rows'[r].provider = rows[r].provider
       \/ RowSound(rows'[r], threads')
TalkMove == talk' \in TalkRecord /\ (talk' = talk \/ RunSound(talk', talk'.provider, threads'))
RunMove(w) ==
  \/ worker'[w] = worker[w]
  \/ /\ worker[w].pc # "idle" /\ worker'[w].job = worker[w].job
     /\ RunSound(worker'[w], Job(w).provider, threads')
  \/ worker'[w].prior = None /\ worker'[w].dead = None /\ worker'[w].session = None
RunsMove == \A w \in Workers : RunMove(w)

SessionsMove == ThreadsMove /\ RowsMove /\ TalkMove /\ RunsMove

LEMMA SessionsAlone ==
  ASSUME TypeInv, UNCHANGED <<rows, threads>>
  PROVE  ThreadsMove /\ RowsMove
BY Tables DEF TypeInv, SessionTypes, ThreadsMove, RowsMove

LEMMA TalkAlone == ASSUME TypeInv, UNCHANGED talk PROVE TalkMove
BY DEF TypeInv, SessionTypes, TalkMove

LEMMA RunsAlone == ASSUME UNCHANGED worker PROVE RunsMove
BY DEF RunsMove, RunMove

\* What was sound stays sound as sessions are opened.
LEMMA StillSound ==
  ASSUME TypeInv, ThreadsMove
  PROVE  /\ \A row : RowSound(row, threads) => RowSound(row, threads')
         /\ \A run, p : RunSound(run, p, threads) => RunSound(run, p, threads')
<1>1. \A s, p : Opened(s, p, threads) => Opened(s, p, threads')
  BY Tables DEF ThreadsMove, Opened
<1>2. \A s : s \in 1..Len(threads) => s \in 1..Len(threads')
  BY Tables DEF ThreadsMove
<1>3. \A row : RowSound(row, threads) => RowSound(row, threads')
  BY <1>1 DEF RowSound
<1>4. \A run, p : RunSound(run, p, threads) => RunSound(run, p, threads')
  BY <1>1, <1>2 DEF RunSound
<1> QED
  BY <1>3, <1>4

\* A step that moves this way keeps the types and the soundness of sessions.
LEMMA MovesTyped ==
  ASSUME TypeInv, Moves, SessionsMove
  PROVE  TypeInv'
<1>1. QueueTypes'
  BY DEF Moves, JobsMove, IntakesMove, PlansMove, QueueTypes
<1>2. SessionTypes'
  BY DEF SessionsMove, ThreadsMove, RowsMove, TalkMove, SessionTypes
<1>3. JobIds \subseteq JobIds'
  BY Tables DEF Moves, JobsMove, JobIds
<1>4. ASSUME NEW w \in Workers, worker'[w].pc # "idle"
      PROVE  worker'[w].job \in JobIds'
  BY <1>3, <1>4 DEF Moves, WorkersMove, WorkerMove, TypeInv, WorkerTypes
<1>5. WorkerTypes'
  BY <1>4 DEF Moves, WorkersMove, WorkerTypes
<1> QED
  BY <1>1, <1>2, <1>5 DEF TypeInv

LEMMA MovesSound ==
  ASSUME TypeInv, SessionsInv, Moves, SessionsMove
  PROVE  SessionsInv'
<1>1. \A r \in Rows : RowSound(rows'[r], threads')
  <2> SUFFICES ASSUME NEW r \in Rows PROVE RowSound(rows'[r], threads')
    OBVIOUS
  <2>1. RowSound(rows[r], threads')
    BY StillSound DEF SessionsMove, SessionsInv
  <2> QED
    BY <2>1 DEF SessionsMove, RowsMove, RowSound
<1>2. RunSound(talk', talk'.provider, threads')
  BY StillSound DEF SessionsMove, SessionsInv, TalkMove
<1>3. ASSUME NEW w \in Workers
      PROVE  RunSound(worker'[w], jobs'[worker'[w].job].provider, threads')
  <2>1. RunSound(worker[w], Job(w).provider, threads')
    BY StillSound DEF SessionsMove, SessionsInv
  <2>2. worker[w].pc # "idle" => jobs'[worker[w].job].provider = Job(w).provider
    BY DEF TypeInv, WorkerTypes, Moves, JobsMove, JobMove, Job
  <2>3. CASE worker'[w] = worker[w] /\ worker[w].pc # "idle"
    BY <2>1, <2>2, <2>3
  <2>4. CASE worker'[w] = worker[w] /\ worker[w].pc = "idle"
    BY <2>1, <2>4 DEF RunSound
  <2>5. CASE /\ worker[w].pc # "idle" /\ worker'[w].job = worker[w].job
             /\ RunSound(worker'[w], Job(w).provider, threads')
    BY <2>2, <2>5
  <2>6. CASE worker'[w].prior = None /\ worker'[w].dead = None /\ worker'[w].session = None
    BY <2>6 DEF RunSound
  <2> QED
    BY <2>3, <2>4, <2>5, <2>6 DEF SessionsMove, RunsMove, RunMove
<1> QED
  BY <1>1, <1>2, <1>3 DEF SessionsInv, Job

-----------------------------------------------------------------------------
(* One worker moves.                                                       *)

LEMMA Busy ==
  ASSUME TypeInv, NEW w \in Workers, worker[w].pc # "idle"
  PROVE  /\ worker[w] \in WorkerRecord /\ worker[w].job \in JobIds
         /\ Job(w) \in JobRecord /\ Job(w).intake \in Intakes /\ Job(w).provider \in Providers
<1>1. worker[w] \in WorkerRecord /\ worker[w].job \in JobIds
  BY DEF TypeInv, WorkerTypes
<1>2. Job(w) \in JobRecord
  BY <1>1, Tables DEF Job
<1> QED
  BY <1>1, <1>2 DEF JobRecord

\* It goes on with its job.
LEMMA WorkerGoes ==
  ASSUME TypeInv, NEW w \in Workers, NEW e \in WorkerRecord, worker[w].pc # "idle",
         worker' = [worker EXCEPT ![w] = e],
         e.pc # "idle", e.job = worker[w].job, e.attempt = worker[w].attempt,
         \/ e.pc \notin Saved \/ worker[w].pc \in Saved
         \/ intake'[Job(w).intake] # "planning",
         RunSound(e, Job(w).provider, threads')
  PROVE  WorkersMove /\ RunsMove
<1>1. worker'[w] = e /\ \A v \in Workers : v # w => worker'[v] = worker[v]
  BY DEF TypeInv, WorkerTypes
<1>2. WorkerMove(w)
  BY <1>1 DEF WorkerMove
<1>3. RunsMove
  BY <1>1 DEF RunsMove, RunMove
<1> QED
  BY <1>2, <1>3, WorkerUpdate

\* It is done with it.
LEMMA WorkerRests ==
  ASSUME TypeInv, NEW w \in Workers, worker' = [worker EXCEPT ![w] = Idle]
  PROVE  WorkersMove /\ RunsMove
<1>1. worker'[w] = Idle /\ \A v \in Workers : v # w => worker'[v] = worker[v]
  BY DEF TypeInv, WorkerTypes
<1>2. WorkerMove(w)
  BY <1>1 DEF WorkerMove, Idle
<1>3. RunsMove
  BY <1>1 DEF RunsMove, RunMove, Idle
<1>4. Idle \in WorkerRecord
  BY DEF Idle, WorkerRecord, Id
<1> QED
  BY <1>2, <1>3, <1>4, WorkerUpdate

\* The record of its run changes.
LEMMA RunRecorded ==
  ASSUME TypeInv, NEW w \in Workers, worker[w].pc # "idle",
         NEW phase \in {"none", "starting", "running"}, jobs' = Run(w, phase)
  PROVE  JobsMove
<1> DEFINE j == worker[w].job
           e == [jobs[j] EXCEPT !.run = IF Owns(w) THEN phase ELSE @]
<1>1. j \in JobIds /\ jobs[j] \in JobRecord
  BY Busy DEF Job
<1>2. jobs' = [jobs EXCEPT ![j] = e]
  BY DEF Run
<1>3. e \in JobRecord /\ jobs'[j] = e
  BY <1>1, <1>2, Tables DEF JobRecord
<1>4. JobMove(j)
  BY <1>1, <1>3 DEF JobMove, Kept, JobRecord
<1> HIDE DEF j, e
<1> QED
  BY <1>1, <1>2, <1>3, <1>4, JobUpdate

LEMMA GivesUp ==
  ASSUME TypeInv, SessionsInv, NEW w \in Workers, worker[w].pc # "idle",
         NEW retry \in BOOLEAN, GiveUp(w, retry), UNCHANGED threads
  PROVE  JobsMove /\ WorkersMove /\ RunsMove
<1> DEFINE e == [worker[w] EXCEPT !.pc = "fail", !.retry = retry]
<1>1. worker' = [worker EXCEPT ![w] = e] /\ jobs' = Run(w, "none")
  BY DEF GiveUp, finishRun
<1>2. /\ e \in WorkerRecord /\ e.pc = "fail" /\ e.job = worker[w].job /\ e.attempt = worker[w].attempt
      /\ e.prior = worker[w].prior /\ e.dead = worker[w].dead /\ e.session = worker[w].session
  BY Busy DEF WorkerRecord
<1> HIDE DEF e
<1>3. RunSound(e, Job(w).provider, threads')
  BY <1>2 DEF SessionsInv, RunSound
<1>4. WorkersMove /\ RunsMove
  BY <1>1, <1>2, <1>3, WorkerGoes DEF Saved
<1> QED
  BY <1>1, <1>4, RunRecorded

-----------------------------------------------------------------------------
(* Requests, the switch and the plans.                                     *)

LEMMA Inserted ==
  ASSUME TypeInv, NEW i \in Intakes, NEW queuePlan \in BOOLEAN, NEW p \in Providers,
         InsertIntake(i, queuePlan, p), UNCHANGED automation
  PROVE  JobsMove /\ IntakesMove
<1>1. intake' \in [Intakes -> IntakeStatuses] /\ automation' \in BOOLEAN
  BY DEF TypeInv, QueueTypes, InsertIntake, IntakeStatuses
<1>2. CASE queuePlan
  <2>1. jobs' = Append(jobs, NewJob(i, p))
    BY <1>2 DEF InsertIntake
  <2>2. JobsMove /\ NewIds = {Len(jobs')} /\ jobs'[Len(jobs')].intake = i
    BY <2>1, JobAppend
  <2>3. \A k \in Intakes : IntakeMove(k)
    BY <2>2 DEF IntakeMove, InsertIntake, TypeInv, QueueTypes
  <2> QED
    BY <1>1, <2>2, <2>3 DEF IntakesMove
<1>3. CASE ~queuePlan
  <2>1. jobs' = jobs
    BY <1>3 DEF InsertIntake
  <2>2. \A k \in Intakes : IntakeMove(k)
    BY <1>3 DEF IntakeMove, InsertIntake, TypeInv, QueueTypes
  <2> QED
    BY <1>1, <2>1, <2>2, JobsAlone DEF IntakesMove
<1> QED
  BY <1>2, <1>3

\* A session is opened.
LEMMA ThreadOpened ==
  ASSUME TypeInv, NEW p \in Providers, threads' = Append(threads, p)
  PROVE  /\ ThreadsMove /\ Len(threads') = Len(threads) + 1 /\ Len(threads') \in Nat
         /\ Opened(Len(threads'), p, threads')
BY Tables DEF TypeInv, SessionTypes, ThreadsMove, Opened

LEMMA RowWritten ==
  ASSUME TypeInv, NEW r, NEW row \in RowRecord, rows' = [rows EXCEPT ![r] = row],
         RowSound(row, threads')
  PROVE  RowsMove
<1>1. rows' \in [Rows -> RowRecord] /\ \A q \in Rows : rows'[q] = rows[q] \/ rows'[q] = row
  BY DEF TypeInv, SessionTypes
<1> QED
  BY <1>1 DEF RowsMove

LEMMA CreateIntakeMoves ==
  ASSUME TypeInv, NEW p \in Providers, CreateIntake(p)
  PROVE  Moves /\ SessionsMove
<1>1. Requirement \in Intakes
  BY DEF Intakes
<1>2. \A q \in AutomationRead : q \in BOOLEAN
  BY DEF AutomationRead, TypeInv, QueueTypes
<1>3. PICK q \in BOOLEAN : InsertIntake(Requirement, q, p)
  BY <1>2 DEF CreateIntake
<1>4. UNCHANGED <<automation, plans, worker, talk>>
  BY DEF CreateIntake
<1>5. JobsMove /\ IntakesMove
  BY <1>1, <1>3, <1>4, Inserted
<1>6. ThreadsMove /\ RowsMove
  <2>1. CASE UNCHANGED <<rows, threads>>
    BY <2>1, SessionsAlone
  <2>2. ASSUME NEW h \in Providers, threads' = Append(threads, h),
               rows' = [rows EXCEPT ![<<"requirement", Requirement>>] =
                          [provider |-> h, cli |-> Len(threads'), status |-> "active"]]
        PROVE  ThreadsMove /\ RowsMove
    <3> DEFINE row == [provider |-> h, cli |-> Len(threads'), status |-> "active"]
               r == <<"requirement", Requirement>>
    <3>1. ThreadsMove /\ Len(threads') \in Nat /\ Opened(Len(threads'), h, threads')
      BY <2>2, ThreadOpened
    <3>2. row \in RowRecord /\ row.cli = Len(threads') /\ row.provider = h
      BY <3>1 DEF RowRecord, Id
    <3>3. rows' = [rows EXCEPT ![r] = row]
      BY <2>2
    <3> HIDE DEF row, r
    <3>4. RowSound(row, threads')
      BY <3>1, <3>2 DEF RowSound
    <3> QED
      BY <3>1, <3>2, <3>3, <3>4, RowWritten
  <2> QED
    BY <2>1, <2>2 DEF CreateIntake
<1> QED
  BY <1>4, <1>5, <1>6, PlansAlone, WorkersAlone, TalkAlone, RunsAlone DEF Moves, SessionsMove

LEMMA QueuePlanGenerationMoves ==
  ASSUME TypeInv, NEW p \in Providers, NEW i \in Intakes, QueuePlanGeneration(i, p)
  PROVE  Moves /\ SessionsMove
<1>1. JobsMove /\ NewIds = {Len(jobs')} /\ jobs'[Len(jobs')].intake = i
  BY JobAppend DEF QueuePlanGeneration
<1>2. /\ UNCHANGED <<automation, plans, rows, threads, worker, talk>>
      /\ intake' = [intake EXCEPT ![i] = "planning"]
  BY DEF QueuePlanGeneration, sessionVars
<1>3. IntakesMove
  BY <1>1, <1>2 DEF IntakesMove, IntakeMove, TypeInv, QueueTypes, IntakeStatuses
<1> QED
  BY <1>1, <1>2, <1>3, PlansAlone, WorkersAlone, SessionsAlone, TalkAlone, RunsAlone
     DEF Moves, SessionsMove

LEMMA UpdateIntakeMoves ==
  ASSUME TypeInv, NEW i \in Intakes, NEW status \in {"open", "closed"}, UpdateIntake(i, status)
  PROVE  Moves /\ SessionsMove
<1>1. /\ UNCHANGED <<automation, jobs, plans, rows, threads, worker, talk>>
      /\ intake' = [intake EXCEPT ![i] = status]
  BY DEF UpdateIntake, sessionVars
<1>2. IntakesMove
  BY <1>1 DEF IntakesMove, IntakeMove, TypeInv, QueueTypes, IntakeStatuses
<1> QED
  BY <1>1, <1>2, JobsAlone, PlansAlone, WorkersAlone, SessionsAlone, TalkAlone, RunsAlone
     DEF Moves, SessionsMove

LEMMA PlanChanged ==
  ASSUME NEW p \in PlanRecord, NEW status \in {"ready", "running", "completed"}, NEW tasks \in Int
  PROVE  [p EXCEPT !.status = status, !.tasks = tasks] \in PlanRecord
BY DEF PlanRecord

LEMMA JobStopped ==
  ASSUME NEW job \in JobRecord
  PROVE  [job EXCEPT !.status = "cancelled", !.run = "none"] \in JobRecord
BY DEF JobRecord, Terminal

\* A feedback, a session lost, or nothing.
LEMMA NothingMoves ==
  ASSUME TypeInv, UNCHANGED <<automation, intake, jobs, plans, rows, threads, worker, talk>>
  PROVE  Moves /\ SessionsMove
BY JobsAlone, IntakesAlone, PlansAlone, WorkersAlone, SessionsAlone, TalkAlone, RunsAlone
   DEF Moves, SessionsMove

\* Every live job is cancelled, and its intake is not being planned any more.
LEMMA DisableAutomationMoves ==
  ASSUME TypeInv, DisableAutomation
  PROVE  Moves /\ SessionsMove
<1> DEFINE J(j) == IF jobs[j].status \in Live
                   THEN [jobs[j] EXCEPT !.status = "cancelled", !.run = "none"] ELSE jobs[j]
           P(n) == IF plans[n].status = "running"
                   THEN [plans[n] EXCEPT !.status = "ready", !.tasks = 0] ELSE plans[n]
<1>1. /\ jobs' = [j \in JobIds |-> J(j)] /\ plans' = [n \in PlanIds |-> P(n)]
      /\ automation' = FALSE
      /\ intake' = [i \in Intakes |-> IF i \in Reopened THEN "open" ELSE intake[i]]
      /\ UNCHANGED <<rows, threads, worker, talk>>
  BY DEF DisableAutomation, sessionVars
<1>2. /\ \A j \in JobIds : J(j) \in JobRecord
      /\ \A n \in PlanIds : P(n) \in PlanRecord
  <2>1. \A j \in JobIds : J(j) \in JobRecord
    BY Tables, JobStopped
  <2>2. ASSUME NEW n \in PlanIds PROVE P(n) \in PlanRecord
    <3>1. plans[n] \in PlanRecord
      BY Tables
    <3>2. 0 \in Int
      OBVIOUS
    <3>3. [plans[n] EXCEPT !.status = "ready", !.tasks = 0] \in PlanRecord
      BY <3>1, <3>2, PlanChanged, Zenon
    <3> QED
      BY <3>1, <3>3
  <2> QED
    BY <2>1, <2>2
<1>3. JobsMove
  <2>1. jobs' \in [1..Len(jobs) -> JobRecord] /\ Len(jobs) \in Nat
    BY <1>1, <1>2, Tables DEF JobIds
  <2>2. jobs' \in Seq(JobRecord) /\ Len(jobs') = Len(jobs)
    BY <2>1, FunctionSeq
  <2>3. ASSUME NEW j \in JobIds PROVE JobMove(j)
    <3>1. jobs'[j] = J(j) /\ jobs[j] \in JobRecord
      BY <1>1, Tables
    <3>2. CASE jobs[j].status \in Live
      <4>1. jobs[j].intake \in IntakesOfLiveJobs
        BY <3>2 DEF IntakesOfLiveJobs
      <4>2. intake'[jobs[j].intake] # "planning"
        BY <1>1, <3>1, <4>1 DEF Reopened, JobRecord
      <4>3. /\ jobs'[j].status = "cancelled" /\ jobs'[j].attempt = jobs[j].attempt
            /\ jobs'[j].intake = jobs[j].intake /\ jobs'[j].provider = jobs[j].provider
        BY <3>1, <3>2 DEF JobRecord
      <4> QED
        BY <3>2, <4>2, <4>3 DEF JobMove, Stopped
    <3>3. CASE jobs[j].status \notin Live
      BY <3>1, <3>3 DEF JobMove, Kept
    <3> QED
      BY <3>2, <3>3
  <2> QED
    BY <2>1, <2>2, <2>3 DEF JobsMove, NewIds
<1>4. PlansMove
  <2>1. plans' \in [1..Len(plans) -> PlanRecord] /\ Len(plans) \in Nat
    BY <1>1, <1>2, Tables DEF PlanIds
  <2>2. plans' \in Seq(PlanRecord) /\ Len(plans') = Len(plans)
    BY <2>1, FunctionSeq
  <2>3. \A n \in PlanIds : PlanMove(n)
    BY <1>1, Tables DEF PlanMove, PlanRecord
  <2> QED
    BY <2>2, <2>3 DEF PlansMove
<1>5. IntakesMove
  BY <1>1 DEF IntakesMove, IntakeMove, TypeInv, QueueTypes, IntakeStatuses
<1> QED
  BY <1>1, <1>3, <1>4, <1>5, WorkersAlone, SessionsAlone, TalkAlone, RunsAlone
     DEF Moves, SessionsMove

\* Every pending intake gets a job of its own.
LEMMA EnableAutomationMoves ==
  ASSUME TypeInv, EnableAutomation
  PROVE  Moves /\ SessionsMove
<1> DEFINE pending == {i \in Intakes : intake[i] \in {"open", "plan_failed"}}
           m == Cardinality(pending)
           P(n) == IF plans[n].status = "ready" THEN Queued(plans[n]) ELSE plans[n]
<1>1. /\ automation' = TRUE
      /\ intake' = [i \in Intakes |-> IF i \in pending THEN "planning" ELSE intake[i]]
      /\ plans' = [n \in PlanIds |-> P(n)]
      /\ UNCHANGED <<rows, threads, worker, talk>>
  BY DEF EnableAutomation, sessionVars
<1>2. PICK order \in [1..m -> pending] :
        /\ \A i \in pending : \E k \in DOMAIN order : order[k] = i
        /\ jobs' = jobs \o [k \in DOMAIN order |-> NewJob(order[k], DefaultProvider)]
  BY DEF EnableAutomation
<1>3. m \in Nat
  <2>1. IsFiniteSet(Intakes)
    <3>1. IsFiniteSet({} \cup {Requirement})
      BY FS_EmptySet, FS_AddElement
    <3>2. IsFiniteSet(({} \cup {Requirement}) \cup {Revision})
      BY <3>1, FS_AddElement
    <3>3. Intakes = ({} \cup {Requirement}) \cup {Revision}
      BY DEF Intakes
    <3> QED
      BY <3>2, <3>3
  <2>2. pending \subseteq Intakes
    OBVIOUS
  <2> HIDE DEF pending
  <2> QED
    BY <2>1, <2>2, FS_Subset, FS_CardinalityType
<1> DEFINE new == [k \in DOMAIN order |-> NewJob(order[k], DefaultProvider)]
<1>4. DOMAIN order = 1..m /\ \A k \in 1..m : order[k] \in Intakes
  BY <1>2
<1> HIDE DEF m
<1>5. new \in [1..m -> JobRecord]
  BY <1>4, PlanningAssumption DEF NewJob, JobRecord, Live
<1>6. new \in Seq(JobRecord) /\ Len(new) = m
  BY <1>3, <1>5, FunctionSeq
<1>6a. \A k \in 1..m : new[k] = NewJob(order[k], DefaultProvider)
  BY <1>4
<1> HIDE DEF new
<1>7. jobs' = jobs \o new
  BY <1>2 DEF new
<1>8. jobs \in Seq(JobRecord) /\ Len(jobs) \in Nat
  BY Tables DEF TypeInv, QueueTypes
<1>9. /\ jobs' \in Seq(JobRecord) /\ Len(jobs') = Len(jobs) + m
      /\ \A j \in 1..Len(jobs) + m :
           jobs'[j] = IF j <= Len(jobs) THEN jobs[j] ELSE new[j - Len(jobs)]
  BY <1>6, <1>7, <1>8, ConcatProperties
<1>10. NewIds = Len(jobs) + 1 .. Len(jobs) + m
  BY <1>9 DEF NewIds
<1>11. \A j \in JobIds : jobs'[j] = jobs[j]
  BY <1>3, <1>8, <1>9 DEF JobIds
<1>12. \A k \in 1..m : Len(jobs) + k \in NewIds /\ jobs'[Len(jobs) + k] = NewJob(order[k], DefaultProvider)
  BY <1>3, <1>6a, <1>8, <1>9, <1>10
<1>13. \A j \in NewIds : j - Len(jobs) \in 1..m /\ Len(jobs) + (j - Len(jobs)) = j
  BY <1>3, <1>8, <1>10
<1>14. JobsMove
  <2>1. \A j \in NewIds : jobs'[j].status = "queued" /\ jobs'[j].attempt = 0
    <3> SUFFICES ASSUME NEW j \in NewIds PROVE jobs'[j].status = "queued" /\ jobs'[j].attempt = 0
      OBVIOUS
    <3> DEFINE k == j - Len(jobs)
    <3>1. k \in 1..m /\ Len(jobs) + k = j
      BY <1>13
    <3> HIDE DEF k
    <3>2. jobs'[j] = NewJob(order[k], DefaultProvider)
      BY <1>12, <3>1
    <3> QED
      BY <3>2 DEF NewJob
  <2>2. \A j \in JobIds : JobMove(j)
    BY <1>11 DEF JobMove, Kept
  <2>3. Len(jobs) <= Len(jobs')
    BY <1>3, <1>8, <1>9
  <2> QED
    BY <1>9, <2>1, <2>2, <2>3 DEF JobsMove
<1>15. IntakesMove
  <2>1. ASSUME NEW i \in pending PROVE \E j \in NewIds : jobs'[j].intake = i
    <3>1. PICK k \in 1..m : order[k] = i
      BY <1>2, <1>4
    <3> QED
      <4> DEFINE j == Len(jobs) + k
      <4>1. j \in NewIds /\ jobs'[j] = NewJob(order[k], DefaultProvider)
        BY <1>12, <3>1
      <4> HIDE DEF j
      <4> QED
        BY <3>1, <4>1 DEF NewJob
  <2>2. \A i \in Intakes : IntakeMove(i)
    BY <1>1, <2>1 DEF IntakeMove
  <2>3. intake' \in [Intakes -> IntakeStatuses] /\ automation' \in BOOLEAN
    BY <1>1 DEF TypeInv, QueueTypes, IntakeStatuses
  <2> QED
    BY <2>2, <2>3 DEF IntakesMove
<1>16. PlansMove
  <2>1. ASSUME NEW n \in PlanIds PROVE P(n) \in PlanRecord
    <3>1. plans[n] \in PlanRecord /\ plans[n].tasks + 1 \in Int
      BY Tables DEF PlanRecord
    <3> QED
      BY <3>1, PlanChanged DEF Queued
  <2>2. plans' \in [1..Len(plans) -> PlanRecord] /\ Len(plans) \in Nat
    BY <1>1, <2>1, Tables DEF PlanIds
  <2>3. plans' \in Seq(PlanRecord) /\ Len(plans') = Len(plans)
    BY <2>2, FunctionSeq
  <2>4. \A n \in PlanIds : PlanMove(n)
    BY <1>1, Tables DEF PlanMove, PlanRecord, Queued
  <2> QED
    BY <2>3, <2>4 DEF PlansMove
<1> QED
  BY <1>1, <1>14, <1>15, <1>16, WorkersAlone, SessionsAlone, TalkAlone, RunsAlone
     DEF Moves, SessionsMove

LEMMA QueuePlanMoves ==
  ASSUME TypeInv, NEW n \in PlanIds, QueuePlan(n)
  PROVE  Moves /\ SessionsMove
<1> DEFINE e == Queued(plans[n])
<1>1. /\ UNCHANGED <<automation, intake, jobs, rows, threads, worker, talk>>
      /\ plans' = [plans EXCEPT ![n] = e] /\ plans[n].status = "ready" /\ plans[n] \in PlanRecord
  BY Tables DEF QueuePlan, sessionVars
<1>2. e \in PlanRecord /\ plans'[n] = e
  <2>1. plans[n].tasks + 1 \in Int
    BY <1>1 DEF PlanRecord
  <2> QED
    BY <1>1, <2>1, Tables, PlanChanged DEF Queued
<1>3. PlanMove(n)
  BY <1>1, <1>2 DEF PlanMove, PlanRecord, Queued
<1> HIDE DEF e
<1>4. PlansMove
  BY <1>1, <1>2, <1>3, PlanUpdate
<1> QED
  BY <1>1, <1>4, JobsAlone, IntakesAlone, WorkersAlone, SessionsAlone, TalkAlone, RunsAlone
     DEF Moves, SessionsMove

LEMMA FinishPlanMoves ==
  ASSUME TypeInv, NEW n \in PlanIds, FinishPlan(n)
  PROVE  Moves /\ SessionsMove
<1> DEFINE e == [plans[n] EXCEPT !.status = "completed", !.tasks = @ - 1]
<1>1. /\ UNCHANGED <<automation, jobs, rows, threads, worker, talk>>
      /\ plans' = [plans EXCEPT ![n] = e] /\ plans[n].status = "running" /\ plans[n] \in PlanRecord
      /\ intake' = [intake EXCEPT ![plans[n].intake] = IF @ = "planned" THEN "closed" ELSE @]
  BY Tables DEF FinishPlan, sessionVars, PlanRecord
<1>2. e \in PlanRecord /\ plans'[n] = e
  <2>1. plans[n].tasks - 1 \in Int
    BY <1>1 DEF PlanRecord
  <2> QED
    BY <1>1, <2>1, Tables, PlanChanged
<1>3. PlanMove(n)
  BY <1>1, <1>2 DEF PlanMove, PlanRecord
<1> HIDE DEF e
<1>4. PlansMove
  BY <1>1, <1>2, <1>3, PlanUpdate
<1>5. IntakesMove
  BY <1>1 DEF IntakesMove, IntakeMove, TypeInv, QueueTypes, IntakeStatuses
<1> QED
  BY <1>1, <1>4, <1>5, JobsAlone, WorkersAlone, SessionsAlone, TalkAlone, RunsAlone
     DEF Moves, SessionsMove

-----------------------------------------------------------------------------
(* The steps of a worker.                                                  *)

LEMMA ClaimJobMoves ==
  ASSUME TypeInv, NEW w \in Workers, NEW j \in JobIds, ClaimJob(w, j)
  PROVE  Moves /\ SessionsMove
<1> DEFINE e == [jobs[j] EXCEPT !.status = "running", !.worker = w, !.attempt = @ + 1]
           f == [Idle EXCEPT !.pc = "load", !.job = j, !.attempt = jobs[j].attempt + 1]
<1>1. /\ jobs' = [jobs EXCEPT ![j] = e] /\ worker' = [worker EXCEPT ![w] = f]
      /\ worker[w].pc = "idle" /\ jobs[j].status \in {"queued", "retry_wait"}
      /\ UNCHANGED <<automation, intake, plans, rows, threads, talk>>
  BY DEF ClaimJob, At, sessionVars
<1>2. jobs[j] \in JobRecord /\ jobs[j].attempt + 1 \in Nat /\ j \in Id
  BY Tables DEF JobRecord, JobIds, Id
<1>3. e \in JobRecord /\ f \in WorkerRecord
  BY <1>2 DEF JobRecord, WorkerRecord, Idle, Id, Live, Working
<1>4. jobs'[j] = e /\ worker'[w] = f
  BY <1>1, Tables DEF TypeInv, WorkerTypes
<1>5. /\ e.status = "running" /\ e.worker = w /\ e.attempt = jobs[j].attempt + 1
      /\ e.intake = jobs[j].intake /\ e.provider = jobs[j].provider
  BY <1>2 DEF JobRecord
<1>6. /\ f.pc = "load" /\ f.job = j /\ f.attempt = jobs[j].attempt + 1
      /\ f.prior = None /\ f.dead = None /\ f.session = None
  BY DEF Idle
<1> HIDE DEF e, f
<1>7. JobMove(j)
  BY <1>1, <1>4, <1>5, <1>6 DEF JobMove, Claimed
<1>8. WorkerMove(w)
  BY <1>1, <1>4, <1>5, <1>6 DEF WorkerMove
<1>9. RunsMove
  BY <1>1, <1>4, <1>6 DEF RunsMove, RunMove, TypeInv, WorkerTypes
<1>10. JobsMove /\ WorkersMove
  BY <1>1, <1>3, <1>7, <1>8, JobUpdate, WorkerUpdate
<1> QED
  BY <1>1, <1>9, <1>10, IntakesAlone, PlansAlone, SessionsAlone, TalkAlone
     DEF Moves, SessionsMove

LEMMA LoadMoves ==
  ASSUME TypeInv, SessionsInv, NEW w \in Workers, Load(w)
  PROVE  Moves /\ SessionsMove
<1>1. worker[w].pc = "load" /\ UNCHANGED <<automation, intake, plans, rows, threads, talk>>
  BY DEF Load, At, sessionVars
<1>2. CASE GiveUp(w, FALSE)
  BY <1>1, <1>2, GivesUp, IntakesAlone, PlansAlone, SessionsAlone, TalkAlone
     DEF Moves, SessionsMove
<1>3. ASSUME NEW r, r = Selected(PlanSessions(Job(w).intake), Job(w).provider),
             worker' = [worker EXCEPT ![w].pc = "starting", ![w].row = r,
                          ![w].prior = IF r = None THEN None ELSE rows[r].cli],
             jobs' = Run(w, "starting")
      PROVE  Moves /\ SessionsMove
  <2> DEFINE prior == IF r = None THEN None ELSE rows[r].cli
             e == [worker[w] EXCEPT !.pc = "starting", !.row = r, !.prior = prior]
  <2>1. worker' = [worker EXCEPT ![w] = e]
    BY <1>3
  <2>2. r # None => /\ r \in Rows /\ rows[r] \in RowRecord /\ rows[r].provider = Job(w).provider
                    /\ RowSound(rows[r], threads)
    BY <1>3, SelectedRow, PlanSessionsDomain DEF TypeInv, SessionTypes, SessionsInv
  <2>3. r \in Rows \cup {None} /\ prior \in Id
    BY <2>2 DEF RowRecord, Id
  <2>4. prior # None => Opened(prior, Job(w).provider, threads)
    BY <2>2 DEF RowSound
  <2> HIDE DEF prior
  <2>5. /\ e \in WorkerRecord /\ e.pc = "starting" /\ e.job = worker[w].job
        /\ e.attempt = worker[w].attempt /\ e.prior = prior
        /\ e.dead = worker[w].dead /\ e.session = worker[w].session
    BY <1>1, <2>3, Busy DEF WorkerRecord, Working
  <2>6. worker[w].dead = None /\ worker[w].session = None
    BY <1>1 DEF SessionsInv, RunSound
  <2> HIDE DEF e
  <2>7. RunSound(e, Job(w).provider, threads')
    BY <1>1, <2>4, <2>5, <2>6 DEF RunSound
  <2>8. WorkersMove /\ RunsMove
    BY <1>1, <2>1, <2>5, <2>7, WorkerGoes DEF Saved
  <2>9. JobsMove
    BY <1>1, <1>3, RunRecorded
  <2> QED
    BY <1>1, <2>8, <2>9, IntakesAlone, PlansAlone, SessionsAlone, TalkAlone
       DEF Moves, SessionsMove
<1> QED
  BY <1>2, <1>3 DEF Load

\* The worker only moves on: its pc changes and nothing else it holds.
LEMMA OnlyGoes ==
  ASSUME TypeInv, SessionsInv, ThreadsMove, NEW w \in Workers,
         NEW pc \in Working \cup {"complete"}, worker[w].pc # "idle", Go(w, pc),
         pc \notin Saved \/ worker[w].pc \in Saved,
         pc \in {"load", "starting", "running", "stale"} => worker[w].pc \in {"starting", "running"},
         pc # "load"
  PROVE  WorkersMove /\ RunsMove
<1> DEFINE e == [worker[w] EXCEPT !.pc = pc]
<1>1. worker' = [worker EXCEPT ![w] = e]
  BY DEF Go
<1>2. /\ e \in WorkerRecord /\ e.pc = pc /\ e.job = worker[w].job /\ e.attempt = worker[w].attempt
      /\ e.prior = worker[w].prior /\ e.dead = worker[w].dead /\ e.session = worker[w].session
  BY Busy DEF WorkerRecord
<1>3. pc # "idle"
  BY DEF Working
<1> HIDE DEF e
<1>4. RunSound(worker[w], Job(w).provider, threads')
  BY StillSound DEF SessionsInv
<1>5. RunSound(e, Job(w).provider, threads')
  BY <1>2, <1>3, <1>4 DEF RunSound
<1> QED
  BY <1>1, <1>2, <1>3, <1>5, WorkerGoes

LEMMA StartCLIMoves ==
  ASSUME TypeInv, SessionsInv, NEW w \in Workers, StartCLI(w)
  PROVE  Moves /\ SessionsMove
<1>1. /\ worker[w].pc = "starting" /\ Go(w, "running") /\ jobs' = Run(w, "running")
      /\ UNCHANGED <<automation, intake, plans, rows, threads, talk>>
  BY DEF StartCLI, At, sessionVars
<1>2. WorkersMove /\ RunsMove
  BY <1>1, SessionsAlone, OnlyGoes DEF Working, Saved
<1> QED
  BY <1>1, <1>2, RunRecorded, IntakesAlone, PlansAlone, SessionsAlone, TalkAlone
     DEF Moves, SessionsMove

\* What the effective session of a run can be.
LEMMA EffectiveSession ==
  ASSUME TypeInv, NEW p \in Providers, NEW run, RunSound(run, p, threads), run.pc = "running",
         NEW s, EffectiveSessionID(p, Fallback(run), s)
  PROVE  /\ ThreadsMove /\ s \in Id
         /\ s # None => Opened(s, p, threads') /\ s # run.dead
<1>1. CASE s = run.prior /\ UNCHANGED threads
  <2>1. ThreadsMove
    BY <1>1, Tables DEF TypeInv, SessionTypes, ThreadsMove
  <2> QED
    BY <1>1, <2>1, Tables DEF RunSound, Opened, Id
<1>2. CASE threads' = Append(threads, p) /\ s = Len(threads')
  <2>1. /\ ThreadsMove /\ Len(threads') = Len(threads) + 1 /\ Len(threads') \in Nat
        /\ Opened(s, p, threads') /\ Len(threads) \in Nat
    BY <1>2, ThreadOpened, Tables
  <2>2. s \notin 1..Len(threads)
    BY <1>2, <2>1
  <2>3. s # None => s # run.dead
    BY <2>2 DEF RunSound
  <2> QED
    BY <1>2, <2>1, <2>3 DEF Id
<1> QED
  BY <1>1, <1>2 DEF EffectiveSessionID, Fallback

LEMMA RunSucceedsMoves ==
  ASSUME TypeInv, SessionsInv, NEW w \in Workers, RunSucceeds(w)
  PROVE  Moves /\ SessionsMove
<1>1. /\ worker[w].pc = "running"
      /\ UNCHANGED <<automation, intake, jobs, plans, rows, talk>>
  BY DEF RunSucceeds, At
<1>2. PICK s : /\ EffectiveSessionID(Job(w).provider, Fallback(worker[w]), s)
               /\ worker' = [worker EXCEPT ![w].pc = "save", ![w].session = s]
  BY DEF RunSucceeds
<1>3. RunSound(worker[w], Job(w).provider, threads) /\ Job(w).provider \in Providers
  BY <1>1, Busy DEF SessionsInv
<1>4. /\ ThreadsMove /\ s \in Id
      /\ s # None => Opened(s, Job(w).provider, threads') /\ s # worker[w].dead
  BY <1>1, <1>2, <1>3, EffectiveSession
<1> DEFINE e == [worker[w] EXCEPT !.pc = "save", !.session = s]
<1>5. worker' = [worker EXCEPT ![w] = e]
  BY <1>2
<1>6. /\ e \in WorkerRecord /\ e.pc = "save" /\ e.job = worker[w].job /\ e.attempt = worker[w].attempt
      /\ e.prior = worker[w].prior /\ e.dead = worker[w].dead /\ e.session = s
  BY <1>1, <1>4, Busy DEF WorkerRecord, Working
<1> HIDE DEF e
<1>7. RunSound(worker[w], Job(w).provider, threads')
  BY <1>3, <1>4, StillSound
<1>8. RunSound(e, Job(w).provider, threads')
  BY <1>4, <1>6, <1>7 DEF RunSound
<1>9. WorkersMove /\ RunsMove
  BY <1>1, <1>5, <1>6, <1>8, WorkerGoes DEF Saved
<1>10. RowsMove
  BY <1>1 DEF RowsMove, TypeInv, SessionTypes
<1> QED
  BY <1>1, <1>4, <1>9, <1>10, JobsAlone, IntakesAlone, PlansAlone, TalkAlone
     DEF Moves, SessionsMove

LEMMA RunFailsMoves ==
  ASSUME TypeInv, SessionsInv, NEW w \in Workers, RunFails(w)
  PROVE  Moves /\ SessionsMove
<1>1. worker[w].pc = "running" /\ UNCHANGED <<automation, intake, plans, rows, threads, talk>>
  BY DEF RunFails, At, sessionVars
<1>2. PICK retry \in BOOLEAN : GiveUp(w, retry)
  BY DEF RunFails
<1> QED
  BY <1>1, <1>2, GivesUp, IntakesAlone, PlansAlone, SessionsAlone, TalkAlone
     DEF Moves, SessionsMove

LEMMA SessionUnavailableMoves ==
  ASSUME TypeInv, SessionsInv, NEW w \in Workers, SessionUnavailable(w)
  PROVE  Moves /\ SessionsMove
<1>1. /\ worker[w].pc = "running" /\ Go(w, "stale") /\ jobs' = Run(w, "none")
      /\ UNCHANGED <<automation, intake, plans, rows, threads, talk>>
  BY DEF SessionUnavailable, At, finishRun, sessionVars
<1>2. WorkersMove /\ RunsMove
  BY <1>1, SessionsAlone, OnlyGoes DEF Working, Saved
<1> QED
  BY <1>1, <1>2, RunRecorded, IntakesAlone, PlansAlone, SessionsAlone, TalkAlone
     DEF Moves, SessionsMove

LEMMA MarkedStale ==
  ASSUME TypeInv, NEW r, MarkAgentSessionStale(r), UNCHANGED threads
  PROVE  ThreadsMove /\ RowsMove
<1>1. rows' = [rows EXCEPT ![r] = [rows[r] EXCEPT !.status = IF @ = "active" THEN "stale" ELSE @]]
  BY DEF MarkAgentSessionStale
<1>2. CASE r \in Rows
  <2> DEFINE e == [rows[r] EXCEPT !.status = IF @ = "active" THEN "stale" ELSE @]
  <2>1. rows[r] \in RowRecord
    BY <1>2 DEF TypeInv, SessionTypes
  <2>2. e \in RowRecord /\ e.cli = rows[r].cli /\ e.provider = rows[r].provider
    BY <2>1 DEF RowRecord
  <2>3. rows' = [rows EXCEPT ![r] = e]
    BY <1>1
  <2> HIDE DEF e
  <2>4. rows' \in [Rows -> RowRecord] /\ \A q \in Rows : rows'[q] = IF q = r THEN e ELSE rows[q]
    BY <1>2, <2>2, <2>3 DEF TypeInv, SessionTypes
  <2> QED
    BY <2>2, <2>4, Tables DEF RowsMove, ThreadsMove, TypeInv, SessionTypes
<1>3. CASE r \notin Rows
  <2>1. rows' \in [Rows -> RowRecord] /\ \A q \in Rows : rows'[q] = rows[q]
    BY <1>1, <1>3 DEF TypeInv, SessionTypes
  <2> QED
    BY <2>1, Tables DEF RowsMove, ThreadsMove, TypeInv, SessionTypes
<1> QED
  BY <1>2, <1>3

LEMMA RestoreFromSnapshotMoves ==
  ASSUME TypeInv, SessionsInv, NEW w \in Workers, RestoreFromSnapshot(w)
  PROVE  Moves /\ SessionsMove
<1> DEFINE e == [worker[w] EXCEPT !.pc = "starting", !.prior = None, !.dead = worker[w].prior]
<1>1. /\ worker[w].pc = "stale" /\ MarkAgentSessionStale(worker[w].row)
      /\ worker' = [worker EXCEPT ![w] = e] /\ jobs' = Run(w, "starting")
      /\ UNCHANGED <<automation, intake, plans, threads, talk>>
  BY DEF RestoreFromSnapshot, At, Forget
<1>2. /\ e \in WorkerRecord /\ e.pc = "starting" /\ e.job = worker[w].job
      /\ e.attempt = worker[w].attempt
      /\ e.prior = None /\ e.dead = worker[w].prior /\ e.session = worker[w].session
  BY <1>1, Busy DEF WorkerRecord, Working, Id
<1> HIDE DEF e
<1>3. RunSound(e, Job(w).provider, threads')
  BY <1>1, <1>2 DEF SessionsInv, RunSound, Opened
<1>4. WorkersMove /\ RunsMove
  BY <1>1, <1>2, <1>3, WorkerGoes DEF Saved
<1> QED
  BY <1>1, <1>4, MarkedStale, RunRecorded, IntakesAlone, PlansAlone, TalkAlone
     DEF Moves, SessionsMove

\* A plan is stored only for an intake that is being planned, and with it the
\* planning is over.
LEMMA SaveGeneratedPlanMoves ==
  ASSUME TypeInv, SessionsInv, NEW w \in Workers, SaveGeneratedPlan(w)
  PROVE  Moves /\ SessionsMove
<1>1. worker[w].pc = "save" /\ UNCHANGED <<automation, rows, threads, talk>>
  BY DEF SaveGeneratedPlan, At, sessionVars
<1>2. CASE GiveUp(w, FALSE) /\ UNCHANGED <<intake, plans>>
  BY <1>1, <1>2, GivesUp, IntakesAlone, PlansAlone, SessionsAlone, TalkAlone
     DEF Moves, SessionsMove
<1>3. ASSUME NEW i, i = Job(w).intake, intake[i] = "planning",
             plans' = Append(plans, [intake |-> i, status |-> "ready", tasks |-> 0, traced |-> FALSE]),
             intake' = [intake EXCEPT ![i] = "planned"],
             worker' = [worker EXCEPT ![w].pc = "trace", ![w].plan = Len(plans')],
             UNCHANGED jobs
      PROVE  Moves /\ SessionsMove
  <2> DEFINE p == [intake |-> i, status |-> "ready", tasks |-> 0, traced |-> FALSE]
             e == [worker[w] EXCEPT !.pc = "trace", !.plan = Len(plans')]
  <2>1. i \in Intakes /\ p \in PlanRecord
    BY <1>1, <1>3, Busy DEF PlanRecord
  <2>2. plans' = Append(plans, p) /\ p.intake = i /\ p.status = "ready" /\ p.tasks = 0
    BY <1>3
  <2> HIDE DEF p
  <2>3. /\ plans' \in Seq(PlanRecord) /\ Len(plans') = Len(plans) + 1 /\ Len(plans') \in Nat
        /\ \A n \in PlanIds : plans'[n] = plans[n]
        /\ plans'[Len(plans')] = p
    BY <2>1, <2>2, Tables DEF TypeInv, QueueTypes, PlanIds
  <2>4. intake' \in [Intakes -> IntakeStatuses] /\ intake'[i] = "planned"
        /\ \A k \in Intakes : k # i => intake'[k] = intake[k]
    BY <1>3, <2>1 DEF TypeInv, QueueTypes, IntakeStatuses
  <2>5. PlansMove
    <3>1. \A n \in PlanIds : PlanMove(n)
      BY <2>3 DEF PlanMove
    <3>2. NewPlan(plans'[Len(plans')])
      BY <1>3, <2>2, <2>3, <2>4 DEF NewPlan
    <3> QED
      BY <2>3, <3>1, <3>2 DEF PlansMove
  <2>6. IntakesMove
    BY <1>1, <2>4 DEF IntakesMove, IntakeMove, TypeInv, QueueTypes
  <2>7. /\ e \in WorkerRecord /\ e.pc = "trace" /\ e.job = worker[w].job
        /\ e.attempt = worker[w].attempt
        /\ e.prior = worker[w].prior /\ e.dead = worker[w].dead /\ e.session = worker[w].session
    BY <1>1, <2>3, Busy DEF WorkerRecord, Working, Id
  <2>8. worker' = [worker EXCEPT ![w] = e]
    BY <1>3
  <2> HIDE DEF e
  <2>9. RunSound(e, Job(w).provider, threads')
    BY <1>1, <2>7 DEF SessionsInv, RunSound
  <2>10. WorkersMove /\ RunsMove
    BY <1>1, <1>3, <2>4, <2>7, <2>8, <2>9, WorkerGoes
  <2> QED
    BY <1>1, <1>3, <2>5, <2>6, <2>10, JobsAlone, SessionsAlone, TalkAlone
       DEF Moves, SessionsMove
<1> QED
  BY <1>2, <1>3 DEF SaveGeneratedPlan, Wanted

LEMMA NoSuchPlan ==
  ASSUME TypeInv, NEW n, n \notin PlanIds, NEW e, plans' = [plans EXCEPT ![n] = e]
  PROVE  UNCHANGED plans
BY Tables

LEMMA RecordFeedbackRevisionMoves ==
  ASSUME TypeInv, SessionsInv, NEW w \in Workers, RecordFeedbackRevision(w)
  PROVE  Moves /\ SessionsMove
<1> DEFINE n == worker[w].plan
           e == [plans[n] EXCEPT !.traced = RevisionOf(Job(w).intake)]
           next == IF worker[w].session = None THEN "finish" ELSE "session"
<1>1. /\ worker[w].pc = "trace" /\ plans' = [plans EXCEPT ![n] = e] /\ Go(w, next)
      /\ UNCHANGED <<automation, intake, jobs, rows, threads, talk>>
  BY DEF RecordFeedbackRevision, At, sessionVars
<1>2. next \in {"finish", "session"}
  OBVIOUS
<1> HIDE DEF next
<1>3. WorkersMove /\ RunsMove
  BY <1>1, <1>2, SessionsAlone, OnlyGoes DEF Working, Saved
<1>4. CASE n \in PlanIds
  <2>1. e \in PlanRecord /\ plans'[n] = e
    BY <1>1, <1>4, Tables DEF PlanRecord, RevisionOf
  <2>2. PlanMove(n)
    BY <1>4, <2>1, Tables DEF PlanMove, PlanRecord
  <2> HIDE DEF e, n
  <2> QED
    BY <1>1, <1>3, <1>4, <2>1, <2>2, PlanUpdate, JobsAlone, IntakesAlone, SessionsAlone, TalkAlone
       DEF Moves, SessionsMove
<1>5. CASE n \notin PlanIds
  <2> HIDE DEF e, n
  <2> QED
    BY <1>1, <1>3, <1>5, NoSuchPlan, PlansAlone, JobsAlone, IntakesAlone, SessionsAlone, TalkAlone
       DEF Moves, SessionsMove
<1> QED
  BY <1>4, <1>5

LEMMA Upserted ==
  ASSUME TypeInv, UNCHANGED threads, NEW r, NEW p \in Providers, NEW s \in Id,
         s # None => Opened(s, p, threads), Upsert(r, p, s)
  PROVE  ThreadsMove /\ RowsMove
<1> DEFINE row == [provider |-> p, cli |-> s, status |-> "active"]
<1>1. row \in RowRecord /\ row.cli = s /\ row.provider = p
  BY DEF RowRecord
<1>2. rows' = [rows EXCEPT ![r] = row]
  BY DEF Upsert
<1> HIDE DEF row
<1>3. RowSound(row, threads')
  BY <1>1 DEF RowSound
<1>4. RowsMove
  BY <1>1, <1>2, <1>3, RowWritten
<1>5. ThreadsMove
  BY Tables DEF ThreadsMove, TypeInv, SessionTypes
<1> QED
  BY <1>4, <1>5

LEMMA UpsertMoves ==
  ASSUME TypeInv, SessionsInv, NEW w \in Workers,
         UpsertRequirementSession(w) \/ UpsertExecutionSession(w)
  PROVE  Moves /\ SessionsMove
<1> SUFFICES ASSUME NEW r, NEW pc \in {"execution", "finish"},
                    worker[w].pc \in {"session", "execution"}, Go(w, pc),
                    Upsert(r, Job(w).provider, worker[w].session),
                    UNCHANGED <<automation, intake, jobs, plans, threads, talk>>
             PROVE  Moves /\ SessionsMove
  <2>1. CASE UpsertRequirementSession(w)
    BY <2>1 DEF UpsertRequirementSession, At
  <2>2. CASE UpsertExecutionSession(w)
    BY <2>2 DEF UpsertExecutionSession, At
  <2> QED
    BY <2>1, <2>2
<1>1. worker[w].session \in Id /\ Job(w).provider \in Providers
  BY Busy DEF WorkerRecord
<1>2. worker[w].session # None => Opened(worker[w].session, Job(w).provider, threads)
  BY DEF SessionsInv, RunSound
<1>3. ThreadsMove /\ RowsMove
  BY <1>1, <1>2, Upserted
<1>4. WorkersMove /\ RunsMove
  BY <1>3, OnlyGoes DEF Working, Saved
<1> QED
  BY <1>3, <1>4, JobsAlone, IntakesAlone, PlansAlone, TalkAlone DEF Moves, SessionsMove

LEMMA FinishRunMoves ==
  ASSUME TypeInv, SessionsInv, NEW w \in Workers, FinishRun(w)
  PROVE  Moves /\ SessionsMove
<1>1. /\ worker[w].pc = "finish" /\ Go(w, "queue") /\ jobs' = Run(w, "none")
      /\ UNCHANGED <<automation, intake, plans, rows, threads, talk>>
  BY DEF FinishRun, At, finishRun, sessionVars
<1>2. WorkersMove /\ RunsMove
  BY <1>1, SessionsAlone, OnlyGoes DEF Working, Saved
<1> QED
  BY <1>1, <1>2, RunRecorded, IntakesAlone, PlansAlone, SessionsAlone, TalkAlone
     DEF Moves, SessionsMove

LEMMA QueuePlanAutomaticallyMoves ==
  ASSUME TypeInv, SessionsInv, NEW w \in Workers, QueuePlanAutomatically(w)
  PROVE  Moves /\ SessionsMove
<1> DEFINE n == worker[w].plan
           e == IF automation /\ Startable(plans[n]) THEN Queued(plans[n]) ELSE plans[n]
<1>1. /\ worker[w].pc = "queue" /\ plans' = [plans EXCEPT ![n] = e] /\ Go(w, "complete")
      /\ UNCHANGED <<automation, intake, jobs, rows, threads, talk>>
  BY DEF QueuePlanAutomatically, At, sessionVars
<1>2. WorkersMove /\ RunsMove
  BY <1>1, SessionsAlone, OnlyGoes DEF Working, Saved
<1>3. CASE n \in PlanIds
  <2>1. plans[n] \in PlanRecord /\ plans[n].tasks + 1 \in Int
    BY <1>3, Tables DEF PlanRecord
  <2>2. Queued(plans[n]) \in PlanRecord
    BY <2>1, PlanChanged DEF Queued
  <2>3. e \in PlanRecord /\ plans'[n] = e
    BY <1>1, <1>3, <2>1, <2>2, Tables
  <2>4. PlanMove(n)
    BY <1>3, <2>1, <2>3 DEF PlanMove, PlanRecord, Queued, Startable
  <2> HIDE DEF e, n
  <2> QED
    BY <1>1, <1>2, <1>3, <2>3, <2>4, PlanUpdate, JobsAlone, IntakesAlone, SessionsAlone, TalkAlone
       DEF Moves, SessionsMove
<1>4. CASE n \notin PlanIds
  <2> HIDE DEF e, n
  <2> QED
    BY <1>1, <1>2, <1>4, NoSuchPlan, PlansAlone, JobsAlone, IntakesAlone, SessionsAlone, TalkAlone
       DEF Moves, SessionsMove
<1> QED
  BY <1>3, <1>4

LEMMA JobStatus ==
  ASSUME NEW job \in JobRecord, NEW status \in Live \cup Terminal
  PROVE  LET e == [job EXCEPT !.status = status]
         IN  /\ e \in JobRecord /\ e.status = status /\ e.attempt = job.attempt
             /\ e.worker = job.worker /\ e.intake = job.intake /\ e.provider = job.provider
BY DEF JobRecord

LEMMA CompleteJobMoves ==
  ASSUME TypeInv, SessionsInv, NEW w \in Workers, CompleteJob(w)
  PROVE  Moves /\ SessionsMove
<1> DEFINE j == worker[w].job
           status == IF Owns(w) THEN "succeeded" ELSE jobs[j].status
           e == [jobs[j] EXCEPT !.status = status]
<1>1. /\ worker[w].pc = "complete" /\ jobs' = [jobs EXCEPT ![j] = e]
      /\ worker' = [worker EXCEPT ![w] = Idle]
      /\ UNCHANGED <<automation, intake, plans, rows, threads, talk>>
  BY DEF CompleteJob, At, sessionVars
<1>2. j \in JobIds /\ jobs[j] \in JobRecord
  BY <1>1, Busy DEF Job
<1>3. status \in Live \cup Terminal
  BY <1>2 DEF JobRecord, Terminal
<1>4. /\ e \in JobRecord /\ e.status = status /\ e.attempt = jobs[j].attempt
      /\ e.worker = jobs[j].worker /\ e.intake = jobs[j].intake /\ e.provider = jobs[j].provider
  <2> HIDE DEF status, j
  <2> QED
    BY <1>2, <1>3, JobStatus
<1>5. jobs'[j] = e
  BY <1>1, <1>2, Tables
<1>6. JobMove(j)
  BY <1>1, <1>4, <1>5 DEF JobMove, Kept, Settled
<1> HIDE DEF e, j
<1>7. JobsMove
  BY <1>1, <1>2, <1>4, <1>6, JobUpdate
<1> QED
  BY <1>1, <1>7, WorkerRests, IntakesAlone, PlansAlone, SessionsAlone, TalkAlone
     DEF Moves, SessionsMove

LEMMA FailJobMoves ==
  ASSUME TypeInv, SessionsInv, NEW w \in Workers, FailJob(w)
  PROVE  Moves /\ SessionsMove
<1> DEFINE j == worker[w].job
           i == jobs[j].intake
           status == IF ~Owns(w) THEN jobs[j].status
                     ELSE IF MayRetry(w) THEN "retry_wait" ELSE "failed"
           e == [jobs[j] EXCEPT !.status = status]
           failed == (Owns(w) \/ jobs[j].status \in Terminal) /\ ~MayRetry(w)
<1>1. /\ worker[w].pc = "fail" /\ jobs' = [jobs EXCEPT ![j] = e]
      /\ intake' = [intake EXCEPT ![i] = IF failed THEN FailedIntake(@) ELSE @]
      /\ worker' = [worker EXCEPT ![w] = Idle]
      /\ UNCHANGED <<automation, plans, rows, threads, talk>>
  BY DEF FailJob, At, sessionVars
<1>2. j \in JobIds /\ jobs[j] \in JobRecord /\ i \in Intakes
  BY <1>1, Busy DEF Job
<1>3. status \in Live \cup Terminal
  BY <1>2 DEF JobRecord, Terminal, Live
<1>4. /\ e \in JobRecord /\ e.status = status /\ e.attempt = jobs[j].attempt
      /\ e.worker = jobs[j].worker /\ e.intake = jobs[j].intake /\ e.provider = jobs[j].provider
  <2> HIDE DEF status, j
  <2> QED
    BY <1>2, <1>3, JobStatus
<1>5. jobs'[j] = e
  BY <1>1, <1>2, Tables
<1>6. failed => intake'[i] # "planning"
  BY <1>1, <1>2 DEF FailedIntake, TypeInv, QueueTypes
<1>7. JobMove(j)
  <2>1. CASE ~Owns(w)
    BY <1>4, <1>5, <2>1 DEF JobMove, Kept
  <2>2. CASE Owns(w) /\ MayRetry(w)
    BY <1>1, <1>4, <1>5, <2>2 DEF JobMove, Settled, MayRetry
  <2>3. CASE Owns(w) /\ ~MayRetry(w)
    BY <1>1, <1>4, <1>5, <1>6, <2>3 DEF JobMove, Settled
  <2> QED
    BY <2>1, <2>2, <2>3
<1>8. IntakesMove
  <2>1. intake' \in [Intakes -> IntakeStatuses]
    BY <1>1, <1>2 DEF TypeInv, QueueTypes, FailedIntake, IntakeStatuses
  <2>2. \A k \in Intakes : intake'[k] = "planning" => intake[k] = "planning"
    BY <1>1, <1>2 DEF TypeInv, QueueTypes, FailedIntake
  <2> QED
    BY <1>1, <2>1, <2>2 DEF IntakesMove, IntakeMove, TypeInv, QueueTypes
<1> HIDE DEF e, j
<1>9. JobsMove
  BY <1>1, <1>2, <1>4, <1>7, JobUpdate
<1> QED
  BY <1>1, <1>8, <1>9, WorkerRests, PlansAlone, SessionsAlone, TalkAlone
     DEF Moves, SessionsMove

-----------------------------------------------------------------------------
(* Faults and recovery.                                                    *)

LEMMA LeaseLostMoves ==
  ASSUME TypeInv, SessionsInv, NEW w \in Workers, LeaseLost(w)
  PROVE  Moves /\ SessionsMove
<1>1. worker[w].pc # "idle" /\ UNCHANGED <<automation, intake, plans, rows, threads, talk>>
  BY DEF LeaseLost, Working, sessionVars
<1> QED
  BY <1>1, GivesUp, IntakesAlone, PlansAlone, SessionsAlone, TalkAlone
     DEF LeaseLost, Moves, SessionsMove

LEMMA FaultMoves ==
  ASSUME TypeInv, SessionsInv, NEW w \in Workers, Fault(w)
  PROVE  Moves /\ SessionsMove
<1>1. UNCHANGED <<automation, intake, plans, rows, threads, talk>>
  BY DEF Fault, sessionVars
<1>2. CASE worker[w].pc \in Working /\ GiveUp(w, FALSE)
  <2>1. worker[w].pc # "idle"
    BY <1>2 DEF Working
  <2> QED
    BY <1>1, <1>2, <2>1, GivesUp, IntakesAlone, PlansAlone, SessionsAlone, TalkAlone
       DEF Moves, SessionsMove
<1>3. CASE worker' = [worker EXCEPT ![w] = Idle] /\ UNCHANGED jobs
  BY <1>1, <1>3, WorkerRests, JobsAlone, IntakesAlone, PlansAlone, SessionsAlone, TalkAlone
     DEF Moves, SessionsMove
<1> QED
  BY <1>2, <1>3 DEF Fault

LEMMA CrashMoves ==
  ASSUME TypeInv, NEW w \in Workers, Crash(w)
  PROVE  Moves /\ SessionsMove
<1>1. /\ worker' = [worker EXCEPT ![w] = Idle]
      /\ UNCHANGED <<automation, intake, jobs, plans, rows, threads, talk>>
  BY DEF Crash, sessionVars
<1> QED
  BY <1>1, WorkerRests, JobsAlone, IntakesAlone, PlansAlone, SessionsAlone, TalkAlone
     DEF Moves, SessionsMove

LEMMA RequeuedJob ==
  ASSUME NEW job \in JobRecord
  PROVE  /\ Requeued(job) \in JobRecord /\ Requeued(job).status = "queued"
         /\ Requeued(job).attempt = IF job.attempt = 0 THEN 0 ELSE job.attempt - 1
         /\ Requeued(job).intake = job.intake /\ Requeued(job).provider = job.provider
<1> DEFINE n == IF job.attempt = 0 THEN 0 ELSE job.attempt - 1
           e == [job EXCEPT !.status = "queued", !.worker = None, !.run = "none", !.attempt = n]
<1>1. Requeued(job) = e
  BY DEF Requeued, JobRecord
<1>2. n \in Nat
  BY DEF JobRecord
<1> HIDE DEF n
<1>3. /\ e \in JobRecord /\ e.status = "queued" /\ e.attempt = n
      /\ e.intake = job.intake /\ e.provider = job.provider
  BY <1>2 DEF JobRecord, Live
<1> QED
  BY <1>1, <1>3 DEF n

LEMMA ReconcileInstanceShutdownMoves ==
  ASSUME TypeInv, SessionsInv, NEW w \in Workers, ReconcileInstanceShutdown(w)
  PROVE  Moves /\ SessionsMove
<1> DEFINE j == worker[w].job
           f == [worker[w] EXCEPT !.closing = TRUE]
<1>1. /\ worker[w].pc # "idle" /\ Owns(w)
      /\ jobs' = [jobs EXCEPT ![j] = Requeued(jobs[j])]
      /\ worker' = [worker EXCEPT ![w] = f]
      /\ UNCHANGED <<automation, intake, plans, rows, threads, talk>>
  BY DEF ReconcileInstanceShutdown, At, sessionVars
<1>2. j \in JobIds /\ jobs[j] \in JobRecord
  BY <1>1, Busy DEF Job
<1>3. jobs'[j] = Requeued(jobs[j])
  BY <1>1, <1>2, Tables
<1>4. JobMove(j)
  BY <1>1, <1>2, <1>3, RequeuedJob DEF JobMove, Returned, Owns, Job
<1>5. /\ f \in WorkerRecord /\ f.pc = worker[w].pc /\ f.job = worker[w].job
      /\ f.attempt = worker[w].attempt
      /\ f.prior = worker[w].prior /\ f.dead = worker[w].dead /\ f.session = worker[w].session
  BY <1>1, Busy DEF WorkerRecord
<1> HIDE DEF j, f
<1>6. JobsMove
  BY <1>1, <1>2, <1>4, RequeuedJob, JobUpdate
<1>7. RunSound(f, Job(w).provider, threads')
  BY <1>1, <1>5 DEF SessionsInv, RunSound
<1>8. WorkersMove /\ RunsMove
  BY <1>1, <1>5, <1>7, WorkerGoes
<1> QED
  BY <1>1, <1>6, <1>8, IntakesAlone, PlansAlone, SessionsAlone, TalkAlone
     DEF Moves, SessionsMove

LEMMA ReconcileRuntimeStateMoves ==
  ASSUME TypeInv, NEW j \in JobIds, ReconcileRuntimeState(j)
  PROVE  Moves /\ SessionsMove
<1> DEFINE status == IF jobs[j].run = "starting" THEN "cancelled" ELSE "interrupted"
           e == [jobs[j] EXCEPT !.status = status, !.worker = None, !.run = "none"]
<1>1. /\ jobs[j].status = "running" /\ jobs' = [jobs EXCEPT ![j] = Converged(jobs[j])]
      /\ UNCHANGED <<automation, intake, plans, rows, threads, worker, talk>>
  BY DEF ReconcileRuntimeState, Abandoned, sessionVars
<1>2. jobs[j] \in JobRecord
  BY Tables
<1>3. jobs'[j] = Converged(jobs[j])
  BY <1>1, Tables
<1>4. CASE jobs[j].run = "none"
  <2>1. Converged(jobs[j]) = Requeued(jobs[j])
    BY <1>4 DEF Converged
  <2>2. JobMove(j)
    BY <1>1, <1>2, <1>3, <2>1, RequeuedJob DEF JobMove, Returned
  <2> QED
    BY <1>1, <1>2, <2>1, <2>2, RequeuedJob, JobUpdate, IntakesAlone, PlansAlone, WorkersAlone,
       SessionsAlone, TalkAlone, RunsAlone DEF Moves, SessionsMove
<1>5. CASE jobs[j].run # "none"
  <2>1. Converged(jobs[j]) = e
    BY <1>5 DEF Converged
  <2>2. status \in {"cancelled", "interrupted"}
    OBVIOUS
  <2> HIDE DEF status
  <2>3. /\ e \in JobRecord /\ e.status = status /\ e.worker = None /\ e.attempt = jobs[j].attempt
        /\ e.intake = jobs[j].intake /\ e.provider = jobs[j].provider
    BY <1>2, <2>2 DEF JobRecord, Terminal
  <2> HIDE DEF e
  <2>4. JobMove(j)
    BY <1>1, <1>3, <2>1, <2>2, <2>3 DEF JobMove, Ended
  <2> QED
    BY <1>1, <2>1, <2>3, <2>4, JobUpdate, IntakesAlone, PlansAlone, WorkersAlone,
       SessionsAlone, TalkAlone, RunsAlone DEF Moves, SessionsMove
<1> QED
  BY <1>4, <1>5

-----------------------------------------------------------------------------
(* The discussion.                                                         *)

LEMMA StartDiscussionMoves ==
  ASSUME TypeInv, SessionsInv, NEW p \in Providers, StartDiscussion(p)
  PROVE  Moves /\ SessionsMove
<1> DEFINE r == Selected(DiscussionSessions, p)
           prior == IF r = None THEN None ELSE rows[r].cli
           e == [Quiet EXCEPT !.pc = "running", !.automation = automation, !.provider = p,
                              !.row = r, !.prior = prior]
<1>1. /\ UNCHANGED <<automation, intake, jobs, plans, rows, threads, worker>>
      /\ talk' = e
  BY DEF StartDiscussion, sessionVars
<1> HIDE DEF r
<1>2. r # None => /\ r \in Rows /\ rows[r] \in RowRecord /\ rows[r].provider = p
                  /\ RowSound(rows[r], threads)
  BY SelectedRow, DiscussionSessionsDomain DEF r, TypeInv, SessionTypes, SessionsInv
<1>3. r \in Rows \cup {None} /\ prior \in Id
  BY <1>2 DEF RowRecord, Id
<1>4. prior # None => Opened(prior, p, threads)
  BY <1>2 DEF RowSound
<1> HIDE DEF prior
<1>5. /\ e \in TalkRecord /\ e.pc = "running" /\ e.provider = p /\ e.prior = prior
      /\ e.dead = None /\ e.session = None
  BY <1>3 DEF Quiet, TalkRecord, Id, TypeInv, QueueTypes
<1> HIDE DEF e
<1>6. RunSound(e, p, threads')
  BY <1>1, <1>4, <1>5 DEF RunSound
<1>7. TalkMove
  BY <1>1, <1>5, <1>6 DEF TalkMove
<1> QED
  BY <1>1, <1>7, JobsAlone, IntakesAlone, PlansAlone, WorkersAlone, SessionsAlone, RunsAlone
     DEF Moves, SessionsMove

LEMMA QuietTalk == Quiet \in TalkRecord /\ \A t : RunSound(Quiet, Quiet.provider, t)
BY PlanningAssumption DEF Quiet, TalkRecord, Id, RunSound

LEMMA DiscussionEndsMoves ==
  ASSUME TypeInv, DiscussionEnds
  PROVE  Moves /\ SessionsMove
<1>1. UNCHANGED <<automation, intake, jobs, plans, rows, threads, worker>> /\ talk' = Quiet
  BY DEF DiscussionEnds, sessionVars
<1>2. TalkMove
  BY <1>1, QuietTalk DEF TalkMove
<1> QED
  BY <1>1, <1>2, JobsAlone, IntakesAlone, PlansAlone, WorkersAlone, SessionsAlone, RunsAlone
     DEF Moves, SessionsMove

LEMMA DiscussionReadyMoves ==
  ASSUME TypeInv, SessionsInv, DiscussionReady
  PROVE  Moves /\ SessionsMove
<1>1. talk.pc = "running" /\ UNCHANGED <<automation, intake, jobs, plans, rows, worker>>
  BY DEF DiscussionReady
<1>2. PICK s : /\ EffectiveSessionID(talk.provider, Fallback(talk), s)
               /\ talk' = [talk EXCEPT !.pc = "create", !.session = s]
  BY DEF DiscussionReady
<1>3. RunSound(talk, talk.provider, threads) /\ talk \in TalkRecord /\ talk.provider \in Providers
  BY DEF SessionsInv, TypeInv, SessionTypes, TalkRecord
<1>4. /\ ThreadsMove /\ s \in Id
      /\ s # None => Opened(s, talk.provider, threads') /\ s # talk.dead
  BY <1>1, <1>2, <1>3, EffectiveSession
<1>5. /\ talk' \in TalkRecord /\ talk'.pc = "create" /\ talk'.provider = talk.provider
      /\ talk'.prior = talk.prior /\ talk'.dead = talk.dead /\ talk'.session = s
  BY <1>2, <1>3, <1>4 DEF TalkRecord
<1>6. RunSound(talk, talk.provider, threads')
  BY <1>3, <1>4, StillSound
<1>7. RunSound(talk', talk'.provider, threads')
  BY <1>4, <1>5, <1>6 DEF RunSound
<1>8. RowsMove
  BY <1>1 DEF RowsMove, TypeInv, SessionTypes
<1> QED
  BY <1>1, <1>4, <1>5, <1>7, <1>8, JobsAlone, IntakesAlone, PlansAlone, WorkersAlone, RunsAlone
     DEF TalkMove, Moves, SessionsMove

LEMMA DiscussionUnavailableMoves ==
  ASSUME TypeInv, SessionsInv, DiscussionUnavailable
  PROVE  Moves /\ SessionsMove
<1>1. /\ UNCHANGED <<automation, intake, jobs, plans, rows, threads, worker>>
      /\ talk.pc = "running" /\ talk' = [talk EXCEPT !.pc = "stale"]
  BY DEF DiscussionUnavailable, sessionVars
<1>2. /\ talk' \in TalkRecord /\ talk'.pc = "stale" /\ talk'.provider = talk.provider
      /\ talk'.prior = talk.prior /\ talk'.dead = talk.dead /\ talk'.session = talk.session
  BY <1>1 DEF TalkRecord, TypeInv, SessionTypes
<1>3. RunSound(talk', talk'.provider, threads')
  BY <1>1, <1>2 DEF SessionsInv, RunSound
<1> QED
  BY <1>1, <1>2, <1>3, JobsAlone, IntakesAlone, PlansAlone, WorkersAlone, SessionsAlone, RunsAlone
     DEF TalkMove, Moves, SessionsMove

LEMMA DiscussionRestoresMoves ==
  ASSUME TypeInv, SessionsInv, DiscussionRestores
  PROVE  Moves /\ SessionsMove
<1>1. /\ UNCHANGED <<automation, intake, jobs, plans, threads, worker>>
      /\ MarkAgentSessionStale(talk.row) /\ talk.pc = "stale"
      /\ talk' = [talk EXCEPT !.pc = "running", !.prior = None, !.dead = talk.prior]
  BY DEF DiscussionRestores
<1>2. /\ talk' \in TalkRecord /\ talk'.pc = "running" /\ talk'.provider = talk.provider
      /\ talk'.prior = None /\ talk'.dead = talk.prior /\ talk'.session = talk.session
  BY <1>1 DEF TalkRecord, TypeInv, SessionTypes, Id
<1>3. RunSound(talk', talk'.provider, threads')
  BY <1>1, <1>2 DEF SessionsInv, RunSound, Opened
<1> QED
  BY <1>1, <1>2, <1>3, MarkedStale, JobsAlone, IntakesAlone, PlansAlone, WorkersAlone, RunsAlone
     DEF TalkMove, Moves, SessionsMove

LEMMA CreateFeedbackRevisionIntakeMoves ==
  ASSUME TypeInv, SessionsInv, CreateFeedbackRevisionIntake
  PROVE  Moves /\ SessionsMove
<1>1. /\ UNCHANGED <<automation, plans, threads, worker>> /\ talk' = Quiet
      /\ InsertIntake(Revision, talk.automation, talk.provider)
  BY DEF CreateFeedbackRevisionIntake
<1>2. /\ talk.automation \in BOOLEAN /\ talk.provider \in Providers /\ talk.session \in Id
      /\ Revision \in Intakes
      /\ talk.session # None => Opened(talk.session, talk.provider, threads)
  BY DEF TypeInv, SessionTypes, TalkRecord, SessionsInv, RunSound, Intakes
<1>3. JobsMove /\ IntakesMove
  BY <1>1, <1>2, Inserted
<1>4. TalkMove
  BY <1>1, QuietTalk DEF TalkMove
<1>5. ThreadsMove /\ RowsMove
  <2>1. CASE UNCHANGED rows
    BY <1>1, <2>1, SessionsAlone
  <2>2. CASE Upsert(<<"requirement", Revision>>, talk.provider, talk.session)
    BY <1>1, <1>2, <2>2, Upserted
  <2> QED
    BY <2>1, <2>2 DEF CreateFeedbackRevisionIntake
<1> QED
  BY <1>1, <1>3, <1>4, <1>5, PlansAlone, WorkersAlone, RunsAlone DEF Moves, SessionsMove

-----------------------------------------------------------------------------
(* Every step.                                                             *)

LEMMA WorkerStepMoves ==
  ASSUME TypeInv, SessionsInv, NEW w \in Workers, WorkerStep(w)
  PROVE  Moves /\ SessionsMove
BY LoadMoves, StartCLIMoves, RunSucceedsMoves, RunFailsMoves, SessionUnavailableMoves,
   RestoreFromSnapshotMoves, SaveGeneratedPlanMoves, RecordFeedbackRevisionMoves, UpsertMoves,
   FinishRunMoves, QueuePlanAutomaticallyMoves, CompleteJobMoves, FailJobMoves, Zenon
   DEF WorkerStep

LEMMA DiscussionMoves ==
  ASSUME TypeInv, SessionsInv, Discussion
  PROVE  Moves /\ SessionsMove
BY StartDiscussionMoves, DiscussionEndsMoves, DiscussionReadyMoves, DiscussionUnavailableMoves,
   DiscussionRestoresMoves, CreateFeedbackRevisionIntakeMoves, Zenon DEF Discussion

LEMMA NextMoves ==
  ASSUME TypeInv, SessionsInv, [Next]_vars
  PROVE  Moves /\ SessionsMove
<1>1. ASSUME NEW p \in Providers, CreateIntake(p) PROVE Moves /\ SessionsMove
  BY <1>1, CreateIntakeMoves
<1>2. ASSUME NEW p \in Providers, NEW i \in Intakes, QueuePlanGeneration(i, p)
      PROVE  Moves /\ SessionsMove
  BY <1>2, QueuePlanGenerationMoves
<1>3. ASSUME NEW n \in 0..MaxPlans, CreateFeedback(n) PROVE Moves /\ SessionsMove
  BY <1>3, NothingMoves DEF CreateFeedback, sessionVars
<1>4. ASSUME NEW i \in Intakes, NEW status \in {"open", "closed"}, UpdateIntake(i, status)
      PROVE  Moves /\ SessionsMove
  BY <1>4, UpdateIntakeMoves
<1>5. CASE DisableAutomation \/ EnableAutomation
  BY <1>5, DisableAutomationMoves, EnableAutomationMoves
<1>6. ASSUME NEW n \in PlanIds, QueuePlan(n) \/ FinishPlan(n) PROVE Moves /\ SessionsMove
  BY <1>6, QueuePlanMoves, FinishPlanMoves
<1>7. ASSUME NEW s \in 1..Len(threads), LoseSession(s) PROVE Moves /\ SessionsMove
  BY <1>7, NothingMoves DEF LoseSession
<1>8. ASSUME NEW w \in Workers, NEW j \in JobIds, ClaimJob(w, j) PROVE Moves /\ SessionsMove
  BY <1>8, ClaimJobMoves
<1>9. ASSUME NEW w \in Workers,
             \/ WorkerStep(w) \/ LeaseLost(w) \/ Fault(w) \/ Crash(w)
             \/ ReconcileInstanceShutdown(w)
      PROVE  Moves /\ SessionsMove
  BY <1>9, WorkerStepMoves, LeaseLostMoves, FaultMoves, CrashMoves, ReconcileInstanceShutdownMoves
<1>10. ASSUME NEW j \in JobIds, ReconcileRuntimeState(j) PROVE Moves /\ SessionsMove
  BY <1>10, ReconcileRuntimeStateMoves
<1>11. CASE Discussion
  BY <1>11, DiscussionMoves
<1>12. CASE UNCHANGED vars
  BY <1>12, NothingMoves DEF vars
<1> QED
  BY <1>1, <1>2, <1>3, <1>4, <1>5, <1>6, <1>7, <1>8, <1>9, <1>10, <1>11, <1>12, Zenon DEF Next

BaseInv == TypeInv /\ SessionsInv

LEMMA InitBase == Init => BaseInv
<1> SUFFICES ASSUME Init PROVE BaseInv
  OBVIOUS
<1>1. TypeInv
  BY InitTyped
<1>2. SessionsInv
  BY QuietTalk DEF Init, SessionsInv, RowSound, NoRow, RunSound, Idle
<1> QED
  BY <1>1, <1>2 DEF BaseInv

LEMMA NextBase == ASSUME BaseInv, [Next]_vars PROVE BaseInv' /\ Moves
BY NextMoves, MovesTyped, MovesSound DEF BaseInv

\* Every variable of Planning keeps its type, whatever the workers, the users and
\* the faults do: jobs, plans, session rows, the workers' records and the
\* discussion's.
THEOREM Types == Spec => []TypeInv
<1>1. BaseInv /\ [Next]_vars => BaseInv'
  BY NextBase
<1>2. BaseInv => TypeInv
  BY DEF BaseInv
<1> QED
  BY <1>1, <1>2, InitBase, PTL DEF Spec

\* Neither a worker nor the discussion ever resumes a session that another
\* provider's CLI opened (ResumesOwnProvider), although a row's provider changes,
\* and a revision looks in three rows for its session.
THEOREM SessionsKeepTheirProvider == Spec => []ResumesOwnProvider
<1>1. BaseInv /\ [Next]_vars => BaseInv'
  BY NextBase
<1>2. BaseInv => ResumesOwnProvider
  BY DEF BaseInv, SessionsInv, RunSound, Opened, ResumesOwnProvider
<1> QED
  BY <1>1, <1>2, InitBase, PTL DEF Spec

\* After a failover the session that gets recorded is never the lost one
\* (LostSessionDropped).
THEOREM LostSessionsStayLost == Spec => []LostSessionDropped
<1>1. BaseInv /\ [Next]_vars => BaseInv'
  BY NextBase
<1>2. BaseInv => LostSessionDropped
  BY DEF BaseInv, SessionsInv, RunSound, LostSessionDropped
<1> QED
  BY <1>1, <1>2, InitBase, PTL DEF Spec

-----------------------------------------------------------------------------
(* Plans and their task jobs.                                              *)

\* A plan has one task job while it runs and none otherwise (OneTaskJob), whoever
\* starts it: the worker that generated it, the switch or a user.
THEOREM PlansStartOnce == Spec => []OneTaskJob
<1>1. Init => BaseInv /\ OneTaskJob
  BY InitBase DEF Init, OneTaskJob, PlanIds
<1>2. ASSUME BaseInv, OneTaskJob, [Next]_vars PROVE BaseInv' /\ OneTaskJob'
  <2>1. BaseInv' /\ PlansMove /\ Len(plans) \in Nat
    BY <1>2, NextBase, Tables DEF Moves, BaseInv
  <2> SUFFICES ASSUME NEW n \in PlanIds'
               PROVE  plans'[n].tasks = IF plans'[n].status = "running" THEN 1 ELSE 0
    BY <2>1 DEF OneTaskJob
  <2>2. CASE n \in PlanIds
    BY <1>2, <2>1, <2>2 DEF PlansMove, PlanMove, OneTaskJob
  <2>3. CASE n \notin PlanIds
    <3>1. n = Len(plans') /\ Len(plans') = Len(plans) + 1
      BY <2>1, <2>3 DEF PlansMove, PlanIds
    <3> QED
      BY <2>1, <3>1 DEF PlansMove, NewPlan
  <2> QED
    BY <2>2, <2>3
<1> QED
  BY <1>1, <1>2, PTL DEF Spec

-----------------------------------------------------------------------------
(* Attempts.                                                               *)

\* A job that can be claimed has an attempt left, and a worker that owns its job
\* knows the attempt it is on: otherwise a retry could be one too many.
AttemptsInv ==
  /\ \A j \in JobIds :
       /\ jobs[j].attempt <= MaxAttempts
       /\ jobs[j].status \in {"queued", "retry_wait"} => jobs[j].attempt < MaxAttempts
       /\ jobs[j].status = "running" => jobs[j].attempt > 0
  /\ \A w \in Workers :
       worker[w].pc # "idle" /\ Owns(w) => worker[w].attempt = Job(w).attempt

LEMMA JobIdsGrow ==
  ASSUME TypeInv, JobsMove
  PROVE  JobIds \subseteq JobIds' /\ JobIds' = JobIds \cup NewIds /\ JobIds \cap NewIds = {}
BY Tables DEF JobsMove, JobIds, NewIds

\* A worker that owns its job after a step owned it before, or has just claimed it.
LEMMA OwnerBefore ==
  ASSUME TypeInv, Moves, NEW w \in Workers, worker'[w].pc # "idle",
         jobs'[worker'[w].job].status = "running", jobs'[worker'[w].job].worker = w
  PROVE  /\ worker'[w].job \in JobIds
         /\ \/ worker[w].pc = "idle" /\ worker'[w].pc = "load"
            \/ /\ worker[w].pc # "idle" /\ worker'[w].job = worker[w].job /\ Owns(w)
               /\ Kept(worker[w].job)
<1>1. WorkerMove(w)
  BY DEF Moves, WorkersMove
<1>2. CASE worker[w].pc = "idle"
  BY <1>1, <1>2 DEF WorkerMove
<1>3. CASE worker[w].pc # "idle"
  <2> DEFINE j == worker[w].job
  <2>1. worker'[w].job = j /\ j \in JobIds
    BY <1>1, <1>3 DEF WorkerMove, TypeInv, WorkerTypes
  <2>2. JobMove(j)
    BY <2>1 DEF Moves, JobsMove
  <2>3. Kept(j)
    BY <1>3, <2>1, <2>2 DEF JobMove, Claimed, Returned, Ended, Stopped, Settled
  <2> QED
    BY <1>3, <2>1, <2>3 DEF Kept, Owns, Job
<1> QED
  BY <1>2, <1>3

LEMMA NextAttempts ==
  ASSUME TypeInv, AttemptsInv, Moves
  PROVE  AttemptsInv'
<1> USE PlanningAssumption
<1>1. ASSUME NEW j \in JobIds'
      PROVE  /\ jobs'[j].attempt <= MaxAttempts
             /\ jobs'[j].status \in {"queued", "retry_wait"} => jobs'[j].attempt < MaxAttempts
             /\ jobs'[j].status = "running" => jobs'[j].attempt > 0
  <2>1. CASE j \in NewIds
    BY <2>1 DEF Moves, JobsMove
  <2>2. CASE j \in JobIds
    <3>1. JobMove(j) /\ jobs[j] \in JobRecord /\ jobs[j].attempt \in Nat
      BY <2>2, Tables DEF Moves, JobsMove, JobRecord
    <3>2. /\ jobs[j].attempt <= MaxAttempts
          /\ jobs[j].status \in {"queued", "retry_wait"} => jobs[j].attempt < MaxAttempts
          /\ jobs[j].status = "running" => jobs[j].attempt > 0
      BY <2>2 DEF AttemptsInv
    <3>3. CASE Kept(j)
      BY <3>2, <3>3 DEF Kept
    <3>4. CASE Claimed(j)
      BY <3>1, <3>2, <3>4 DEF Claimed
    <3>5. CASE Returned(j)
      BY <3>1, <3>2, <3>5 DEF Returned
    <3>6. CASE Ended(j) \/ Stopped(j)
      BY <3>2, <3>6 DEF Ended, Stopped
    <3>7. CASE Settled(j)
      <4>1. PICK w \in Workers :
              /\ worker[w].job = j /\ Owns(w) /\ jobs'[j].attempt = jobs[j].attempt
              /\ worker[w].pc \in {"complete", "fail"}
              /\ \/ jobs'[j].status \in {"succeeded", "failed"}
                 \/ worker[w].attempt < MaxAttempts /\ jobs'[j].status = "retry_wait"
        BY <3>7 DEF Settled
      <4>2. worker[w].attempt = jobs[j].attempt
        BY <4>1 DEF AttemptsInv, Job
      <4> QED
        BY <3>2, <4>1, <4>2
    <3> QED
      BY <3>1, <3>3, <3>4, <3>5, <3>6, <3>7 DEF JobMove
  <2> QED
    BY <2>1, <2>2, JobIdsGrow DEF Moves
<1>2. ASSUME NEW w \in Workers, worker'[w].pc # "idle",
             jobs'[worker'[w].job].status = "running", jobs'[worker'[w].job].worker = w
      PROVE  worker'[w].attempt = jobs'[worker'[w].job].attempt
  <2>1. WorkerMove(w)
    BY DEF Moves, WorkersMove
  <2>2. CASE worker[w].pc = "idle"
    BY <1>2, <2>1, <2>2 DEF WorkerMove
  <2>3. CASE worker[w].pc # "idle"
    <3>1. worker'[w].job = worker[w].job /\ Owns(w) /\ Kept(worker[w].job)
      BY <1>2, <2>3, OwnerBefore
    <3>2. worker[w].attempt = Job(w).attempt
      BY <2>3, <3>1 DEF AttemptsInv
    <3> QED
      BY <1>2, <2>1, <2>3, <3>1, <3>2 DEF WorkerMove, Kept, Job
  <2> QED
    BY <2>2, <2>3
<1> QED
  BY <1>1, <1>2 DEF AttemptsInv, Owns, Job

-----------------------------------------------------------------------------
(* Plans counted against the jobs that were to produce them.               *)

PlansOf(i) == {n \in PlanIds : plans[n].intake = i}

\* While an intake is being planned, one of its jobs has yet to yield a plan.
CountInv ==
  \A i \in Intakes :
    /\ Cardinality(PlansOf(i)) <= Cardinality(JobsOf(i))
    /\ intake[i] = "planning" => Cardinality(PlansOf(i)) < Cardinality(JobsOf(i))

LEMMA FiniteTables ==
  ASSUME TypeInv, NEW i
  PROVE  /\ IsFiniteSet(PlansOf(i)) /\ Cardinality(PlansOf(i)) \in Nat
         /\ IsFiniteSet(JobsOf(i)) /\ Cardinality(JobsOf(i)) \in Nat
<1>1. IsFiniteSet(JobIds) /\ IsFiniteSet(PlanIds)
  BY Tables, FS_Interval DEF JobIds, PlanIds
<1>2. JobsOf(i) \in SUBSET JobIds /\ PlansOf(i) \in SUBSET PlanIds
  BY DEF JobsOf, PlansOf
<1> QED
  BY <1>1, <1>2, FS_Subset, FS_CardinalityType

LEMMA NextCount ==
  ASSUME TypeInv, CountInv, Moves
  PROVE  CountInv'
<1> SUFFICES ASSUME NEW i \in Intakes
             PROVE  /\ Cardinality(PlansOf(i)') <= Cardinality(JobsOf(i)')
                    /\ intake'[i] = "planning" =>
                         Cardinality(PlansOf(i)') < Cardinality(JobsOf(i)')
  BY DEF CountInv
<1> DEFINE P == PlansOf(i)
           Q == PlansOf(i)'
           J == JobsOf(i)
           K == JobsOf(i)'
<1> SUFFICES /\ Cardinality(Q) <= Cardinality(K)
             /\ intake'[i] = "planning" => Cardinality(Q) < Cardinality(K)
  OBVIOUS
<1>1. /\ IsFiniteSet(P) /\ Cardinality(P) \in Nat /\ IsFiniteSet(J) /\ Cardinality(J) \in Nat
  BY FiniteTables
<1>2. /\ IsFiniteSet(Q) /\ Cardinality(Q) \in Nat /\ IsFiniteSet(K) /\ Cardinality(K) \in Nat
  <2>1. jobs' \in Seq(JobRecord) /\ plans' \in Seq(PlanRecord)
    BY DEF Moves, JobsMove, PlansMove
  <2>2. Len(jobs') \in Nat /\ Len(plans') \in Nat
    BY <2>1, LenProperties
  <2>3. IsFiniteSet(1..Len(jobs')) /\ IsFiniteSet(1..Len(plans'))
    BY <2>2, FS_Interval
  <2>4. Q \in SUBSET (1..Len(plans')) /\ K \in SUBSET (1..Len(jobs'))
    BY DEF PlansOf, JobsOf, PlanIds, JobIds
  <2> HIDE DEF Q, K
  <2> QED
    BY <2>3, <2>4, FS_Subset, FS_CardinalityType
<1>3. J \subseteq K
  BY JobIdsGrow DEF JobsOf, Moves, JobsMove, JobMove
<1>4. \A j \in NewIds : jobs'[j].intake = i => j \in K /\ j \notin J
  BY JobIdsGrow DEF JobsOf, Moves
<1>5. \/ Q = P
      \/ /\ \E n : Q = P \cup {n}
         /\ intake[i] = "planning" /\ intake'[i] # "planning"
  <2>1. /\ Len(plans) \in Nat /\ Len(plans') \in Nat
        /\ \A n \in PlanIds : plans'[n].intake = plans[n].intake
    BY Tables, LenProperties DEF Moves, PlansMove, PlanMove
  <2>2. CASE Len(plans') = Len(plans)
    BY <2>1, <2>2 DEF PlansOf, PlanIds
  <2>3. CASE Len(plans') = Len(plans) + 1 /\ NewPlan(plans'[Len(plans')])
    <3> DEFINE n == Len(plans')
    <3>1. PlanIds' = PlanIds \cup {n} /\ n \notin PlanIds
      BY <2>1, <2>3 DEF PlanIds
    <3>2. CASE plans'[n].intake = i
      <4>1. Q = P \cup {n}
        BY <2>1, <3>1, <3>2 DEF PlansOf
      <4> QED
        BY <2>3, <3>2, <4>1 DEF NewPlan
    <3>3. CASE plans'[n].intake # i
      BY <2>1, <3>1, <3>3 DEF PlansOf
    <3> QED
      BY <3>2, <3>3
  <2> QED
    BY <2>2, <2>3 DEF Moves, PlansMove
<1>6. /\ Cardinality(P) <= Cardinality(J)
      /\ intake[i] = "planning" => Cardinality(P) < Cardinality(J)
  BY DEF CountInv
<1>7. intake'[i] = "planning" => intake[i] = "planning" \/ \E j \in NewIds : jobs'[j].intake = i
  BY DEF Moves, IntakesMove, IntakeMove
<1> HIDE DEF P, Q, J, K
<1>8. Cardinality(J) <= Cardinality(K)
  BY <1>2, <1>3, FS_Subset
<1>9. ASSUME NEW j \in K, j \notin J PROVE Cardinality(J) < Cardinality(K)
  <2>1. Cardinality(J) # Cardinality(K)
    BY <1>2, <1>3, <1>9, FS_Subset
  <2> QED
    BY <1>1, <1>2, <1>8, <2>1
<1>10. ASSUME NEW n, Q = P \cup {n} PROVE Cardinality(Q) <= Cardinality(P) + 1
  <2>1. Cardinality(P \cup {n}) = IF n \in P THEN Cardinality(P) ELSE Cardinality(P) + 1
    BY <1>1, FS_AddElement
  <2> QED
    BY <1>1, <1>10, <2>1
<1>11. CASE intake[i] = "planning"
  <2>1. Cardinality(P) < Cardinality(J)
    BY <1>6, <1>11
  <2>2. CASE Q = P
    BY <1>1, <1>2, <1>8, <2>1, <2>2
  <2>3. CASE (\E n : Q = P \cup {n}) /\ intake'[i] # "planning"
    <3>1. Cardinality(Q) <= Cardinality(P) + 1
      BY <1>10, <2>3
    <3> QED
      BY <1>1, <1>2, <1>8, <2>1, <2>3, <3>1
  <2> QED
    BY <1>5, <2>2, <2>3
<1>12. CASE intake[i] # "planning"
  <2>1. Q = P
    BY <1>5, <1>12
  <2>2. intake'[i] = "planning" => Cardinality(J) < Cardinality(K)
    BY <1>4, <1>7, <1>9, <1>12
  <2> QED
    BY <1>1, <1>2, <1>6, <1>8, <2>1, <2>2
<1> QED
  BY <1>11, <1>12

\* A request for a plan yields at most one plan, and no job is executed more than
\* MaxAttempts times (OnePlanPerRequest), whatever crashes, shutdowns, switches
\* and edits happen between generating a plan, saving it and completing its job.
THEOREM PlansAreRequested == Spec => []OnePlanPerRequest
<1> DEFINE Inv == BaseInv /\ AttemptsInv /\ CountInv
<1>1. ASSUME Init PROVE Inv
  <2>1. BaseInv
    BY <1>1, InitBase
  <2>2. JobIds = {} /\ PlanIds = {}
    BY <1>1 DEF Init, JobIds, PlanIds
  <2>3. AttemptsInv
    BY <1>1, <2>2 DEF Init, AttemptsInv, Idle
  <2>4. \A i : JobsOf(i) = {} /\ PlansOf(i) = {}
    BY <2>2 DEF JobsOf, PlansOf
  <2>5. CountInv
    <3>1. \A i : Cardinality(JobsOf(i)) = 0 /\ Cardinality(PlansOf(i)) = 0
      BY <2>4, FS_EmptySet
    <3>2. \A i \in Intakes : intake[i] # "planning"
      BY <1>1 DEF Init
    <3> QED
      BY <3>1, <3>2 DEF CountInv
  <2> QED
    BY <2>1, <2>3, <2>5
<1>2. ASSUME Inv, [Next]_vars PROVE Inv'
  <2>1. BaseInv' /\ Moves
    BY <1>2, NextBase
  <2>2. AttemptsInv'
    BY <1>2, <2>1, NextAttempts DEF BaseInv
  <2>3. CountInv'
    BY <1>2, <2>1, NextCount DEF BaseInv
  <2> QED
    BY <2>1, <2>2, <2>3
<1>3. Inv => OnePlanPerRequest
  BY DEF AttemptsInv, CountInv, OnePlanPerRequest, PlansOf
<1> HIDE DEF Inv
<1> QED
  BY <1>1, <1>2, <1>3, PTL DEF Spec

-----------------------------------------------------------------------------
(* A job for every intake that is being planned.                           *)

\* A job that can still plan its intake: no worker that owns it has stored a
\* plan already.  A live job alone would not do, since its owner may be about
\* to complete it.
CanPlan(j) ==
  \/ LostInCrash(j)
  \/ /\ jobs[j].status \in Live
     /\ \A w \in Workers : worker[w].job = j /\ Owns(w) => worker[w].pc \notin Saved

CanPlanInv ==
  \A i \in Intakes : intake[i] = "planning" => \E j \in JobsOf(i) : CanPlan(j)

LEMMA NextCanPlan ==
  ASSUME TypeInv, AttemptsInv, CanPlanInv, Moves
  PROVE  CanPlanInv'
<1> SUFFICES ASSUME NEW i \in Intakes, intake'[i] = "planning"
             PROVE  \E j \in JobsOf(i)' : CanPlan(j)'
  BY DEF CanPlanInv
<1>1. CASE \E j \in NewIds : jobs'[j].intake = i
  <2>1. PICK j \in NewIds : jobs'[j].intake = i
    BY <1>1
  <2>2. j \in JobsOf(i)' /\ jobs'[j].status = "queued"
    BY <2>1, JobIdsGrow DEF JobsOf, Moves, JobsMove
  <2>3. CanPlan(j)'
    BY <2>2 DEF CanPlan, Live, Owns, Job
  <2> QED
    BY <2>2, <2>3
<1>2. CASE intake[i] = "planning"
  <2>1. PICK j \in JobsOf(i) : CanPlan(j)
    BY <1>2 DEF CanPlanInv
  <2>2. j \in JobIds /\ jobs[j].intake = i /\ JobMove(j) /\ j \in JobsOf(i)'
    BY <2>1, JobIdsGrow DEF JobsOf, Moves, JobsMove, JobMove
  <2> SUFFICES CanPlan(j)'
    BY <2>2
  <2>3. CASE Kept(j)
    <3>1. CASE LostInCrash(j)
      BY <2>3, <3>1 DEF Kept, LostInCrash, CanPlan
    <3>2. CASE /\ jobs[j].status \in Live
               /\ \A w \in Workers : worker[w].job = j /\ Owns(w) => worker[w].pc \notin Saved
      <4>1. ASSUME NEW w \in Workers, worker'[w].job = j,
                   jobs'[j].status = "running", jobs'[j].worker = w
            PROVE  worker'[w].pc \notin Saved
        <5>1. CASE worker'[w].pc = "idle"
          BY <5>1 DEF Saved
        <5>2. CASE worker'[w].pc # "idle"
          <6>1. \/ worker'[w].pc = "load"
                \/ worker[w].pc # "idle" /\ worker[w].job = j /\ Owns(w)
            BY <4>1, <5>2, OwnerBefore
          <6>2. CASE worker'[w].pc = "load"
            BY <6>2 DEF Saved
          <6>3. CASE worker[w].pc # "idle" /\ worker[w].job = j /\ Owns(w)
            <7>1. worker[w].pc \notin Saved
              BY <3>2, <6>3
            <7> QED
              BY <2>2, <5>2, <6>3, <7>1 DEF Moves, WorkersMove, WorkerMove, Job
          <6> QED
            BY <6>1, <6>2, <6>3
        <5> QED
          BY <5>1, <5>2
      <4> QED
        BY <2>3, <3>2, <4>1 DEF CanPlan, Kept, Owns, Job
    <3> QED
      BY <2>1, <2>2, <3>1, <3>2 DEF CanPlan
  <2>4. CASE Claimed(j)
    <3>1. PICK v \in Workers : jobs'[j].worker = v /\ worker'[v].pc = "load"
      BY <2>4 DEF Claimed
    <3>2. jobs'[j].status = "running"
      BY <2>4 DEF Claimed
    <3> QED
      BY <3>1, <3>2 DEF CanPlan, Live, Owns, Job, Saved
  <2>5. CASE Returned(j)
    BY <2>5 DEF Returned, CanPlan, Live, Owns, Job
  <2>6. CASE Ended(j)
    <3>1. jobs[j].attempt > 0
      BY <2>2, <2>6 DEF Ended, AttemptsInv
    <3> QED
      BY <2>6, <3>1 DEF Ended, CanPlan, LostInCrash
  <2>7. CASE Stopped(j)
    BY <2>2, <2>7 DEF Stopped
  <2>8. CASE Settled(j)
    <3>1. PICK w \in Workers :
            /\ worker[w].job = j /\ Owns(w)
            /\ \/ worker[w].pc = "complete"
               \/ jobs'[j].status = "retry_wait"
               \/ intake'[jobs[j].intake] # "planning"
      BY <2>8 DEF Settled
    <3>2. jobs[j].status = "running"
      BY <3>1 DEF Owns, Job
    <3>3. worker[w].pc \notin Saved
      BY <2>1, <3>1, <3>2 DEF CanPlan, LostInCrash
    <3>4. jobs'[j].status = "retry_wait"
      BY <2>2, <3>1, <3>3 DEF Saved
    <3> QED
      BY <3>4 DEF CanPlan, Live, Owns, Job
  <2> QED
    BY <2>2, <2>3, <2>4, <2>5, <2>6, <2>7, <2>8 DEF JobMove
<1> QED
  BY <1>1, <1>2 DEF Moves, IntakesMove, IntakeMove

\* An intake that says 'planning' has a job that can still plan it, or one that
\* recovery ended for good after a crash (PlanningHasJob): no stop, edit, failure
\* or late worker leaves an intake that waits for nothing.
THEOREM PlanningIsAttended == Spec => []PlanningHasJob
<1> DEFINE Inv == BaseInv /\ AttemptsInv /\ CanPlanInv
<1>1. ASSUME Init PROVE Inv
  <2>1. JobIds = {}
    BY <1>1 DEF Init, JobIds
  <2>2. AttemptsInv /\ CanPlanInv
    BY <1>1, <2>1 DEF Init, AttemptsInv, Idle, CanPlanInv
  <2> QED
    BY <1>1, <2>2, InitBase
<1>2. ASSUME Inv, [Next]_vars PROVE Inv'
  <2>1. BaseInv' /\ Moves
    BY <1>2, NextBase
  <2> QED
    BY <1>2, <2>1, NextAttempts, NextCanPlan DEF BaseInv
<1>3. Inv => PlanningHasJob
  BY DEF CanPlanInv, CanPlan, PlanningHasJob
<1> HIDE DEF Inv
<1> QED
  BY <1>1, <1>2, <1>3, PTL DEF Spec
=============================================================================
