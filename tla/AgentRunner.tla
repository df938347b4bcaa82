----------------------------- MODULE AgentRunner -----------------------------
(***************************************************************************)
(* agent.Runner of one backend instance: the registry of running CLIs, the *)
(* goroutines inside Run, the requests that cancel runs by key or by key   *)
(* prefix, and the part of a graceful shutdown that ends the CLIs.  Runs   *)
(* are those of queue workers and those of requirement discussions, which  *)
(* an HTTP handler serves.  The lock of the registry makes one action of   *)
(* each critical section; everything between two of them interleaves.      *)
(***************************************************************************)
EXTENDS Naturals, Sequences

CONSTANTS
  Runs,           \* invocations of Run, by run id
  Discussions,    \* the ones an HTTP handler makes
  ProjectOf,      \* project of a run
  JobOf,          \* job of a run, or "discussion"
  Stops,          \* cancellation requests
  Request,        \* what each of them asks for: [exact, key]
  CancelAll       \* the one that shutdown makes

ASSUME RunnerAssumption ==
  /\ Discussions \subseteq Runs
  /\ CancelAll \in Stops
  /\ Request[CancelAll] = [exact |-> FALSE, key |-> <<>>]

VARIABLES
  pc,         \* where Run is
  running,    \* keys of r.running and r.cancels
  cancelled,  \* keys of r.cancelled
  ctx,        \* the context of the invocation is cancelled
  proc,       \* the CLI process on the host
  termed,     \* the process got a signal from the runner while it lived
  outcome,    \* what Run returned
  stopPc, targets,  \* a cancellation request and the runs it still has to signal
  phase       \* of the instance: up, stopping, waited, exited

runVars == <<pc, ctx, proc, termed, outcome>>
registry == <<running, cancelled>>
stopVars == <<stopPc, targets>>
vars == <<runVars, registry, stopVars, phase>>

TypeOK ==
  /\ pc \in [Runs -> {"idle", "begun", "registered", "started", "waiting",
                      "terminating", "killing", "exited", "returned"}]
  /\ running \in SUBSET Runs
  /\ cancelled \in SUBSET Runs
  /\ ctx \in [Runs -> BOOLEAN]
  /\ proc \in [Runs -> {"none", "alive", "killed", "zombie", "reaped"}]
  /\ termed \in [Runs -> BOOLEAN]
  /\ outcome \in [Runs -> {"none", "ok", "failed", "cancelled"}]
  /\ stopPc \in [Stops -> {"idle", "marked", "signalling", "done"}]
  /\ targets \in [Stops -> SUBSET Runs]
  /\ phase \in {"up", "stopping", "waited", "exited"}

Init ==
  /\ pc = [r \in Runs |-> "idle"]
  /\ running = {} /\ cancelled = {}
  /\ ctx = [r \in Runs |-> FALSE]
  /\ proc = [r \in Runs |-> "none"]
  /\ termed = [r \in Runs |-> FALSE]
  /\ outcome = [r \in Runs |-> "none"]
  /\ stopPc = [c \in Stops |-> "idle"]
  /\ targets = [c \in Stops |-> {}]
  /\ phase = "up"

\* project:job:run and project:discussion:run.  Every key ends in a fresh run
\* id, so the run stands for its key in the registry, and the refusal of a key
\* that is already active never happens.
Key(r) == <<ProjectOf[r], JobOf[r], r>>

HasPrefix(key, prefix) ==
  Len(prefix) <= Len(key) /\ SubSeq(key, 1, Len(prefix)) = prefix

-----------------------------------------------------------------------------
(* Run.                                                                    *)

\* The caller invokes Run.  Workers do so until Pool.Wait has returned.
Begin(r) ==
  /\ pc[r] = "idle"
  /\ phase # "exited" /\ (r \notin Discussions => phase # "waited")
  /\ pc' = [pc EXCEPT ![r] = "begun"]
  /\ UNCHANGED <<ctx, proc, termed, outcome, registry, stopVars, phase>>

\* The log file cannot be opened.
LogFails(r) ==
  /\ pc[r] = "begun"
  /\ pc' = [pc EXCEPT ![r] = "returned"]
  /\ outcome' = [outcome EXCEPT ![r] = "failed"]
  /\ UNCHANGED <<ctx, proc, termed, registry, stopVars, phase>>

\* Before cmd.Start, so that a stop cannot miss the process.
Register(r) ==
  /\ pc[r] = "begun"
  /\ running' = running \cup {r}
  /\ pc' = [pc EXCEPT ![r] = "registered"]
  /\ UNCHANGED <<ctx, proc, termed, outcome, cancelled, stopVars, phase>>

Unregister(r) ==
  /\ running' = running \ {r}
  /\ cancelled' = cancelled \ {r}

\* cmd.Start, OnStart and the heartbeat goroutine.
Start(r) ==
  /\ pc[r] = "registered"
  /\ proc' = [proc EXCEPT ![r] = "alive"]
  /\ pc' = [pc EXCEPT ![r] = "started"]
  /\ UNCHANGED <<ctx, termed, outcome, registry, stopVars, phase>>

StartFails(r) ==
  /\ pc[r] = "registered"
  /\ pc' = [pc EXCEPT ![r] = "returned"]
  /\ outcome' = [outcome EXCEPT ![r] = "failed"]
  /\ Unregister(r)
  /\ UNCHANGED <<ctx, proc, termed, stopVars, phase>>

\* terminateProcessTree(cmd, force = false): TERM to the process group.
Terminate(r) == termed' = [termed EXCEPT ![r] = @ \/ proc[r] = "alive"]

\* A stop that came before cmd.Start had no process to signal.
CheckCancelledBeforeStart(r) ==
  /\ pc[r] = "started"
  /\ IF r \in cancelled THEN Terminate(r) ELSE UNCHANGED termed
  /\ pc' = [pc EXCEPT ![r] = "waiting"]
  /\ UNCHANGED <<ctx, proc, outcome, registry, stopVars, phase>>

\* select: the context ends first ...
ContextDone(r) ==
  /\ pc[r] = "waiting" /\ ctx[r]
  /\ Terminate(r)
  /\ pc' = [pc EXCEPT ![r] = "terminating"]
  /\ UNCHANGED <<ctx, proc, outcome, registry, stopVars, phase>>

\* Mutant: TERM once more.
EscalateWithTerm(r) ==
  /\ pc[r] = "terminating"
  /\ Terminate(r)
  /\ pc' = [pc EXCEPT ![r] = "killing"]
  /\ UNCHANGED <<ctx, proc, outcome, registry, stopVars, phase>>

\* ... and after two seconds the process group is killed ...
Escalate(r) ==
  /\ pc[r] = "terminating"
  /\ proc' = [proc EXCEPT ![r] = IF @ = "alive" THEN "killed" ELSE @]
  /\ termed' = [termed EXCEPT ![r] = @ \/ proc[r] = "alive"]
  /\ pc' = [pc EXCEPT ![r] = "killing"]
  /\ UNCHANGED <<ctx, outcome, registry, stopVars, phase>>

\* ... or the goroutine that called cmd.Wait delivers its result.
WaitReturns(r) ==
  /\ pc[r] \in {"waiting", "terminating", "killing"}
  /\ proc[r] = "reaped"
  /\ pc' = [pc EXCEPT ![r] = "exited"]
  /\ UNCHANGED <<ctx, proc, termed, outcome, registry, stopVars, phase>>

\* Mutant: the exit status is looked at before the cancellation.
OutcomesByExit(r) == {"ok", "failed"}
\* The error of Run.  A cancelled context or a mark in the registry outweigh
\* the exit status, which may be anything: a CLI that is told to terminate may
\* still exit with 0.
Outcomes(r) == IF ctx[r] \/ r \in cancelled THEN {"cancelled"} ELSE {"ok", "failed"}

\* The log is closed and parsed, the result put together; the deferred call
\* removes the key.
ReturnResult(r) ==
  /\ pc[r] = "exited"
  /\ \E o \in Outcomes(r) : outcome' = [outcome EXCEPT ![r] = o]
  /\ Unregister(r)
  /\ pc' = [pc EXCEPT ![r] = "returned"]
  /\ UNCHANGED <<ctx, proc, termed, stopVars, phase>>

\* The caller's context ends: the lease was lost, or the client hung up.
CallerCancels(r) ==
  /\ ~ctx[r] /\ phase # "exited"
  /\ ctx' = [ctx EXCEPT ![r] = TRUE]
  /\ UNCHANGED <<pc, proc, termed, outcome, registry, stopVars, phase>>

-----------------------------------------------------------------------------
(* The CLI process.                                                        *)

\* By itself, or because it obeys TERM.
ProcessEnds(r) ==
  /\ proc[r] = "alive"
  /\ proc' = [proc EXCEPT ![r] = "zombie"]
  /\ UNCHANGED <<pc, ctx, termed, outcome, registry, stopVars, phase>>

\* The kernel ends a process that got KILL.
KillTakesEffect(r) ==
  /\ proc[r] = "killed"
  /\ proc' = [proc EXCEPT ![r] = "zombie"]
  /\ UNCHANGED <<pc, ctx, termed, outcome, registry, stopVars, phase>>

\* cmd.Wait in its own goroutine.
Reap(r) ==
  /\ proc[r] = "zombie"
  /\ pc[r] \in {"waiting", "terminating", "killing"}
  /\ proc' = [proc EXCEPT ![r] = "reaped"]
  /\ UNCHANGED <<pc, ctx, termed, outcome, registry, stopVars, phase>>

-----------------------------------------------------------------------------
(* Cancel and CancelPrefix.                                                *)

\* The registered runs that a request finds.
Matches(c) ==
  {r \in running : IF Request[c].exact THEN Key(r) = Request[c].key
                   ELSE HasPrefix(Key(r), Request[c].key)}

\* Under the lock: collect the commands and mark the keys.
Mark(c) ==
  /\ stopPc[c] = "idle" /\ phase = "up"
  /\ targets' = [targets EXCEPT ![c] = Matches(c)]
  /\ cancelled' = cancelled \cup Matches(c)
  /\ stopPc' = [stopPc EXCEPT ![c] = "marked"]
  /\ UNCHANGED <<runVars, running, phase>>

\* After the unlock: cancel the contexts ...
CancelContexts(c) ==
  /\ stopPc[c] = "marked" /\ phase # "exited"
  /\ ctx' = [r \in Runs |-> ctx[r] \/ r \in targets[c]]
  /\ stopPc' = [stopPc EXCEPT ![c] = "signalling"]
  /\ UNCHANGED <<pc, proc, termed, outcome, registry, targets, phase>>

\* ... and send TERM to each process that has been started.
Signal(c, r) ==
  /\ stopPc[c] = "signalling" /\ phase # "exited"
  /\ r \in targets[c]
  /\ Terminate(r)
  /\ targets' = [targets EXCEPT ![c] = @ \ {r}]
  /\ UNCHANGED <<pc, ctx, proc, outcome, registry, stopPc, phase>>

Signalled(c) ==
  /\ stopPc[c] = "signalling" /\ targets[c] = {} /\ phase # "exited"
  /\ stopPc' = [stopPc EXCEPT ![c] = "done"]
  /\ UNCHANGED <<runVars, registry, targets, phase>>

-----------------------------------------------------------------------------
(* Shutdown, from CancelAll on.                                            *)

\* Pool.Stop: the contexts of all workers end.
StopPool ==
  /\ phase = "up" /\ stopPc[CancelAll] = "done"
  /\ ctx' = [r \in Runs |-> ctx[r] \/ r \notin Discussions]
  /\ phase' = "stopping"
  /\ UNCHANGED <<pc, proc, termed, outcome, registry, stopVars>>

\* Mutant: shutdown waits for the registered runs only.
RegistryEmpty == running = {}

\* What Pool.Wait waits for.
WorkersDone == \A r \in Runs \ Discussions : pc[r] \in {"idle", "returned"}

PoolWait ==
  /\ phase = "stopping"
  /\ WorkersDone
  /\ phase' = "waited"
  /\ UNCHANGED <<runVars, registry, stopVars>>

\* server.Shutdown returns: the handlers are done or the 20 s window is over,
\* which leaves a cancelled one the time to escalate.
Exit ==
  /\ phase = "waited"
  /\ \A r \in Discussions : ctx[r] => pc[r] \in {"idle", "returned"}
  /\ phase' = "exited"
  /\ UNCHANGED <<runVars, registry, stopVars>>

-----------------------------------------------------------------------------
\* What the goroutine of Run does next.
RunStep(r) ==
  /\ phase # "exited"
  /\ \/ LogFails(r) \/ Register(r) \/ Start(r) \/ StartFails(r)
     \/ CheckCancelledBeforeStart(r) \/ ContextDone(r) \/ Escalate(r)
     \/ WaitReturns(r) \/ ReturnResult(r)

StopStep(c) == CancelContexts(c) \/ Signalled(c) \/ \E r \in Runs : Signal(c, r)

Next ==
  \/ \E r \in Runs : Begin(r) \/ RunStep(r) \/ CallerCancels(r)
                     \/ ProcessEnds(r) \/ KillTakesEffect(r)
                     \/ (phase # "exited" /\ Reap(r))
  \/ \E c \in Stops : Mark(c) \/ StopStep(c)
  \/ StopPool \/ PoolWait \/ Exit

Spec == Init /\ [][Next]_vars

\* Goroutines, timers and the kernel make progress.  A CLI need not end by
\* itself or obey TERM: no invocation has a timeout.
Fairness ==
  /\ \A r \in Runs : /\ WF_vars(RunStep(r))
                     /\ WF_vars(KillTakesEffect(r))
                     /\ WF_vars(phase # "exited" /\ Reap(r))
  /\ \A c \in Stops : WF_vars(StopStep(c))
FairSpec == Spec /\ Fairness

-----------------------------------------------------------------------------
(* What must hold.                                                         *)

\* A run whose CLI the runner terminated is reported as cancelled, whatever
\* the CLI exited with and whoever sent the signal at whatever moment: the
\* worker then returns the task to pending instead of failing or, worse,
\* completing it.
KilledRunIsCancelled ==
  \A r \in Runs : outcome[r] \in {"ok", "failed"} => ~termed[r]

\* A stop cannot miss a CLI (agent.go:200-202): each run that is in the
\* registry when CancelPrefix looks, its process started or not, and even if
\* it ignores TERM, ends.
CancelReaches ==
  \A c \in Stops, r \in Runs :
    (stopPc[c] = "marked" /\ r \in targets[c])
      ~> pc[r] = "returned" \/ phase = "exited"

\* No CLI of a worker outlives a graceful shutdown, also one that was started
\* after CancelAll had looked.
NoWorkerOrphan ==
  phase = "exited" => \A r \in Runs \ Discussions : proc[r] \in {"none", "reaped"}

\* What the argument for KilledRunIsCancelled rests on: before a run is over,
\* a signal implies that its context is cancelled or its key is marked, and
\* so does being the target of a stop, as long as the key is registered.
MarkedBeforeSignalled ==
  \A r \in Runs :
    /\ termed[r] /\ pc[r] # "returned" => ctx[r] \/ r \in cancelled
    /\ outcome[r] # "none" => pc[r] = "returned"
    /\ proc[r] = "none" => ~termed[r]
    /\ pc[r] = "returned" => proc[r] \in {"none", "reaped"}
    /\ pc[r] = "exited" => proc[r] = "reaped"
    /\ pc[r] \in {"idle", "begun", "registered"} => proc[r] = "none"
    /\ \A c \in Stops : stopPc[c] = "signalling" /\ r \in targets[c] => ctx[r]
=============================================================================
