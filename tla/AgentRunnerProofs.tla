-------------------------- MODULE AgentRunnerProofs --------------------------
(***************************************************************************)
(* Proofs about AgentRunner, for any number of runs, discussions and       *)
(* cancellation requests, with whatever keys.                              *)
(***************************************************************************)
EXTENDS AgentRunner, TLAPS

\* A run gets as far as the escalation only with its context cancelled, and
\* Pool.Wait leaves no worker inside Run.
EscalatesCancelled == \A r \in Runs : pc[r] \in {"terminating", "killing"} => ctx[r]
WorkersGone == phase \in {"waited", "exited"} => WorkersDone

RunnerInv ==
  /\ TypeOK
  /\ MarkedBeforeSignalled
  /\ EscalatesCancelled
  /\ WorkersGone
  /\ KilledRunIsCancelled

\* Every step keeps the types.
LEMMA NextTyped == TypeOK /\ [Next]_vars => TypeOK'
<1> SUFFICES ASSUME TypeOK, [Next]_vars PROVE TypeOK'
  OBVIOUS
<1> USE DEF TypeOK, runVars, registry, stopVars
<1>1. ASSUME NEW r \in Runs, Begin(r)
      PROVE  TypeOK'
  BY <1>1 DEF Begin
<1>2. ASSUME NEW r \in Runs, LogFails(r)
      PROVE  TypeOK'
  BY <1>2 DEF LogFails
<1>3. ASSUME NEW r \in Runs, Register(r)
      PROVE  TypeOK'
  BY <1>3 DEF Register
<1>4. ASSUME NEW r \in Runs, Start(r)
      PROVE  TypeOK'
  BY <1>4 DEF Start
<1>5. ASSUME NEW r \in Runs, StartFails(r)
      PROVE  TypeOK'
  BY <1>5 DEF StartFails, Unregister
<1>6. ASSUME NEW r \in Runs, CheckCancelledBeforeStart(r)
      PROVE  TypeOK'
  BY <1>6 DEF CheckCancelledBeforeStart, Terminate
<1>7. ASSUME NEW r \in Runs, ContextDone(r)
      PROVE  TypeOK'
  BY <1>7 DEF ContextDone, Terminate
<1>8. ASSUME NEW r \in Runs, Escalate(r)
      PROVE  TypeOK'
  BY <1>8 DEF Escalate
<1>9. ASSUME NEW r \in Runs, WaitReturns(r)
      PROVE  TypeOK'
  BY <1>9 DEF WaitReturns
<1>10. ASSUME NEW r \in Runs, ReturnResult(r)
      PROVE  TypeOK'
  BY <1>10 DEF ReturnResult, Unregister, Outcomes
<1>11. ASSUME NEW r \in Runs, CallerCancels(r)
      PROVE  TypeOK'
  BY <1>11 DEF CallerCancels
<1>12. ASSUME NEW r \in Runs, ProcessEnds(r)
      PROVE  TypeOK'
  BY <1>12 DEF ProcessEnds
<1>13. ASSUME NEW r \in Runs, KillTakesEffect(r)
      PROVE  TypeOK'
  BY <1>13 DEF KillTakesEffect
<1>14. ASSUME NEW r \in Runs, Reap(r)
      PROVE  TypeOK'
  BY <1>14 DEF Reap
<1>15. ASSUME NEW c \in Stops, Mark(c)
      PROVE  TypeOK'
  BY <1>15 DEF Mark, Matches
<1>16. ASSUME NEW c \in Stops, CancelContexts(c)
      PROVE  TypeOK'
  BY <1>16 DEF CancelContexts
<1>17. ASSUME NEW c \in Stops, NEW r \in Runs, Signal(c, r)
      PROVE  TypeOK'
  BY <1>17 DEF Signal, Terminate
<1>18. ASSUME NEW c \in Stops, Signalled(c)
      PROVE  TypeOK'
  BY <1>18 DEF Signalled
<1>19. CASE StopPool
  BY <1>19 DEF StopPool
<1>20. CASE PoolWait
  BY <1>20 DEF PoolWait, WorkersDone
<1>21. CASE Exit
  BY <1>21 DEF Exit
<1>22. CASE UNCHANGED vars
  BY <1>22 DEF vars
<1> QED
  BY <1>1, <1>2, <1>3, <1>4, <1>5, <1>6, <1>7, <1>8, <1>9, <1>10, <1>11,
     <1>12, <1>13, <1>14, <1>15, <1>16, <1>17, <1>18, <1>19, <1>20, <1>21, <1>22
     DEF Next, RunStep, StopStep

\* Every step keeps the inductive invariant.
LEMMA NextKeepsInv == RunnerInv /\ [Next]_vars => RunnerInv'
<1> SUFFICES ASSUME RunnerInv, [Next]_vars
             PROVE  /\ MarkedBeforeSignalled' /\ EscalatesCancelled'
                    /\ WorkersGone' /\ KilledRunIsCancelled'
  BY NextTyped DEF RunnerInv
<1> DEFINE Kept == /\ MarkedBeforeSignalled' /\ EscalatesCancelled'
                   /\ WorkersGone' /\ KilledRunIsCancelled'
<1> USE DEF RunnerInv, TypeOK, runVars, registry, stopVars
<1>1. ASSUME NEW r \in Runs, Begin(r)
      PROVE  Kept
  <2>1. MarkedBeforeSignalled'
    BY <1>1 DEF Begin, MarkedBeforeSignalled
  <2>2. EscalatesCancelled'
    BY <1>1 DEF Begin, EscalatesCancelled
  <2>3. WorkersGone'
    BY <1>1 DEF Begin, WorkersGone, WorkersDone
  <2>4. KilledRunIsCancelled'
    BY <1>1 DEF Begin, KilledRunIsCancelled, MarkedBeforeSignalled
  <2> QED
    BY <2>1, <2>2, <2>3, <2>4
<1>2. ASSUME NEW r \in Runs, LogFails(r)
      PROVE  Kept
  <2>1. MarkedBeforeSignalled'
    BY <1>2 DEF LogFails, MarkedBeforeSignalled
  <2>2. EscalatesCancelled'
    BY <1>2 DEF LogFails, EscalatesCancelled
  <2>3. WorkersGone'
    BY <1>2 DEF LogFails, WorkersGone, WorkersDone
  <2>4. KilledRunIsCancelled'
    BY <1>2 DEF LogFails, KilledRunIsCancelled, MarkedBeforeSignalled
  <2> QED
    BY <2>1, <2>2, <2>3, <2>4
<1>3. ASSUME NEW r \in Runs, Register(r)
      PROVE  Kept
  <2>1. MarkedBeforeSignalled'
    BY <1>3 DEF Register, MarkedBeforeSignalled
  <2>2. EscalatesCancelled'
    BY <1>3 DEF Register, EscalatesCancelled
  <2>3. WorkersGone'
    BY <1>3 DEF Register, WorkersGone, WorkersDone
  <2>4. KilledRunIsCancelled'
    BY <1>3 DEF Register, KilledRunIsCancelled, MarkedBeforeSignalled
  <2> QED
    BY <2>1, <2>2, <2>3, <2>4
<1>4. ASSUME NEW r \in Runs, Start(r)
      PROVE  Kept
  <2>1. MarkedBeforeSignalled'
    BY <1>4 DEF Start, MarkedBeforeSignalled
  <2>2. EscalatesCancelled'
    BY <1>4 DEF Start, EscalatesCancelled
  <2>3. WorkersGone'
    BY <1>4 DEF Start, WorkersGone, WorkersDone
  <2>4. KilledRunIsCancelled'
    BY <1>4 DEF Start, KilledRunIsCancelled, MarkedBeforeSignalled
  <2> QED
    BY <2>1, <2>2, <2>3, <2>4
<1>5. ASSUME NEW r \in Runs, StartFails(r)
      PROVE  Kept
  <2>1. MarkedBeforeSignalled'
    BY <1>5 DEF StartFails, Unregister, MarkedBeforeSignalled
  <2>2. EscalatesCancelled'
    BY <1>5 DEF StartFails, Unregister, EscalatesCancelled
  <2>3. WorkersGone'
    BY <1>5 DEF StartFails, Unregister, WorkersGone, WorkersDone
  <2>4. KilledRunIsCancelled'
    BY <1>5 DEF StartFails, Unregister, KilledRunIsCancelled, MarkedBeforeSignalled
  <2> QED
    BY <2>1, <2>2, <2>3, <2>4
<1>6. ASSUME NEW r \in Runs, CheckCancelledBeforeStart(r)
      PROVE  Kept
  <2>1. MarkedBeforeSignalled'
    BY <1>6 DEF CheckCancelledBeforeStart, Terminate, MarkedBeforeSignalled
  <2>2. EscalatesCancelled'
    BY <1>6 DEF CheckCancelledBeforeStart, Terminate, EscalatesCancelled
  <2>3. WorkersGone'
    BY <1>6 DEF CheckCancelledBeforeStart, Terminate, WorkersGone, WorkersDone
  <2>4. KilledRunIsCancelled'
    BY <1>6 DEF CheckCancelledBeforeStart, Terminate, KilledRunIsCancelled, MarkedBeforeSignalled
  <2> QED
    BY <2>1, <2>2, <2>3, <2>4
<1>7. ASSUME NEW r \in Runs, ContextDone(r)
      PROVE  Kept
  <2>1. MarkedBeforeSignalled'
    BY <1>7 DEF ContextDone, Terminate, MarkedBeforeSignalled
  <2>2. EscalatesCancelled'
    BY <1>7 DEF ContextDone, Terminate, EscalatesCancelled
  <2>3. WorkersGone'
    BY <1>7 DEF ContextDone, Terminate, WorkersGone, WorkersDone
  <2>4. KilledRunIsCancelled'
    BY <1>7 DEF ContextDone, Terminate, KilledRunIsCancelled, MarkedBeforeSignalled
  <2> QED
    BY <2>1, <2>2, <2>3, <2>4
<1>8. ASSUME NEW r \in Runs, Escalate(r)
      PROVE  Kept
  <2>1. MarkedBeforeSignalled'
    BY <1>8 DEF Escalate, MarkedBeforeSignalled, EscalatesCancelled
  <2>2. EscalatesCancelled'
    BY <1>8 DEF Escalate, EscalatesCancelled
  <2>3. WorkersGone'
    BY <1>8 DEF Escalate, WorkersGone, WorkersDone
  <2>4. KilledRunIsCancelled'
    BY <1>8 DEF Escalate, KilledRunIsCancelled, MarkedBeforeSignalled
  <2> QED
    BY <2>1, <2>2, <2>3, <2>4
<1>9. ASSUME NEW r \in Runs, WaitReturns(r)
      PROVE  Kept
  <2>1. MarkedBeforeSignalled'
    BY <1>9 DEF WaitReturns, MarkedBeforeSignalled
  <2>2. EscalatesCancelled'
    BY <1>9 DEF WaitReturns, EscalatesCancelled
  <2>3. WorkersGone'
    BY <1>9 DEF WaitReturns, WorkersGone, WorkersDone
  <2>4. KilledRunIsCancelled'
    BY <1>9 DEF WaitReturns, KilledRunIsCancelled, MarkedBeforeSignalled
  <2> QED
    BY <2>1, <2>2, <2>3, <2>4
<1>10. ASSUME NEW r \in Runs, ReturnResult(r)
      PROVE  Kept
  <2>1. MarkedBeforeSignalled'
    BY <1>10 DEF ReturnResult, Unregister, Outcomes, MarkedBeforeSignalled
  <2>2. EscalatesCancelled'
    BY <1>10 DEF ReturnResult, Unregister, Outcomes, EscalatesCancelled
  <2>3. WorkersGone'
    BY <1>10 DEF ReturnResult, Unregister, Outcomes, WorkersGone, WorkersDone
  <2>4. KilledRunIsCancelled'
    BY <1>10 DEF ReturnResult, Unregister, Outcomes, KilledRunIsCancelled, MarkedBeforeSignalled
  <2> QED
    BY <2>1, <2>2, <2>3, <2>4
<1>11. ASSUME NEW r \in Runs, CallerCancels(r)
      PROVE  Kept
  <2>1. MarkedBeforeSignalled'
    BY <1>11 DEF CallerCancels, MarkedBeforeSignalled
  <2>2. EscalatesCancelled'
    BY <1>11 DEF CallerCancels, EscalatesCancelled
  <2>3. WorkersGone'
    BY <1>11 DEF CallerCancels, WorkersGone, WorkersDone
  <2>4. KilledRunIsCancelled'
    BY <1>11 DEF CallerCancels, KilledRunIsCancelled, MarkedBeforeSignalled
  <2> QED
    BY <2>1, <2>2, <2>3, <2>4
<1>12. ASSUME NEW r \in Runs, ProcessEnds(r)
      PROVE  Kept
  <2>1. MarkedBeforeSignalled'
    BY <1>12 DEF ProcessEnds, MarkedBeforeSignalled
  <2>2. EscalatesCancelled'
    BY <1>12 DEF ProcessEnds, EscalatesCancelled
  <2>3. WorkersGone'
    BY <1>12 DEF ProcessEnds, WorkersGone, WorkersDone
  <2>4. KilledRunIsCancelled'
    BY <1>12 DEF ProcessEnds, KilledRunIsCancelled, MarkedBeforeSignalled
  <2> QED
    BY <2>1, <2>2, <2>3, <2>4
<1>13. ASSUME NEW r \in Runs, KillTakesEffect(r)
      PROVE  Kept
  <2>1. MarkedBeforeSignalled'
    BY <1>13 DEF KillTakesEffect, MarkedBeforeSignalled
  <2>2. EscalatesCancelled'
    BY <1>13 DEF KillTakesEffect, EscalatesCancelled
  <2>3. WorkersGone'
    BY <1>13 DEF KillTakesEffect, WorkersGone, WorkersDone
  <2>4. KilledRunIsCancelled'
    BY <1>13 DEF KillTakesEffect, KilledRunIsCancelled, MarkedBeforeSignalled
  <2> QED
    BY <2>1, <2>2, <2>3, <2>4
<1>14. ASSUME NEW r \in Runs, Reap(r)
      PROVE  Kept
  <2>1. MarkedBeforeSignalled'
    BY <1>14 DEF Reap, MarkedBeforeSignalled
  <2>2. EscalatesCancelled'
    BY <1>14 DEF Reap, EscalatesCancelled
  <2>3. WorkersGone'
    BY <1>14 DEF Reap, WorkersGone, WorkersDone
  <2>4. KilledRunIsCancelled'
    BY <1>14 DEF Reap, KilledRunIsCancelled, MarkedBeforeSignalled
  <2> QED
    BY <2>1, <2>2, <2>3, <2>4
<1>15. ASSUME NEW c \in Stops, Mark(c)
      PROVE  Kept
  <2>1. MarkedBeforeSignalled'
    BY <1>15 DEF Mark, Matches, MarkedBeforeSignalled
  <2>2. EscalatesCancelled'
    BY <1>15 DEF Mark, Matches, EscalatesCancelled
  <2>3. WorkersGone'
    BY <1>15 DEF Mark, Matches, WorkersGone, WorkersDone
  <2>4. KilledRunIsCancelled'
    BY <1>15 DEF Mark, Matches, KilledRunIsCancelled, MarkedBeforeSignalled
  <2> QED
    BY <2>1, <2>2, <2>3, <2>4
<1>16. ASSUME NEW c \in Stops, CancelContexts(c)
      PROVE  Kept
  <2>1. MarkedBeforeSignalled'
    BY <1>16 DEF CancelContexts, MarkedBeforeSignalled
  <2>2. EscalatesCancelled'
    BY <1>16 DEF CancelContexts, EscalatesCancelled
  <2>3. WorkersGone'
    BY <1>16 DEF CancelContexts, WorkersGone, WorkersDone
  <2>4. KilledRunIsCancelled'
    BY <1>16 DEF CancelContexts, KilledRunIsCancelled, MarkedBeforeSignalled
  <2> QED
    BY <2>1, <2>2, <2>3, <2>4
<1>17. ASSUME NEW c \in Stops, NEW r \in Runs, Signal(c, r)
      PROVE  Kept
  <2>1. MarkedBeforeSignalled'
    BY <1>17 DEF Signal, Terminate, MarkedBeforeSignalled
  <2>2. EscalatesCancelled'
    BY <1>17 DEF Signal, Terminate, EscalatesCancelled
  <2>3. WorkersGone'
    BY <1>17 DEF Signal, Terminate, WorkersGone, WorkersDone
  <2>4. KilledRunIsCancelled'
    BY <1>17 DEF Signal, Terminate, KilledRunIsCancelled, MarkedBeforeSignalled
  <2> QED
    BY <2>1, <2>2, <2>3, <2>4
<1>18. ASSUME NEW c \in Stops, Signalled(c)
      PROVE  Kept
  <2>1. MarkedBeforeSignalled'
    BY <1>18 DEF Signalled, MarkedBeforeSignalled
  <2>2. EscalatesCancelled'
    BY <1>18 DEF Signalled, EscalatesCancelled
  <2>3. WorkersGone'
    BY <1>18 DEF Signalled, WorkersGone, WorkersDone
  <2>4. KilledRunIsCancelled'
    BY <1>18 DEF Signalled, KilledRunIsCancelled, MarkedBeforeSignalled
  <2> QED
    BY <2>1, <2>2, <2>3, <2>4
<1>19. CASE StopPool
  <2>1. MarkedBeforeSignalled'
    BY <1>19 DEF StopPool, MarkedBeforeSignalled
  <2>2. EscalatesCancelled'
    BY <1>19 DEF StopPool, EscalatesCancelled
  <2>3. WorkersGone'
    BY <1>19 DEF StopPool, WorkersGone, WorkersDone
  <2>4. KilledRunIsCancelled'
    BY <1>19 DEF StopPool, KilledRunIsCancelled, MarkedBeforeSignalled
  <2> QED
    BY <2>1, <2>2, <2>3, <2>4
<1>20. CASE PoolWait
  <2>1. MarkedBeforeSignalled'
    BY <1>20 DEF PoolWait, WorkersDone, MarkedBeforeSignalled
  <2>2. EscalatesCancelled'
    BY <1>20 DEF PoolWait, WorkersDone, EscalatesCancelled
  <2>3. WorkersGone'
    BY <1>20 DEF PoolWait, WorkersDone, WorkersGone
  <2>4. KilledRunIsCancelled'
    BY <1>20 DEF PoolWait, WorkersDone, KilledRunIsCancelled, MarkedBeforeSignalled
  <2> QED
    BY <2>1, <2>2, <2>3, <2>4
<1>21. CASE Exit
  <2>1. MarkedBeforeSignalled'
    BY <1>21 DEF Exit, MarkedBeforeSignalled
  <2>2. EscalatesCancelled'
    BY <1>21 DEF Exit, EscalatesCancelled
  <2>3. WorkersGone'
    BY <1>21 DEF Exit, WorkersGone, WorkersDone
  <2>4. KilledRunIsCancelled'
    BY <1>21 DEF Exit, KilledRunIsCancelled, MarkedBeforeSignalled
  <2> QED
    BY <2>1, <2>2, <2>3, <2>4
<1>22. CASE UNCHANGED vars
  BY <1>22 DEF vars, MarkedBeforeSignalled, EscalatesCancelled, WorkersGone, WorkersDone,
     KilledRunIsCancelled
<1> QED
  BY <1>1, <1>2, <1>3, <1>4, <1>5, <1>6, <1>7, <1>8, <1>9, <1>10, <1>11,
     <1>12, <1>13, <1>14, <1>15, <1>16, <1>17, <1>18, <1>19, <1>20, <1>21, <1>22
     DEF Next, RunStep, StopStep

\* The initial state satisfies the invariant.
LEMMA InitInv == Init => RunnerInv
<1> SUFFICES ASSUME Init PROVE RunnerInv
  OBVIOUS
<1>1. TypeOK
  BY DEF Init, TypeOK
<1>2. MarkedBeforeSignalled
  BY DEF Init, MarkedBeforeSignalled
<1>3. EscalatesCancelled /\ WorkersGone /\ KilledRunIsCancelled
  BY DEF Init, EscalatesCancelled, WorkersGone, WorkersDone, KilledRunIsCancelled
<1> QED
  BY <1>1, <1>2, <1>3 DEF RunnerInv

\* A run whose CLI the runner terminated is never taken for one that ended by
\* itself (Runner.Run, Cancel and CancelPrefix).
THEOREM KilledIsCancelled == Spec => []KilledRunIsCancelled
<1>1. RunnerInv => KilledRunIsCancelled
  BY DEF RunnerInv
<1> QED
  BY <1>1, InitInv, NextKeepsInv, PTL DEF Spec

\* No CLI of a queue worker outlives a graceful shutdown (Pool.Stop, Pool.Wait).
THEOREM WorkersLeaveNoOrphan == Spec => []NoWorkerOrphan
<1>1. RunnerInv => NoWorkerOrphan
  BY DEF RunnerInv, MarkedBeforeSignalled, WorkersGone, WorkersDone, NoWorkerOrphan, TypeOK
<1> QED
  BY <1>1, InitInv, NextKeepsInv, PTL DEF Spec
=============================================================================
