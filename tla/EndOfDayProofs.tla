----------------------------- MODULE EndOfDayProofs -----------------------------
(***************************************************************************)
(* Proofs about the two modules of MCEndOfDay.  They share no variable and *)
(* neither part of this module uses a fact of the other.                   *)
(*                                                                         *)
(* EODControlPlane, for any number of processes and steps, any staleness   *)
(* threshold and any budget of crashes and failures.  While no lock        *)
(* connection has dropped, a process inside an attempt holds the lock      *)
(* (Exclusive), so the rows it snapshotted can only have been changed by   *)
(* itself (SnapshotCurrent) and the step it believes to be running is the  *)
(* only one that is (OneStepRunning).  Everything the properties say of    *)
(* the rows follows from that.                                             *)
(*                                                                         *)
(* MarketIngestion, for any symbols, calendar, windows and number of       *)
(* concurrent jobs: the stored indicators are those of the stored prices,  *)
(* no series has a hole, and what is reported complete is there.           *)
(***************************************************************************)
EXTENDS EODControlPlane, MarketIngestion, FiniteSetTheorems, WellFoundedInduction, TLAPS

Executing == {"steps", "handler", "handled"}
InStep    == {"handler", "handled"}

RunTypeInv == TypeOK /\ \A w \in Workers : pc[w] \in InStep => at[w] \in Steps

Exclusive == \A w \in Workers : pc[w] # "idle" => lock = w

SnapshotCurrent ==
  \A w \in Workers : pc[w] \in Executing =>
    /\ run.status = "running"
    /\ \A k \in Steps : seen[w][k] \in Checkpointed <=> step[k].status \in Checkpointed
    /\ \A j \in Steps : j < at[w] => step[j].status \in Checkpointed

OneStepRunning ==
  \A w \in Workers : pc[w] \in Executing =>
    \A k \in Steps : step[k].status = "running" <=> pc[w] \in InStep /\ k = at[w]

BeginsResumable == \A w \in Workers : pc[w] = "begin" => run.status \in Resumable

RunningInside == \A k \in Steps : step[k].status = "running" => run.status = "running"

Prefix ==
  \A j, k \in Steps : j < k /\ step[k].status # "pending" => step[j].status \in Checkpointed

AbsentIsFresh == run.status = "absent" => \A k \in Steps : step[k].status = "pending"

CompletedRun ==
  run.status = "completed" => ~run.error /\ \A k \in Steps : step[k].status \in Checkpointed

CleanCheckpoints == \A k \in Steps : step[k].status \in Checkpointed => ~step[k].error

AttemptsBehind ==
  /\ \A k \in Steps : step[k].attempts <= run.attempts
  /\ \A w \in Workers, k \in Steps :
       \/ pc[w] = "steps" /\ k >= at[w]
       \/ pc[w] \in InStep /\ k > at[w]
       => step[k].attempts < run.attempts

LockInv ==
  /\ Exclusive /\ SnapshotCurrent /\ OneStepRunning /\ BeginsResumable /\ RunningInside
  /\ Prefix /\ AbsentIsFresh /\ CompletedRun /\ CleanCheckpoints /\ AttemptsBehind

FencedInv == Fenced => LockInv

DataInv ==
  /\ CheckpointHasData
  /\ \A w \in Workers : outcome[w] = "ok" => pc[w] = "handled" /\ at[w] \in work

-----------------------------------------------------------------------------
(* Type correctness. *)

LEMMA InitTypeInv == Init => RunTypeInv
  BY NoWorkerAssumption, StepCountAssumption, StaleAfterAssumption
  DEF Init, RunTypeInv, TypeOK, RunRow, StepRow, NoRun, FreshStep, Program, Outcomes, Results,
      PipelineRunStatus, PipelineStepStatus, Unseen, Steps, InStep

LEMMA UnfinishedStatus ==
  ASSUME NEW steps PROVE Unfinished(steps) \in {"partial", "failed"}
  BY DEF Unfinished

LEMMA RowTypes ==
  /\ \A row \in StepRow, status \in PipelineStepStatus, error \in BOOLEAN :
       Started(row) \in StepRow /\ Ended(row, status, error) \in StepRow
  /\ \A row \in RunRow, status \in PipelineRunStatus, error \in BOOLEAN :
       Started(row) \in RunRow /\ Ended(row, status, error) \in RunRow
  BY DEF Started, Ended, StepRow, RunRow, PipelineStepStatus, PipelineRunStatus

LEMMA NextTypeInv == RunTypeInv /\ [Next]_vars => RunTypeInv'
<1> SUFFICES ASSUME RunTypeInv, [Next]_vars PROVE RunTypeInv'
  OBVIOUS
<1> USE StepCountAssumption, StaleAfterAssumption, NoWorkerAssumption
    DEF RunTypeInv, TypeOK, Goto, durable, local, budgets, InStep, Program
<1>1. CASE Tick
  BY <1>1 DEF Tick
<1>2. ASSUME NEW w \in Workers, AcquireLock(w) PROVE RunTypeInv'
  BY <1>2 DEF AcquireLock
<1>3. ASSUME NEW w \in Workers, SkipDuplicate(w) PROVE RunTypeInv'
  BY <1>3 DEF SkipDuplicate, vars
<1>4. ASSUME NEW w \in Workers, StartOrResume(w) PROVE RunTypeInv'
  <2>1. CASE CreateRun(w)
    BY <2>1 DEF CreateRun, RunRow, StepRow, FreshStep, PipelineRunStatus, PipelineStepStatus
  <2>2. CASE RecoverStale(w)
    <3>1. step' \in [Steps -> StepRow]
      BY <2>2, RowTypes DEF RecoverStale, PipelineStepStatus
    <3>2. Unfinished(step') \in PipelineRunStatus
      BY UnfinishedStatus DEF PipelineRunStatus
    <3>3. run' \in RunRow
      BY <2>2, <3>2, RowTypes DEF RecoverStale
    <3>4. /\ pc' = [pc EXCEPT ![w] = "begin"] /\ age' = 0
          /\ UNCHANGED <<work, lock, at, seen, outcome, result, crashes, failures, lockLosses>>
      BY <2>2 DEF RecoverStale
    <3> QED BY <3>1, <3>3, <3>4
  <2>3. CASE ResumeRun(w)
    BY <2>3 DEF ResumeRun
  <2>4. CASE LeaveAlone(w)
    BY <2>4 DEF LeaveAlone, Results
  <2> QED BY <1>4, <2>1, <2>2, <2>3, <2>4 DEF StartOrResume
<1>5. ASSUME NEW w \in Workers, MarkRunStarted(w) PROVE RunTypeInv'
  <2>1. run' \in RunRow
    BY <1>5, RowTypes DEF MarkRunStarted, PipelineRunStatus
  <2>2. seen' \in [Workers -> [Steps -> PipelineStepStatus]]
    BY <1>5 DEF MarkRunStarted, StatusOf, StepRow
  <2> QED BY <1>5, <2>1, <2>2 DEF MarkRunStarted
<1>6. ASSUME NEW w \in Workers, MarkStepStarted(w) PROVE RunTypeInv'
  <2>1. PICK k \in Upcoming(w) :
          /\ at' = [at EXCEPT ![w] = k]
          /\ step' = [step EXCEPT ![k] = Started(@)]
    BY <1>6 DEF MarkStepStarted
  <2>2. k \in Steps
    BY DEF Upcoming
  <2>3. step' \in [Steps -> StepRow]
    BY <2>1, <2>2, RowTypes DEF PipelineStepStatus
  <2>4. at' \in [Workers -> 1..(StepCount + 1)] /\ \A v \in Workers : pc'[v] \in InStep => at'[v] \in Steps
    BY <1>6, <2>1, <2>2 DEF MarkStepStarted, Steps
  <2> QED BY <1>6, <2>3, <2>4 DEF MarkStepStarted
<1>7. ASSUME NEW w \in Workers, Heartbeat(w) PROVE RunTypeInv'
  BY <1>7 DEF Heartbeat
<1>8. ASSUME NEW w \in Workers, HandlerSucceeds(w) \/ HandlerSkips(w) \/ HandlerRaises(w) PROVE RunTypeInv'
  <2>1. PICK how \in Outcomes : outcome' = [outcome EXCEPT ![w] = how]
    BY <1>8 DEF HandlerSucceeds, HandlerSkips, HandlerRaises, Outcomes
  <2>2. /\ pc[w] = "handler" /\ pc' = [pc EXCEPT ![w] = "handled"]
        /\ UNCHANGED <<run, step, age, lock, at, seen, result, crashes, lockLosses>>
    BY <1>8 DEF HandlerSucceeds, HandlerSkips, HandlerRaises
  <2>3. work' \subseteq Steps /\ failures' \in Nat
    BY <1>8 DEF HandlerSucceeds, HandlerSkips, HandlerRaises
  <2> QED BY <2>1, <2>2, <2>3
<1>9. ASSUME NEW w \in Workers, MarkStepCompleted(w) \/ MarkStepSkipped(w) PROVE RunTypeInv'
  <2>1. PICK how \in Outcomes, status \in {"completed", "skipped"} : Checkpoint(w, how, status)
    BY <1>9 DEF MarkStepCompleted, MarkStepSkipped, Outcomes
  <2>2. /\ pc[w] = "handled" /\ pc' = [pc EXCEPT ![w] = "steps"]
        /\ at' = [at EXCEPT ![w] = @ + 1] /\ outcome' = [outcome EXCEPT ![w] = "none"]
        /\ seen' = [seen EXCEPT ![w] = StatusOf(step')] /\ age' = 0
        /\ UNCHANGED <<run, work, lock, result, crashes, failures, lockLosses>>
    BY <2>1 DEF Checkpoint
  <2>3. step' \in [Steps -> StepRow]
    BY <2>1, RowTypes DEF Checkpoint, PipelineStepStatus
  <2>4. StatusOf(step') \in [Steps -> PipelineStepStatus]
    BY <2>3 DEF StatusOf, StepRow
  <2>5. at' \in [Workers -> 1..(StepCount + 1)] /\ \A v \in Workers : pc'[v] \in InStep => at'[v] \in Steps
    BY <2>2 DEF Steps
  <2>6. seen' \in [Workers -> [Steps -> PipelineStepStatus]]
    BY <2>2, <2>4
  <2> QED BY <2>2, <2>3, <2>5, <2>6 DEF Outcomes
<1>10. ASSUME NEW w \in Workers, MarkStepFailed(w) PROVE RunTypeInv'
  <2>1. step' \in [Steps -> StepRow]
    BY <1>10, RowTypes DEF MarkStepFailed, PipelineStepStatus
  <2>2. Unfinished(step') \in PipelineRunStatus
    BY UnfinishedStatus DEF PipelineRunStatus
  <2>3. run' \in RunRow
    BY <1>10, <2>2, RowTypes DEF MarkStepFailed
  <2>4. /\ pc[w] = "handled" /\ pc' = [pc EXCEPT ![w] = "release"] /\ age' = 0
        /\ outcome' = [outcome EXCEPT ![w] = "none"]
        /\ result' = [result EXCEPT ![w] = "incomplete"]
        /\ UNCHANGED <<work, lock, at, seen, crashes, failures, lockLosses>>
    BY <1>10 DEF MarkStepFailed
  <2> QED BY <2>1, <2>3, <2>4 DEF Outcomes, Results
<1>11. ASSUME NEW w \in Workers, MarkRunCompleted(w) PROVE RunTypeInv'
  <2>1. run' \in RunRow
    BY <1>11, RowTypes DEF MarkRunCompleted, PipelineRunStatus
  <2>2. /\ pc' = [pc EXCEPT ![w] = "release"] /\ age' = 0 /\ pc[w] = "steps"
        /\ result' = [result EXCEPT ![w] = "completed"]
        /\ UNCHANGED <<step, work, lock, at, seen, outcome, crashes, failures, lockLosses>>
    BY <1>11 DEF MarkRunCompleted
  <2> QED BY <2>1, <2>2 DEF Results
<1>12. ASSUME NEW w \in Workers, Release(w) \/ Crash(w) PROVE RunTypeInv'
  <2>1. Unseen \in [Steps -> PipelineStepStatus]
    BY DEF Unseen, PipelineStepStatus
  <2>2. /\ lock' \in {lock, NoWorker} /\ crashes' \in Nat
        /\ outcome' \in {outcome, [outcome EXCEPT ![w] = "none"]}
        /\ pc' = [pc EXCEPT ![w] = "idle"] /\ at' = [at EXCEPT ![w] = 1]
        /\ seen' = [seen EXCEPT ![w] = Unseen] /\ result' = [result EXCEPT ![w] = "none"]
        /\ UNCHANGED <<run, step, age, work, failures, lockLosses>>
    BY <1>12 DEF Release, Crash
  <2> QED BY <2>1, <2>2 DEF Results, Outcomes
<1>13. ASSUME NEW w \in Workers, LoseLock(w) PROVE RunTypeInv'
  BY <1>13 DEF LoseLock
<1>14. CASE UNCHANGED vars
  BY <1>14 DEF vars
<1> QED
  BY <1>1, <1>2, <1>3, <1>4, <1>5, <1>6, <1>7, <1>8, <1>9, <1>10, <1>11, <1>12, <1>13, <1>14
  DEF Next, Advance

(* Every row and every local always has a value the code can give it, for any
   number of processes and pipeline steps. *)
THEOREM TypeCorrect == Spec => []TypeOK
<1>1. RunTypeInv => TypeOK
  BY DEF RunTypeInv
<1> QED BY InitTypeInv, NextTypeInv, <1>1, PTL DEF Spec

LEMMA TypeInvariant == Spec => []RunTypeInv
  BY InitTypeInv, NextTypeInv, PTL DEF Spec

-----------------------------------------------------------------------------
(* A completed step has its data: no assumption about the lock. *)

LEMMA NextDataInv == RunTypeInv /\ DataInv /\ [Next]_vars => DataInv'
<1> SUFFICES ASSUME RunTypeInv, DataInv, [Next]_vars PROVE DataInv'
  OBVIOUS
<1> USE DEF RunTypeInv, TypeOK, DataInv, CheckpointHasData, Goto, durable, local, budgets, Ended, Started
<1>1. ASSUME NEW w \in Workers, RecoverStale(w) PROVE DataInv'
  BY <1>1 DEF RecoverStale
<1>2. ASSUME NEW w \in Workers, CreateRun(w) \/ ResumeRun(w) \/ LeaveAlone(w) PROVE DataInv'
  BY <1>2 DEF CreateRun, ResumeRun, LeaveAlone, FreshStep
<1>3. ASSUME NEW w \in Workers, MarkRunStarted(w) \/ MarkRunCompleted(w) \/ AcquireLock(w) PROVE DataInv'
  BY <1>3 DEF MarkRunStarted, MarkRunCompleted, AcquireLock
<1>4. ASSUME NEW w \in Workers, MarkStepStarted(w) PROVE DataInv'
  <2>1. PICK k \in Steps : step' = [step EXCEPT ![k] = Started(@)] /\ at' = [at EXCEPT ![w] = k]
    BY <1>4 DEF MarkStepStarted, Upcoming
  <2>2. pc[w] = "steps" /\ pc' = [pc EXCEPT ![w] = "handler"] /\ UNCHANGED <<outcome, work>>
    BY <1>4 DEF MarkStepStarted
  <2> QED BY <2>1, <2>2
<1>5. ASSUME NEW w \in Workers, HandlerSucceeds(w) \/ HandlerSkips(w) \/ HandlerRaises(w) PROVE DataInv'
  BY <1>5 DEF HandlerSucceeds, HandlerSkips, HandlerRaises, Outcomes
<1>6. ASSUME NEW w \in Workers, MarkStepCompleted(w) \/ MarkStepSkipped(w) PROVE DataInv'
  <2>1. PICK how \in Outcomes, status \in {"completed", "skipped"} :
          /\ status = "completed" => how = "ok"
          /\ Checkpoint(w, how, status)
    BY <1>6 DEF MarkStepCompleted, MarkStepSkipped, Outcomes
  <2>2. /\ outcome[w] = how /\ pc[w] = "handled" /\ pc' = [pc EXCEPT ![w] = "steps"]
        /\ step' = [step EXCEPT ![at[w]] = Ended(@, status, FALSE)]
        /\ at' = [at EXCEPT ![w] = @ + 1] /\ outcome' = [outcome EXCEPT ![w] = "none"]
        /\ work' = work
    BY <2>1 DEF Checkpoint
  <2> QED BY <2>1, <2>2
<1>7. ASSUME NEW w \in Workers, MarkStepFailed(w) PROVE DataInv'
  BY <1>7 DEF MarkStepFailed
<1>8. ASSUME NEW w \in Workers, Release(w) \/ Crash(w) PROVE DataInv'
  BY <1>8 DEF Release, Crash
<1>9. ASSUME NEW w \in Workers, SkipDuplicate(w) \/ Heartbeat(w) \/ LoseLock(w) PROVE DataInv'
  BY <1>9 DEF SkipDuplicate, Heartbeat, LoseLock, vars
<1>10. CASE Tick \/ UNCHANGED vars
  BY <1>10 DEF Tick, vars
<1> QED
  BY <1>1, <1>2, <1>3, <1>4, <1>5, <1>6, <1>7, <1>8, <1>9, <1>10
  DEF Next, Advance, StartOrResume

(* No crash, retry, stale recovery or lost lock lets a checkpoint run ahead of
   the data it stands for. *)
THEOREM CheckpointsHaveData == Spec => []CheckpointHasData
<1>1. Init => DataInv
  BY DEF Init, DataInv, CheckpointHasData, FreshStep
<1>2. DataInv => CheckpointHasData
  BY DEF DataInv
<1> QED BY <1>1, <1>2, TypeInvariant, NextDataInv, PTL DEF Spec

-----------------------------------------------------------------------------
(* What the lock protects. *)

LEMMA FencedBackwards ==
  ASSUME RunTypeInv, [Next]_vars, Fenced' PROVE Fenced /\ \A w \in Workers : ~LoseLock(w)
<1>1. lockLosses \in Nat /\ lockLosses' = 0
  BY DEF RunTypeInv, TypeOK, Fenced
<1>2. lockLosses' = lockLosses \/ \E w \in Workers : LoseLock(w)
  BY DEF Next, Advance, StartOrResume, Tick, AcquireLock, SkipDuplicate, CreateRun, RecoverStale,
         ResumeRun, LeaveAlone, MarkRunStarted, MarkStepStarted, Heartbeat, HandlerSucceeds,
         HandlerSkips, HandlerRaises, MarkStepCompleted, MarkStepSkipped, Checkpoint,
         MarkStepFailed, MarkRunCompleted, Release, Crash, vars, budgets
<1>3. \A w \in Workers : ~LoseLock(w)
  BY <1>1 DEF LoseLock
<1> QED BY <1>1, <1>2, <1>3 DEF Fenced

LEMMA NextFencedInv ==
  ASSUME RunTypeInv, RunTypeInv', FencedInv, [Next]_vars PROVE FencedInv'
<1> SUFFICES ASSUME Fenced' PROVE LockInv'
  BY DEF FencedInv
<1>0. Fenced /\ LockInv /\ \A w \in Workers : ~LoseLock(w)
  BY FencedBackwards DEF FencedInv
<1>T. /\ pc \in [Workers -> Program] /\ at \in [Workers -> 1..(StepCount + 1)]
      /\ step \in [Steps -> StepRow] /\ run \in RunRow
      /\ seen \in [Workers -> [Steps -> PipelineStepStatus]]
      /\ lock \in Workers \cup {NoWorker}
  BY DEF RunTypeInv, TypeOK
<1>N. run.attempts \in Nat /\ \A k \in Steps : step[k].attempts \in Nat
  BY <1>T DEF RunRow, StepRow
<1> USE DEF LockInv, Exclusive, SnapshotCurrent, OneStepRunning, BeginsResumable, RunningInside,
            Prefix, AbsentIsFresh, CompletedRun, CleanCheckpoints, AttemptsBehind,
            Goto, durable, local, budgets, Executing, InStep
(* Whoever is inside an attempt is alone there. *)
<1>1. ASSUME NEW w \in Workers, pc[w] # "idle" PROVE \A v \in Workers : v # w => pc[v] = "idle"
  BY <1>0, <1>1
<1>2. CASE Tick \/ UNCHANGED vars
  BY <1>0, <1>2 DEF Tick, vars
<1>3. ASSUME NEW w \in Workers, SkipDuplicate(w) \/ Heartbeat(w) PROVE LockInv'
  BY <1>0, <1>3 DEF SkipDuplicate, Heartbeat, vars
<1>4. ASSUME NEW w \in Workers, AcquireLock(w) PROVE LockInv'
  BY <1>0, <1>T, <1>4, NoWorkerAssumption DEF AcquireLock
<1>5. ASSUME NEW w \in Workers, Release(w) \/ Crash(w) PROVE LockInv'
  <2>1. /\ pc[w] # "idle" /\ pc' = [pc EXCEPT ![w] = "idle"]
        /\ UNCHANGED <<run, step>>
    BY <1>5 DEF Release, Crash
  <2>2. \A v \in Workers : pc'[v] = "idle"
    BY <1>T, <1>1, <2>1
  <2> QED BY <1>0, <2>1, <2>2
<1>6. ASSUME NEW w \in Workers, CreateRun(w) PROVE LockInv'
  <2>1. /\ pc[w] = "resume" /\ pc' = [pc EXCEPT ![w] = "begin"] /\ lock' = lock
        /\ run' = [status |-> "pending", attempts |-> 0, error |-> FALSE]
        /\ step' = [k \in Steps |-> FreshStep]
    BY <1>6 DEF CreateRun
  <2>2. pc'[w] = "begin" /\ \A v \in Workers : v # w => pc'[v] = "idle"
    BY <1>T, <1>1, <2>1
  <2> QED BY <1>0, <1>T, <2>1, <2>2 DEF FreshStep, Resumable, Checkpointed
<1>7. ASSUME NEW w \in Workers, RecoverStale(w) PROVE LockInv'
  <2>1. /\ pc[w] = "resume" /\ pc' = [pc EXCEPT ![w] = "begin"] /\ lock' = lock
        /\ run.status = "running" /\ run' = Ended(run, Unfinished(step'), TRUE)
        /\ step' = [k \in Steps |-> IF step[k].status = "running"
                                   THEN Ended(step[k], "failed", TRUE) ELSE step[k]]
    BY <1>7 DEF RecoverStale, Stale
  <2>2. pc'[w] = "begin" /\ \A v \in Workers : v # w => pc'[v] = "idle"
    BY <1>T, <1>1, <2>1
  <2>3. run'.status \in {"partial", "failed"} /\ run'.attempts = run.attempts
    BY <2>1, UnfinishedStatus DEF Ended
  <2>4. \A k \in Steps :
          /\ step'[k].status # "running" /\ step'[k].attempts = step[k].attempts
          /\ step'[k].status \in Checkpointed <=> step[k].status \in Checkpointed
          /\ step'[k].status = "pending" <=> step[k].status = "pending"
          /\ step[k].status \in Checkpointed => step'[k] = step[k]
    BY <2>1 DEF Ended, Checkpointed
  <2>5. Exclusive' /\ SnapshotCurrent' /\ OneStepRunning' /\ BeginsResumable'
    BY <1>0, <2>1, <2>2, <2>3 DEF Resumable
  <2>6. RunningInside' /\ Prefix' /\ AbsentIsFresh' /\ CompletedRun' /\ CleanCheckpoints'
    BY <1>0, <2>3, <2>4
  <2>7. AttemptsBehind'
    BY <1>0, <2>2, <2>3, <2>4
  <2> QED BY <2>5, <2>6, <2>7
<1>8. ASSUME NEW w \in Workers, ResumeRun(w) \/ LeaveAlone(w) PROVE LockInv'
  <2>1. /\ pc[w] = "resume" /\ UNCHANGED <<lock, run, step>>
        /\ \A v \in Workers : v # w => pc[v] = "idle" /\ pc'[v] = "idle"
    BY <1>T, <1>1, <1>8 DEF ResumeRun, LeaveAlone
  <2>2. CASE pc'[w] = "begin" /\ run.status \in Resumable
    BY <1>0, <2>1, <2>2
  <2>3. CASE pc'[w] = "release"
    BY <1>0, <2>1, <2>3
  <2> QED BY <1>T, <1>8, <2>2, <2>3 DEF ResumeRun, LeaveAlone
<1>9. ASSUME NEW w \in Workers, MarkRunStarted(w) PROVE LockInv'
  <2>1. /\ pc[w] = "begin" /\ pc' = [pc EXCEPT ![w] = "steps"] /\ UNCHANGED <<lock, step>>
        /\ run' = Started(run) /\ at' = [at EXCEPT ![w] = 1]
        /\ seen' = [seen EXCEPT ![w] = StatusOf(step)]
    BY <1>9 DEF MarkRunStarted
  <2>2. /\ pc'[w] = "steps" /\ at'[w] = 1 /\ \A k \in Steps : seen'[w][k] = step[k].status
        /\ \A v \in Workers : v # w => pc'[v] = "idle"
    BY <1>T, <1>1, <2>1 DEF StatusOf
  <2>3. run'.status = "running" /\ run'.attempts = run.attempts + 1
    BY <2>1 DEF Started
  <2>4. \A k \in Steps : step[k].status # "running"
    BY <1>0, <2>1 DEF Resumable
  <2>5. Exclusive' /\ SnapshotCurrent' /\ OneStepRunning' /\ BeginsResumable'
    BY <1>0, <2>1, <2>2, <2>3, <2>4 DEF Steps
  <2>6. RunningInside' /\ Prefix' /\ AbsentIsFresh' /\ CompletedRun' /\ CleanCheckpoints'
    BY <1>0, <2>1, <2>3
  <2>7. AttemptsBehind'
    BY <1>0, <1>N, <2>1, <2>2, <2>3
  <2> QED BY <2>5, <2>6, <2>7
<1>10. ASSUME NEW w \in Workers, MarkStepStarted(w) PROVE LockInv'
  <2>1. PICK k \in Upcoming(w) :
          /\ \A j \in Upcoming(w) : k <= j
          /\ at' = [at EXCEPT ![w] = k]
          /\ step' = [step EXCEPT ![k] = Started(@)]
    BY <1>10 DEF MarkStepStarted
  <2>2. /\ pc[w] = "steps" /\ pc' = [pc EXCEPT ![w] = "handler"] /\ UNCHANGED <<lock, run, seen>>
    BY <1>10 DEF MarkStepStarted
  <2>3. k \in Steps /\ k >= at[w] /\ step[k].status \notin Checkpointed
    BY <1>0, <2>1, <2>2 DEF Upcoming
  <2>4. /\ pc'[w] = "handler" /\ at'[w] = k
        /\ \A v \in Workers : v # w => pc'[v] = "idle"
    BY <1>T, <1>1, <2>1, <2>2
  <2>5. /\ step'[k].status = "running" /\ step'[k].attempts = step[k].attempts + 1
        /\ \A j \in Steps : j # k => step'[j] = step[j]
    BY <1>T, <2>1, <2>3 DEF Started
  <2>6. \A j \in Steps : j < k => step[j].status \in Checkpointed
    <3> SUFFICES ASSUME NEW j \in Steps, j < k, j >= at[w] PROVE seen[w][j] \in Checkpointed
      BY <1>0, <1>T, <2>2 DEF Steps
    <3>1. j \notin Upcoming(w)
      BY <1>T, <2>1, <2>3 DEF Steps
    <3> QED BY <3>1 DEF Upcoming
  <2>7. \A j \in Steps : j > k => step[j].status = "pending"
    BY <1>0, <2>3
  <2>8. run.status = "running" /\ \A j \in Steps : step[j].status # "running"
    BY <1>0, <2>2
  <2>9. Exclusive' /\ SnapshotCurrent' /\ OneStepRunning' /\ BeginsResumable'
    BY <1>0, <2>2, <2>3, <2>4, <2>5, <2>6, <2>8 DEF Checkpointed
  <2>10. RunningInside' /\ AbsentIsFresh' /\ CompletedRun' /\ CleanCheckpoints'
    BY <1>0, <2>2, <2>3, <2>5, <2>8 DEF Checkpointed
  <2>11. Prefix'
    BY <1>0, <2>3, <2>5, <2>6, <2>7 DEF Steps
  <2>12. AttemptsBehind'
    <3>1. step[k].attempts < run.attempts /\ \A j \in Steps : j > k => step[j].attempts < run.attempts
      BY <1>0, <1>T, <2>2, <2>3 DEF Steps
    <3>2. \A j \in Steps : step'[j].attempts <= run.attempts
      BY <1>0, <1>N, <2>5, <3>1
    <3> QED BY <2>2, <2>4, <2>5, <3>1, <3>2 DEF Steps
  <2> QED BY <2>9, <2>10, <2>11, <2>12
<1>11. ASSUME NEW w \in Workers, HandlerSucceeds(w) \/ HandlerSkips(w) \/ HandlerRaises(w)
       PROVE LockInv'
  <2>1. /\ pc[w] = "handler" /\ pc' = [pc EXCEPT ![w] = "handled"]
        /\ UNCHANGED <<run, step, lock, at, seen>>
    BY <1>11 DEF HandlerSucceeds, HandlerSkips, HandlerRaises
  <2>2. pc'[w] = "handled" /\ \A v \in Workers : v # w => pc'[v] = "idle"
    BY <1>T, <1>1, <2>1
  <2> QED BY <1>0, <2>1, <2>2
<1>12. ASSUME NEW w \in Workers, MarkStepCompleted(w) \/ MarkStepSkipped(w) PROVE LockInv'
  <2>1. PICK how \in Outcomes, status \in Checkpointed : Checkpoint(w, how, status)
    BY <1>12 DEF MarkStepCompleted, MarkStepSkipped, Outcomes, Checkpointed
  <2>2. /\ pc[w] = "handled" /\ pc' = [pc EXCEPT ![w] = "steps"] /\ UNCHANGED <<lock, run>>
        /\ step' = [step EXCEPT ![at[w]] = Ended(@, status, FALSE)]
        /\ seen' = [seen EXCEPT ![w] = StatusOf(step')] /\ at' = [at EXCEPT ![w] = @ + 1]
    BY <2>1 DEF Checkpoint
  <2>3. PICK a \in Steps :
          /\ a = at[w] /\ run.status = "running"
          /\ \A k \in Steps : step[k].status = "running" <=> k = a
    BY <1>0, <2>2 DEF RunTypeInv
  <2>4. /\ pc'[w] = "steps" /\ at'[w] = a + 1
        /\ \A v \in Workers : v # w => pc'[v] = "idle"
    BY <1>T, <1>1, <2>2, <2>3
  <2>5. /\ step'[a].status = status /\ step'[a].error = FALSE
        /\ step'[a].attempts = step[a].attempts
        /\ \A j \in Steps : j # a => step'[j] = step[j]
    BY <1>T, <2>2, <2>3 DEF Ended
  <2>6. \A k \in Steps : seen'[w][k] = step'[k].status
    BY <1>T, <2>2 DEF StatusOf
  <2>7. \A k \in Steps : step'[k].status # "running"
    BY <2>3, <2>5 DEF Checkpointed
  <2>8. \A j \in Steps : j < a + 1 => step'[j].status \in Checkpointed
    <3>1. \A j \in Steps : j < a => step[j].status \in Checkpointed
      BY <1>0, <2>2, <2>3
    <3> QED BY <2>5, <3>1 DEF Steps
  <2>9. Exclusive' /\ BeginsResumable'
    BY <1>0, <2>2, <2>4
  <2>10. SnapshotCurrent' /\ OneStepRunning'
    <3>1. \A v \in Workers : pc'[v] \in Executing => v = w
      BY <2>4
    <3>2. SnapshotCurrent'
      <4>1. run'.status = "running"
        BY <2>2, <2>3
      <4>2. \A k \in Steps : seen'[w][k] \in Checkpointed <=> step'[k].status \in Checkpointed
        BY <2>6
      <4>3. \A j \in Steps : j < at'[w] => step'[j].status \in Checkpointed
        BY <2>4, <2>8
      <4> QED BY <3>1, <4>1, <4>2, <4>3
    <3>3. OneStepRunning'
      BY <2>4, <2>7, <3>1
    <3> QED BY <3>2, <3>3
  <2>11. RunningInside' /\ AbsentIsFresh' /\ CompletedRun' /\ CleanCheckpoints'
    BY <1>0, <2>2, <2>3, <2>5, <2>7
  <2>12. Prefix'
    BY <1>0, <2>3, <2>5, <2>8 DEF Steps
  <2>13. AttemptsBehind'
    <3>1. \A k \in Steps : k > a => step[k].attempts < run.attempts
      BY <1>0, <2>2, <2>3
    <3>2. \A k \in Steps : step'[k].attempts = step[k].attempts
      BY <2>5
    <3>3. \A v \in Workers : pc'[v] \in Executing => v = w /\ pc'[v] = "steps"
      BY <2>4
    <3>4. \A k \in Steps : step[k].attempts <= run.attempts
      BY <1>0
    <3>5. \A k \in Steps : k >= at'[w] => step[k].attempts < run.attempts
      BY <2>4, <3>1 DEF Steps
    <3> QED BY <2>2, <3>2, <3>3, <3>4, <3>5
  <2> QED BY <2>9, <2>10, <2>11, <2>12, <2>13
<1>13. ASSUME NEW w \in Workers, MarkStepFailed(w) PROVE LockInv'
  <2>2. /\ pc[w] = "handled" /\ pc' = [pc EXCEPT ![w] = "release"] /\ lock' = lock
        /\ step' = [step EXCEPT ![at[w]] = Ended(@, "failed", TRUE)]
        /\ run' = Ended(run, Unfinished(step'), TRUE)
    BY <1>13 DEF MarkStepFailed
  <2>3. at[w] \in Steps /\ step[at[w]].status = "running" /\ run.status = "running"
    BY <1>0, <2>2 DEF RunTypeInv
  <2>4. pc'[w] = "release" /\ \A v \in Workers : v # w => pc'[v] = "idle"
    BY <1>T, <1>1, <2>2
  <2>5. /\ step'[at[w]].status = "failed" /\ step'[at[w]].attempts = step[at[w]].attempts
        /\ \A j \in Steps : j # at[w] => step'[j] = step[j]
    BY <1>T, <2>2, <2>3 DEF Ended
  <2>6. run'.status \in {"partial", "failed"} /\ run'.attempts = run.attempts
    BY <2>2, UnfinishedStatus DEF Ended
  <2>7. \A k \in Steps : step'[k].status # "running"
    BY <1>0, <2>2, <2>5
  <2>8. Exclusive' /\ SnapshotCurrent' /\ OneStepRunning' /\ BeginsResumable'
    BY <1>0, <2>2, <2>4
  <2>9. RunningInside' /\ AbsentIsFresh' /\ CompletedRun' /\ CleanCheckpoints'
    BY <1>0, <2>5, <2>6, <2>7 DEF Checkpointed
  <2>10. Prefix'
    BY <1>0, <2>3, <2>5 DEF Steps, Checkpointed
  <2>11. AttemptsBehind'
    BY <1>0, <2>3, <2>4, <2>5, <2>6
  <2> QED BY <2>8, <2>9, <2>10, <2>11
<1>14. ASSUME NEW w \in Workers, MarkRunCompleted(w) PROVE LockInv'
  <2>1. /\ pc[w] = "steps" /\ pc' = [pc EXCEPT ![w] = "release"] /\ UNCHANGED <<lock, step>>
        /\ Upcoming(w) = {} /\ run' = Ended(run, "completed", FALSE)
    BY <1>14 DEF MarkRunCompleted
  <2>2. pc'[w] = "release" /\ \A v \in Workers : v # w => pc'[v] = "idle"
    BY <1>T, <1>1, <2>1
  <2>3. run'.status = "completed" /\ run'.error = FALSE /\ run'.attempts = run.attempts
    BY <2>1 DEF Ended
  <2>4. \A k \in Steps : step[k].status \in Checkpointed
    <3> SUFFICES ASSUME NEW k \in Steps, k >= at[w] PROVE seen[w][k] \in Checkpointed
      BY <1>0, <1>T, <2>1 DEF Steps
    <3> QED BY <2>1 DEF Upcoming
  <2>5. Exclusive' /\ SnapshotCurrent' /\ OneStepRunning' /\ BeginsResumable'
    BY <1>0, <2>1, <2>2
  <2>6. RunningInside' /\ Prefix' /\ AbsentIsFresh' /\ CompletedRun' /\ CleanCheckpoints'
    BY <1>0, <2>1, <2>3, <2>4 DEF Checkpointed
  <2>7. AttemptsBehind'
    BY <1>0, <2>1, <2>2, <2>3
  <2> QED BY <2>5, <2>6, <2>7
<1> QED
  BY <1>0, <1>2, <1>3, <1>4, <1>5, <1>6, <1>7, <1>8, <1>9, <1>10, <1>11, <1>12, <1>13, <1>14
  DEF Next, Advance, StartOrResume
LEMMA FencedInvariant == Spec => [](RunTypeInv /\ FencedInv)
<1>1. Init => FencedInv
  <2> SUFFICES ASSUME Init PROVE LockInv
    BY DEF FencedInv
  <2> QED BY DEF Init, LockInv, Exclusive, SnapshotCurrent, OneStepRunning, BeginsResumable,
             RunningInside, Prefix, AbsentIsFresh, CompletedRun, CleanCheckpoints, AttemptsBehind,
             NoRun, FreshStep, Executing, InStep, Checkpointed
<1>2. RunTypeInv /\ RunTypeInv' /\ FencedInv /\ [Next]_vars => FencedInv'
  BY NextFencedInv
<1> QED BY <1>1, <1>2, TypeInvariant, PTL DEF Spec

(* While no lock connection has dropped, no step is touched before everything
   upstream of it is checkpointed, and steps run only inside a running run. *)
THEOREM StepsInOrder == Spec => []DependencyOrder
<1>1. RunTypeInv /\ FencedInv => DependencyOrder
  BY StepCountAssumption DEF FencedInv, LockInv, Prefix, RunningInside, DependencyOrder, Steps
<1> QED BY FencedInvariant, <1>1, PTL

(* A completed run is whole, free of errors, and left alone by everybody. *)
THEOREM CompletedRunsAreWhole == Spec => []CompletedIsWhole
<1>1. RunTypeInv /\ FencedInv => CompletedIsWhole
  BY DEF FencedInv, LockInv, CompletedRun, CleanCheckpoints, BeginsResumable, SnapshotCurrent,
         CompletedIsWhole, Resumable, Executing
<1> QED BY FencedInvariant, <1>1, PTL

(* However many attempts it takes, one attempt executes a step at most once. *)
THEOREM StepsOncePerAttempt == Spec => []AttemptsAccounted
<1>1. RunTypeInv /\ FencedInv => AttemptsAccounted
  BY DEF FencedInv, LockInv, AttemptsBehind, AttemptsAccounted
<1> QED BY FencedInvariant, <1>1, PTL

(* The four together: what the rows of a run say can be relied on. *)
THEOREM OrderlyRuns == Spec => []RunIsOrderly
  BY StepsInOrder, CheckpointsHaveData, CompletedRunsAreWhole, StepsOncePerAttempt, PTL
     DEF RunIsOrderly

(* While the lock is reliable, an attempt only ever begins on a run that is
   pending, partial or failed: a fresh heartbeat is never taken over. *)
THEOREM HeartbeatsAreRespected == Spec => FencedHeartbeatNotStolen
<1>1. RunTypeInv /\ FencedInv /\ [Next]_vars =>
        (Fenced => \A w \in Workers : pc[w] = "begin" /\ pc'[w] = "steps" =>
                     run.status \in {"pending", "partial", "failed"})
  BY DEF FencedInv, LockInv, BeginsResumable, Resumable
<1> QED BY FencedInvariant, <1>1, PTL DEF Spec, FencedHeartbeatNotStolen

-----------------------------------------------------------------------------
(* What a fenced step does to the rows, one transaction at a time. *)

StepsKept(except) == \A j \in Steps : j \notin except => step'[j] = step[j]

RowsKept == UNCHANGED <<run, step>>

Opens ==
  /\ run.status = "absent" /\ run'.status = "pending"
  /\ step' = [k \in Steps |-> FreshStep]

Begins == run.status \in Resumable /\ run'.status = "running" /\ step' = step

Interrupts ==
  /\ run.status = "running" /\ run'.status \in {"partial", "failed"}
  /\ \A k \in Steps : step[k].status # "running" => step'[k] = step[k]
  /\ \A k \in Steps : step[k].status = "running" => step'[k].status = "failed"

Executes(k) ==
  /\ run.status = "running" /\ run' = run
  /\ step[k].status \notin Checkpointed /\ step'[k].status = "running" /\ StepsKept({k})

Checkpoints(k) ==
  /\ run.status = "running" /\ run' = run
  /\ step[k].status = "running" /\ step'[k].status \in Checkpointed /\ StepsKept({k})
  /\ \A j \in Steps : j < k => step[j].status \in Checkpointed

Completes ==
  /\ run.status = "running" /\ run'.status = "completed" /\ step' = step
  /\ \A k \in Steps : step[k].status \in Checkpointed

LEMMA RowChanges ==
  ASSUME RunTypeInv, RunTypeInv', FencedInv, [Next]_vars, Fenced'
  PROVE  \/ RowsKept \/ Opens \/ Begins \/ Interrupts \/ Completes
         \/ \E k \in Steps : Executes(k) \/ Checkpoints(k)
<1>0. LockInv /\ \A w \in Workers : ~LoseLock(w)
  BY FencedBackwards DEF FencedInv
<1>T. /\ at \in [Workers -> 1..(StepCount + 1)] /\ step \in [Steps -> StepRow]
      /\ \A w \in Workers : pc[w] \in InStep => at[w] \in Steps
  BY DEF RunTypeInv, TypeOK
<1> USE DEF Goto, durable, local, budgets
<1>1. CASE Tick \/ UNCHANGED vars
  BY <1>1 DEF Tick, vars, RowsKept
<1>2. ASSUME NEW w \in Workers,
             \/ AcquireLock(w) \/ SkipDuplicate(w) \/ Heartbeat(w) \/ ResumeRun(w) \/ LeaveAlone(w)
             \/ HandlerSucceeds(w) \/ HandlerSkips(w) \/ HandlerRaises(w) \/ Release(w) \/ Crash(w)
      PROVE  RowsKept
  BY <1>2 DEF AcquireLock, SkipDuplicate, Heartbeat, ResumeRun, LeaveAlone, HandlerSucceeds,
              HandlerSkips, HandlerRaises, Release, Crash, vars, RowsKept
<1>3. ASSUME NEW w \in Workers, CreateRun(w) PROVE Opens
  BY <1>3 DEF CreateRun, Opens
<1>4. ASSUME NEW w \in Workers, RecoverStale(w) PROVE Interrupts
  BY <1>4, UnfinishedStatus DEF RecoverStale, Stale, Ended, Interrupts
<1>5. ASSUME NEW w \in Workers, MarkRunStarted(w) PROVE Begins
  BY <1>0, <1>5 DEF MarkRunStarted, LockInv, BeginsResumable, Started, Begins
<1>6. ASSUME NEW w \in Workers, MarkStepStarted(w) PROVE \E k \in Steps : Executes(k)
  <2>1. PICK k \in Upcoming(w) : step' = [step EXCEPT ![k] = Started(@)]
    BY <1>6 DEF MarkStepStarted
  <2>2. pc[w] = "steps" /\ run' = run
    BY <1>6 DEF MarkStepStarted
  <2>3. k \in Steps /\ step[k].status \notin Checkpointed /\ run.status = "running"
    BY <1>0, <2>2 DEF Upcoming, LockInv, SnapshotCurrent, Executing
  <2> QED BY <1>T, <2>1, <2>2, <2>3 DEF Started, StepsKept, Executes
<1>7. ASSUME NEW w \in Workers, MarkStepCompleted(w) \/ MarkStepSkipped(w)
      PROVE  \E k \in Steps : Checkpoints(k)
  <2>1. PICK status \in Checkpointed : step' = [step EXCEPT ![at[w]] = Ended(@, status, FALSE)]
    BY <1>7 DEF MarkStepCompleted, MarkStepSkipped, Checkpoint, Checkpointed
  <2>2. pc[w] = "handled" /\ run' = run
    BY <1>7 DEF MarkStepCompleted, MarkStepSkipped, Checkpoint
  <2>3. PICK k \in Steps : k = at[w]
    BY <1>T, <2>2 DEF InStep
  <2>4. /\ step[k].status = "running" /\ run.status = "running"
        /\ \A j \in Steps : j < k => step[j].status \in Checkpointed
    BY <1>0, <2>2, <2>3 DEF LockInv, SnapshotCurrent, OneStepRunning, Executing, InStep
  <2>5. step'[k].status \in Checkpointed /\ StepsKept({k})
    BY <1>T, <2>1, <2>3 DEF Ended, StepsKept
  <2> QED BY <2>2, <2>4, <2>5 DEF Checkpoints
<1>8. ASSUME NEW w \in Workers, MarkStepFailed(w) PROVE Interrupts
  <2>1. /\ pc[w] = "handled" /\ step' = [step EXCEPT ![at[w]] = Ended(@, "failed", TRUE)]
        /\ run' = Ended(run, Unfinished(step'), TRUE)
    BY <1>8 DEF MarkStepFailed
  <2>2. run.status = "running" /\ \A k \in Steps : step[k].status = "running" <=> k = at[w]
    BY <1>0, <2>1 DEF LockInv, SnapshotCurrent, OneStepRunning, Executing, InStep
  <2>3. run'.status \in {"partial", "failed"}
    BY <2>1, UnfinishedStatus DEF Ended
  <2> QED BY <1>T, <2>1, <2>2, <2>3 DEF Ended, Interrupts
<1>9. ASSUME NEW w \in Workers, MarkRunCompleted(w) PROVE Completes
  <2>1. pc[w] = "steps" /\ Upcoming(w) = {} /\ run'.status = "completed" /\ step' = step
    BY <1>9 DEF MarkRunCompleted, Ended
  <2>2. \A k \in Steps : k < at[w] \/ seen[w][k] \in Checkpointed
    BY <1>T, <2>1 DEF Upcoming, Steps
  <2> QED BY <1>0, <2>1, <2>2 DEF LockInv, SnapshotCurrent, Executing, Completes
<1> QED
  BY <1>0, <1>1, <1>2, <1>3, <1>4, <1>5, <1>6, <1>7, <1>8, <1>9 DEF Next, Advance, StartOrResume

(* Resuming never redoes or loses finished work: a checkpointed step row and a
   completed run row never change again. *)
THEOREM FinishedWorkIsKept == Spec => CheckpointsAreFinal
<1> DEFINE Kept == /\ \A k \in Steps : step[k].status \in Checkpointed => step'[k] = step[k]
                   /\ run.status = "completed" => run' = run
<1>1. ASSUME RunTypeInv, RunTypeInv', FencedInv, [Next]_vars PROVE Fenced' => Kept
  <2> SUFFICES ASSUME Fenced' PROVE Kept
    OBVIOUS
  <2>0. LockInv
    BY FencedBackwards, <1>1 DEF FencedInv
  <2>1. CASE RowsKept
    BY <2>1 DEF RowsKept
  <2>2. CASE Opens
    BY <2>0, <2>2 DEF Opens, LockInv, AbsentIsFresh, Checkpointed
  <2>3. CASE Begins
    BY <2>3 DEF Begins, Resumable
  <2>4. CASE Interrupts \/ Completes
    <3>1. run.status = "running" /\ run.status # "completed"
      BY <2>4 DEF Interrupts, Completes
    <3>2. \A k \in Steps : step[k].status # "running" => step'[k] = step[k]
      BY <2>4 DEF Interrupts, Completes
    <3> QED BY <3>1, <3>2 DEF Checkpointed
  <2>5. ASSUME NEW k \in Steps, Executes(k) \/ Checkpoints(k) PROVE Kept
    BY <2>5 DEF Executes, Checkpoints, StepsKept, Checkpointed
  <2> QED BY <1>1, <2>1, <2>2, <2>3, <2>4, <2>5, RowChanges
<1> QED BY FencedInvariant, <1>1, PTL DEF Spec, CheckpointsAreFinal

(* The control plane implements the promise of CheckpointedPipeline in every
   behaviour in which no lock connection drops. *)
THEOREM ImplementsPipeline == Spec /\ []Fenced => PipelineSpec
<1>1. Init => Pipeline!Init
  BY DEF Init, Pipeline!Init, Phase, Done, NoRun, FreshStep, Checkpointed
<1>2. ASSUME RunTypeInv, RunTypeInv', FencedInv, [Next]_vars, Fenced'
      PROVE  [Pipeline!Next]_(Pipeline!vars)
  <2>0. LockInv
    BY FencedBackwards, <1>2 DEF FencedInv
  <2> USE DEF Phase, Done
  <2>1. CASE RowsKept
    BY <2>1 DEF Pipeline!vars, RowsKept
  <2>2. CASE Opens
    <3>1. Done = {} /\ Done' = {}
      BY <2>0, <2>2 DEF LockInv, AbsentIsFresh, FreshStep, Checkpointed, Opens
    <3> QED BY <2>2, <3>1 DEF Pipeline!Next, Pipeline!Open, Opens
  <2>3. CASE Begins
    BY <2>3 DEF Pipeline!vars, Resumable, Begins
  <2>4. CASE Interrupts
    <3>1. \A k \in Steps : step'[k].status \in Checkpointed <=> step[k].status \in Checkpointed
      BY <2>4 DEF Interrupts, Checkpointed
    <3>2. Done' = Done
      BY <3>1
    <3>3. Phase' = Phase
      BY <2>4 DEF Interrupts
    <3> QED BY <3>2, <3>3 DEF Pipeline!vars
  <2>5. CASE Completes
    BY <2>5 DEF Pipeline!Next, Pipeline!Complete, Pipeline!Steps, Steps, Completes
  <2>6. ASSUME NEW k \in Steps, Executes(k) PROVE UNCHANGED Pipeline!vars
    BY <2>6 DEF Pipeline!vars, Checkpointed, StepsKept, Executes
  <2>7. ASSUME NEW k \in Steps, Checkpoints(k) PROVE Pipeline!Next
    <3>1. k \notin Done /\ Done' = Done \cup {k}
      BY <2>7 DEF StepsKept, Checkpointed, Checkpoints
    <3>2. 1..(k - 1) \subseteq Done
      BY <2>7, StepCountAssumption DEF Steps, Checkpoints
    <3>3. Pipeline!Checkpoint(k)
      BY <2>7, <3>1, <3>2 DEF Pipeline!Checkpoint, Checkpoints
    <3> QED BY <3>3 DEF Pipeline!Next, Pipeline!Steps, Steps
  <2> QED BY <1>2, <2>1, <2>2, <2>3, <2>4, <2>5, <2>6, <2>7, RowChanges
<1> QED BY <1>1, <1>2, FencedInvariant, PTL DEF Spec, PipelineSpec, Pipeline!Spec

-----------------------------------------------------------------------------
(***************************************************************************)
(* MarketIngestion                                                         *)
(***************************************************************************)

Places == {"idle", "execute", "next", "fetch", "store", "rest", "sync", "ready"}
Series == [Sessions -> Nat \cup {NoBar}]

JobState ==
  [pc : Places, kind : {"none", "eod", "api", "bootstrap"}, target : Nat, at : Nat,
   todo : SUBSET Symbols, symbol : Symbols \cup {Index},
   mode : {"none", "bootstrap", "reconciliation", "incremental"}, start : Int, latest : Nat,
   got : Series, ok : SUBSET Symbols, failed : SUBSET Symbols]

SessionRuns ==
  [attempts : Nat, market : BOOLEAN, requested : SUBSET Symbols,
   status : {"absent", "running", "failed", "completed"}]

TypeInv ==
  /\ today \in Days /\ revision \in Nat /\ quoted \in [Symbols \cup {Index} -> Nat]
  /\ listed \subseteq Equities /\ approved \subseteq Equities
  /\ bars \in [Symbols -> Series] /\ full \in [Symbols -> Nat]
  /\ ind \in [Equities -> [Sessions -> SUBSET (Sessions \X Nat)]]
  /\ runs \in [Days -> SessionRuns] /\ job \in [Jobs -> JobState]

(* A series holds every session up to its last one. *)
BeginsWhole(s) ==
  \A d, x \in Sessions : bars[s][d] # NoBar /\ x < d => bars[s][x] # NoBar

(* The data of a symbol reach the day, up to the staleness that is allowed. *)
Reaches(s, day) == \E d \in Sessions : bars[s][d] # NoBar /\ d >= day - MaxStale

(* The sessions before the window of a fetch are stored already, and what was
   fetched is the window without its end. *)
FetchIsSound(r) ==
  /\ r.pc \in {"fetch", "store"} =>
       /\ r.symbol \in Symbols /\ r.target <= LastDay
       /\ \A d \in Sessions : d < r.start => bars[r.symbol][d] # NoBar
  /\ r.pc = "store" =>
       /\ \A d \in Sessions : r.got[d] # NoBar => d >= r.start
       /\ \A d, x \in Sessions : r.got[d] # NoBar /\ r.start <= x /\ x < d => r.got[x] # NoBar
       /\ \E d \in Sessions : r.got[d] # NoBar /\ d >= r.target - MaxStale

(* A batch accounts for every macro symbol, and what it calls stored reaches its
   target; past its market step, the run has its checkpoint. *)
BatchIsSound(r) ==
  /\ r.pc # "idle" => r.target \in Days
  /\ \A s \in r.ok : Reaches(s, r.target)
  /\ r.kind = "eod" /\ r.pc = "next" => Macros \subseteq r.todo \cup r.ok \cup r.failed
  /\ r.kind = "eod" /\ r.pc \in {"fetch", "store"} =>
       Macros \subseteq r.todo \cup r.ok \cup r.failed \cup {r.symbol}
  /\ r.kind = "eod" /\ r.pc = "rest" => runs[r.target].market

JobIsSound(r) == FetchIsSound(r) /\ BatchIsSound(r)

RunIsSound(d) ==
  /\ runs[d].market => Macros \subseteq runs[d].requested
                       /\ \A s \in runs[d].requested : Reaches(s, d)
  /\ runs[d].status = "completed" => runs[d].market

IInv ==
  /\ TypeInv /\ IndicatorsMatchPrices
  /\ \A s \in Symbols : BeginsWhole(s)
  /\ \A d \in Days : RunIsSound(d)
  /\ \A j \in Jobs : JobIsSound(job[j])
-----------------------------------------------------------------------------
(* A finite set of integers has a greatest element: the sets of what lies above
   an element of it are ordered by inclusion, and a least of them is empty. *)
LEMMA Greatest ==
  ASSUME NEW S \in SUBSET Int, IsFiniteSet(S), S # {}
  PROVE  Max(S) \in S /\ \A x \in S : x <= Max(S)
<1> DEFINE above(x) == {y \in S : y > x}
           family == {above(x) : x \in S}
           R == StrictSubsetOrdering(S)
<1>1. IsWellFoundedOn(R, FiniteSubsetsOf(S))
  BY FS_StrictSubsetOrderingWellFounded
<1>2. family \subseteq FiniteSubsetsOf(S) /\ family # {}
  <2>1. \A x \in S : above(x) \subseteq S /\ IsFiniteSet(above(x))
    BY FS_Subset
  <2> QED
    BY <2>1 DEF FiniteSubsetsOf
<1>3. PICK T \in family : \A U \in family : ~ (<<U, T>> \in R)
  <2> HIDE DEF family, R
  <2> QED
    BY <1>1, <1>2, WFMin
<1>4. PICK x \in S : T = above(x)
  BY <1>3
<1>5. \A y \in S : x >= y
  <2> SUFFICES ASSUME NEW y \in S, y > x PROVE FALSE
    OBVIOUS
  <2>1. x \in Int /\ y \in Int /\ \A z \in S : z \in Int /\ (z > y => z > x)
    OBVIOUS
  <2>2. above(y) \subseteq above(x)
    BY <2>1
  <2>3. y \in above(x)
    OBVIOUS
  <2>4. ~ (y > y)
    BY <2>1
  <2>5. y \notin above(y)
    BY <2>4
  <2>6. above(y) # above(x)
    BY <2>3, <2>5
  <2>7. above(x) \in SUBSET S /\ above(y) \in SUBSET S
    OBVIOUS
  <2> HIDE DEF above
  <2>8. <<above(y), above(x)>> \in R
    BY <2>2, <2>6, <2>7 DEF StrictSubsetOrdering
  <2> QED
    BY <1>3, <1>4, <2>8
<1>6. Max(S) \in S /\ \A y \in S : Max(S) >= y
  BY <1>5 DEF Max
<1> QED
  BY <1>6

LEMMA SessionsAreFinite == IsFiniteSet(Sessions) /\ Sessions \subseteq Nat \ {0}
<1>1. LastDay \in Nat /\ Sessions \subseteq 1..LastDay
  BY CalendarAssumption DEF Days
<1>2. IsFiniteSet(1..LastDay)
  BY <1>1, FS_Interval
<1>3. IsFiniteSet(Sessions)
  BY <1>1, <1>2, FS_Subset
<1>4. \A d \in Sessions : d \in Nat \ {0}
  BY <1>1
<1> QED
  BY <1>3, <1>4

LEMMA LatestIs ==
  ASSUME NEW s, TypeInv
  PROVE  /\ Latest(s) \in Nat
         /\ \A d \in Sessions : bars[s][d] # NoBar => d <= Latest(s)
         /\ Latest(s) # 0 => Latest(s) \in Sessions /\ bars[s][Latest(s)] # NoBar
<1>1. Stored(s) \subseteq Sessions /\ Sessions \subseteq Nat \ {0} /\ IsFiniteSet(Stored(s))
  BY SessionsAreFinite, FS_Subset DEF Stored
<1>2. CASE Stored(s) = {}
  BY <1>2 DEF Stored, Latest
<1>3. CASE Stored(s) # {}
  <2> DEFINE S == Stored(s)
  <2>3. S \in SUBSET Int /\ IsFiniteSet(S) /\ S # {}
    <3>1. ASSUME NEW d \in S PROVE d \in Int
      <4>1. d \in Sessions
        BY <1>1
      <4> QED
        BY <1>1, <4>1
    <3> QED
      BY <1>1, <1>3, <3>1
  <2> HIDE DEF S
  <2>4. Max(S) \in S /\ \A x \in S : x <= Max(S)
    BY <2>3, Greatest
  <2>1. Max(Stored(s)) \in Stored(s) /\ \A x \in Stored(s) : x <= Max(Stored(s))
    BY <2>4 DEF S
  <2>2. Latest(s) = Max(Stored(s))
    BY <1>3 DEF Latest
  <2> QED
    BY <1>1, <2>1, <2>2 DEF Stored
<1> QED
  BY <1>2, <1>3

-----------------------------------------------------------------------------
(* A longer series has the points of a shorter one: the bars up to a date can
   be mapped one to one. *)
LEMMA PointsGrow ==
  ASSUME NEW old \in Series, NEW new \in Series,
         \A x \in Sessions : old[x] # NoBar => new[x] # NoBar,
         NEW d \in Points(old)
  PROVE  d \in Points(new)
<1> DEFINE before == {x \in Sessions : x <= d /\ new[x] # NoBar}
           place == [x \in before |-> <<x, new[x]>>]
           ahead == [p \in Upto(old, d) |-> <<p[1], new[p[1]]>>]
<1>1. IsFiniteSet(before)
  BY SessionsAreFinite, FS_Subset
<1>2. place \in Surjection(before, Upto(new, d))
  BY DEF Upto, Surjection
<1>3. IsFiniteSet(Upto(new, d)) /\ Cardinality(Upto(new, d)) \in Nat
  BY <1>1, <1>2, FS_Surjection, FS_CardinalityType
<1>4. \A p \in Upto(old, d) : p = <<p[1], old[p[1]]>> /\ <<p[1], new[p[1]]>> \in Upto(new, d)
  BY DEF Upto
<1>5. \A p, q \in Upto(old, d) : p[1] = q[1] => p = q
  BY DEF Upto
<1>6. ahead \in Injection(Upto(old, d), Upto(new, d))
  <2>1. ahead \in [Upto(old, d) -> Upto(new, d)]
    BY <1>4
  <2>2. \A p, q \in Upto(old, d) : ahead[p] = ahead[q] => p = q
    BY <1>5
  <2> QED
    BY <2>1, <2>2 DEF Injection, IsInjective
<1>7. /\ IsFiniteSet(Upto(old, d))
      /\ Cardinality(Upto(old, d)) <= Cardinality(Upto(new, d))
  BY <1>3, <1>6, FS_Injection
<1>8. Cardinality(Upto(old, d)) \in Nat
  BY <1>7, FS_CardinalityType
<1> QED
  BY <1>3, <1>7, <1>8, WindowsAssumption DEF Points

(* The points up to a date depend on the bars up to it. *)
LEMMA PointsAreLocal ==
  ASSUME NEW old, NEW new, NEW d \in Sessions, \A x \in Sessions : x <= d => new[x] = old[x]
  PROVE  Upto(new, d) = Upto(old, d) /\ (d \in Points(new) <=> d \in Points(old))
<1>1. Upto(new, d) = Upto(old, d)
  BY DEF Upto
<1>2. new[d] = old[d]
  BY SessionsAreFinite
<1> QED
  BY <1>1, <1>2 DEF Points

-----------------------------------------------------------------------------
LEMMA NoRowsType == NoRows \in Series /\ \A d \in Sessions : NoRows[d] = NoBar
BY DEF NoRows, Series

LEMMA NoJobType == NoJob \in JobState
BY NoRowsType DEF NoJob, JobState, Places

LEMMA InvInit == MarketInit => IInv
<1> SUFFICES ASSUME MarketInit PROVE IInv
  OBVIOUS
<1>1. today \in Days /\ revision \in Nat /\ quoted \in [Symbols \cup {Index} -> Nat]
  BY CalendarAssumption DEF MarketInit, Days
<1>2. bars \in [Symbols -> Series] /\ full \in [Symbols -> Nat] /\ job \in [Jobs -> JobState]
  BY NoRowsType, NoJobType DEF MarketInit
<1>3. ind \in [Equities -> [Sessions -> SUBSET (Sessions \X Nat)]]
  BY DEF MarketInit
<1>4. NoSessionRun \in SessionRuns
  BY DEF NoSessionRun, SessionRuns
<1>5. runs \in [Days -> SessionRuns]
  BY <1>4 DEF MarketInit
<1>6. TypeInv
  BY <1>1, <1>2, <1>3, <1>5 DEF MarketInit, TypeInv
<1>7. \A s \in Symbols : bars[s] = NoRows
  BY DEF MarketInit
<1>8. \A s \in Equities : Points(bars[s]) = {}
  BY <1>7, NoRowsType DEF Points, Symbols
<1>9. IndicatorsMatchPrices
  BY <1>8 DEF MarketInit, IndicatorsMatchPrices
<1>10. \A s \in Symbols : BeginsWhole(s)
  BY <1>7, NoRowsType DEF BeginsWhole
<1>11. \A d \in Days : RunIsSound(d)
  BY DEF MarketInit, RunIsSound, NoSessionRun
<1>12. \A j \in Jobs : JobIsSound(job[j])
  BY DEF MarketInit, NoJob, JobIsSound, FetchIsSound, BatchIsSound
<1> QED
  BY <1>6, <1>9, <1>10, <1>11, <1>12 DEF IInv
-----------------------------------------------------------------------------
(* What a step of one job leaves to the others. *)
PricesStay ==
  /\ today' = today /\ revision' = revision /\ quoted' = quoted /\ listed' = listed
  /\ approved' \subseteq Equities
  /\ bars' = bars /\ ind' = ind /\ full' = full

RunsStaySound ==
  /\ runs' \in [Days -> SessionRuns]
  /\ \A d \in Days : (runs[d].market => runs'[d].market) /\ RunIsSound(d)'

LEMMA SetStep ==
  ASSUME TypeInv, NEW j \in Jobs, NEW r \in JobState, Set(j, r)
  PROVE  /\ job' \in [Jobs -> JobState] /\ job'[j] = r
         /\ \A k \in Jobs \ {j} : job'[k] = job[k]
BY DEF TypeInv, Set

LEMMA SoundStays ==
  ASSUME IInv, bars' = bars, RunsStaySound, NEW k \in Jobs, job'[k] = job[k]
  PROVE  JobIsSound(job[k])'
<1>1. JobIsSound(job[k])
  BY DEF IInv
<1>2. FetchIsSound(job[k])'
  BY <1>1 DEF JobIsSound, FetchIsSound
<1>3. BatchIsSound(job[k])'
  <2>1. \A s, d : Reaches(s, d)' = Reaches(s, d)
    BY DEF Reaches
  <2>2. job[k].kind = "eod" /\ job[k].pc = "rest" => runs'[job[k].target].market
    BY <1>1 DEF JobIsSound, BatchIsSound, RunsStaySound
  <2>3. \A s \in job'[k].ok : Reaches(s, job[k].target)'
    BY <1>1, <2>1 DEF JobIsSound, BatchIsSound
  <2> QED
    BY <1>1, <2>2, <2>3 DEF JobIsSound, BatchIsSound
<1> QED
  BY <1>2, <1>3 DEF JobIsSound

LEMMA JobStep ==
  ASSUME IInv, NEW j \in Jobs, NEW r \in JobState, Set(j, r), PricesStay, RunsStaySound,
         JobIsSound(job[j])'
  PROVE  IInv'
<1>1. /\ job' \in [Jobs -> JobState] /\ \A k \in Jobs \ {j} : job'[k] = job[k]
  BY SetStep DEF IInv
<1>2. TypeInv'
  BY <1>1 DEF IInv, TypeInv, PricesStay, RunsStaySound
<1>3. IndicatorsMatchPrices' /\ \A s \in Symbols : BeginsWhole(s)'
  BY DEF IInv, IndicatorsMatchPrices, BeginsWhole, PricesStay, Points, Upto
<1>4. \A k \in Jobs : JobIsSound(job[k])'
  BY <1>1, SoundStays DEF PricesStay
<1> QED
  BY <1>2, <1>3, <1>4 DEF IInv, RunsStaySound

LEMMA RunsUnchanged ==
  ASSUME IInv, bars' = bars, runs' = runs
  PROVE  RunsStaySound
<1>1. \A s, d : Reaches(s, d)' = Reaches(s, d)
  BY DEF Reaches
<1>2. \A d \in Days : RunIsSound(d)'
  BY <1>1 DEF IInv, RunIsSound
<1> QED
  BY <1>2 DEF IInv, TypeInv, RunsStaySound

(* The common case: only the variables of the job change. *)
LEMMA LocalStep ==
  ASSUME IInv, NEW j \in Jobs, NEW r \in JobState, Set(j, r), PricesStay, runs' = runs,
         JobIsSound(r)
  PROVE  IInv'
<1>1. RunsStaySound /\ job'[j] = r
  BY RunsUnchanged, SetStep DEF PricesStay, IInv
<1>2. \A s, d : Reaches(s, d)' = Reaches(s, d)
  BY DEF Reaches, PricesStay
<1>3. FetchIsSound(job[j])'
  BY <1>1 DEF JobIsSound, FetchIsSound, PricesStay
<1>4. \A s \in job'[j].ok : Reaches(s, job[j].target)'
  BY <1>1, <1>2 DEF JobIsSound, BatchIsSound
<1>5. BatchIsSound(job[j])'
  BY <1>1, <1>4 DEF JobIsSound, BatchIsSound
<1> QED
  BY <1>1, <1>3, <1>5, JobStep DEF JobIsSound

LEMMA EndJobStep ==
  ASSUME IInv, NEW j \in Jobs, Set(j, NoJob), PricesStay, RunsStaySound
  PROVE  IInv'
<1>1. job'[j] = NoJob
  BY NoJobType, SetStep DEF IInv
<1>2. JobIsSound(job[j])'
  BY <1>1 DEF NoJob, JobIsSound, FetchIsSound, BatchIsSound
<1> QED
  BY <1>2, NoJobType, JobStep

LEMMA BeginStep ==
  ASSUME IInv, NEW j \in Jobs, NEW kind \in {"eod", "api", "bootstrap"}, NEW d \in Days,
         NEW todo \in SUBSET Symbols, NEW place \in {"execute", "next", "sync"},
         kind = "eod" /\ place = "next" => Macros \subseteq todo,
         Begin(j, kind, d, todo, place), PricesStay, RunsStaySound
  PROVE  IInv'
<1> DEFINE r == [NoJob EXCEPT !.pc = place, !.kind = kind, !.target = d, !.at = today, !.todo = todo]
<1>1. today \in Nat /\ d \in Nat /\ NoJob.ok = {}
  BY CalendarAssumption DEF IInv, TypeInv, Days, NoJob
<1>2. r \in JobState /\ r.pc = place /\ r.kind = kind /\ r.target = d /\ r.todo = todo /\ r.ok = {}
  BY <1>1, NoJobType DEF JobState, Places
<1>3. Set(j, r)
  BY DEF Begin
<1> HIDE DEF r
<1>4. job'[j] = r
  BY <1>2, <1>3, SetStep DEF IInv
<1>5. JobIsSound(job[j])'
  BY <1>2, <1>4 DEF JobIsSound, FetchIsSound, BatchIsSound
<1> QED
  BY <1>2, <1>3, <1>5, JobStep

-----------------------------------------------------------------------------
(* The runner and the requests. *)
LEMMA StartedStep ==
  ASSUME IInv, NEW j \in Jobs,
         ResolveTarget(j) \/ ExplicitTarget(j) \/ Trigger(j) \/ \E execute \in BOOLEAN : Preflight(j, execute)
  PROVE  IInv'
<1>1. PricesStay /\ runs' = runs /\ today \in Days /\ {} \subseteq Symbols
  BY DEF ResolveTarget, ExplicitTarget, Trigger, Preflight, PricesStay, world, rows, IInv, TypeInv
<1>2. RunsStaySound
  BY <1>1, RunsUnchanged DEF PricesStay
<1>3. CASE ResolveTarget(j)
  <2>1. \E d \in Days : Begin(j, "eod", d, {}, "execute")
    BY <1>3 DEF ResolveTarget, ReadySessions
  <2> QED
    BY <1>1, <1>2, <2>1, BeginStep
<1>4. CASE ExplicitTarget(j)
  <2>1. \E d \in Days : Begin(j, "eod", d, {}, "execute")
    BY <1>4 DEF ExplicitTarget
  <2> QED
    BY <1>1, <1>2, <2>1, BeginStep
<1>5. CASE Trigger(j)
  <2>1. \E symbols \in SUBSET Symbols : Begin(j, "api", today, symbols, "next")
    BY <1>5 DEF Trigger, Universe, Symbols, IInv, TypeInv
  <2> QED
    BY <1>1, <1>2, <2>1, BeginStep
<1>6. ASSUME NEW execute \in BOOLEAN, Preflight(j, execute) PROVE IInv'
  <2>1. CASE Begin(j, "bootstrap", today, {}, "sync")
    BY <1>1, <1>2, <2>1, BeginStep
  <2>2. CASE job' = job
    <3>1. job[j] \in JobState /\ Set(j, job[j]) /\ JobIsSound(job[j])
      BY <2>2 DEF IInv, TypeInv, Set
    <3> QED
      BY <1>1, <3>1, LocalStep
  <2> QED
    BY <1>6, <2>1, <2>2 DEF Preflight
<1> QED
  BY <1>3, <1>4, <1>5, <1>6

(* A run that is taken up is not completed, and keeps its checkpoint. *)
LEMMA TakenUp ==
  ASSUME IInv, PricesStay, NEW d \in Days, NEW r \in SessionRuns, runs' = [runs EXCEPT ![d] = r],
         runs[d].market => r.market,
         r.status = "completed" => r.market,
         r.market => Macros \subseteq r.requested /\ \A s \in r.requested : Reaches(s, d)
  PROVE  RunsStaySound
<1>1. /\ runs' \in [Days -> SessionRuns] /\ runs'[d] = r
      /\ \A e \in Days \ {d} : runs'[e] = runs[e]
  BY DEF IInv, TypeInv
<1>2. \A s, e : Reaches(s, e)' = Reaches(s, e)
  BY DEF Reaches, PricesStay
<1>3. \A e \in Days : RunIsSound(e)'
  BY <1>1, <1>2 DEF IInv, RunIsSound
<1> QED
  BY <1>1, <1>3 DEF RunsStaySound

LEMMA ExecuteStep == ASSUME IInv, NEW j \in Jobs, Execute(j) PROVE IInv'
<1> DEFINE d == job[j].target
<1>1. /\ job[j].pc = "execute" /\ PricesStay /\ job[j] \in JobState
  BY DEF Execute, At, PricesStay, world, rows, IInv, TypeInv
<1>2. d \in Days /\ JobIsSound(job[j])
  BY <1>1 DEF IInv, JobIsSound, BatchIsSound
<1>3. runs[d] \in SessionRuns /\ RunIsSound(d)
  BY <1>2 DEF IInv, TypeInv
<1>4. CASE Set(j, NoJob) /\ runs' = runs
  BY <1>1, <1>4, RunsUnchanged, EndJobStep DEF PricesStay
<1>5. CASE /\ runs[d].market /\ Set(j, [job[j] EXCEPT !.pc = "rest"])
           /\ runs' = [runs EXCEPT ![d].status = "running"]
  <2> DEFINE r == [job[j] EXCEPT !.pc = "rest"]
             q == [runs[d] EXCEPT !.status = "running"]
  <2>1. /\ r \in JobState /\ r.pc = "rest" /\ r.kind = job[j].kind /\ r.target = d
        /\ r.ok = job[j].ok
    BY <1>1 DEF JobState, Places
  <2>2. /\ q \in SessionRuns /\ q.market = runs[d].market /\ q.requested = runs[d].requested
        /\ q.status = "running"
    BY <1>3 DEF SessionRuns
  <2>3. runs' = [runs EXCEPT ![d] = q] /\ Set(j, r)
    BY <1>5
  <2> HIDE DEF r, q
  <2>4. RunsStaySound
    BY <1>1, <1>2, <1>3, <2>2, <2>3, TakenUp DEF RunIsSound
  <2>5. job'[j] = r
    BY <2>1, <2>3, SetStep DEF IInv
  <2>6. \A s, e : Reaches(s, e)' = Reaches(s, e)
    BY <1>1 DEF Reaches, PricesStay
  <2>7. runs'[d].market
    BY <1>2, <1>5, <2>4 DEF RunsStaySound
  <2>8. \A s \in r.ok : Reaches(s, d)
    BY <1>2, <2>1 DEF JobIsSound, BatchIsSound
  <2>9. JobIsSound(job[j])'
    BY <1>2, <2>1, <2>5, <2>6, <2>7, <2>8 DEF JobIsSound, FetchIsSound, BatchIsSound
  <2> QED
    BY <1>1, <2>1, <2>3, <2>4, <2>9, JobStep
<1>6. CASE /\ ~ runs[d].market
           /\ runs' = [runs EXCEPT ![d] =
                         [@ EXCEPT !.status = "running", !.attempts = runs[d].attempts + 1]]
           /\ Set(j, NoJob) \/ Begin(j, "eod", d, Universe, "next")
  <2> DEFINE q == [runs[d] EXCEPT !.status = "running", !.attempts = runs[d].attempts + 1]
  <2>5. runs[d].attempts + 1 \in Nat
    BY <1>3 DEF SessionRuns
  <2>6. \A n \in Nat : LET p == [runs[d] EXCEPT !.status = "running", !.attempts = n] IN
          p \in SessionRuns /\ p.market = runs[d].market /\ p.status = "running"
    BY <1>3 DEF SessionRuns
  <2>1. /\ q \in SessionRuns /\ q.market = runs[d].market /\ q.status = "running"
    BY <2>5, <2>6
  <2>2. runs' = [runs EXCEPT ![d] = q]
    BY <1>6
  <2> HIDE DEF q
  <2>3. RunsStaySound
    BY <1>1, <1>2, <1>6, <2>1, <2>2, TakenUp
  <2>4. Universe \in SUBSET Symbols /\ Macros \subseteq Universe
    BY DEF Universe, Symbols, IInv, TypeInv
  <2> HIDE DEF d
  <2> QED
    BY <1>1, <1>2, <1>6, <2>3, <2>4, EndJobStep, BeginStep
<1> QED
  BY <1>4, <1>5, <1>6 DEF Execute

-----------------------------------------------------------------------------
(* One symbol. *)
LEMMA LeastOfTwo ==
  ASSUME NEW a \in Int, NEW b \in Int
  PROVE  Min({a, b}) \in Int /\ Min({a, b}) <= a
<1>1. \E x \in {a, b} : \A y \in {a, b} : x <= y
  <2>1. CASE a <= b
    BY <2>1
  <2>2. CASE b <= a
    BY <2>2
  <2> QED
    BY <2>1, <2>2
<1>2. Min({a, b}) \in {a, b} /\ \A y \in {a, b} : Min({a, b}) <= y
  BY <1>1 DEF Min
<1> QED
  BY <1>2

(* A window begins within the stored series, or before the first session. *)
LEMMA WindowMeetsSeries ==
  ASSUME IInv, NEW s \in Symbols, NEW found, NEW target \in Days, NEW d \in Sessions,
         d < Start(s, Mode(s, found), target)
  PROVE  bars[s][d] # NoBar
<1>1. d \in Nat \ {0} /\ target \in Nat /\ target <= LastDay /\ LastDay \in Nat
  BY SessionsAreFinite, CalendarAssumption DEF Days
<1>2. Latest(s) \in Nat /\ (Latest(s) # 0 => Latest(s) \in Sessions /\ bars[s][Latest(s)] # NoBar)
  BY LatestIs DEF IInv
<1>3. CASE Mode(s, found) = "incremental"
  <2>1. Latest(s) # 0 /\ d < Min({Latest(s), target}) - Overlap
    BY <1>3 DEF Mode, Start
  <2>2. Overlap \in Nat /\ Min({Latest(s), target}) \in Int /\ Min({Latest(s), target}) <= Latest(s)
    BY <1>1, <1>2, LeastOfTwo, WindowsAssumption
  <2>3. d < Latest(s)
    BY <1>1, <1>2, <2>1, <2>2
  <2> QED
    BY <1>2, <2>1, <2>3 DEF IInv, BeginsWhole
<1>4. CASE Mode(s, found) # "incremental"
  <2>1. d < target - Lookback
    BY <1>4 DEF Start
  <2> QED
    BY <1>1, <2>1, WindowsAssumption
<1> QED
  BY <1>3, <1>4

LEMMA PlanFetchStep ==
  ASSUME IInv, NEW j \in Jobs, NEW s \in Symbols, PlanFetch(j, s)
  PROVE  IInv'
<1> DEFINE mode == Mode(s, job[j].at)
           start == Start(s, mode, job[j].target)
           r == [job[j] EXCEPT !.pc = "fetch", !.todo = job[j].todo \ {s}, !.symbol = s, !.mode = mode,
                   !.start = start, !.latest = Latest(s)]
<1>1. job[j].pc = "next" /\ s \in job[j].todo /\ Set(j, r) /\ PricesStay /\ runs' = runs
  BY DEF PlanFetch, At, PricesStay, world, rows, IInv, TypeInv
<1>2. job[j] \in JobState /\ JobIsSound(job[j]) /\ job[j].target \in Days
  BY <1>1 DEF IInv, TypeInv, JobIsSound, BatchIsSound
<1>3. job[j].target \in Int /\ job[j].target <= LastDay
  BY <1>2, CalendarAssumption DEF Days
<1>4. Latest(s) \in Nat
  BY LatestIs DEF IInv
<1>5. start \in Int
  <2>1. Overlap \in Nat /\ Lookback \in Nat
    BY WindowsAssumption
  <2>3. Latest(s) \in Int /\ job[j].target \in Int
    BY <1>3, <1>4
  <2>2. Min({Latest(s), job[j].target}) \in Int
    BY <2>3, LeastOfTwo
  <2> QED
    BY <1>3, <2>1, <2>2 DEF Start
<1>6. mode \in {"bootstrap", "reconciliation", "incremental"}
  BY DEF Mode
<1>7. \A d \in Sessions : d < start => bars[s][d] # NoBar
  BY <1>2, WindowMeetsSeries
<1> HIDE DEF mode, start
<1>8. /\ r \in JobState /\ r.pc = "fetch" /\ r.symbol = s /\ r.start = start
      /\ r.target = job[j].target /\ r.todo = job[j].todo \ {s} /\ r.ok = job[j].ok
      /\ r.failed = job[j].failed /\ r.kind = job[j].kind
  BY <1>2, <1>4, <1>5, <1>6 DEF JobState, Places
<1> HIDE DEF r
<1>9. FetchIsSound(r)
  BY <1>3, <1>7, <1>8 DEF FetchIsSound
<1>10. BatchIsSound(r)
  BY <1>1, <1>2, <1>8 DEF JobIsSound, BatchIsSound
<1> QED
  BY <1>1, <1>8, <1>9, <1>10, LocalStep DEF JobIsSound

LEMMA FailedStep ==
  ASSUME IInv, NEW j \in Jobs, job[j].pc \in {"fetch", "store"}, Set(j, Failed(j)), PricesStay,
         runs' = runs
  PROVE  IInv'
<1> DEFINE r == Failed(j)
<1>1. job[j] \in JobState /\ JobIsSound(job[j])
  BY DEF IInv, TypeInv
<1>2. job[j].symbol \in Symbols /\ job[j].target \in Days
  BY <1>1 DEF JobIsSound, FetchIsSound, BatchIsSound
<1>3. /\ r \in JobState /\ r.pc = "next" /\ r.target = job[j].target /\ r.todo = job[j].todo
      /\ r.ok = job[j].ok /\ r.failed = job[j].failed \cup {job[j].symbol} /\ r.kind = job[j].kind
  BY <1>1, <1>2, NoRowsType DEF Failed, JobState, Places
<1> HIDE DEF r
<1>4. JobIsSound(r)
  BY <1>1, <1>2, <1>3 DEF JobIsSound, FetchIsSound, BatchIsSound
<1> QED
  BY <1>3, <1>4, LocalStep DEF r

LEMMA FetchStep == ASSUME IInv, NEW j \in Jobs, Fetch(j) PROVE IInv'
<1>1. job[j].pc = "fetch" /\ PricesStay /\ runs' = runs
  BY DEF Fetch, At, PricesStay, world, rows, IInv, TypeInv
<1>2. CASE Set(j, Failed(j))
  BY <1>1, <1>2, FailedStep
<1>3. ASSUME Valid(j, Answer(j)),
             Set(j, [job[j] EXCEPT !.pc = "store",
                       !.got = [d \in Sessions |-> IF d \in Answer(j) THEN revision ELSE NoBar]])
      PROVE  IInv'
  <2> DEFINE got == [d \in Sessions |-> IF d \in Answer(j) THEN revision ELSE NoBar]
             r == [job[j] EXCEPT !.pc = "store", !.got = got]
  <2>1. job[j] \in JobState /\ JobIsSound(job[j]) /\ job[j].symbol \in Symbols
    BY <1>1 DEF IInv, TypeInv, JobIsSound, FetchIsSound
  <2>2. revision \in Nat /\ quoted[job[j].symbol] \in Nat /\ job[j].target \in Nat /\ job[j].start \in Int
    BY <2>1 DEF IInv, TypeInv, JobState
  <2>3. got \in Series
    BY <2>2 DEF Series
  <2>4. \A d \in Sessions : got[d] # NoBar <=> d \in Answer(j)
    BY <2>2 DEF NoBar
  <2>5. \E d \in Sessions : d \in Answer(j) /\ d >= job[j].target - MaxStale
    <3>1. Answer(j) \in SUBSET Int /\ IsFiniteSet(Answer(j)) /\ Answer(j) # {}
      <4>1. Answer(j) \subseteq Sessions
        BY DEF Answer
      <4>2. \A d \in Sessions : d \in Int
        BY SessionsAreFinite
      <4>3. IsFiniteSet(Answer(j))
        BY <4>1, SessionsAreFinite, FS_Subset
      <4> QED
        BY <1>3, <4>1, <4>2, <4>3 DEF Valid
    <3>2. Max(Answer(j)) \in Answer(j)
      BY <3>1, Greatest
    <3>3. Max(Answer(j)) >= job[j].target - MaxStale
      BY <1>3 DEF Valid
    <3> QED
      BY <3>2, <3>3 DEF Answer
  <2> HIDE DEF got
  <2>6. /\ r \in JobState /\ r.pc = "store" /\ r.got = got /\ r.symbol = job[j].symbol
        /\ r.start = job[j].start /\ r.target = job[j].target /\ r.todo = job[j].todo
        /\ r.ok = job[j].ok /\ r.failed = job[j].failed /\ r.kind = job[j].kind
    BY <2>1, <2>3 DEF JobState, Places
  <2>7. Set(j, r)
    BY <1>3 DEF got
  <2> HIDE DEF r
  <2>8. \A d, x \in Sessions : d \in Answer(j) /\ job[j].start <= x /\ x < d => x \in Answer(j)
    <3>1. \A d \in Sessions : d \in Int
      BY SessionsAreFinite
    <3> QED
      BY <2>2, <3>1 DEF Answer
  <2>9. FetchIsSound(r)
    <3>1. \A d \in Sessions : got[d] # NoBar => d >= job[j].start
      BY <2>4 DEF Answer
    <3> QED
      BY <1>1, <2>1, <2>4, <2>5, <2>6, <2>8, <3>1 DEF JobIsSound, FetchIsSound
  <2>10. BatchIsSound(r)
    BY <1>1, <2>1, <2>6 DEF JobIsSound, BatchIsSound
  <2> QED
    BY <1>1, <2>6, <2>7, <2>9, <2>10, LocalStep DEF JobIsSound
<1> QED
  BY <1>2, <1>3 DEF Fetch
(* The commit of a symbol adds what was fetched to what is stored by now. *)
LEMMA StoredSeries ==
  ASSUME IInv, NEW j \in Jobs, job[j].pc = "store",
         NEW series, series = Upserted(bars[job[j].symbol], job[j].got)
  PROVE  LET s == job[j].symbol IN
         /\ s \in Symbols /\ series \in Series
         /\ \A d \in Sessions : bars[s][d] # NoBar => series[d] # NoBar
         /\ \A d \in Sessions : job[j].got[d] # NoBar => series[d] # NoBar
         /\ \A d \in Sessions : d < job[j].start => series[d] = bars[s][d]
         /\ \A d, x \in Sessions : series[d] # NoBar /\ x < d => series[x] # NoBar
<1> DEFINE s == job[j].symbol
           got == job[j].got
<1>1. job[j] \in JobState /\ FetchIsSound(job[j])
  BY DEF IInv, TypeInv, JobIsSound
<1>2. s \in Symbols /\ got \in Series /\ bars[s] \in Series /\ job[j].start \in Int
  BY <1>1 DEF FetchIsSound, JobState, IInv, TypeInv
<1>3. /\ \A d \in Sessions : d < job[j].start => bars[s][d] # NoBar
      /\ \A d \in Sessions : got[d] # NoBar => d >= job[j].start
      /\ \A d, x \in Sessions : got[d] # NoBar /\ job[j].start <= x /\ x < d => got[x] # NoBar
  BY <1>1 DEF FetchIsSound
<1>4. BeginsWhole(s)
  BY <1>2 DEF IInv
<1>5. \A d \in Sessions : d \in Nat
  BY SessionsAreFinite
<1>6. series = [d \in Sessions |-> IF got[d] = NoBar THEN bars[s][d] ELSE got[d]]
  BY DEF Upserted
<1> HIDE DEF s, got
<1>7. series \in Series /\ \A d \in Sessions : series[d] = IF got[d] = NoBar THEN bars[s][d] ELSE got[d]
  BY <1>2, <1>6 DEF Series
<1>8. ASSUME NEW d \in Sessions, NEW x \in Sessions, series[d] # NoBar, x < d PROVE series[x] # NoBar
  <2>1. CASE bars[s][x] # NoBar
    BY <1>7, <2>1
  <2>2. CASE bars[s][x] = NoBar
    <3>1. bars[s][d] = NoBar
      BY <1>4, <1>8, <2>2 DEF BeginsWhole
    <3>2. got[d] # NoBar /\ job[j].start <= x
      BY <1>2, <1>3, <1>5, <1>7, <1>8, <2>2, <3>1
    <3> QED
      BY <1>3, <1>7, <1>8, <3>2
  <2> QED
    BY <2>1, <2>2
<1>9. \A d \in Sessions : d < job[j].start => series[d] = bars[s][d]
  BY <1>2, <1>3, <1>5, <1>7
<1> QED
  BY <1>2, <1>7, <1>8, <1>9 DEF s, got

LEMMA StoreStep == ASSUME IInv, NEW j \in Jobs, Store(j) PROVE IInv'
<1> DEFINE s == job[j].symbol
           series == Upserted(bars[s], job[j].got)
           r == [job[j] EXCEPT !.pc = "next", !.ok = job[j].ok \cup {s}, !.got = NoRows]
<1>1. /\ job[j].pc = "store" /\ bars' = [bars EXCEPT ![s] = series] /\ Set(j, r)
      /\ full' = (IF AdvancesWatermark(j) THEN [full EXCEPT ![s] = job[j].at] ELSE full)
      /\ runs' = runs /\ approved' = approved /\ UNCHANGED world
  BY DEF Store, At
<1>2. IF s \in Macros THEN ind' = ind
      ELSE ind' = [ind EXCEPT ![s] = [d \in Sessions |->
                     IF d \in Affected(series, job[j].start) THEN Upto(series, d) ELSE ind[s][d]]]
  BY DEF Store
<1>3. /\ job[j] \in JobState /\ JobIsSound(job[j]) /\ job[j].start \in Int /\ job[j].at \in Nat
      /\ job[j].target \in Days
  BY <1>1 DEF IInv, TypeInv, JobState, JobIsSound, BatchIsSound
<1>4. /\ s \in Symbols /\ series \in Series
      /\ \A d \in Sessions : bars[s][d] # NoBar => series[d] # NoBar
      /\ \A d \in Sessions : job[j].got[d] # NoBar => series[d] # NoBar
      /\ \A d \in Sessions : d < job[j].start => series[d] = bars[s][d]
      /\ \A d, x \in Sessions : series[d] # NoBar /\ x < d => series[x] # NoBar
  BY <1>1, StoredSeries
<1> HIDE DEF series
<1>5. /\ r \in JobState /\ r.pc = "next" /\ r.target = job[j].target /\ r.todo = job[j].todo
      /\ r.ok = job[j].ok \cup {s} /\ r.failed = job[j].failed /\ r.kind = job[j].kind
  BY <1>3, <1>4, NoRowsType DEF JobState, Places
<1> HIDE DEF r
<1>6. /\ job' \in [Jobs -> JobState] /\ job'[j] = r /\ \A k \in Jobs \ {j} : job'[k] = job[k]
  BY <1>1, <1>5, SetStep DEF IInv
<1>7. /\ bars' \in [Symbols -> Series] /\ bars'[s] = series
      /\ \A t \in Symbols \ {s} : bars'[t] = bars[t]
  BY <1>1, <1>4 DEF IInv, TypeInv
<1>8. \A t \in Symbols, d \in Sessions : bars[t][d] # NoBar => bars'[t][d] # NoBar
  BY <1>4, <1>7
<1>9. \A t \in Symbols : \A d : Reaches(t, d) => Reaches(t, d)'
  BY <1>8 DEF Reaches
<1>10. TypeInv'
  <2>1. full' \in [Symbols -> Nat]
    BY <1>1, <1>3 DEF IInv, TypeInv
  <2>2. ASSUME NEW d \in Sessions PROVE Upto(series, d) \in SUBSET (Sessions \X Nat)
    <3>1. \A e \in Sessions : series[e] # NoBar => series[e] \in Nat
      BY <1>4 DEF Series
    <3> QED
      BY <3>1 DEF Upto
  <2>3. s \in Equities => ind[s] \in [Sessions -> SUBSET (Sessions \X Nat)]
    BY DEF IInv, TypeInv
  <2> DEFINE points == [d \in Sessions |->
                          IF d \in Affected(series, job[j].start) THEN Upto(series, d) ELSE ind[s][d]]
  <2>5. s \in Equities => points \in [Sessions -> SUBSET (Sessions \X Nat)]
    BY <2>2, <2>3
  <2>6. s \notin Macros => s \in Equities /\ ind' = [ind EXCEPT ![s] = points]
    BY <1>2, <1>4 DEF Symbols
  <2> HIDE DEF points
  <2>4. ind' \in [Equities -> [Sessions -> SUBSET (Sessions \X Nat)]]
    BY <1>2, <2>5, <2>6 DEF IInv, TypeInv
  <2> QED
    BY <1>1, <1>6, <1>7, <2>1, <2>4 DEF IInv, TypeInv, world
<1>11. IndicatorsMatchPrices'
  <2> SUFFICES ASSUME NEW t \in Equities, NEW d \in Sessions
               PROVE  ind'[t][d] = IF d \in Points(bars'[t]) THEN Upto(bars'[t], d) ELSE {}
    BY DEF IndicatorsMatchPrices, Points, Upto
  <2>1. ind[t][d] = IF d \in Points(bars[t]) THEN Upto(bars[t], d) ELSE {}
    BY DEF IInv, IndicatorsMatchPrices
  <2>2. CASE t # s
    <3>1. bars'[t] = bars[t] /\ ind'[t] = ind[t]
      BY <1>2, <1>7, <2>2 DEF Symbols, IInv, TypeInv
    <3> QED
      BY <2>1, <3>1
  <2>3. CASE t = s
    <3>1. s \notin Macros /\ s \in Equities
      BY <2>3, SymbolsAssumption
    <3>2. ind'[s][d] = IF d \in Affected(series, job[j].start) THEN Upto(series, d) ELSE ind[s][d]
      BY <1>2, <3>1 DEF IInv, TypeInv
    <3>3. d \in Nat /\ bars[s] \in Series
      BY <1>4, SessionsAreFinite DEF IInv, TypeInv
    <3>4. CASE d >= job[j].start
      <4>1. d \in Affected(series, job[j].start) <=> d \in Points(series)
        BY <3>4 DEF Affected
      <4>2. d \in Points(bars[s]) => d \in Points(series)
        BY <1>4, <3>3, PointsGrow
      <4> QED
        BY <1>7, <2>1, <2>3, <3>2, <4>1, <4>2
    <3>5. CASE d < job[j].start
      <4>1. d \notin Affected(series, job[j].start)
        BY <1>3, <3>3, <3>5 DEF Affected
      <4>2. \A x \in Sessions : x <= d => series[x] = bars[s][x]
        <5>1. \A x \in Sessions : x \in Nat
          BY SessionsAreFinite
        <5> QED
          BY <1>3, <1>4, <3>3, <3>5, <5>1
      <4>3. Upto(series, d) = Upto(bars[s], d) /\ (d \in Points(series) <=> d \in Points(bars[s]))
        BY <4>2, PointsAreLocal
      <4> QED
        BY <1>7, <2>1, <2>3, <3>2, <4>1, <4>3
    <3> QED
      BY <1>3, <3>3, <3>4, <3>5
  <2> QED
    BY <2>2, <2>3
<1>12. \A t \in Symbols : BeginsWhole(t)'
  BY <1>4, <1>7 DEF IInv, BeginsWhole
<1>13. \A d \in Days : RunIsSound(d)'
  <2>1. \A d \in Days : runs[d].requested \subseteq Symbols
    BY DEF IInv, TypeInv, SessionRuns
  <2> QED
    BY <1>1, <1>9, <2>1 DEF IInv, RunIsSound
<1>14. ASSUME NEW k \in Jobs \ {j} PROVE JobIsSound(job[k])'
  <2>1. job'[k] = job[k] /\ job[k] \in JobState /\ JobIsSound(job[k])
    BY <1>6 DEF IInv, TypeInv
  <2>2. FetchIsSound(job[k])'
    BY <1>8, <2>1 DEF JobIsSound, FetchIsSound
  <2>3. job[k].ok \subseteq Symbols
    BY <2>1 DEF JobState
  <2>4. BatchIsSound(job[k])'
    BY <1>1, <1>9, <2>1, <2>3 DEF JobIsSound, BatchIsSound
  <2> QED
    BY <2>2, <2>4 DEF JobIsSound
<1>15. JobIsSound(job[j])'
  <2>1. \E d \in Sessions : bars'[s][d] # NoBar /\ d >= job[j].target - MaxStale
    BY <1>1, <1>3, <1>4, <1>7 DEF JobIsSound, FetchIsSound
  <2>2. \A t \in job[j].ok : t \in Symbols /\ Reaches(t, job[j].target)
    BY <1>3 DEF JobState, JobIsSound, BatchIsSound
  <2>3. \A t \in r.ok : \E d \in Sessions : bars'[t][d] # NoBar /\ d >= job[j].target - MaxStale
    BY <1>5, <1>8, <2>1, <2>2 DEF Reaches
  <2>4. r.kind = "eod" => Macros \subseteq r.todo \cup r.ok \cup r.failed
    BY <1>1, <1>3, <1>5 DEF JobIsSound, BatchIsSound
  <2>5. \A t \in job'[j].ok : Reaches(t, job[j].target)'
    BY <1>5, <1>6, <2>3 DEF Reaches
  <2> QED
    BY <1>3, <1>5, <1>6, <2>4, <2>5 DEF JobIsSound, FetchIsSound, BatchIsSound
<1> QED
  BY <1>10, <1>11, <1>12, <1>13, <1>14, <1>15 DEF IInv

-----------------------------------------------------------------------------
(* The end of a batch. *)
LEMMA FinishIngestStep == ASSUME IInv, NEW j \in Jobs, FinishIngest(j) PROVE IInv'
<1> DEFINE d == job[j].target
<1>1. job[j].pc = "next" /\ job[j].todo = {} /\ PricesStay
  BY DEF FinishIngest, At, PricesStay, world, rows, IInv, TypeInv
<1>2. job[j] \in JobState /\ JobIsSound(job[j]) /\ d \in Days
  BY <1>1 DEF IInv, TypeInv, JobIsSound, BatchIsSound
<1>3. runs[d] \in SessionRuns /\ RunIsSound(d)
  BY <1>2 DEF IInv, TypeInv
<1>4. CASE Set(j, NoJob) /\ runs' = runs
  BY <1>1, <1>4, RunsUnchanged, EndJobStep DEF PricesStay
<1>5. CASE Set(j, NoJob) /\ runs' = [runs EXCEPT ![d].status = "failed"]
  <2> DEFINE q == [runs[d] EXCEPT !.status = "failed"]
  <2>1. /\ q \in SessionRuns /\ q.market = runs[d].market /\ q.requested = runs[d].requested
        /\ q.status = "failed"
    BY <1>3 DEF SessionRuns
  <2>2. runs' = [runs EXCEPT ![d] = q]
    BY <1>5
  <2> HIDE DEF q
  <2>3. RunsStaySound
    BY <1>1, <1>2, <1>3, <2>1, <2>2, TakenUp DEF RunIsSound
  <2> QED
    BY <1>1, <1>5, <2>3, EndJobStep
<1>6. CASE /\ job[j].kind = "eod" /\ job[j].failed = {} /\ Set(j, [job[j] EXCEPT !.pc = "rest"])
           /\ runs' = [runs EXCEPT ![d] =
                         [@ EXCEPT !.market = TRUE, !.requested = job[j].ok \cup job[j].failed]]
  <2> DEFINE r == [job[j] EXCEPT !.pc = "rest"]
             asked == job[j].ok \cup job[j].failed
             q == [runs[d] EXCEPT !.market = TRUE, !.requested = asked]
  <2>1. /\ r \in JobState /\ r.pc = "rest" /\ r.target = d /\ r.ok = job[j].ok
    BY <1>2 DEF JobState, Places
  <2>2. asked \in SUBSET Symbols /\ asked = job[j].ok
    BY <1>2, <1>6 DEF JobState
  <2>3. \A b \in BOOLEAN : LET p == [runs[d] EXCEPT !.market = b, !.requested = asked] IN
          p \in SessionRuns /\ p.market = b /\ p.requested = asked
    <3> HIDE DEF asked
    <3> QED
      BY <1>3, <2>2 DEF SessionRuns
  <2>4. q \in SessionRuns /\ q.market = TRUE /\ q.requested = job[j].ok
    BY <2>2, <2>3
  <2>5. runs' = [runs EXCEPT ![d] = q] /\ Set(j, r)
    BY <1>6
  <2>6. Macros \subseteq job[j].ok /\ \A s \in job[j].ok : Reaches(s, d)
    BY <1>1, <1>2, <1>6 DEF JobIsSound, BatchIsSound
  <2> HIDE DEF r, q
  <2>7. RunsStaySound
    BY <1>1, <1>2, <2>4, <2>5, <2>6, TakenUp
  <2>8. job'[j] = r /\ runs'[d].market
    BY <1>2, <2>1, <2>4, <2>5, SetStep DEF IInv, TypeInv
  <2>9. \A s, e : Reaches(s, e)' = Reaches(s, e)
    BY <1>1 DEF Reaches, PricesStay
  <2>10. JobIsSound(job[j])'
    BY <1>2, <2>1, <2>6, <2>8, <2>9 DEF JobIsSound, FetchIsSound, BatchIsSound
  <2> QED
    BY <1>1, <2>1, <2>5, <2>7, <2>10, JobStep
<1>7. job[j].kind \in {"eod", "api"}
  BY DEF FinishIngest
<1> QED
  BY <1>4, <1>5, <1>6, <1>7 DEF FinishIngest, MarketStepFails

(* Only a run with its checkpoint goes past the market step. *)
LEMMA FinishPipelineStep ==
  ASSUME IInv, NEW j \in Jobs, NEW status \in {"completed", "failed"}, FinishPipeline(j, status)
  PROVE  IInv'
<1> DEFINE d == job[j].target
           q == [runs[d] EXCEPT !.status = status]
<1>1. job[j].pc = "rest" /\ job[j].kind = "eod" /\ PricesStay /\ Set(j, NoJob)
  BY DEF FinishPipeline, At, PricesStay, world, rows, IInv, TypeInv
<1>2. d \in Days /\ runs[d].market /\ runs[d] \in SessionRuns /\ RunIsSound(d)
  BY <1>1 DEF IInv, TypeInv, JobIsSound, BatchIsSound
<1>3. /\ q \in SessionRuns /\ q.market = runs[d].market /\ q.requested = runs[d].requested
      /\ q.status = status
  BY <1>2 DEF SessionRuns
<1>4. runs' = [runs EXCEPT ![d] = q]
  BY DEF FinishPipeline
<1> HIDE DEF q
<1>5. RunsStaySound
  BY <1>1, <1>2, <1>3, <1>4, TakenUp DEF RunIsSound
<1> QED
  BY <1>1, <1>5, EndJobStep

LEMMA BootstrapStep ==
  ASSUME IInv, NEW j \in Jobs, BootstrapSync(j) \/ BootstrapEnds(j)
  PROVE  IInv'
<1>1. PricesStay /\ runs' = runs /\ job[j] \in JobState /\ JobIsSound(job[j])
  BY DEF BootstrapSync, BootstrapEnds, PricesStay, world, rows, IInv, TypeInv
<1>2. RunsStaySound
  BY <1>1, RunsUnchanged DEF PricesStay
<1>3. CASE Set(j, NoJob)
  BY <1>1, <1>2, <1>3, EndJobStep
<1>4. CASE job[j].pc = "sync" /\ Set(j, [job[j] EXCEPT !.pc = "next", !.todo = listed \cup Macros])
  <2> DEFINE todo == listed \cup Macros
             r == [job[j] EXCEPT !.pc = "next", !.todo = todo]
  <2>1. todo \in SUBSET Symbols /\ Macros \subseteq todo
    BY DEF Symbols, IInv, TypeInv
  <2> HIDE DEF todo
  <2>2. r \in JobState /\ r.pc = "next" /\ r.todo = todo /\ r.target = job[j].target /\ r.ok = job[j].ok
    BY <1>1, <2>1 DEF JobState, Places
  <2>3. Set(j, r)
    BY <1>4 DEF todo
  <2> HIDE DEF r
  <2>4. JobIsSound(r)
    BY <1>1, <1>4, <2>1, <2>2 DEF JobIsSound, FetchIsSound, BatchIsSound
  <2> QED
    BY <1>1, <2>2, <2>3, <2>4, LocalStep
<1>5. CASE job[j].pc = "next" /\ Set(j, [job[j] EXCEPT !.pc = "ready"])
  <2> DEFINE r == [job[j] EXCEPT !.pc = "ready"]
  <2>1. r \in JobState /\ r.pc = "ready" /\ r.target = job[j].target /\ r.ok = job[j].ok
    BY <1>1 DEF JobState, Places
  <2>2. Set(j, r)
    BY <1>5
  <2> HIDE DEF r
  <2>3. JobIsSound(r)
    BY <1>1, <1>5, <2>1 DEF JobIsSound, FetchIsSound, BatchIsSound
  <2> QED
    BY <1>1, <2>1, <2>2, <2>3, LocalStep
<1> QED
  BY <1>3, <1>4, <1>5 DEF BootstrapSync, BootstrapEnds, At
-----------------------------------------------------------------------------
(* Nothing outside the jobs writes what the invariant is about. *)
LEMMA OutsideStep ==
  ASSUME IInv, UNCHANGED <<rows, runs, job>>, today' \in Days, revision' \in Nat,
         quoted' \in [Symbols \cup {Index} -> Nat], listed' \subseteq Equities, approved' \subseteq Equities
  PROVE  IInv'
<1>1. bars' = bars /\ ind' = ind /\ full' = full /\ runs' = runs /\ job' = job
  BY DEF rows
<1>2. TypeInv'
  BY <1>1 DEF IInv, TypeInv
<1>3. IndicatorsMatchPrices' /\ \A s \in Symbols : BeginsWhole(s)'
  BY <1>1 DEF IInv, IndicatorsMatchPrices, BeginsWhole, Points, Upto
<1>4. RunsStaySound
  BY <1>1, RunsUnchanged
<1>5. \A k \in Jobs : JobIsSound(job[k])'
  BY <1>1, <1>4, SoundStays
<1> QED
  BY <1>2, <1>3, <1>4, <1>5 DEF IInv, RunsStaySound

LEMMA InvStep == IInv /\ [MarketNext]_marketVars => IInv'
<1> SUFFICES ASSUME IInv, [MarketNext]_marketVars PROVE IInv'
  OBVIOUS
<1>1. /\ today \in Days /\ today \in Nat /\ revision \in Nat /\ quoted \in [Symbols \cup {Index} -> Nat]
      /\ listed \subseteq Equities /\ approved \subseteq Equities /\ LastDay \in Nat
  BY CalendarAssumption DEF IInv, TypeInv, Days
<1>2. CASE NextDay
  <2>1. today' \in Days
    BY <1>1, <1>2 DEF NextDay, Days
  <2> QED
    BY <1>1, <1>2, <2>1, OutsideStep DEF NextDay
<1>3. CASE CloseSession
  BY <1>1, <1>3, OutsideStep DEF CloseSession
<1>4. CASE Adjust
  BY <1>1, <1>4, OutsideStep DEF Adjust
<1>5. ASSUME NEW s \in Equities, Remove(s) PROVE IInv'
  BY <1>1, <1>5, OutsideStep DEF Remove
<1>6. CASE UNCHANGED marketVars
  BY <1>1, <1>6, OutsideStep DEF marketVars, world
<1>7. ASSUME NEW j \in Jobs, Runner(j) PROVE IInv'
  BY <1>7, StartedStep, ExecuteStep DEF Runner
<1>8. ASSUME NEW j \in Jobs, Ingest(j) PROVE IInv'
  <2>1. FailSymbol(j) => IInv'
    BY FailedStep DEF FailSymbol, PricesStay, world, rows, IInv, TypeInv
  <2> QED
    BY <1>8, <2>1, StartedStep, FetchStep, StoreStep, FinishIngestStep, PlanFetchStep, FinishPipelineStep
       DEF Ingest
<1>9. ASSUME NEW j \in Jobs, Bootstrap(j) PROVE IInv'
  BY <1>9, StartedStep, BootstrapStep DEF Bootstrap
<1>10. ASSUME NEW j \in Jobs, Die(j) PROVE IInv'
  <2>1. Set(j, NoJob) /\ PricesStay /\ runs' = runs
    BY <1>10 DEF Die, PricesStay, world, rows, IInv, TypeInv
  <2> QED
    BY <2>1, RunsUnchanged, EndJobStep DEF PricesStay
<1> QED
  BY <1>2, <1>3, <1>4, <1>5, <1>6, <1>7, <1>8, <1>9, <1>10 DEF MarketNext

LEMMA InvHolds == MarketSpec => []IInv
BY InvInit, InvStep, PTL DEF MarketSpec
-----------------------------------------------------------------------------
(* Whatever jobs overlap, fail or die between the read of a watermark and the
   commit of its symbol, the indicators stored by _ingest_one are those of the
   prices stored beside them. *)
THEOREM IndicatorsStayCurrent == MarketSpec => []IndicatorsMatchPrices
BY InvHolds, PTL DEF IInv

(* plan_price_fetch never leaves a hole in the series of a symbol. *)
THEOREM SeriesStayWhole == MarketSpec => []SeriesHaveNoGaps
<1>1. IInv => SeriesHaveNoGaps
  BY DEF IInv, BeginsWhole, SeriesHaveNoGaps, Stored
<1> QED
  BY <1>1, InvHolds, PTL

(* A completed run of the market step, and a finished bootstrap, vouch for data
   that are stored. *)
THEOREM CompletionStaysCovered == MarketSpec => []CompletionIsCovered
<1>1. IInv => CompletionIsCovered
  <2> SUFFICES ASSUME IInv PROVE CompletionIsCovered
    OBVIOUS
  <2>1. ASSUME NEW d \in Days, runs[d].status = "completed"
        PROVE  Macros \subseteq runs[d].requested /\ \A s \in runs[d].requested : Latest(s) >= d - MaxStale
    <3>1. Macros \subseteq runs[d].requested /\ \A s \in runs[d].requested : Reaches(s, d)
      BY <2>1 DEF IInv, RunIsSound
    <3>2. ASSUME NEW s \in runs[d].requested PROVE Latest(s) >= d - MaxStale
      <4>1. PICK e \in Sessions : bars[s][e] # NoBar /\ e >= d - MaxStale
        BY <3>1 DEF Reaches
      <4>2. e <= Latest(s) /\ Latest(s) \in Nat /\ e \in Nat /\ d \in Nat /\ MaxStale \in Nat
        BY <4>1, LatestIs, SessionsAreFinite, WindowsAssumption, CalendarAssumption DEF IInv, Days
      <4> QED
        BY <4>1, <4>2
    <3> QED
      BY <3>1, <3>2
  <2>2. ASSUME NEW j \in Jobs PROVE job[j].ok = HasPrices(job[j].ok)
    <3>1. \A s \in job[j].ok : Reaches(s, job[j].target)
      BY DEF IInv, JobIsSound, BatchIsSound
    <3> QED
      BY <3>1 DEF Reaches, HasPrices, Stored
  <2> QED
    BY <2>1, <2>2 DEF CompletionIsCovered
<1> QED
  BY <1>1, InvHolds, PTL
================================================================================
