---------------------------- MODULE EODControlPlane ----------------------------
(***************************************************************************)
(* The durable control plane of the end-of-day pipeline                    *)
(* (backend/app/scheduler/control_plane.py): one logical run, that is one  *)
(* (pipeline_name, target_trading_date) pair, executed by one-shot runner  *)
(* processes that compete for a PostgreSQL session advisory lock.          *)
(*                                                                         *)
(* Every short session_factory.begin() transaction of the code is one      *)
(* action.  What a process keeps in memory between two transactions (its   *)
(* program counter, the ORM snapshot of run.steps, the result of the       *)
(* handler) is a variable of its own, so a decision may be taken on a      *)
(* snapshot that the database has left behind.                             *)
(*                                                                         *)
(* The operators named Bug... are the plausible mistakes that each         *)
(* property is shown to catch; nothing in the specification uses them.     *)
(***************************************************************************)
EXTENDS Naturals

CONSTANTS
  Workers,        \* runner processes (GitHub Actions attempts, operators)
  NoWorker,       \* the advisory lock is free
  StepCount,      \* length of PIPELINE_STEP_ORDER
  StaleAfter,     \* PIPELINE_STALE_AFTER_SECONDS, in clock ticks
  MaxCrashes,     \* bound: processes that die inside an attempt
  MaxFailures,    \* bound: step handlers that raise
  MaxLockLosses   \* bound: lock connections that drop under a live process

ASSUME NoWorkerAssumption   == NoWorker \notin Workers
ASSUME StepCountAssumption  == StepCount \in Nat \ {0}
ASSUME StaleAfterAssumption == StaleAfter \in Nat
ASSUME BoundsAssumption     == {MaxCrashes, MaxFailures, MaxLockLosses} \subseteq Nat

VARIABLES
  run,         \* the pipeline_runs row, or NoRun
  step,        \* the pipeline_run_steps rows, by sequence
  age,         \* clock ticks since run.heartbeat_at, saturating past StaleAfter
  work,        \* steps whose domain service has committed its data
  lock,        \* the session that holds the advisory lock
  pc,          \* where each process is in execute()
  at,          \* the position of each process in PIPELINE_STEP_ORDER
  seen,        \* each process's in-memory copy of the step statuses
  outcome,     \* what the handler returned or raised
  result,      \* the PipelineExecutionResult an attempt is about to return
  crashes, failures, lockLosses   \* how much of each bound is spent

durable == <<run, step, age>>
local   == <<at, seen, outcome>>
budgets == <<crashes, failures, lockLosses>>
vars    == <<run, step, age, work, lock, pc, at, seen, outcome, result,
             crashes, failures, lockLosses>>

Steps == 1..StepCount

PipelineRunStatus  == {"pending", "running", "partial", "completed", "failed"}
PipelineStepStatus == {"pending", "running", "completed", "failed", "skipped"}
Checkpointed       == {"completed", "skipped"}   \* never executed again on resume

Program  == {"idle", "resume", "begin", "steps", "handler", "handled", "release"}
Outcomes == {"none", "ok", "skipped", "raised"}
Results  == {"none", "running", "completed", "incomplete"}

NoRun     == [status |-> "absent", attempts |-> 0, error |-> FALSE]
FreshStep == [status |-> "pending", attempts |-> 0, error |-> FALSE]

RunRow  == [status : PipelineRunStatus \cup {"absent"}, attempts : Nat, error : BOOLEAN]
StepRow == [status : PipelineStepStatus, attempts : Nat, error : BOOLEAN]

(* A row, of either table, entering and leaving an execution. *)
Started(row) == [status |-> "running", attempts |-> row.attempts + 1, error |-> FALSE]
Ended(row, status, error) == [status |-> status, attempts |-> row.attempts, error |-> error]

StatusOf(rows) == [k \in Steps |-> rows[k].status]
Unseen         == [k \in Steps |-> "pending"]

Init ==
  /\ run = NoRun
  /\ step = [k \in Steps |-> FreshStep]
  /\ age = 0
  /\ work = {}
  /\ lock = NoWorker
  /\ pc = [w \in Workers |-> "idle"]
  /\ at = [w \in Workers |-> 1]
  /\ seen = [w \in Workers |-> Unseen]
  /\ outcome = [w \in Workers |-> "none"]
  /\ result = [w \in Workers |-> "none"]
  /\ crashes = 0 /\ failures = 0 /\ lockLosses = 0

Goto(w, from, to) == pc[w] = from /\ pc' = [pc EXCEPT ![w] = to]

(* pg_try_advisory_lock never waits: a process that does not get the lock
   returns acquired = False without touching the run. *)
AcquireLock(w) ==
  /\ lock = NoWorker
  /\ Goto(w, "idle", "resume")
  /\ lock' = w
  /\ UNCHANGED <<durable, work, local, result, budgets>>

SkipDuplicate(w) ==
  /\ lock # NoWorker
  /\ pc[w] = "idle"
  /\ UNCHANGED vars

-----------------------------------------------------------------------------
(* _start_or_resume: one transaction, five ways out. *)

CreateRun(w) ==
  /\ run.status = "absent"
  /\ Goto(w, "resume", "begin")
  /\ run' = [status |-> "pending", attempts |-> 0, error |-> FALSE]
  /\ step' = [k \in Steps |-> FreshStep]
  /\ age' = 0
  /\ UNCHANGED <<work, lock, local, result, budgets>>

Stale == run.status = "running" /\ age > StaleAfter

BugUnfinished(rows) ==     \* the step enumeration written into the run row
  IF \E k \in Steps : rows[k].status = "completed" THEN "skipped" ELSE "failed"

(* The status an interrupted run gets: SKIPPED steps do not count. *)
Unfinished(rows) ==
  IF \E k \in Steps : rows[k].status = "completed" THEN "partial" ELSE "failed"

RecoverStale(w) ==
  /\ Stale
  /\ Goto(w, "resume", "begin")
  /\ step' = [k \in Steps |->
                IF step[k].status = "running" THEN Ended(step[k], "failed", TRUE) ELSE step[k]]
  /\ run' = Ended(run, Unfinished(step'), TRUE)
  /\ age' = 0
  /\ UNCHANGED <<work, lock, local, result, budgets>>

BugResumable == {"pending", "running", "partial", "failed"}   \* ignores the heartbeat
Resumable    == {"pending", "partial", "failed"}

BugResumeRun(w) ==         \* resumes without counting the attempt
  /\ run.status \in Resumable
  /\ Goto(w, "resume", "steps")
  /\ run' = [run EXCEPT !.status = "running"]
  /\ seen' = [seen EXCEPT ![w] = StatusOf(step)]
  /\ UNCHANGED <<step, age, work, lock, at, outcome, result, budgets>>

ResumeRun(w) ==
  /\ run.status \in Resumable
  /\ Goto(w, "resume", "begin")
  /\ UNCHANGED <<durable, work, lock, local, result, budgets>>

BugLeaveAlone(w) ==        \* a look at the run refreshes its heartbeat
  /\ run.status \in {"running", "completed"} /\ ~Stale
  /\ Goto(w, "resume", "release")
  /\ age' = 0
  /\ result' = [result EXCEPT ![w] = run.status]
  /\ UNCHANGED <<run, step, work, lock, local, budgets>>

LeaveAlone(w) ==
  /\ run.status \in {"running", "completed"} /\ ~Stale
  /\ Goto(w, "resume", "release")
  /\ result' = [result EXCEPT ![w] = run.status]
  /\ UNCHANGED <<durable, work, lock, local, budgets>>

StartOrResume(w) ==
  CreateRun(w) \/ RecoverStale(w) \/ ResumeRun(w) \/ LeaveAlone(w)

-----------------------------------------------------------------------------
(* The attempt itself. *)

MarkRunStarted(w) ==
  /\ Goto(w, "begin", "steps")
  /\ run' = Started(run)
  /\ age' = 0
  /\ seen' = [seen EXCEPT ![w] = StatusOf(step)]
  /\ at' = [at EXCEPT ![w] = 1]
  /\ UNCHANGED <<step, work, lock, outcome, result, budgets>>

BugUpcomingAfterFailure(w) ==    \* a failed step is passed over on resume
  {k \in Steps : k >= at[w] /\ seen[w][k] \notin Checkpointed \cup {"failed"}}
BugUpcomingSkipped(w) ==         \* an intentionally skipped step is executed again
  {k \in Steps : k >= at[w] /\ seen[w][k] # "completed"}

(* The steps the loop still has to execute, judged on the process's own copy. *)
Upcoming(w) == {k \in Steps : k >= at[w] /\ seen[w][k] \notin Checkpointed}

MarkStepStarted(w) ==
  /\ Goto(w, "steps", "handler")
  /\ \E k \in Upcoming(w) :
       /\ \A j \in Upcoming(w) : k <= j
       /\ at' = [at EXCEPT ![w] = k]
       /\ step' = [step EXCEPT ![k] = Started(@)]
  /\ age' = 0
  /\ UNCHANGED <<run, work, lock, seen, outcome, result, budgets>>

(* _run_with_heartbeat: the timeout branch of asyncio.wait. *)
Heartbeat(w) ==
  /\ pc[w] = "handler"
  /\ age' = 0
  /\ UNCHANGED <<run, step, work, lock, pc, local, result, budgets>>

(* The handler commits its domain data in its own sessions before it returns. *)
HandlerSucceeds(w) ==
  /\ Goto(w, "handler", "handled")
  /\ work' = work \cup {at[w]}
  /\ outcome' = [outcome EXCEPT ![w] = "ok"]
  /\ UNCHANGED <<durable, lock, at, seen, result, budgets>>

HandlerSkips(w) ==
  /\ Goto(w, "handler", "handled")
  /\ outcome' = [outcome EXCEPT ![w] = "skipped"]
  /\ UNCHANGED <<durable, work, lock, at, seen, result, budgets>>

(* The handler raises, or a failing heartbeat write cancels it: its data may be
   committed already. *)
HandlerRaises(w) ==
  /\ failures < MaxFailures
  /\ Goto(w, "handler", "handled")
  /\ work' \in {work, work \cup {at[w]}}
  /\ outcome' = [outcome EXCEPT ![w] = "raised"]
  /\ failures' = failures + 1
  /\ UNCHANGED <<durable, lock, at, seen, result, crashes, lockLosses>>

(* _mark_step_completed and _mark_step_skipped: the transaction writes the step
   and hands the process a fresh copy of run.steps. *)
Checkpoint(w, how, status) ==
  /\ outcome[w] = how
  /\ Goto(w, "handled", "steps")
  /\ step' = [step EXCEPT ![at[w]] = Ended(@, status, FALSE)]
  /\ seen' = [seen EXCEPT ![w] = StatusOf(step')]
  /\ at' = [at EXCEPT ![w] = @ + 1]
  /\ outcome' = [outcome EXCEPT ![w] = "none"]
  /\ age' = 0
  /\ UNCHANGED <<run, work, lock, result, budgets>>

BugMarkStepCompleted(w) == \E how \in {"ok", "raised"} : Checkpoint(w, how, "completed")
MarkStepCompleted(w)    == Checkpoint(w, "ok", "completed")

BugMarkStepSkipped(w) == Checkpoint(w, "skipped", "pending")
MarkStepSkipped(w)    == Checkpoint(w, "skipped", "skipped")

MarkStepFailed(w) ==
  /\ outcome[w] = "raised"
  /\ Goto(w, "handled", "release")
  /\ step' = [step EXCEPT ![at[w]] = Ended(@, "failed", TRUE)]
  /\ run' = Ended(run, Unfinished(step'), TRUE)
  /\ age' = 0
  /\ outcome' = [outcome EXCEPT ![w] = "none"]
  /\ result' = [result EXCEPT ![w] = "incomplete"]
  /\ UNCHANGED <<work, lock, at, seen, budgets>>

MarkRunCompleted(w) ==
  /\ Upcoming(w) = {}
  /\ Goto(w, "steps", "release")
  /\ run' = Ended(run, "completed", FALSE)
  /\ age' = 0
  /\ result' = [result EXCEPT ![w] = "completed"]
  /\ UNCHANGED <<step, work, lock, local, budgets>>

BugRelease(w) ==           \* waits for the lost connection to come back
  /\ lock = w
  /\ Goto(w, "release", "idle")
  /\ lock' = NoWorker
  /\ at' = [at EXCEPT ![w] = 1]
  /\ seen' = [seen EXCEPT ![w] = Unseen]
  /\ result' = [result EXCEPT ![w] = "none"]
  /\ UNCHANGED <<durable, work, outcome, budgets>>

(* pg_advisory_unlock on the pinned connection.  On a dead connection the
   statement raises, and the attempt ends in the caller's exception handler. *)
Release(w) ==
  /\ Goto(w, "release", "idle")
  /\ lock' = IF lock = w THEN NoWorker ELSE lock
  /\ result' = [result EXCEPT ![w] = "none"]
  /\ at' = [at EXCEPT ![w] = 1]
  /\ seen' = [seen EXCEPT ![w] = Unseen]
  /\ UNCHANGED <<durable, work, outcome, budgets>>

-----------------------------------------------------------------------------
(* The environment. *)

(* The process is killed, or a control-plane transaction raises out of
   execute(): nothing more is written, and the lock goes with the session. *)
Crash(w) ==
  /\ crashes < MaxCrashes
  /\ pc[w] # "idle"
  /\ pc' = [pc EXCEPT ![w] = "idle"]
  /\ lock' = IF lock = w THEN NoWorker ELSE lock
  /\ at' = [at EXCEPT ![w] = 1]
  /\ seen' = [seen EXCEPT ![w] = Unseen]
  /\ outcome' = [outcome EXCEPT ![w] = "none"]
  /\ result' = [result EXCEPT ![w] = "none"]
  /\ crashes' = crashes + 1
  /\ UNCHANGED <<durable, work, failures, lockLosses>>

(* The server ends the idle lock session while the process goes on. *)
LoseLock(w) ==
  /\ lockLosses < MaxLockLosses
  /\ lock = w
  /\ lock' = NoWorker
  /\ lockLosses' = lockLosses + 1
  /\ UNCHANGED <<durable, work, pc, local, result, crashes, failures>>

Tick ==
  /\ age <= StaleAfter
  /\ age' = age + 1
  /\ UNCHANGED <<run, step, work, lock, pc, local, result, budgets>>

-----------------------------------------------------------------------------
(* What a live process does once it holds the lock, heartbeats aside. *)
Advance(w) ==
  \/ StartOrResume(w) \/ MarkRunStarted(w) \/ MarkStepStarted(w)
  \/ HandlerSucceeds(w) \/ HandlerSkips(w) \/ HandlerRaises(w)
  \/ MarkStepCompleted(w) \/ MarkStepSkipped(w) \/ MarkStepFailed(w)
  \/ MarkRunCompleted(w) \/ Release(w)

Next ==
  \/ Tick
  \/ \E w \in Workers :
       \/ AcquireLock(w) \/ SkipDuplicate(w) \/ Advance(w) \/ Heartbeat(w)
       \/ Crash(w) \/ LoseLock(w)

Spec == Init /\ [][Next]_vars

(* Fairness: time passes, a live process runs its event loop, and attempts keep
   being made (.github/workflows/eod.yml schedules them, operators dispatch
   them).  Nothing is assumed of crashes, failures or lost connections. *)
Fairness ==
  /\ WF_vars(Tick)
  /\ \A w \in Workers : WF_vars(Advance(w)) /\ WF_vars(AcquireLock(w))

FairSpec == Spec /\ Fairness

-----------------------------------------------------------------------------
(* Properties. *)

(* Every row and every local has a value the code can give it. *)
TypeOK ==
  /\ run \in RunRow
  /\ step \in [Steps -> StepRow]
  /\ age \in 0..(StaleAfter + 1)
  /\ work \subseteq Steps
  /\ lock \in Workers \cup {NoWorker}
  /\ pc \in [Workers -> Program]
  /\ at \in [Workers -> 1..(StepCount + 1)]
  /\ seen \in [Workers -> [Steps -> PipelineStepStatus]]
  /\ outcome \in [Workers -> Outcomes]
  /\ result \in [Workers -> Results]
  /\ crashes \in Nat /\ failures \in Nat /\ lockLosses \in Nat

(* No lock connection has dropped yet: what the lock promises can be relied on. *)
Fenced == lockLosses = 0

(* While the lock is reliable, at most one step is under way, it is under way
   only in a running run, and it comes after a full prefix of checkpoints: no
   step has been touched before everything upstream of it is checkpointed
   ("The first failure stops the attempt, so downstream steps stay pending"). *)
DependencyOrder ==
  Fenced =>
    \A k \in Steps :
      /\ step[k].status # "pending" => \A j \in 1..(k - 1) : step[j].status \in Checkpointed
      /\ step[k].status = "running" => run.status = "running"

(* A checkpoint never runs ahead of the data: a completed step's domain data is
   committed, whatever crashed and whoever holds the lock. *)
CheckpointHasData ==
  \A k \in Steps : step[k].status = "completed" => k \in work

(* A completed run has every step checkpointed, nothing left in an error state
   and nobody still executing it, so later attempts can be no-ops. *)
CompletedIsWhole ==
  Fenced /\ run.status = "completed" =>
    /\ \A k \in Steps : step[k].status \in Checkpointed /\ ~step[k].error
    /\ ~run.error
    /\ \A w \in Workers : pc[w] \notin {"begin", "steps", "handler", "handled"}

(* No step is attempted more often than the run: an attempt executes each step
   at most once, whatever crashes and stale recoveries lie between attempts. *)
AttemptsAccounted ==
  Fenced => \A k \in Steps : step[k].attempts <= run.attempts

(* What a look at the rows of a run relies on, at any moment between two crashes,
   retries and recoveries: order, data behind the checkpoints, wholeness of what
   is called complete, and honest attempt counts. *)
RunIsOrderly ==
  /\ DependencyOrder
  /\ CheckpointHasData
  /\ CompletedIsWhole
  /\ AttemptsAccounted

(* Resuming never redoes or loses finished work: once checkpointed, a step row
   never changes again, and a completed run row is final. *)
CheckpointsAreFinal ==
  [][Fenced' =>
       /\ \A k \in Steps : step[k].status \in Checkpointed => step'[k] = step[k]
       /\ run.status = "completed" => run' = run]_vars

(* "A recent heartbeat is not stolen": no process begins an attempt on a run
   that is running and not stale. *)
RecentHeartbeatNotStolen ==
  [][\A w \in Workers : MarkRunStarted(w) => run.status # "running" \/ Stale]_vars

(* The same promise, claimed only while the lock is reliable. *)
FencedHeartbeatNotStolen ==
  [][Fenced => \A w \in Workers :
       pc[w] = "begin" /\ pc'[w] = "steps" => run.status \in {"pending", "partial", "failed"}]_vars

(* The run as docs/eod-control-plane.md promises it, without attempts, locks or
   processes: opened once, checkpointed in dependency order, then completed. *)
Phase ==
  CASE run.status = "absent"    -> "none"
    [] run.status = "completed" -> "complete"
    [] OTHER                    -> "open"

Done == {k \in Steps : step[k].status \in Checkpointed}

Pipeline == INSTANCE CheckpointedPipeline WITH phase <- Phase, done <- Done

PipelineSpec == Pipeline!Spec

(* A run that died with its process is not stuck: if attempts keep being made,
   the logical run completes, whatever finite number of crashes, handler
   failures and lost locks came before. *)
EventuallyCompleted == <>(run.status = "completed")

(* Every attempt that got the lock ends and gives it up. *)
AttemptsTerminate == \A w \in Workers : pc[w] # "idle" ~> pc[w] = "idle"

=============================================================================
