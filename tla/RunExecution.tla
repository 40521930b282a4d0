---------------------------- MODULE RunExecution ----------------------------
(***************************************************************************)
(* The processes that execute paper runs: Taskiq workers draining eligible *)
(* runs (execute_run, RunLifecycleCoordinator) and the recovery process    *)
(* (RunRecovery), over the transactions of RunStore.                       *)
(*                                                                         *)
(* A worker has a control point pc[w], the run it selected and the outcome *)
(* it will record.  Inside an execution the monitor task has its own point *)
(* mon[w], and the bot task is tracked by its run in "bots", because a bot *)
(* that outlives its cleanup timeout goes on running beside the worker.    *)
(***************************************************************************)
EXTENDS RunStore

CONSTANTS
  NoRun,        \* no run selected
  Corrupt,      \* runs whose stored snapshot no longer validates
  MaxFailures   \* bound on crashes, shutdowns and recovery timeouts

ASSUME ExecutionAssumption ==
  /\ NoRun \notin Run
  /\ Corrupt \subseteq Run
  /\ MaxFailures \in Nat

VARIABLES
  pc,         \* control point of each worker
  picked,     \* the run each worker selected or executes
  outcome,    \* terminal_status the worker is heading for
  mon,        \* the monitor task: "none" before it exists, "done" after
  bots,       \* runs with a live bot task
  scan,       \* recovery: expired candidates not yet rechecked
  scanAge,    \* recovery: ticks since expired_before was computed
  failures    \* crashes, shutdowns and recovery timeouts so far

workerVars == <<pc, picked, outcome, mon>>
recoveryVars == <<scan, scanAge>>
vars == <<storeVars, pc, picked, outcome, mon, bots, scan, scanAge, failures>>

Outcomes == {"stopped", "failed", "interrupted"}

Points == {"idle", "select", "claim", "fail_queued", "claimed", "refused",
           "executing", "cleanup", "begin_stopping", "drain", "finish"}

\* Where a worker holds a claimed run.
Holding == Points \ {"idle", "select", "claim", "fail_queued"}

MonitorPoints == {"none", "sleep", "beat", "stop", "done", "cancelled"}

TypeOK ==
  /\ StoreTypeOK
  /\ pc \in [Worker -> Points]
  /\ picked \in [Worker -> Run \cup {NoRun}]
  /\ outcome \in [Worker -> Outcomes]
  /\ mon \in [Worker -> MonitorPoints]
  /\ bots \subseteq Run
  /\ scan \subseteq Run
  /\ scanAge \in 0..LockWait
  /\ failures \in 0..MaxFailures

Init ==
  /\ StoreInit
  /\ pc = [w \in Worker |-> "idle"]
  /\ picked = [w \in Worker |-> NoRun]
  /\ outcome = [w \in Worker |-> "stopped"]
  /\ mon = [w \in Worker |-> "none"]
  /\ bots = {}
  /\ scan = {}
  /\ scanAge = 0
  /\ failures = 0

Goto(w, point) == pc' = [pc EXCEPT ![w] = point]
SetMonitor(w, point) == mon' = [mon EXCEPT ![w] = point]
HeadFor(w, s) == outcome' = [outcome EXCEPT ![w] = s]

\* The coordinator is gone: its run, outcome and monitor are forgotten.
Release(w, point) ==
  /\ Goto(w, point)
  /\ picked' = [picked EXCEPT ![w] = NoRun]
  /\ outcome' = [outcome EXCEPT ![w] = "stopped"]
  /\ SetMonitor(w, "none")

-----------------------------------------------------------------------------
(* execute_run: drain eligible runs; the delivered run id is only a hint *)

ReceiveHint(w) ==
  /\ pc[w] = "idle"
  /\ Goto(w, "select")
  /\ UNCHANGED <<storeVars, picked, outcome, mon, bots, recoveryVars, failures>>

SelectEligible(w) ==
  /\ pc[w] = "select"
  /\ \/ \E r \in Run : /\ IsNextEligible(r)
                       /\ picked' = [picked EXCEPT ![w] = r]
                       /\ Goto(w, "claim")
     \/ /\ \A r \in Run : ~IsNextEligible(r)
        /\ Goto(w, "idle")
        /\ UNCHANGED picked
  /\ UNCHANGED <<storeVars, outcome, mon, bots, recoveryVars, failures>>

\* claim evaluates eligibility again: the selection may be stale by now
ClaimPicked(w) ==
  /\ pc[w] = "claim"
  /\ \/ /\ picked[w] \notin Corrupt
        /\ \E lag \in 0..LockWait : Claim(w, picked[w], lag)
        /\ Goto(w, "claimed")
        /\ UNCHANGED <<picked, outcome, mon>>
     \/ /\ picked[w] \in Corrupt
        /\ IsNextEligible(picked[w])
        /\ Goto(w, "fail_queued")
        /\ UNCHANGED <<storeVars, picked, outcome, mon>>
     \/ /\ ~IsNextEligible(picked[w])
        /\ Release(w, "select")
        /\ UNCHANGED storeVars
  /\ UNCHANGED <<bots, recoveryVars, failures>>

\* Mutant: the invalid snapshot's claim rolls back and nothing fails the row.
FailCorrupt_LeavesRow(w) ==
  /\ pc[w] = "fail_queued"
  /\ Release(w, "select")
  /\ UNCHANGED <<storeVars, bots, recoveryVars, failures>>

\* the claim of an invalid snapshot rolled back; fail the row if still queued
FailCorrupt(w) ==
  /\ pc[w] = "fail_queued"
  /\ \/ FailQueued(picked[w])
     \/ status[picked[w]] # "queued" /\ UNCHANGED storeVars
  /\ Release(w, "select")
  /\ UNCHANGED <<bots, recoveryVars, failures>>

-----------------------------------------------------------------------------
(* RunLifecycleCoordinator.execute after a successful claim *)

StartRunning(w) ==
  LET r == picked[w] IN
  /\ pc[w] = "claimed"
  /\ \/ /\ MarkRunning(w, r)
        /\ Goto(w, "executing")
        /\ SetMonitor(w, "sleep")
        /\ bots' = bots \cup {r}
     \/ \* the run's duration was spent before it started
        /\ MarkRunning(w, r)
        /\ Goto(w, "begin_stopping")
        /\ UNCHANGED <<mon, bots>>
     \/ /\ ~(Owns(w, r) /\ status[r] = "starting")
        /\ Goto(w, "refused")
        /\ UNCHANGED <<storeVars, mon, bots>>
  /\ UNCHANGED <<picked, outcome, recoveryVars, failures>>

\* a stop won after the claim: complete it without constructing the bot
ReadRefusal(w) ==
  /\ pc[w] = "refused"
  /\ \/ /\ status[picked[w]] = "stop_requested"
        /\ Goto(w, "begin_stopping")
        /\ UNCHANGED <<picked, outcome, mon>>
     \/ /\ status[picked[w]] # "stop_requested"
        /\ Release(w, "select")
  /\ UNCHANGED <<storeVars, bots, recoveryVars, failures>>

\* the monitor task reads the status, then writes in a later statement
PollStatus(w) ==
  /\ pc[w] \in {"executing", "cleanup"}
  /\ mon[w] = "sleep"
  /\ SetMonitor(w, IF status[picked[w]] = "stop_requested" THEN "stop" ELSE "beat")
  /\ UNCHANGED <<storeVars, pc, picked, outcome, bots, recoveryVars, failures>>

\* a refused heartbeat ends the execution, unless it is already being cleaned up
PollHeartbeat(w) ==
  LET r == picked[w] IN
  /\ pc[w] \in {"executing", "cleanup"}
  /\ mon[w] = "beat"
  /\ \/ /\ \E lag \in 0..LockWait : Heartbeat(w, r, lag)
        /\ SetMonitor(w, "sleep")
        /\ UNCHANGED <<pc, outcome>>
     \/ /\ ~Owns(w, r)
        /\ SetMonitor(w, "done")
        /\ Goto(w, "cleanup")
        /\ IF pc[w] = "executing" THEN HeadFor(w, "interrupted") ELSE UNCHANGED outcome
        /\ UNCHANGED storeVars
  /\ UNCHANGED <<picked, bots, recoveryVars, failures>>

\* begin_stopping refused: the monitor returns and the run ends as a failure
PollStop(w) ==
  LET r == picked[w] IN
  /\ pc[w] \in {"executing", "cleanup"}
  /\ mon[w] = "stop"
  /\ \/ /\ BeginStopping(w, r)
        /\ IF pc[w] = "executing" THEN HeadFor(w, "stopped") ELSE UNCHANGED outcome
     \/ /\ ~(Owns(w, r) /\ status[r] \in PreviousStatuses("stopping"))
        /\ IF pc[w] = "executing" THEN HeadFor(w, "failed") ELSE UNCHANGED outcome
        /\ UNCHANGED storeVars
  /\ SetMonitor(w, "done")
  /\ Goto(w, "cleanup")
  /\ UNCHANGED <<picked, bots, recoveryVars, failures>>

\* the duration timeout begins stopping and ignores whether it applied
DurationExpires(w) ==
  LET r == picked[w] IN
  /\ pc[w] = "executing"
  /\ \/ BeginStopping(w, r)
     \/ /\ ~(Owns(w, r) /\ status[r] \in PreviousStatuses("stopping"))
        /\ UNCHANGED storeVars
  /\ HeadFor(w, "stopped")
  /\ Goto(w, "cleanup")
  /\ UNCHANGED <<picked, mon, bots, recoveryVars, failures>>

\* the bot returns, raises, or loses the fence of a fill
BotEnds(w) ==
  /\ pc[w] = "executing"
  /\ picked[w] \in bots \ filling
  /\ bots' = bots \ {picked[w]}
  /\ \E s \in Outcomes : HeadFor(w, s)
  /\ Goto(w, "cleanup")
  /\ UNCHANGED <<storeVars, picked, mon, recoveryVars, failures>>

-----------------------------------------------------------------------------
(* The way out: bounded cleanup, begin_stopping, observer drain, finish *)

\* _shutdown_runtime_tasks: a task still pending at the timeout is abandoned
CleanupTasks(w) ==
  LET r == picked[w] IN
  /\ pc[w] = "cleanup"
  /\ \/ /\ r \notin filling
        /\ bots' = bots \ {r}
        /\ \/ UNCHANGED outcome
           \/ /\ r \in bots
              /\ outcome[w] = "stopped"
              /\ \E s \in {"failed", "interrupted"} : HeadFor(w, s)
     \/ /\ r \in bots
        /\ HeadFor(w, IF outcome[w] = "failed" THEN "failed" ELSE "interrupted")
        /\ UNCHANGED bots
  /\ Goto(w, IF outcome'[w] = "stopped" THEN "begin_stopping" ELSE "drain")
  /\ SetMonitor(w, IF mon[w] = "cancelled" THEN "cancelled" ELSE "done")
  /\ UNCHANGED <<storeVars, picked, recoveryVars, failures>>

BeginRunStop(w) ==
  LET r == picked[w] IN
  /\ pc[w] = "begin_stopping"
  /\ \/ BeginStopping(w, r)
     \/ /\ ~(Owns(w, r) /\ status[r] \in PreviousStatuses("stopping"))
        /\ UNCHANGED storeVars
  /\ Goto(w, "drain")
  /\ UNCHANGED <<picked, outcome, mon, bots, recoveryVars, failures>>

DrainObserver(w) ==
  /\ pc[w] = "drain"
  /\ Goto(w, "finish")
  /\ UNCHANGED <<storeVars, picked, outcome, mon, bots, recoveryVars, failures>>

\* finish is silent when the lease was lost: recovery then ends the run
FinishRun(w) ==
  LET r == picked[w] IN
  /\ pc[w] = "finish"
  /\ \/ Finish(w, r, outcome[w])
     \/ /\ ~(Owns(w, r) /\ status[r] \in FinishFrom(outcome[w]))
        /\ UNCHANGED storeVars
  /\ Release(w, IF mon[w] = "cancelled" THEN "idle" ELSE "select")
  /\ UNCHANGED <<bots, recoveryVars, failures>>

-----------------------------------------------------------------------------
(* The bot and its observer *)

BotFill(w, r) ==
  /\ r \in bots
  /\ EnterFill(w, r)
  /\ UNCHANGED <<workerVars, bots, recoveryVars, failures>>

FillDone(r) ==
  /\ LeaveFill(r)
  /\ UNCHANGED <<workerVars, bots, recoveryVars, failures>>

\* a bot abandoned by its coordinator ends on its own, or with its process
StrayBotEnds(r) ==
  /\ r \in bots \ filling
  /\ \A w \in Worker : picked[w] = r => pc[w] \notin {"executing", "cleanup"}
  /\ bots' = bots \ {r}
  /\ UNCHANGED <<storeVars, workerVars, recoveryVars, failures>>

PublishEvent(w) ==
  /\ pc[w] \in {"executing", "cleanup", "begin_stopping", "drain"}
  /\ mon[w] # "none"
  /\ AppendEvent(w, picked[w])
  /\ UNCHANGED <<workerVars, bots, recoveryVars, failures>>

-----------------------------------------------------------------------------
(* Failures of worker and recovery processes *)

\* process shutdown cancels the delivery: the run is recorded as interrupted
Shutdown(w) ==
  /\ failures < MaxFailures
  /\ failures' = failures + 1
  /\ pc[w] \in {"claimed", "executing", "cleanup"}
  /\ Goto(w, IF pc[w] = "executing" THEN "cleanup" ELSE "drain")
  /\ HeadFor(w, "interrupted")
  /\ SetMonitor(w, "cancelled")
  /\ UNCHANGED <<storeVars, picked, bots, recoveryVars>>

\* a database error or a dependency timeout, in the monitor or in the coordinator
DependencyFails(w) ==
  /\ failures < MaxFailures
  /\ failures' = failures + 1
  /\ pc[w] \in {"claimed", "executing"}
  /\ Goto(w, IF pc[w] = "executing" THEN "cleanup" ELSE "drain")
  /\ HeadFor(w, "interrupted")
  /\ \/ UNCHANGED mon
     \/ pc[w] = "executing" /\ SetMonitor(w, "done")
  /\ UNCHANGED <<storeVars, picked, bots, recoveryVars>>

\* a crash, or an error that escapes the coordinator: open transactions roll back
Crash(w) ==
  /\ failures < MaxFailures
  /\ failures' = failures + 1
  /\ pc[w] # "idle"
  /\ Release(w, "idle")
  /\ bots' = bots \ {picked[w]}
  /\ filling' = filling \ {picked[w]}
  /\ UNCHANGED <<rowVars, gateVars, recoveryVars>>

-----------------------------------------------------------------------------
(* RecoveryStore.interrupt_expired: scan, then recheck each candidate *)

RecoveryScan ==
  /\ scan = {}
  /\ scan' = {r \in Active : age[r] > LeaseTicks}
  /\ scanAge' = 0
  /\ UNCHANGED <<storeVars, workerVars, bots, failures>>

RecoverOne(r) ==
  /\ r \in scan
  /\ \/ InterruptExpired(r, scanAge)
     \/ /\ ~(r \in Active /\ age[r] > LeaseTicks + scanAge)
        /\ UNCHANGED storeVars
  /\ scan' = scan \ {r}
  /\ UNCHANGED <<scanAge, workerVars, bots, failures>>

\* the dependency timeout of a recovery tick abandons the rest of its scan
RecoveryTimesOut ==
  /\ failures < MaxFailures
  /\ failures' = failures + 1
  /\ scan # {}
  /\ scan' = {}
  /\ UNCHANGED <<storeVars, scanAge, workerVars, bots>>

\* a recovery tick lasts at most LockWait: it ends or times out
TimePasses ==
  /\ scan # {} => scanAge < LockWait
  /\ Tick
  /\ scanAge' = IF scan = {} THEN 0 ELSE scanAge + 1
  /\ UNCHANGED <<scan, workerVars, bots, failures>>

-----------------------------------------------------------------------------

ControlPlane ==
  /\ \/ \E r \in Run : Launch(r) \/ RequestStop(r) \/ OperatorStopRun(r)
     \/ \E u \in User : Suspend(u) \/ ResumeAccount(u)
     \/ StopAll
     \/ ResumeAdmissions
  /\ UNCHANGED <<workerVars, bots, recoveryVars, failures>>

WorkerStep(w) ==
  \/ ReceiveHint(w) \/ SelectEligible(w) \/ ClaimPicked(w) \/ FailCorrupt(w)
  \/ StartRunning(w) \/ ReadRefusal(w)
  \/ DurationExpires(w) \/ CleanupTasks(w) \/ BeginRunStop(w)
  \/ DrainObserver(w) \/ FinishRun(w)

MonitorStep(w) == PollStatus(w) \/ PollHeartbeat(w) \/ PollStop(w)

Next ==
  \/ \E w \in Worker : \/ WorkerStep(w) \/ MonitorStep(w) \/ BotEnds(w)
                       \/ PublishEvent(w) \/ Shutdown(w)
                       \/ DependencyFails(w) \/ Crash(w)
                       \/ \E r \in Run : BotFill(w, r)
  \/ \E r \in Run : FillDone(r) \/ StrayBotEnds(r) \/ RecoverOne(r)
  \/ RecoveryScan \/ RecoveryTimesOut
  \/ TimePasses
  \/ ControlPlane

Spec == Init /\ [][Next]_vars

(***************************************************************************)
(* Timers fire, processes are restarted and deliveries are retried, so the *)
(* steps below are taken if they stay possible; nobody owes a launch, a    *)
(* stop, a fill or a crash, and a bot need not end before its duration     *)
(* expires.  Steps that update a row may find it locked by a fill again    *)
(* and again: PostgreSQL queues them on the row lock, hence SF.            *)
(***************************************************************************)
Fairness ==
  /\ \A w \in Worker : SF_vars(WorkerStep(w)) /\ SF_vars(MonitorStep(w))
  /\ \A r \in Run : WF_vars(FillDone(r)) /\ SF_vars(RecoverOne(r))
  /\ WF_vars(RecoveryScan)
  /\ WF_vars(TimePasses)

FairSpec == Spec /\ Fairness

-----------------------------------------------------------------------------
(* Safety *)

\* However deliveries, retried hints and stale selections interleave, no two
\* coordinators ever hold the same run (execute_run, RunStore.claim).
OneExecutor ==
  \A v, w \in Worker :
    (pc[v] \in Holding /\ pc[w] \in Holding /\ picked[v] = picked[w]) => v = w

\* A run recorded as stopped has no bot left trading: a bot that outlived its
\* cleanup is recorded as an interruption (RunLifecycleCoordinator.execute).
StoppedMeansBotGone == \A r \in bots : status[r] # "stopped"

\* A run is executed by one coordinator, and has no bot once it is recorded as
\* stopped, whatever deliveries, stops, crashes and recoveries overlap.
ExecutionConsistent == TypeOK /\ OneExecutor /\ StoppedMeansBotGone

\* A worker claims an older queued run of an account that may run before a newer
\* one, even when its selection was made before the queue changed.
OldestEligibleFirst ==
  [][\A r, q \in Run :
       (/\ status[r] = "queued" /\ status'[r] = "starting"
        /\ status[q] = "queued" /\ createdAt[q] < createdAt[r])
       => \/ Owner[q] \notin access
          \/ Cardinality(Active \cap OwnedBy(Owner[q])) >= ActiveRuns]_vars

(* The abstract promise, and how the rows keep it. *)
Phase(s) ==
  CASE s = Absent -> "unborn"
    [] s = "queued" -> "waiting"
    [] s \in InterruptibleRunStatuses -> "executing"
    [] OTHER -> "concluded"

Promise ==
  INSTANCE RunPromise WITH
    Executor <- Worker, NoExecutor <- NoWorker,
    PerUser <- ActiveRuns, Overall <- GlobalActiveRuns,
    phase <- [r \in Run |-> Phase(status[r])],
    executor <- token,
    result <- [r \in Run |-> IF status[r] \in TerminalRunStatuses
                             THEN status[r] ELSE "none"],
    announced <- [r \in Run |-> [s \in Outcomes |->
                   Cardinality({i \in DOMAIN log[r] : log[r][i] = s})]]

\* Every behaviour of rows, workers and recovery is one the promise allows.
KeepsPromise == Promise!Spec

(* Liveness, under Fairness *)

\* Whatever fails, a run that was claimed reaches a terminal status: its worker
\* finishes it, or its lease runs out and recovery interrupts it.
ClaimedRunsConclude ==
  \A r \in Run : status[r] \in InterruptibleRunStatuses ~> status[r] \in TerminalRunStatuses

\* No queued run waits for ever behind other runs or a lost delivery.
QueuedRunsLeaveQueue == \A r \in Run : status[r] = "queued" ~> status[r] # "queued"

\* Every run that was launched moves on to its end, through crashes, failed
\* deliveries and invalid snapshots.
RunsMoveOn == ClaimedRunsConclude /\ QueuedRunsLeaveQueue

=============================================================================
