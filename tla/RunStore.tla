------------------------------ MODULE RunStore ------------------------------
(***************************************************************************)
(* The runs table and the transactions that write it.                      *)
(*                                                                         *)
(* Every action is one committed PostgreSQL transaction: the admission     *)
(* advisory lock and the run row lock make its reads and writes atomic.    *)
(* The one lock held across steps is the row lock of a paper fill          *)
(* (FillOwnership.scope): while a run is in "filling" no other transaction *)
(* can update its row.                                                     *)
(*                                                                         *)
(* Who calls these transactions, and in which order, is left open here:    *)
(* any worker may present its token at any time.  RunExecution restricts   *)
(* the callers to what the worker and recovery processes do.               *)
(*                                                                         *)
(* Time is kept as ages: age[r] is the number of ticks since heartbeat_at, *)
(* saturating one past the largest value any comparison tells apart.       *)
(***************************************************************************)
EXTENDS RunStatus, Naturals, FiniteSets, Sequences

CONSTANTS
  Run,               \* run rows that may ever be inserted
  User,              \* accounts
  Owner,             \* Owner[r]: the account owning the bot of run r
  Worker,            \* holders of execution tokens
  NoWorker,          \* the NULL execution token
  ActiveRuns,        \* PAPER_BETA.active_runs, per account
  QueuedRuns,        \* PAPER_BETA.queued_runs, per account
  GlobalActiveRuns,  \* PAPER_BETA.global_active_runs
  GlobalQueuedRuns,  \* PAPER_BETA.global_queued_runs
  LeaseTicks,        \* DEFAULT_LEASE_SECONDS, in ticks
  LockWait,          \* bound on ticks between sampling a time and committing it
  MaxEvents          \* bound on the durable events of one run

ASSUME StoreAssumption ==
  /\ IsFiniteSet(Run)
  /\ Owner \in [Run -> User]
  /\ NoWorker \notin Worker
  /\ {ActiveRuns, QueuedRuns, GlobalActiveRuns, GlobalQueuedRuns} \subseteq Nat
  /\ {LeaseTicks, LockWait, MaxEvents} \subseteq Nat
  \* dependency timeouts (5s) are far below the lease (30s)
  /\ LockWait < LeaseTicks

VARIABLES
  status,      \* status[r]: RunRow.status, or Absent
  createdAt,   \* createdAt[r]: position of the insert in created_at order
  token,       \* token[r]: the worker holding RunRow.execution_token
  age,         \* age[r]: ticks since RunRow.heartbeat_at
  log,         \* log[r]: the run's durable events, in id order
  filling,     \* runs whose row lock is held by a paper fill
  access,      \* accounts with UserRow.access_allowed
  paused       \* OperationControl.admissions_paused

rowVars == <<status, createdAt, token, age, log>>
gateVars == <<access, paused>>
storeVars == <<status, createdAt, token, age, log, filling, access, paused>>

AgeLimit == LeaseTicks + LockWait + 1

StoreTypeOK ==
  /\ status \in [Run -> RunStatuses \cup {Absent}]
  /\ createdAt \in [Run -> Nat]
  /\ token \in [Run -> Worker \cup {NoWorker}]
  /\ age \in [Run -> 0..AgeLimit]
  /\ log \in [Run -> Seq({"event"} \cup TerminalRunStatuses)]
  /\ filling \subseteq Run
  /\ access \subseteq User
  /\ paused \in BOOLEAN

StoreInit ==
  /\ status = [r \in Run |-> Absent]
  /\ createdAt = [r \in Run |-> 0]
  /\ token = [r \in Run |-> NoWorker]
  /\ age = [r \in Run |-> 0]
  /\ log = [r \in Run |-> <<>>]
  /\ filling = {}
  /\ access = User
  /\ paused = FALSE

-----------------------------------------------------------------------------
(* Admission *)

Existing == {r \in Run : status[r] # Absent}
Queued == {r \in Run : status[r] = "queued"}
Active == {r \in Run : status[r] \in InterruptibleRunStatuses}
OwnedBy(u) == {r \in Run : Owner[r] = u}

HasQueueRoom(u) ==
  /\ ~paused
  /\ u \in access
  /\ Cardinality(Queued \cap OwnedBy(u)) < QueuedRuns
  /\ Cardinality(Queued) < GlobalQueuedRuns

\* Mutant: the owner's active runs are not counted.
Eligible_AnyOwner == {r \in Queued : Owner[r] \in access}

Eligible ==
  {r \in Queued : /\ Owner[r] \in access
                  /\ Cardinality(Active \cap OwnedBy(Owner[r])) < ActiveRuns}

\* Mutant: the query loses its ORDER BY created_at.
IsNextEligible_AnyOrder(r) ==
  /\ ~paused
  /\ Cardinality(Active) < GlobalActiveRuns
  /\ r \in Eligible

\* next_eligible_queued_run_id returns r
IsNextEligible(r) ==
  /\ ~paused
  /\ Cardinality(Active) < GlobalActiveRuns
  /\ r \in Eligible
  /\ \A q \in Eligible : createdAt[r] <= createdAt[q]

(* create_from_bot: insert a queued row under the admission lock *)
Launch(r) ==
  /\ status[r] = Absent
  /\ HasQueueRoom(Owner[r])
  /\ status' = [status EXCEPT ![r] = "queued"]
  /\ createdAt' = [createdAt EXCEPT ![r] = Cardinality(Existing)]
  /\ UNCHANGED <<token, age, log, filling, access, paused>>

\* Mutant: claim trusts the selection its caller made earlier.
Claim_Unchecked(w, r, lag) ==
  /\ status[r] \in {"queued"} \cup InterruptibleRunStatuses
  /\ status' = [status EXCEPT ![r] = "starting"]
  /\ token' = [token EXCEPT ![r] = w]
  /\ age' = [age EXCEPT ![r] = lag]
  /\ UNCHANGED <<createdAt, log, filling, access, paused>>

(* claim: the caller sampled heartbeat_at lag ticks before it got the lock *)
Claim(w, r, lag) ==
  /\ IsNextEligible(r)
  /\ status' = [status EXCEPT ![r] = "starting"]
  /\ token' = [token EXCEPT ![r] = w]
  /\ age' = [age EXCEPT ![r] = lag]
  /\ UNCHANGED <<createdAt, log, filling, access, paused>>

-----------------------------------------------------------------------------
(* Terminal transitions append their event in the same transaction *)

RowFree(r) == r \notin filling

\* Mutant: the transition commits without its event.
TerminateRun_NoEvent(r, s) ==
  /\ RowFree(r)
  /\ status' = [status EXCEPT ![r] = s]
  /\ UNCHANGED <<createdAt, token, age, log, filling>>

TerminateRun(r, s) ==
  /\ RowFree(r)
  /\ status' = [status EXCEPT ![r] = s]
  /\ log' = [log EXCEPT ![r] = Append(@, s)]
  /\ UNCHANGED <<createdAt, token, age, filling>>

TerminateRuns(S) ==
  /\ \A r \in S : RowFree(r)
  /\ LET final(r) == IF status[r] = "queued" THEN "stopped" ELSE "interrupted"
     IN /\ status' = [r \in Run |-> IF r \in S THEN final(r) ELSE status[r]]
        /\ log' = [r \in Run |-> IF r \in S THEN Append(log[r], final(r)) ELSE log[r]]
  /\ UNCHANGED <<createdAt, token, age, filling>>

FailQueued(r) ==
  /\ status[r] = "queued"
  /\ TerminateRun(r, "failed")
  /\ UNCHANGED gateVars

(* RunStore.request_stop: one admission-locked transaction *)
RequestStop(r) ==
  \/ /\ status[r] = "queued"
     /\ TerminateRun(r, "stopped")
     /\ UNCHANGED gateVars
  \/ /\ status[r] \in OwnedStopPreviousStatuses
     /\ RowFree(r)
     /\ status' = [status EXCEPT ![r] = "stop_requested"]
     /\ UNCHANGED <<createdAt, token, age, log, filling, access, paused>>

(* Recovery computed expired_before `since` ticks ago *)
InterruptExpired(r, since) ==
  /\ status[r] \in PreviousStatuses("interrupted")
  /\ age[r] > LeaseTicks + since
  /\ TerminateRun(r, "interrupted")
  /\ UNCHANGED gateVars

-----------------------------------------------------------------------------
(* Worker transactions: ExecutionLease.require, then the write *)

Owns(w, r) ==
  /\ token[r] = w
  /\ status[r] \in InterruptibleRunStatuses
  /\ age[r] <= LeaseTicks

OwnedTransition(w, r, s) ==
  /\ Owns(w, r)
  /\ RowFree(r)
  /\ status[r] \in PreviousStatuses(s)
  /\ status' = [status EXCEPT ![r] = s]
  /\ UNCHANGED <<createdAt, token, age, log, filling, access, paused>>

MarkRunning(w, r) == OwnedTransition(w, r, "running")

BeginStopping(w, r) == OwnedTransition(w, r, "stopping")

\* Mutant: the heartbeat is written without requiring the lease first.
Heartbeat_Unfenced(w, r, lag) ==
  /\ token[r] = w
  /\ status[r] \in InterruptibleRunStatuses
  /\ RowFree(r)
  /\ lag <= age[r]
  /\ age' = [age EXCEPT ![r] = lag]
  /\ UNCHANGED <<status, createdAt, token, log, filling, access, paused>>

Heartbeat(w, r, lag) ==
  /\ Owns(w, r)
  /\ RowFree(r)
  /\ lag <= age[r]
  /\ age' = [age EXCEPT ![r] = lag]
  /\ UNCHANGED <<status, createdAt, token, log, filling, access, paused>>

FinishFrom(s) == IF s = "stopped" THEN {"stopping"} ELSE PreviousStatuses(s)

Finish(w, r, s) ==
  /\ Owns(w, r)
  /\ status[r] \in FinishFrom(s)
  /\ TerminateRun(r, s)
  /\ UNCHANGED gateVars

\* Mutant: the writer is fenced by its token alone, whatever the row's status.
AppendEvent_TokenOnly(w, r) ==
  /\ token[r] = w
  /\ RowFree(r)
  /\ Len(log[r]) < MaxEvents + 1
  /\ log' = [log EXCEPT ![r] = Append(@, "event")]
  /\ UNCHANGED <<status, createdAt, token, age, filling, access, paused>>

(* RunEventWriter.append *)
AppendEvent(w, r) ==
  /\ Owns(w, r)
  /\ RowFree(r)
  /\ Len(log[r]) < MaxEvents
  /\ log' = [log EXCEPT ![r] = Append(@, "event")]
  /\ UNCHANGED <<status, createdAt, token, age, filling, access, paused>>

(* FillOwnership.scope: enter takes the row lock, leave releases it *)
EnterFill(w, r) ==
  /\ Owns(w, r)
  /\ RowFree(r)
  /\ filling' = filling \cup {r}
  /\ UNCHANGED <<status, createdAt, token, age, log, access, paused>>

LeaveFill(r) ==
  /\ r \in filling
  /\ filling' = filling \ {r}
  /\ UNCHANGED <<status, createdAt, token, age, log, access, paused>>

-----------------------------------------------------------------------------
(* Operator controls, each under the admission lock *)

Unfinished == Queued \cup Active

\* Mutant: suspension stops what executes and forgets the queue.
Suspend_ActiveOnly(u) ==
  /\ access' = access \ {u}
  /\ TerminateRuns(Active \cap OwnedBy(u))
  /\ UNCHANGED paused

Suspend(u) ==
  /\ access' = access \ {u}
  /\ TerminateRuns(Unfinished \cap OwnedBy(u))
  /\ UNCHANGED paused

ResumeAccount(u) ==
  /\ access' = access \cup {u}
  /\ UNCHANGED <<status, createdAt, token, age, log, filling, paused>>

OperatorStopRun(r) ==
  /\ r \in Unfinished
  /\ TerminateRuns({r})
  /\ UNCHANGED gateVars

StopAll ==
  /\ paused' = TRUE
  /\ TerminateRuns(Unfinished)
  /\ UNCHANGED access

ResumeAdmissions ==
  /\ paused' = FALSE
  /\ UNCHANGED <<status, createdAt, token, age, log, filling, access>>

Tick ==
  /\ age' = [r \in Run |-> IF age[r] < AgeLimit THEN age[r] + 1 ELSE age[r]]
  /\ UNCHANGED <<status, createdAt, token, log, filling, access, paused>>

-----------------------------------------------------------------------------

WorkerTransaction(w, r) ==
  \/ \E lag \in 0..LockWait : Claim(w, r, lag)
  \/ MarkRunning(w, r)
  \/ BeginStopping(w, r)
  \/ \E lag \in 0..LockWait : Heartbeat(w, r, lag)
  \/ \E s \in TerminalRunStatuses : Finish(w, r, s)
  \/ AppendEvent(w, r)
  \/ EnterFill(w, r)

RunTransaction(r) ==
  \/ Launch(r)
  \/ FailQueued(r)
  \/ RequestStop(r)
  \/ \E since \in 0..LockWait : InterruptExpired(r, since)
  \/ OperatorStopRun(r)
  \/ LeaveFill(r)

StoreNext ==
  \/ \E r \in Run, w \in Worker : WorkerTransaction(w, r)
  \/ \E r \in Run : RunTransaction(r)
  \/ \E u \in User : Suspend(u) \/ ResumeAccount(u)
  \/ StopAll
  \/ ResumeAdmissions
  \/ Tick

StoreSpec == StoreInit /\ [][StoreNext]_storeVars

-----------------------------------------------------------------------------
(* Safety *)

\* Claims on many workers, launches, stops and operator controls may race, yet
\* the runs executing never exceed the per-account and the global allowance
\* (next_eligible_queued_run_id re-evaluated inside claim).
ActiveWithinAllowance ==
  /\ Cardinality(Active) <= GlobalActiveRuns
  /\ \A u \in User : Cardinality(Active \cap OwnedBy(u)) <= ActiveRuns

\* Concurrent launches never overfill an account's queue or the shared queue.
QueueWithinAllowance ==
  /\ Cardinality(Queued) <= GlobalQueuedRuns
  /\ \A u \in User : Cardinality(Queued \cap OwnedBy(u)) <= QueuedRuns

\* Both allowances hold under every interleaving of launches, claims, recovery and
\* operators: each is counted under a lock that the others take (admission.py).
WithinAllowances == ActiveWithinAllowance /\ QueueWithinAllowance

\* Revoking an account's access leaves no queued or executing run of it behind,
\* and none can slip in afterwards: launch, claim and suspension serialize.
NoWorkWithoutAccess == \A r \in Unfinished : Owner[r] \in access

\* The incident switch drains everything and admits nothing until it is lifted.
PausedMeansIdle == paused => Unfinished = {}

\* Neither gate is ever raced past: a launch or a claim that read it open before it
\* closed is not found behind it afterwards (operations/control).
GatesRespected == NoWorkWithoutAccess /\ PausedMeansIdle

\* A run's durable history holds a terminal event exactly when the run is
\* terminal: one, the last one, reporting the status the row has.  No writer gets
\* an event in after it, and no subscriber waits for one that was never written.
TerminalEventClosesLog ==
  \A r \in Run :
    LET n == Len(log[r])
        final == status[r] \in TerminalRunStatuses
    IN /\ final => n > 0 /\ log[r][n] = status[r]
       /\ \A i \in 1..n : log[r][i] \in TerminalRunStatuses => final /\ i = n

\* No paper fill is in progress on a run that is no longer executing: stop,
\* recovery and operators wait for the row lock of a fill they race.
FillsOnlyWhileActive == filling \subseteq Active

\* What a run did stops with its status: no fill and no event after its end.
HistoriesClosed == FillsOnlyWhileActive /\ TerminalEventClosesLog

\* Once a lease has expired no worker revives it; recovery may act on an old scan.
ExpiredLeaseStaysLost ==
  [][\A r \in Run : /\ r \in Active
                   /\ age[r] > LeaseTicks
                   /\ status'[r] \in InterruptibleRunStatuses
                   => age'[r] > LeaseTicks]_storeVars

=============================================================================
