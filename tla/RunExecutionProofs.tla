------------------------- MODULE RunExecutionProofs -------------------------
(* Proofs about the run transactions and the processes that execute runs,    *)
(* for any number of runs, workers and failures: the processes use the store *)
(* only through its transactions, one worker holds a run, and together they  *)
(* keep the promise of RunPromise.                                           *)
EXTENDS RunExecution, TLAPS, FiniteSetTheorems

-----------------------------------------------------------------------------
(* The run transactions *)

(* What the transition table says of terminal and of executing statuses. *)
LEMMA StatusFacts ==
  /\ TerminalRunStatuses = {"stopped", "failed", "interrupted"}
  /\ InterruptibleRunStatuses = {"starting", "running", "stop_requested", "stopping"}
  /\ TerminalRunStatuses \subseteq RunStatuses
  /\ InterruptibleRunStatuses \subseteq RunStatuses
<1>1. TerminalRunStatuses = {"stopped", "failed", "interrupted"}
  BY DEF TerminalRunStatuses, RunStatuses, RunStatusTransitions
<1>2. QED
  BY <1>1 DEF InterruptibleRunStatuses, RunStatuses

(* The statuses a guarded transition may leave from. *)
LEMMA PreviousFacts ==
  /\ PreviousStatuses("running") = {"starting"}
  /\ PreviousStatuses("stopping") = {"running", "stop_requested"}
  /\ PreviousStatuses("interrupted") = InterruptibleRunStatuses
  /\ PreviousStatuses("failed") = InterruptibleRunStatuses \cup {"queued"}
BY DEF PreviousStatuses, InterruptibleRunStatuses, RunStatuses, RunStatusTransitions

-----------------------------------------------------------------------------
(* Type correctness *)

(* Transitions to a terminal status keep the types. *)
LEMMA TerminateRunType ==
  ASSUME StoreTypeOK, NEW r \in Run, NEW s \in TerminalRunStatuses,
         TerminateRun(r, s), UNCHANGED gateVars
  PROVE  StoreTypeOK'
BY StatusFacts DEF StoreTypeOK, TerminateRun, gateVars

LEMMA TerminateRunsType ==
  ASSUME StoreTypeOK, NEW S \in SUBSET Run, TerminateRuns(S)
  PROVE  /\ status' \in [Run -> RunStatuses \cup {Absent}]
         /\ log' \in [Run -> Seq({"event"} \cup TerminalRunStatuses)]
         /\ UNCHANGED <<createdAt, token, age, filling>>
BY StatusFacts DEF StoreTypeOK, TerminateRuns

(* The transactions of a worker keep the types. *)
LEMMA WorkerTransactionType ==
  ASSUME StoreTypeOK, NEW r \in Run, NEW w \in Worker, WorkerTransaction(w, r)
  PROVE  StoreTypeOK'
<1> USE StoreAssumption, StatusFacts
<1>1. ASSUME NEW lag \in 0..LockWait, Claim(w, r, lag) PROVE StoreTypeOK'
  BY <1>1 DEF StoreTypeOK, Claim, AgeLimit, RunStatuses
<1>2. CASE MarkRunning(w, r)
  BY <1>2 DEF StoreTypeOK, MarkRunning, OwnedTransition, RunStatuses
<1>3. CASE BeginStopping(w, r)
  BY <1>3 DEF StoreTypeOK, BeginStopping, OwnedTransition, RunStatuses
<1>4. ASSUME NEW lag \in 0..LockWait, Heartbeat(w, r, lag) PROVE StoreTypeOK'
  BY <1>4 DEF StoreTypeOK, Heartbeat, AgeLimit
<1>5. ASSUME NEW s \in TerminalRunStatuses, Finish(w, r, s) PROVE StoreTypeOK'
  BY <1>5, TerminateRunType DEF Finish
<1>6. CASE AppendEvent(w, r)
  BY <1>6 DEF StoreTypeOK, AppendEvent
<1>7. CASE EnterFill(w, r)
  BY <1>7 DEF StoreTypeOK, EnterFill
<1>8. QED
  BY <1>1, <1>2, <1>3, <1>4, <1>5, <1>6, <1>7 DEF WorkerTransaction

(* The transactions of the API, recovery and operators keep the types. *)
LEMMA RunTransactionType ==
  ASSUME StoreTypeOK, NEW r \in Run, RunTransaction(r)
  PROVE  StoreTypeOK'
<1> USE StoreAssumption, StatusFacts
<1>1. CASE Launch(r)
  <2>1. Existing \subseteq Run /\ IsFiniteSet(Existing)
    BY FS_Subset DEF Existing
  <2>2. Cardinality(Existing) \in Nat
    BY <2>1, FS_CardinalityType
  <2>3. QED
    BY <1>1, <2>2 DEF StoreTypeOK, Launch, RunStatuses
<1>2. CASE FailQueued(r)
  BY <1>2, TerminateRunType DEF FailQueued
<1>3. CASE RequestStop(r)
  <2>1. CASE TerminateRun(r, "stopped") /\ UNCHANGED gateVars
    BY <2>1, TerminateRunType
  <2>2. CASE /\ status' = [status EXCEPT ![r] = "stop_requested"]
             /\ UNCHANGED <<createdAt, token, age, log, filling, access, paused>>
    BY <2>2 DEF StoreTypeOK, RunStatuses
  <2>3. QED
    BY <1>3, <2>1, <2>2 DEF RequestStop
<1>4. ASSUME NEW since \in 0..LockWait, InterruptExpired(r, since) PROVE StoreTypeOK'
  BY <1>4, TerminateRunType DEF InterruptExpired
<1>5. CASE OperatorStopRun(r)
  BY <1>5, TerminateRunsType DEF OperatorStopRun, StoreTypeOK, gateVars
<1>6. CASE LeaveFill(r)
  BY <1>6 DEF StoreTypeOK, LeaveFill
<1>7. QED
  BY <1>1, <1>2, <1>3, <1>4, <1>5, <1>6 DEF RunTransaction

(* A step of the runs table keeps the types. *)
LEMMA StepKeepsTypes ==
  ASSUME StoreTypeOK, [StoreNext]_storeVars
  PROVE  StoreTypeOK'
<1> USE StoreAssumption
<1>1. ASSUME NEW r \in Run, NEW w \in Worker, WorkerTransaction(w, r)
      PROVE  StoreTypeOK'
  BY <1>1, WorkerTransactionType
<1>2. ASSUME NEW r \in Run, RunTransaction(r) PROVE StoreTypeOK'
  BY <1>2, RunTransactionType
<1>3. ASSUME NEW u \in User, Suspend(u) PROVE StoreTypeOK'
  <2>1. Unfinished \cap OwnedBy(u) \in SUBSET Run
    BY DEF Unfinished, Queued, Active
  <2>2. QED
    BY <1>3, <2>1, TerminateRunsType DEF Suspend, StoreTypeOK
<1>4. ASSUME NEW u \in User, ResumeAccount(u) PROVE StoreTypeOK'
  BY <1>4 DEF ResumeAccount, StoreTypeOK
<1>5. CASE StopAll
  <2>1. Unfinished \in SUBSET Run
    BY DEF Unfinished, Queued, Active
  <2>2. QED
    BY <1>5, <2>1, TerminateRunsType DEF StopAll, StoreTypeOK
<1>6. CASE ResumeAdmissions
  BY <1>6 DEF ResumeAdmissions, StoreTypeOK
<1>7. CASE Tick
  BY <1>7 DEF Tick, StoreTypeOK, AgeLimit
<1>8. CASE UNCHANGED storeVars
  BY <1>8 DEF storeVars, StoreTypeOK
<1>9. QED
  BY <1>1, <1>2, <1>3, <1>4, <1>5, <1>6, <1>7, <1>8 DEF StoreNext

LEMMA StoreInitType == StoreInit => StoreTypeOK
<1> USE StoreAssumption
<1>1. <<>> \in Seq({"event"} \cup TerminalRunStatuses)
  OBVIOUS
<1>2. 0 \in 0..AgeLimit
  BY DEF AgeLimit
<1>3. StoreInit => log \in [Run -> Seq({"event"} \cup TerminalRunStatuses)]
  BY <1>1 DEF StoreInit
<1>4. StoreInit => /\ status \in [Run -> RunStatuses \cup {Absent}]
                   /\ createdAt \in [Run -> Nat]
                   /\ token \in [Run -> Worker \cup {NoWorker}]
                   /\ age \in [Run -> 0..AgeLimit]
  BY <1>2 DEF StoreInit
<1>5. StoreInit => filling \subseteq Run /\ access \subseteq User /\ paused \in BOOLEAN
  BY DEF StoreInit
<1>6. QED
  BY <1>3, <1>4, <1>5 DEF StoreTypeOK

(* Every reachable state of the runs table is well typed. *)
THEOREM StoreTypeCorrect == StoreSpec => []StoreTypeOK
<1>1. StoreTypeOK /\ [StoreNext]_storeVars => StoreTypeOK'
  BY StepKeepsTypes
<1>2. QED
  BY <1>1, StoreInitType, PTL DEF StoreSpec

-----------------------------------------------------------------------------
(* What a step does to the sets the allowances count *)

(* Every step leaves the executing and the queued runs where they were or   *)
(* removes some, except the one claim or launch the admission lock let in.  *)
LEMMA StepOnSets ==
  ASSUME StoreTypeOK, [StoreNext]_storeVars
  PROVE  \/ Active' \subseteq Active /\ Queued' \subseteq Queued
         \/ \E r \in Run : /\ IsNextEligible(r)
                           /\ Active' = Active \cup {r}
                           /\ Queued' \subseteq Queued
                           /\ UNCHANGED <<access, paused>>
         \/ \E r \in Run : /\ HasQueueRoom(Owner[r])
                           /\ Active' = Active
                           /\ Queued' = Queued \cup {r}
                           /\ UNCHANGED <<access, paused>>
<1> DEFINE Shrinks == Active' \subseteq Active /\ Queued' \subseteq Queued
<1> USE StatusFacts
<1>1. ASSUME UNCHANGED status PROVE Shrinks
  BY <1>1 DEF Active, Queued
<1>2. ASSUME NEW r \in Run, NEW s \in TerminalRunStatuses, TerminateRun(r, s)
      PROVE  Shrinks
  BY <1>2 DEF TerminateRun, Active, Queued, StoreTypeOK
<1>3. ASSUME NEW S \in SUBSET Run, TerminateRuns(S) PROVE Shrinks
  BY <1>3 DEF TerminateRuns, Active, Queued, StoreTypeOK
<1>4. ASSUME NEW r \in Run, NEW s \in InterruptibleRunStatuses,
             status[r] \in InterruptibleRunStatuses,
             status' = [status EXCEPT ![r] = s]
      PROVE  Shrinks
  BY <1>4 DEF Active, Queued, StoreTypeOK
<1>5. ASSUME NEW r \in Run, NEW w \in Worker, NEW lag \in 0..LockWait, Claim(w, r, lag)
      PROVE  /\ IsNextEligible(r)
             /\ Active' = Active \cup {r}
             /\ Queued' \subseteq Queued
             /\ UNCHANGED <<access, paused>>
  BY <1>5 DEF Claim, Active, Queued, StoreTypeOK
<1>6. ASSUME NEW r \in Run, Launch(r)
      PROVE  /\ HasQueueRoom(Owner[r])
             /\ Active' = Active
             /\ Queued' = Queued \cup {r}
             /\ UNCHANGED <<access, paused>>
  BY <1>6 DEF Launch, Active, Queued, StoreTypeOK, Absent
<1>7. ASSUME NEW r \in Run, NEW w \in Worker, WorkerTransaction(w, r),
             \A lag \in 0..LockWait : ~Claim(w, r, lag)
      PROVE  Shrinks
  <2>1. CASE MarkRunning(w, r)
    BY <2>1, <1>4, PreviousFacts DEF MarkRunning, OwnedTransition
  <2>2. CASE BeginStopping(w, r)
    BY <2>2, <1>4, PreviousFacts DEF BeginStopping, OwnedTransition
  <2>3. CASE \E lag \in 0..LockWait : Heartbeat(w, r, lag)
    BY <2>3, <1>1 DEF Heartbeat
  <2>4. CASE \E s \in TerminalRunStatuses : Finish(w, r, s)
    BY <2>4, <1>2 DEF Finish
  <2>5. CASE AppendEvent(w, r) \/ EnterFill(w, r)
    BY <2>5, <1>1 DEF AppendEvent, EnterFill
  <2>6. QED
    BY <1>7, <2>1, <2>2, <2>3, <2>4, <2>5 DEF WorkerTransaction
<1>8. ASSUME NEW r \in Run, RunTransaction(r), ~Launch(r) PROVE Shrinks
  <2>1. CASE FailQueued(r)
    BY <2>1, <1>2 DEF FailQueued
  <2>2. CASE RequestStop(r)
    BY <2>2, <1>2, <1>4 DEF RequestStop, OwnedStopPreviousStatuses
  <2>3. CASE \E since \in 0..LockWait : InterruptExpired(r, since)
    BY <2>3, <1>2 DEF InterruptExpired
  <2>4. CASE OperatorStopRun(r)
    BY <2>4, <1>3 DEF OperatorStopRun
  <2>5. CASE LeaveFill(r)
    BY <2>5, <1>1 DEF LeaveFill
  <2>6. QED
    BY <1>8, <2>1, <2>2, <2>3, <2>4, <2>5 DEF RunTransaction
<1>9. ASSUME NEW u \in User, Suspend(u) \/ ResumeAccount(u) PROVE Shrinks
  <2>1. Unfinished \cap OwnedBy(u) \in SUBSET Run
    BY DEF Unfinished, Queued, Active
  <2>2. QED
    BY <1>9, <2>1, <1>1, <1>3 DEF Suspend, ResumeAccount
<1>10. ASSUME StopAll PROVE Shrinks
  <2>1. Unfinished \in SUBSET Run
    BY DEF Unfinished, Queued, Active
  <2>2. QED
    BY <1>10, <2>1, <1>3 DEF StopAll
<1>11. ASSUME ResumeAdmissions \/ Tick \/ UNCHANGED storeVars PROVE Shrinks
  BY <1>11, <1>1 DEF ResumeAdmissions, Tick, storeVars
<1>12. QED
  BY <1>5, <1>6, <1>7, <1>8, <1>9, <1>10, <1>11 DEF StoreNext

(* Removing members never raises a count; adding one raises it by at most one. *)
LEMMA CountBounds ==
  ASSUME NEW A, NEW B, NEW x, IsFiniteSet(A)
  PROVE  /\ Cardinality(A) \in Nat
         /\ B \subseteq A => Cardinality(B) \in Nat /\ Cardinality(B) <= Cardinality(A)
         /\ B \subseteq A \cup {x} =>
              Cardinality(B) \in Nat /\ Cardinality(B) <= Cardinality(A) + 1
<1>1. Cardinality(A) \in Nat
  BY FS_CardinalityType
<1>2. ASSUME B \subseteq A
      PROVE  Cardinality(B) \in Nat /\ Cardinality(B) <= Cardinality(A)
  BY <1>2, FS_Subset, FS_CardinalityType
<1>3. ASSUME B \subseteq A \cup {x}
      PROVE  Cardinality(B) \in Nat /\ Cardinality(B) <= Cardinality(A) + 1
  <2>1. /\ IsFiniteSet(A \cup {x})
        /\ Cardinality(A \cup {x}) \in Nat
        /\ Cardinality(A \cup {x}) <= Cardinality(A) + 1
    BY <1>1, FS_AddElement, FS_CardinalityType
  <2>2. /\ Cardinality(B) \in Nat
        /\ Cardinality(B) <= Cardinality(A \cup {x})
    BY <1>3, <2>1, FS_Subset, FS_CardinalityType
  <2>3. QED
    BY <1>1, <2>1, <2>2
<1>4. QED
  BY <1>1, <1>2, <1>3

(* One step keeps a count within its bound if it adds a run only below it. *)
LEMMA BoundKept ==
  ASSUME NEW A, NEW B, NEW x, NEW bound \in Nat, IsFiniteSet(A),
         Cardinality(A) <= bound,
         \/ B \subseteq A
         \/ B \subseteq A \cup {x} /\ Cardinality(A) < bound
  PROVE  Cardinality(B) <= bound
<1>1. Cardinality(A) \in Nat
  BY CountBounds
<1>2. CASE B \subseteq A
  <2>1. Cardinality(B) \in Nat /\ Cardinality(B) <= Cardinality(A)
    BY <1>2, CountBounds
  <2>2. QED
    BY <1>1, <2>1
<1>3. CASE B \subseteq A \cup {x} /\ Cardinality(A) < bound
  <2>1. Cardinality(B) \in Nat /\ Cardinality(B) <= Cardinality(A) + 1
    BY <1>3, CountBounds
  <2>2. QED
    BY <1>1, <1>3, <2>1
<1>4. QED
  BY <1>2, <1>3

-----------------------------------------------------------------------------
(* The allowances *)

(* A claim or a launch is let in only below every bound it counts against. *)
LEMMA StepKeepsAllowances ==
  ASSUME StoreTypeOK, WithinAllowances, [StoreNext]_storeVars
  PROVE  WithinAllowances'
<1> USE StoreAssumption
<1>1. /\ IsFiniteSet(Active) /\ IsFiniteSet(Queued)
      /\ \A u \in User : /\ IsFiniteSet(Active \cap OwnedBy(u))
                         /\ IsFiniteSet(Queued \cap OwnedBy(u))
  <2>1. Active \subseteq Run /\ Queued \subseteq Run
    BY DEF Active, Queued
  <2>2. QED
    BY <2>1, FS_Subset
<1>2. /\ GlobalActiveRuns \in Nat /\ GlobalQueuedRuns \in Nat
      /\ ActiveRuns \in Nat /\ QueuedRuns \in Nat
  OBVIOUS
<1>3. \A u \in User : OwnedBy(u)' = OwnedBy(u)
  BY DEF OwnedBy
<1>4. CASE Active' \subseteq Active /\ Queued' \subseteq Queued
  <2>1. Cardinality(Active') <= GlobalActiveRuns
    BY <1>1, <1>2, <1>4, BoundKept DEF WithinAllowances, ActiveWithinAllowance
  <2>2. Cardinality(Queued') <= GlobalQueuedRuns
    BY <1>1, <1>2, <1>4, BoundKept DEF WithinAllowances, QueueWithinAllowance
  <2>3. ASSUME NEW u \in User
        PROVE  /\ Cardinality((Active \cap OwnedBy(u))') <= ActiveRuns
               /\ Cardinality((Queued \cap OwnedBy(u))') <= QueuedRuns
    <3>1. /\ (Active \cap OwnedBy(u))' \subseteq Active \cap OwnedBy(u)
          /\ (Queued \cap OwnedBy(u))' \subseteq Queued \cap OwnedBy(u)
      BY <1>3, <1>4
    <3>2. QED
      BY <1>1, <1>2, <3>1, BoundKept
         DEF WithinAllowances, ActiveWithinAllowance, QueueWithinAllowance
  <2>4. QED
    BY <2>1, <2>2, <2>3 DEF WithinAllowances, ActiveWithinAllowance, QueueWithinAllowance
<1>5. ASSUME NEW r \in Run, IsNextEligible(r),
             Active' = Active \cup {r}, Queued' \subseteq Queued
      PROVE  WithinAllowances'
  <2>1. Cardinality(Active') <= GlobalActiveRuns
    BY <1>1, <1>2, <1>5, BoundKept DEF WithinAllowances, ActiveWithinAllowance, IsNextEligible
  <2>2. Cardinality(Queued') <= GlobalQueuedRuns
    BY <1>1, <1>2, <1>5, BoundKept DEF WithinAllowances, QueueWithinAllowance
  <2>3. ASSUME NEW u \in User
        PROVE  /\ Cardinality((Active \cap OwnedBy(u))') <= ActiveRuns
               /\ Cardinality((Queued \cap OwnedBy(u))') <= QueuedRuns
    <3>1. \/ (Active \cap OwnedBy(u))' \subseteq Active \cap OwnedBy(u)
          \/ /\ (Active \cap OwnedBy(u))' \subseteq (Active \cap OwnedBy(u)) \cup {r}
             /\ Cardinality(Active \cap OwnedBy(u)) < ActiveRuns
      BY <1>3, <1>5 DEF IsNextEligible, Eligible, OwnedBy
    <3>2. (Queued \cap OwnedBy(u))' \subseteq Queued \cap OwnedBy(u)
      BY <1>3, <1>5
    <3>3. Cardinality((Active \cap OwnedBy(u))') <= ActiveRuns
      BY <1>1, <1>2, <3>1, BoundKept DEF WithinAllowances, ActiveWithinAllowance
    <3>4. Cardinality((Queued \cap OwnedBy(u))') <= QueuedRuns
      BY <1>1, <1>2, <3>2, BoundKept DEF WithinAllowances, QueueWithinAllowance
    <3>5. QED
      BY <3>3, <3>4
  <2>4. QED
    BY <2>1, <2>2, <2>3 DEF WithinAllowances, ActiveWithinAllowance, QueueWithinAllowance
<1>6. ASSUME NEW r \in Run, HasQueueRoom(Owner[r]),
             Active' = Active, Queued' = Queued \cup {r}
      PROVE  WithinAllowances'
  <2>1. Cardinality(Queued') <= GlobalQueuedRuns
    BY <1>1, <1>2, <1>6, BoundKept DEF WithinAllowances, QueueWithinAllowance, HasQueueRoom
  <2>2. ASSUME NEW u \in User
        PROVE  Cardinality((Queued \cap OwnedBy(u))') <= QueuedRuns
    <3>1. \/ (Queued \cap OwnedBy(u))' \subseteq Queued \cap OwnedBy(u)
          \/ /\ (Queued \cap OwnedBy(u))' \subseteq (Queued \cap OwnedBy(u)) \cup {r}
             /\ Cardinality(Queued \cap OwnedBy(u)) < QueuedRuns
      BY <1>3, <1>6 DEF HasQueueRoom, OwnedBy
    <3>2. QED
      BY <1>1, <1>2, <3>1, BoundKept DEF WithinAllowances, QueueWithinAllowance
  <2>3. ASSUME NEW u \in User
        PROVE  Cardinality((Active \cap OwnedBy(u))') <= ActiveRuns
    BY <1>3, <1>6 DEF WithinAllowances, ActiveWithinAllowance
  <2>4. QED
    BY <1>6, <2>1, <2>2, <2>3 DEF WithinAllowances, ActiveWithinAllowance, QueueWithinAllowance
<1>7. QED
  BY <1>4, <1>5, <1>6, StepOnSets

(* For any numbers of runs, accounts and workers, executing and queued runs  *)
(* stay within the per-account and the service-wide allowances.              *)
THEOREM AllowancesHold == StoreSpec => []WithinAllowances
<1>1. StoreInit => WithinAllowances
  <2> SUFFICES ASSUME StoreInit PROVE WithinAllowances
    OBVIOUS
  <2>1. Active = {} /\ Queued = {}
    BY StatusFacts DEF StoreInit, Active, Queued, Absent
  <2>2. \A u \in User : Active \cap OwnedBy(u) = {} /\ Queued \cap OwnedBy(u) = {}
    BY <2>1
  <2>3. Cardinality({}) = 0
    BY FS_EmptySet
  <2>4. QED
    BY <2>1, <2>2, <2>3, StoreAssumption
       DEF WithinAllowances, ActiveWithinAllowance, QueueWithinAllowance
<1>2. StoreTypeOK /\ WithinAllowances /\ [StoreNext]_storeVars => WithinAllowances'
  BY StepKeepsAllowances
<1>3. QED
  BY <1>1, <1>2, StoreTypeCorrect, PTL DEF StoreSpec

-----------------------------------------------------------------------------
(* The gates: account access and the incident switch *)

(* Only a suspension narrows access, only stop-all pauses. *)
LEMMA GateSteps ==
  ASSUME [StoreNext]_storeVars
  PROVE  /\ (\E u \in User : Suspend(u)) \/ access \subseteq access'
         /\ StopAll \/ (paused' => paused)
<1>1. ASSUME NEW r \in Run, NEW w \in Worker, WorkerTransaction(w, r)
      PROVE  UNCHANGED <<access, paused>>
  BY <1>1 DEF WorkerTransaction, Claim, MarkRunning, BeginStopping, OwnedTransition,
     Heartbeat, Finish, AppendEvent, EnterFill, gateVars
<1>2. ASSUME NEW r \in Run, RunTransaction(r)
      PROVE  UNCHANGED <<access, paused>>
  BY <1>2 DEF RunTransaction, Launch, FailQueued, RequestStop, InterruptExpired,
     OperatorStopRun, LeaveFill, gateVars
<1>3. ASSUME NEW u \in User, ResumeAccount(u)
      PROVE  access \subseteq access' /\ UNCHANGED paused
  BY <1>3 DEF ResumeAccount
<1>4. ASSUME NEW u \in User, Suspend(u) PROVE UNCHANGED paused
  BY <1>4 DEF Suspend
<1>5. ASSUME StopAll PROVE UNCHANGED access
  BY <1>5 DEF StopAll
<1>6. ASSUME ResumeAdmissions PROVE UNCHANGED access /\ ~paused'
  BY <1>6 DEF ResumeAdmissions
<1>7. ASSUME Tick \/ UNCHANGED storeVars PROVE UNCHANGED <<access, paused>>
  BY <1>7 DEF Tick, storeVars
<1>8. QED
  BY <1>1, <1>2, <1>3, <1>4, <1>5, <1>6, <1>7 DEF StoreNext

(* A terminating batch leaves none of its runs unfinished. *)
LEMMA TerminateRunsClears ==
  ASSUME StoreTypeOK, NEW S \in SUBSET Run, TerminateRuns(S)
  PROVE  Unfinished' \subseteq Unfinished \ S
BY StatusFacts DEF TerminateRuns, Unfinished, Queued, Active, StoreTypeOK

LEMMA StepKeepsGates ==
  ASSUME StoreTypeOK, GatesRespected, [StoreNext]_storeVars
  PROVE  GatesRespected'
<1>1. \/ Unfinished' \subseteq Unfinished
      \/ \E r \in Run : /\ Unfinished' \subseteq Unfinished \cup {r}
                        /\ Owner[r] \in access /\ ~paused
                        /\ UNCHANGED <<access, paused>>
  BY StepOnSets DEF Unfinished, IsNextEligible, Eligible, HasQueueRoom
<1>2. Unfinished \subseteq Run /\ Unfinished' \subseteq Run
  BY DEF Unfinished, Queued, Active
<1>3. CASE \E u \in User : Suspend(u)
  <2>1. PICK u \in User : Suspend(u)
    BY <1>3
  <2>2. Unfinished \cap OwnedBy(u) \in SUBSET Run
    BY <1>2
  <2>3. Unfinished' \subseteq Unfinished \ OwnedBy(u)
    BY <2>1, <2>2, TerminateRunsClears DEF Suspend
  <2>4. access' = access \ {u} /\ UNCHANGED paused
    BY <2>1 DEF Suspend
  <2>5. QED
    BY <1>2, <2>3, <2>4 DEF GatesRespected, NoWorkWithoutAccess, PausedMeansIdle, OwnedBy
<1>4. CASE StopAll
  <2>1. Unfinished' = {}
    BY <1>2, <1>4, TerminateRunsClears DEF StopAll
  <2>2. QED
    BY <2>1 DEF GatesRespected, NoWorkWithoutAccess, PausedMeansIdle
<1>5. CASE access \subseteq access' /\ (paused' => paused)
  BY <1>1, <1>5 DEF GatesRespected, NoWorkWithoutAccess, PausedMeansIdle
<1>6. QED
  BY <1>1, <1>3, <1>4, <1>5, GateSteps

(* An account without access has no unfinished run, and an incident pause    *)
(* leaves none at all, whatever races the revocation or the pause.           *)
THEOREM GatesHold == StoreSpec => []GatesRespected
<1>1. StoreInit => GatesRespected
  BY StatusFacts
     DEF StoreInit, GatesRespected, NoWorkWithoutAccess, PausedMeansIdle, Unfinished,
         Queued, Active, Absent
<1>2. StoreTypeOK /\ GatesRespected /\ [StoreNext]_storeVars => GatesRespected'
  BY StepKeepsGates
<1>3. QED
  BY <1>1, <1>2, StoreTypeCorrect, PTL DEF StoreSpec

-----------------------------------------------------------------------------
(* What a step does to one row *)

(* Every step changes a row in one of six ways.  Statuses, logs and fills of *)
(* one run move together; this is the shape the remaining proofs rely on.    *)
RowStep(q) ==
  \/ UNCHANGED <<status[q], log[q]>> /\ (q \in filling' => q \in filling \cup Active)
  \/ /\ status[q] \notin TerminalRunStatuses
     /\ status'[q] \notin TerminalRunStatuses
     /\ log'[q] = log[q]
     /\ q \in filling' => q \in filling /\ status'[q] \in InterruptibleRunStatuses
  \/ /\ q \in Active
     /\ status'[q] = status[q]
     /\ log'[q] = Append(log[q], "event")
     /\ q \in filling' => q \in filling
  \/ /\ status[q] \notin TerminalRunStatuses
     /\ status'[q] \in TerminalRunStatuses
     /\ log'[q] = Append(log[q], status'[q])
     /\ q \notin filling'

LEMMA StepOnRow ==
  ASSUME StoreTypeOK, FillsOnlyWhileActive, [StoreNext]_storeVars, NEW q \in Run
  PROVE  RowStep(q)
<1> USE StatusFacts DEF RowStep
<1>1. ASSUME UNCHANGED <<status, log>>, filling' \subseteq filling PROVE RowStep(q)
  BY <1>1
<1>2. ASSUME NEW r \in Run, NEW s \in TerminalRunStatuses, TerminateRun(r, s),
             status[r] \notin TerminalRunStatuses
      PROVE  RowStep(q)
  BY <1>2 DEF TerminateRun, RowFree, StoreTypeOK
<1>3. ASSUME NEW S \in SUBSET Unfinished, TerminateRuns(S) PROVE RowStep(q)
  BY <1>3 DEF TerminateRuns, RowFree, StoreTypeOK, Unfinished, Queued, Active
<1>4. ASSUME NEW r \in Run, NEW s \in InterruptibleRunStatuses,
             status[r] \notin TerminalRunStatuses,
             status' = [status EXCEPT ![r] = s], UNCHANGED <<log, filling>>
      PROVE  RowStep(q)
  BY <1>4 DEF StoreTypeOK
<1>5. ASSUME NEW r \in Run, NEW w \in Worker, WorkerTransaction(w, r) PROVE RowStep(q)
  <2>1. CASE \E lag \in 0..LockWait : Claim(w, r, lag)
    BY <2>1, <1>4 DEF Claim, IsNextEligible, Eligible, Queued
  <2>2. CASE MarkRunning(w, r)
    BY <2>2, <1>4 DEF MarkRunning, OwnedTransition, Owns
  <2>3. CASE BeginStopping(w, r)
    BY <2>3, <1>4 DEF BeginStopping, OwnedTransition, Owns
  <2>4. CASE \E lag \in 0..LockWait : Heartbeat(w, r, lag)
    BY <2>4, <1>1 DEF Heartbeat
  <2>5. CASE \E s \in TerminalRunStatuses : Finish(w, r, s)
    BY <2>5, <1>2 DEF Finish, Owns
  <2>6. CASE AppendEvent(w, r)
    BY <2>6 DEF AppendEvent, Owns, StoreTypeOK, Active
  <2>7. CASE EnterFill(w, r)
    BY <2>7 DEF EnterFill, Owns, Active
  <2>8. QED
    BY <1>5, <2>1, <2>2, <2>3, <2>4, <2>5, <2>6, <2>7 DEF WorkerTransaction
<1>6. ASSUME NEW r \in Run, RunTransaction(r) PROVE RowStep(q)
  <2>1. CASE Launch(r)
    <3>1. r \notin filling
      BY <2>1 DEF Launch, FillsOnlyWhileActive, Active, Absent
    <3>2. QED
      BY <2>1, <3>1 DEF Launch, StoreTypeOK, Absent
  <2>2. CASE FailQueued(r)
    BY <2>2, <1>2 DEF FailQueued
  <2>3. CASE RequestStop(r)
    BY <2>3, <1>2, <1>4 DEF RequestStop, OwnedStopPreviousStatuses
  <2>4. CASE \E since \in 0..LockWait : InterruptExpired(r, since)
    BY <2>4, <1>2, PreviousFacts DEF InterruptExpired
  <2>5. CASE OperatorStopRun(r)
    BY <2>5, <1>3 DEF OperatorStopRun
  <2>6. CASE LeaveFill(r)
    BY <2>6, <1>1 DEF LeaveFill
  <2>7. QED
    BY <1>6, <2>1, <2>2, <2>3, <2>4, <2>5, <2>6 DEF RunTransaction
<1>7. ASSUME NEW u \in User, Suspend(u) \/ ResumeAccount(u) PROVE RowStep(q)
  BY <1>7, <1>1, <1>3 DEF Suspend, ResumeAccount
<1>8. ASSUME StopAll PROVE RowStep(q)
  BY <1>8, <1>3 DEF StopAll
<1>9. ASSUME ResumeAdmissions \/ Tick \/ UNCHANGED storeVars PROVE RowStep(q)
  BY <1>9, <1>1 DEF ResumeAdmissions, Tick, storeVars
<1>10. QED
  BY <1>5, <1>6, <1>7, <1>8, <1>9 DEF StoreNext

LEMMA StepKeepsFills ==
  ASSUME StoreTypeOK, FillsOnlyWhileActive, [StoreNext]_storeVars, StoreTypeOK'
  PROVE  FillsOnlyWhileActive'
<1> SUFFICES ASSUME NEW q \in filling' PROVE q \in Active'
  BY DEF FillsOnlyWhileActive
<1>1. q \in Run
  BY DEF StoreTypeOK
<1>2. RowStep(q)
  BY <1>1, StepOnRow
<1>3. QED
  BY <1>1, <1>2, StatusFacts DEF RowStep, FillsOnlyWhileActive, Active

LEMMA StepKeepsLog ==
  ASSUME StoreTypeOK, FillsOnlyWhileActive, TerminalEventClosesLog,
         [StoreNext]_storeVars
  PROVE  TerminalEventClosesLog'
<1> SUFFICES ASSUME NEW q \in Run
             PROVE  LET n == Len(log'[q])
                        final == status'[q] \in TerminalRunStatuses
                    IN /\ final => n > 0 /\ log'[q][n] = status'[q]
                       /\ \A i \in 1..n : log'[q][i] \in TerminalRunStatuses => final /\ i = n
  BY DEF TerminalEventClosesLog
<1>1. RowStep(q)
  BY StepOnRow
<1>2. /\ status[q] \in TerminalRunStatuses =>
           Len(log[q]) > 0 /\ log[q][Len(log[q])] = status[q]
      /\ \A i \in 1..Len(log[q]) : log[q][i] \in TerminalRunStatuses =>
           status[q] \in TerminalRunStatuses /\ i = Len(log[q])
  BY DEF TerminalEventClosesLog
<1>3. log[q] \in Seq({"event"} \cup TerminalRunStatuses)
  BY DEF StoreTypeOK
<1>4. "event" \notin TerminalRunStatuses
  BY StatusFacts
<1>5. CASE log'[q] = log[q] /\ (status'[q] \in TerminalRunStatuses => status'[q] = status[q])
           /\ (status[q] \in TerminalRunStatuses => status'[q] = status[q])
  BY <1>2, <1>5
<1>6. CASE /\ status[q] \notin TerminalRunStatuses
           /\ status'[q] \notin TerminalRunStatuses
           /\ log'[q] = Append(log[q], "event")
  BY <1>2, <1>3, <1>4, <1>6
<1>7. CASE /\ status[q] \notin TerminalRunStatuses
           /\ status'[q] \in TerminalRunStatuses
           /\ log'[q] = Append(log[q], status'[q])
  BY <1>2, <1>3, <1>7
<1>8. QED
  BY <1>1, <1>5, <1>6, <1>7, StatusFacts DEF RowStep, Active

(* No fill is in progress on a run that is not executing, and the durable    *)
(* history of a run is closed by its one terminal event.                     *)
THEOREM HistoriesClose == StoreSpec => []HistoriesClosed
<1>1. StoreInit => FillsOnlyWhileActive /\ TerminalEventClosesLog
  BY StatusFacts
     DEF StoreInit, FillsOnlyWhileActive, TerminalEventClosesLog, Absent
<1>2. /\ StoreTypeOK /\ FillsOnlyWhileActive /\ TerminalEventClosesLog
      /\ [StoreNext]_storeVars /\ StoreTypeOK'
      => (FillsOnlyWhileActive /\ TerminalEventClosesLog)'
  BY StepKeepsFills, StepKeepsLog
<1>3. QED
  BY <1>1, <1>2, StoreTypeCorrect, PTL DEF StoreSpec, HistoriesClosed

-----------------------------------------------------------------------------
(* Leases *)

(* A run that has outlived its lease keeps outliving it while it executes.   *)
LEMMA StepKeepsExpiry ==
  ASSUME StoreTypeOK, [StoreNext]_storeVars, NEW q \in Active, age[q] > LeaseTicks
  PROVE  age'[q] > LeaseTicks
<1> USE StoreAssumption
<1>1. q \in Run /\ age[q] \in 0..AgeLimit /\ status[q] \in InterruptibleRunStatuses
  BY DEF Active, StoreTypeOK
<1>2. LeaseTicks \in Nat /\ LockWait \in Nat
  OBVIOUS
<1>3. ASSUME UNCHANGED age PROVE age'[q] > LeaseTicks
  BY <1>3
<1>4. ASSUME NEW r \in Run, NEW w \in Worker, WorkerTransaction(w, r)
      PROVE  age'[q] > LeaseTicks
  <2>1. ASSUME NEW lag \in 0..LockWait, Claim(w, r, lag) PROVE age'[q] = age[q]
    BY <1>1, <2>1 DEF Claim, IsNextEligible, Eligible, Queued, StoreTypeOK,
       InterruptibleRunStatuses
  <2>2. ASSUME NEW lag \in 0..LockWait, Heartbeat(w, r, lag) PROVE age'[q] = age[q]
    BY <1>1, <1>2, <2>2 DEF Heartbeat, Owns, StoreTypeOK
  <2>3. CASE \/ MarkRunning(w, r) \/ BeginStopping(w, r)
             \/ AppendEvent(w, r) \/ EnterFill(w, r)
    BY <2>3 DEF MarkRunning, BeginStopping, OwnedTransition, AppendEvent, EnterFill
  <2>4. CASE \E s \in TerminalRunStatuses : Finish(w, r, s)
    BY <2>4 DEF Finish, TerminateRun
  <2>5. QED
    BY <1>4, <2>1, <2>2, <2>3, <2>4 DEF WorkerTransaction
<1>5. ASSUME NEW r \in Run, RunTransaction(r) PROVE age'[q] > LeaseTicks
  BY <1>5 DEF RunTransaction, Launch, FailQueued, RequestStop, InterruptExpired,
     OperatorStopRun, LeaveFill, TerminateRun, TerminateRuns
<1>6. ASSUME NEW u \in User, Suspend(u) \/ ResumeAccount(u) PROVE age'[q] > LeaseTicks
  BY <1>6 DEF Suspend, ResumeAccount, TerminateRuns
<1>7. ASSUME StopAll \/ ResumeAdmissions \/ UNCHANGED storeVars PROVE age'[q] > LeaseTicks
  BY <1>7 DEF StopAll, TerminateRuns, ResumeAdmissions, storeVars
<1>8. ASSUME Tick PROVE age'[q] > LeaseTicks
  BY <1>1, <1>2, <1>8 DEF Tick, AgeLimit
<1>9. QED
  BY <1>4, <1>5, <1>6, <1>7, <1>8 DEF StoreNext

(* No worker ever revives a lease that expired, however late its heartbeat.  *)
THEOREM LeasesStayLost == StoreSpec => ExpiredLeaseStaysLost
<1>1. StoreTypeOK /\ [StoreNext]_storeVars =>
        [\A r \in Run : /\ r \in Active
                       /\ age[r] > LeaseTicks
                       /\ status'[r] \in InterruptibleRunStatuses
                       => age'[r] > LeaseTicks]_storeVars
  BY StepKeepsExpiry
<1>2. QED
  BY <1>1, StoreTypeCorrect, PTL DEF StoreSpec, ExpiredLeaseStaysLost

-----------------------------------------------------------------------------
(* Control points: who works on which run *)

WorkingHasRun ==
  \A w \in Worker : pc[w] \notin {"idle", "select"} => picked[w] \in Run

ControlOK ==
  /\ pc \in [Worker -> Points]
  /\ picked \in [Worker -> Run \cup {NoRun}]
  /\ outcome \in [Worker -> Outcomes]
  /\ mon \in [Worker -> MonitorPoints]
  /\ bots \subseteq Run
  /\ scan \subseteq Run
  /\ scanAge \in 0..LockWait
  /\ failures \in 0..MaxFailures
  /\ WorkingHasRun

(* Whichever statement a worker takes next, it is about the run it picked.   *)
LEMMA WorkerKeepsControl ==
  ASSUME ControlOK, NEW w \in Worker, WorkerStep(w)
  PROVE  ControlOK'
<1> USE DEF ControlOK, WorkingHasRun, Goto, SetMonitor, HeadFor, recoveryVars
<1>1. CASE ReceiveHint(w)
  BY <1>1 DEF ReceiveHint, Points
<1>2. CASE SelectEligible(w)
  BY <1>2 DEF SelectEligible, Points
<1>3. CASE ClaimPicked(w)
  BY <1>3 DEF ClaimPicked, Release, Points, Outcomes, MonitorPoints
<1>4. CASE FailCorrupt(w)
  BY <1>4 DEF FailCorrupt, Release, Points, Outcomes, MonitorPoints
<1>5. CASE StartRunning(w)
  BY <1>5 DEF StartRunning, Points, MonitorPoints
<1>6. CASE ReadRefusal(w)
  BY <1>6 DEF ReadRefusal, Release, Points, Outcomes, MonitorPoints
<1>7. CASE DurationExpires(w)
  BY <1>7 DEF DurationExpires, Points, Outcomes
<1>8. CASE CleanupTasks(w)
  BY <1>8 DEF CleanupTasks, Points, Outcomes, MonitorPoints
<1>9. CASE BeginRunStop(w)
  BY <1>9 DEF BeginRunStop, Points
<1>10. CASE DrainObserver(w)
  BY <1>10 DEF DrainObserver, Points
<1>11. CASE FinishRun(w)
  BY <1>11 DEF FinishRun, Release, Points, Outcomes, MonitorPoints
<1>12. QED
  BY <1>1, <1>2, <1>3, <1>4, <1>5, <1>6, <1>7, <1>8, <1>9, <1>10, <1>11 DEF WorkerStep

LEMMA MonitorKeepsControl ==
  ASSUME ControlOK, NEW w \in Worker, MonitorStep(w)
  PROVE  ControlOK'
<1> USE DEF ControlOK, WorkingHasRun, Goto, SetMonitor, HeadFor, recoveryVars
<1>1. CASE PollStatus(w)
  BY <1>1 DEF PollStatus, MonitorPoints
<1>2. CASE PollHeartbeat(w)
  BY <1>2 DEF PollHeartbeat, Points, Outcomes, MonitorPoints
<1>3. CASE PollStop(w)
  BY <1>3 DEF PollStop, Points, Outcomes, MonitorPoints
<1>4. QED
  BY <1>1, <1>2, <1>3 DEF MonitorStep

(* Bots, failures, recovery and the control plane leave every worker with    *)
(* the run it had, or with none.                                             *)
LEMMA OthersKeepControl ==
  ASSUME ControlOK, [Next]_vars,
         \A w \in Worker : ~WorkerStep(w) /\ ~MonitorStep(w)
  PROVE  ControlOK'
<1> USE ExecutionAssumption, StoreAssumption
<1> USE DEF ControlOK, WorkingHasRun, Goto, SetMonitor, HeadFor, recoveryVars, workerVars
<1>1. ASSUME NEW w \in Worker, BotEnds(w) PROVE ControlOK'
  BY <1>1 DEF BotEnds, Points
<1>2. ASSUME NEW w \in Worker, PublishEvent(w) PROVE ControlOK'
  BY <1>2 DEF PublishEvent
<1>3. ASSUME NEW w \in Worker, Shutdown(w) PROVE ControlOK'
  BY <1>3 DEF Shutdown, Points, Outcomes, MonitorPoints
<1>4. ASSUME NEW w \in Worker, DependencyFails(w) PROVE ControlOK'
  BY <1>4 DEF DependencyFails, Points, Outcomes, MonitorPoints
<1>5. ASSUME NEW w \in Worker, Crash(w) PROVE ControlOK'
  BY <1>5 DEF Crash, Release, Points, Outcomes, MonitorPoints
<1>6. ASSUME NEW w \in Worker, NEW r \in Run, BotFill(w, r) PROVE ControlOK'
  BY <1>6 DEF BotFill
<1>7. ASSUME NEW r \in Run, FillDone(r) \/ StrayBotEnds(r) \/ RecoverOne(r)
      PROVE  ControlOK'
  BY <1>7 DEF FillDone, StrayBotEnds, RecoverOne
<1>8. CASE RecoveryScan \/ RecoveryTimesOut
  BY <1>8 DEF RecoveryScan, RecoveryTimesOut, Active
<1>9. CASE TimePasses
  BY <1>9 DEF TimePasses
<1>10. CASE ControlPlane \/ UNCHANGED vars
  BY <1>10 DEF ControlPlane, vars
<1>11. QED
  BY <1>1, <1>2, <1>3, <1>4, <1>5, <1>6, <1>7, <1>8, <1>9, <1>10 DEF Next

LEMMA ControlStays == Spec => []ControlOK
<1>1. Init => ControlOK
  BY StoreAssumption, ExecutionAssumption
     DEF Init, ControlOK, WorkingHasRun, Points, Outcomes, MonitorPoints
<1>2. ControlOK /\ [Next]_vars => ControlOK'
  BY WorkerKeepsControl, MonitorKeepsControl, OthersKeepControl
<1>3. QED
  BY <1>1, <1>2, PTL DEF Spec

-----------------------------------------------------------------------------
(* Every step uses the store through one of its transactions *)

(* A transaction of the store other than the end of an execution, or none.   *)
PlainStep ==
  \/ \E r \in Run, w \in Worker :
       \/ \E lag \in 0..LockWait : Claim(w, r, lag) \/ Heartbeat(w, r, lag)
       \/ MarkRunning(w, r) \/ BeginStopping(w, r)
       \/ AppendEvent(w, r) \/ EnterFill(w, r)
  \/ \E r \in Run : RunTransaction(r)
  \/ \E u \in User : Suspend(u) \/ ResumeAccount(u)
  \/ StopAll
  \/ ResumeAdmissions
  \/ Tick
  \/ UNCHANGED storeVars

(* The end of an execution, by the worker that cleaned up behind it.         *)
FinishStep(w) == FinishRun(w) /\ Finish(w, picked[w], outcome[w])

LEMMA WorkerUsesStore ==
  ASSUME ControlOK, NEW w \in Worker, WorkerStep(w) \/ MonitorStep(w)
  PROVE  PlainStep \/ FinishStep(w)
<1> USE DEF ControlOK, WorkingHasRun, PlainStep
<1>1. CASE ReceiveHint(w) \/ SelectEligible(w) \/ ReadRefusal(w) \/ CleanupTasks(w)
           \/ DrainObserver(w) \/ PollStatus(w)
  BY <1>1 DEF ReceiveHint, SelectEligible, ReadRefusal, CleanupTasks, DrainObserver,
     PollStatus
<1>2. CASE ClaimPicked(w)
  BY <1>2 DEF ClaimPicked
<1>3. CASE FailCorrupt(w)
  BY <1>3 DEF FailCorrupt, RunTransaction
<1>4. CASE StartRunning(w)
  BY <1>4 DEF StartRunning
<1>5. CASE DurationExpires(w)
  BY <1>5 DEF DurationExpires
<1>6. CASE BeginRunStop(w)
  BY <1>6 DEF BeginRunStop
<1>7. CASE FinishRun(w)
  BY <1>7 DEF FinishRun, FinishStep
<1>8. CASE PollHeartbeat(w)
  BY <1>8 DEF PollHeartbeat
<1>9. CASE PollStop(w)
  BY <1>9 DEF PollStop
<1>10. QED
  BY <1>1, <1>2, <1>3, <1>4, <1>5, <1>6, <1>7, <1>8, <1>9 DEF WorkerStep, MonitorStep

LEMMA StepUsesStore ==
  ASSUME ControlOK, StoreTypeOK, [Next]_vars
  PROVE  PlainStep \/ \E w \in Worker : FinishStep(w)
<1> USE DEF ControlOK, WorkingHasRun
<1>1. ASSUME NEW w \in Worker, BotEnds(w) \/ Shutdown(w) \/ DependencyFails(w)
      PROVE  PlainStep
  BY <1>1 DEF PlainStep, BotEnds, Shutdown, DependencyFails
<1>2. ASSUME NEW w \in Worker, PublishEvent(w) PROVE PlainStep
  BY <1>2 DEF PlainStep, PublishEvent
<1>3. ASSUME NEW w \in Worker, Crash(w) PROVE PlainStep
  <2>1. CASE picked[w] \in filling
    <3>1. picked[w] \in Run
      BY <2>1 DEF StoreTypeOK
    <3>2. LeaveFill(picked[w])
      BY <1>3, <2>1 DEF Crash, LeaveFill, rowVars, gateVars
    <3>3. QED
      BY <3>1, <3>2 DEF PlainStep, RunTransaction
  <2>2. CASE picked[w] \notin filling
    BY <1>3, <2>2 DEF Crash, PlainStep, storeVars, rowVars, gateVars
  <2>3. QED
    BY <2>1, <2>2
<1>4. ASSUME NEW w \in Worker, NEW r \in Run, BotFill(w, r) PROVE PlainStep
  BY <1>4 DEF PlainStep, BotFill
<1>5. ASSUME NEW r \in Run, FillDone(r) \/ RecoverOne(r) PROVE PlainStep
  BY <1>5 DEF PlainStep, FillDone, RecoverOne, RunTransaction
<1>6. ASSUME NEW r \in Run, StrayBotEnds(r) PROVE PlainStep
  BY <1>6 DEF PlainStep, StrayBotEnds
<1>7. CASE RecoveryScan \/ RecoveryTimesOut \/ TimePasses \/ UNCHANGED vars
  BY <1>7 DEF PlainStep, RecoveryScan, RecoveryTimesOut, TimePasses, vars
<1>8. CASE ControlPlane
  BY <1>8 DEF PlainStep, ControlPlane, RunTransaction
<1>9. QED
  BY <1>1, <1>2, <1>3, <1>4, <1>5, <1>6, <1>7, <1>8, WorkerUsesStore DEF Next

LEMMA StoreStep ==
  ASSUME ControlOK, StoreTypeOK, [Next]_vars
  PROVE  [StoreNext]_storeVars
<1>1. PlainStep => [StoreNext]_storeVars
  BY DEF PlainStep, StoreNext, WorkerTransaction
<1>2. ASSUME NEW w \in Worker, FinishStep(w) PROVE StoreNext
  <2>1. picked[w] \in Run /\ outcome[w] \in TerminalRunStatuses
    BY <1>2, StatusFacts DEF FinishStep, FinishRun, ControlOK, WorkingHasRun, Outcomes
  <2>2. QED
    BY <1>2, <2>1 DEF FinishStep, StoreNext, WorkerTransaction
<1>3. QED
  BY <1>1, <1>2, StepUsesStore

(* Workers, recovery, operators and their failures are callers of the        *)
(* transactions: what holds of the runs table alone holds of the system.     *)
THEOREM ProcessesUseTheStore == Spec => StoreSpec
<1>1. Init => StoreInit /\ StoreTypeOK
  <2>1. StoreInit => StoreTypeOK
    BY StoreInitType
  <2>2. QED
    BY <2>1 DEF Init
<1>2. ControlOK /\ StoreTypeOK /\ [Next]_vars => [StoreNext]_storeVars /\ StoreTypeOK'
  BY StoreStep, StepKeepsTypes
<1>3. QED
  BY <1>1, <1>2, ControlStays, PTL DEF Spec, StoreSpec

-----------------------------------------------------------------------------
(* Executors and bots *)

Unclaimed == {Absent, "queued"}

(* The token names the coordinator that holds the run; a run whose execution *)
(* has not started, or ends as stopped, has no bot.                          *)
WorkerHolds(w) ==
  /\ pc[w] \in Holding =>
       token[picked[w]] = w /\ status[picked[w]] \notin Unclaimed
  /\ pc[w] \in {"claimed", "refused"} => picked[w] \notin bots
  /\ pc[w] \in {"begin_stopping", "drain", "finish"} /\ outcome[w] = "stopped" =>
       picked[w] \notin bots

BotsTrade == \A r \in bots : status[r] \notin Unclaimed \cup {"stopped"}

ExecutionInv == BotsTrade /\ \A w \in Worker : WorkerHolds(w)

(* A row that was claimed keeps its token and never waits again, and only    *)
(* the worker that finishes it records it as stopped.                        *)
LEMMA ClaimedRowsStay ==
  ASSUME StoreTypeOK, NEW q \in Run, status[q] \notin Unclaimed, PlainStep
  PROVE  /\ token'[q] = token[q]
         /\ status'[q] \notin Unclaimed
         /\ status'[q] = "stopped" => status[q] = "stopped"
<1> USE StatusFacts DEF Unclaimed, Absent, StoreTypeOK
<1>1. ASSUME NEW r \in Run, NEW s \in TerminalRunStatuses, TerminateRun(r, s),
             s = "stopped" => status[r] = "queued"
      PROVE  /\ token'[q] = token[q]
             /\ status'[q] \notin Unclaimed
             /\ status'[q] = "stopped" => status[q] = "stopped"
  BY <1>1 DEF TerminateRun
<1>2. ASSUME NEW S \in SUBSET Run, TerminateRuns(S)
      PROVE  /\ token'[q] = token[q]
             /\ status'[q] \notin Unclaimed
             /\ status'[q] = "stopped" => status[q] = "stopped"
  BY <1>2 DEF TerminateRuns
<1>3. ASSUME NEW r \in Run, NEW w \in Worker,
             \/ \E lag \in 0..LockWait : Claim(w, r, lag) \/ Heartbeat(w, r, lag)
             \/ MarkRunning(w, r) \/ BeginStopping(w, r)
             \/ AppendEvent(w, r) \/ EnterFill(w, r)
      PROVE  /\ token'[q] = token[q]
             /\ status'[q] \notin Unclaimed
             /\ status'[q] = "stopped" => status[q] = "stopped"
  BY <1>3 DEF Claim, IsNextEligible, Eligible, Queued, Heartbeat, MarkRunning,
     BeginStopping, OwnedTransition, AppendEvent, EnterFill
<1>4. ASSUME NEW r \in Run, RunTransaction(r)
      PROVE  /\ token'[q] = token[q]
             /\ status'[q] \notin Unclaimed
             /\ status'[q] = "stopped" => status[q] = "stopped"
  <2>1. CASE Launch(r) \/ LeaveFill(r)
    BY <2>1 DEF Launch, LeaveFill
  <2>2. CASE FailQueued(r) \/ RequestStop(r)
    BY <2>2, <1>1 DEF FailQueued, RequestStop
  <2>3. CASE \E since \in 0..LockWait : InterruptExpired(r, since)
    BY <2>3, <1>1 DEF InterruptExpired
  <2>4. CASE OperatorStopRun(r)
    BY <2>4, <1>2 DEF OperatorStopRun
  <2>5. QED
    BY <1>4, <2>1, <2>2, <2>3, <2>4 DEF RunTransaction
<1>5. ASSUME (\E u \in User : Suspend(u)) \/ StopAll
      PROVE  /\ token'[q] = token[q]
             /\ status'[q] \notin Unclaimed
             /\ status'[q] = "stopped" => status[q] = "stopped"
  <2>1. Unfinished \in SUBSET Run
    BY DEF Unfinished, Queued, Active
  <2>2. \A u \in User : Unfinished \cap OwnedBy(u) \in SUBSET Run
    BY <2>1
  <2>3. QED
    BY <1>5, <2>1, <2>2, <1>2 DEF Suspend, StopAll
<1>6. ASSUME \/ \E u \in User : ResumeAccount(u)
             \/ ResumeAdmissions \/ Tick \/ UNCHANGED storeVars
      PROVE  UNCHANGED <<token, status>>
  BY <1>6 DEF ResumeAccount, ResumeAdmissions, Tick, storeVars
<1>7. QED
  BY <1>3, <1>4, <1>5, <1>6 DEF PlainStep

(* A worker whose own part of the state stands still keeps its run, unless   *)
(* somebody starts a bot for it.                                             *)
LEMMA BystandersHold ==
  ASSUME ControlOK, StoreTypeOK, ExecutionInv, NEW v \in Worker,
         PlainStep \/ \E w \in Worker : w # v /\ FinishStep(w),
         UNCHANGED <<pc[v], picked[v], outcome[v]>>,
         picked[v] \notin bots' \ bots
  PROVE  WorkerHolds(v)'
<1>1. CASE pc[v] \notin Holding
  BY <1>1 DEF WorkerHolds, Holding, Points
<1>2. CASE pc[v] \in Holding
  <2>1. /\ picked[v] \in Run
        /\ token[picked[v]] = v
        /\ status[picked[v]] \notin Unclaimed
    BY <1>2 DEF ControlOK, WorkingHasRun, Holding, ExecutionInv, WorkerHolds
  <2>2. /\ token'[picked[v]] = v
        /\ status'[picked[v]] \notin Unclaimed
    <3>1. CASE PlainStep
      BY <2>1, <3>1, ClaimedRowsStay
    <3>2. ASSUME NEW w \in Worker, w # v, FinishStep(w)
          PROVE  token'[picked[v]] = v /\ status'[picked[v]] \notin Unclaimed
      <4>1. token[picked[w]] = w /\ outcome[w] \in {"stopped", "failed", "interrupted"}
        BY <3>2 DEF FinishStep, Finish, Owns, ControlOK, Outcomes
      <4>2. QED
        BY <2>1, <3>2, <4>1
           DEF FinishStep, Finish, TerminateRun, StoreTypeOK, Unclaimed, Absent
    <3>3. QED
      BY <3>1, <3>2
  <2>3. QED
    BY <2>1, <2>2 DEF ExecutionInv, WorkerHolds
<1>3. QED
  BY <1>1, <1>2

(* A transaction of the worker's own leaves it the run it holds. *)
LEMMA HeldRowStays ==
  ASSUME ControlOK, StoreTypeOK, ExecutionInv, NEW w \in Worker, PlainStep,
         pc[w] \in Holding
  PROVE  token'[picked[w]] = w /\ status'[picked[w]] \notin Unclaimed
<1>1. /\ picked[w] \in Run
      /\ token[picked[w]] = w
      /\ status[picked[w]] \notin Unclaimed
  BY DEF ControlOK, WorkingHasRun, Holding, ExecutionInv, WorkerHolds
<1>2. QED
  BY <1>1, ClaimedRowsStay

LEMMA WorkerStepHolds ==
  ASSUME ControlOK, StoreTypeOK, ExecutionInv, NEW w \in Worker,
         WorkerStep(w) \/ MonitorStep(w)
  PROVE  WorkerHolds(w)'
<1> USE DEF ControlOK, ExecutionInv, WorkerHolds, Goto, HeadFor, SetMonitor, Holding, Points
<1>1. CASE ReceiveHint(w)
  BY <1>1 DEF ReceiveHint
<1>2. CASE SelectEligible(w)
  BY <1>2 DEF SelectEligible
<1>3. CASE ClaimPicked(w)
  <2>1. CASE pc'[w] = "claimed"
    <3>1. PICK lag \in 0..LockWait : Claim(w, picked[w], lag)
      BY <1>3, <2>1 DEF ClaimPicked, Release
    <3>2. picked[w] \in Run /\ status[picked[w]] = "queued"
      BY <1>3, <3>1 DEF ClaimPicked, WorkingHasRun, Claim, IsNextEligible, Eligible, Queued
    <3>3. token'[picked[w]] = w /\ status'[picked[w]] = "starting"
      BY <3>1, <3>2 DEF Claim, StoreTypeOK
    <3>4. picked[w] \notin bots'
      BY <1>3, <3>2 DEF ClaimPicked, BotsTrade, Unclaimed
    <3>5. QED
      BY <1>3, <2>1, <3>3, <3>4 DEF ClaimPicked, Release, Unclaimed, Absent
  <2>2. CASE pc'[w] # "claimed"
    BY <1>3, <2>2 DEF ClaimPicked, Release
  <2>3. QED
    BY <2>1, <2>2
<1>4. CASE FailCorrupt(w)
  BY <1>4 DEF FailCorrupt, Release
<1>5. ASSUME pc[w] \in Holding, PlainStep
      PROVE  token'[picked[w]] = w /\ status'[picked[w]] \notin Unclaimed
  BY <1>5, HeldRowStays
<1>6. CASE StartRunning(w)
  <2>1. PlainStep
    BY <1>6, WorkerUsesStore DEF WorkerStep, FinishStep, FinishRun, StartRunning
  <2>2. QED
    BY <1>5, <1>6, <2>1 DEF StartRunning
<1>7. CASE ReadRefusal(w)
  BY <1>5, <1>7 DEF ReadRefusal, Release, PlainStep
<1>8. CASE DurationExpires(w)
  <2>1. PlainStep
    BY <1>8, WorkerUsesStore DEF WorkerStep, FinishStep, FinishRun, DurationExpires
  <2>2. QED
    BY <1>5, <1>8, <2>1 DEF DurationExpires
<1>9. CASE CleanupTasks(w)
  BY <1>5, <1>9 DEF CleanupTasks, PlainStep
<1>10. CASE BeginRunStop(w)
  <2>1. PlainStep
    BY <1>10, WorkerUsesStore DEF WorkerStep, FinishStep, FinishRun, BeginRunStop
  <2>2. QED
    BY <1>5, <1>10, <2>1 DEF BeginRunStop
<1>11. CASE DrainObserver(w)
  BY <1>5, <1>11 DEF DrainObserver, PlainStep
<1>12. CASE FinishRun(w)
  BY <1>12 DEF FinishRun, Release
<1>13. CASE MonitorStep(w)
  <2>1. PlainStep
    BY <1>13, WorkerUsesStore
       DEF MonitorStep, PollStatus, PollHeartbeat, PollStop, FinishStep, FinishRun
  <2>2. QED
    BY <1>5, <1>13, <2>1 DEF MonitorStep, PollStatus, PollHeartbeat, PollStop, Outcomes
<1>14. QED
  BY <1>1, <1>2, <1>3, <1>4, <1>6, <1>7, <1>8, <1>9, <1>10, <1>11, <1>12, <1>13
     DEF WorkerStep

(* Bots, failures, recovery, operators and time take no run from a worker    *)
(* that goes on working on it, and start no bot.                             *)
OnlyInterrupted(v) ==
  \/ UNCHANGED <<pc[v], picked[v], outcome[v]>>
  \/ pc'[v] = "idle"
  \/ /\ picked'[v] = picked[v]
     /\ pc[v] \in Holding
     /\ \/ pc'[v] = "cleanup"
        \/ pc'[v] = "drain" /\ outcome'[v] = "interrupted"

OthersIntact == bots' \subseteq bots /\ \A v \in Worker : OnlyInterrupted(v)

LEMMA OthersOnlyInterrupt ==
  ASSUME ControlOK, [Next]_vars,
         \A w \in Worker : ~WorkerStep(w) /\ ~MonitorStep(w)
  PROVE  OthersIntact
<1> USE DEF OthersIntact, OnlyInterrupted, ControlOK, Points, Holding, Goto, HeadFor, workerVars
<1>1. ASSUME NEW w \in Worker, BotEnds(w) \/ PublishEvent(w) PROVE OthersIntact
  BY <1>1 DEF BotEnds, PublishEvent
<1>2. ASSUME NEW w \in Worker, Shutdown(w) PROVE OthersIntact
  BY <1>2 DEF Shutdown
<1>3. ASSUME NEW w \in Worker, DependencyFails(w) PROVE OthersIntact
  BY <1>3 DEF DependencyFails
<1>4. ASSUME NEW w \in Worker, Crash(w) PROVE OthersIntact
  BY <1>4 DEF Crash, Release
<1>5. ASSUME NEW w \in Worker, NEW r \in Run, BotFill(w, r) PROVE OthersIntact
  BY <1>5 DEF BotFill
<1>6. ASSUME NEW r \in Run, FillDone(r) \/ StrayBotEnds(r) \/ RecoverOne(r)
      PROVE  OthersIntact
  BY <1>6 DEF FillDone, StrayBotEnds, RecoverOne
<1>7. CASE \/ RecoveryScan \/ RecoveryTimesOut \/ TimePasses \/ ControlPlane
           \/ UNCHANGED vars
  BY <1>7 DEF RecoveryScan, RecoveryTimesOut, TimePasses, ControlPlane, vars
<1> HIDE DEF OthersIntact, ControlOK
<1>8. QED
  BY <1>1, <1>2, <1>3, <1>4, <1>5, <1>6, <1>7 DEF Next

LEMMA OtherStepHolds ==
  ASSUME ControlOK, StoreTypeOK, ExecutionInv, NEW v \in Worker, [Next]_vars,
         \A w \in Worker : ~WorkerStep(w) /\ ~MonitorStep(w)
  PROVE  WorkerHolds(v)'
<1>1. PlainStep
  BY StepUsesStore DEF FinishStep, WorkerStep
<1>2. bots' \subseteq bots /\ OnlyInterrupted(v)
  BY OthersOnlyInterrupt DEF OthersIntact
<1>3. CASE UNCHANGED <<pc[v], picked[v], outcome[v]>>
  BY <1>1, <1>2, <1>3, BystandersHold
<1>4. CASE pc'[v] = "idle"
  BY <1>4 DEF WorkerHolds, Holding
<1>5. CASE /\ picked'[v] = picked[v]
           /\ pc[v] \in Holding
           /\ \/ pc'[v] = "cleanup"
              \/ pc'[v] = "drain" /\ outcome'[v] = "interrupted"
  BY <1>1, <1>5, HeldRowStays DEF WorkerHolds
<1>6. QED
  BY <1>2, <1>3, <1>4, <1>5 DEF OnlyInterrupted

(* While one worker takes a step, the others keep the runs they hold: a bot  *)
(* is only started for a run whose token names the starter.                  *)
LEMMA BesideWorkerHolds ==
  ASSUME ControlOK, StoreTypeOK, ExecutionInv, NEW w \in Worker, NEW v \in Worker \ {w},
         WorkerStep(w) \/ MonitorStep(w)
  PROVE  WorkerHolds(v)'
<1>1. PlainStep \/ FinishStep(w)
  BY WorkerUsesStore
<1>2. UNCHANGED <<pc[v], picked[v], outcome[v]>>
  BY DEF ControlOK, WorkerStep, ReceiveHint, SelectEligible, ClaimPicked, FailCorrupt,
     StartRunning, ReadRefusal, DurationExpires, CleanupTasks, BeginRunStop, DrainObserver,
     FinishRun, MonitorStep, PollStatus, PollHeartbeat, PollStop, Goto, HeadFor, Release
<1>3. bots' \subseteq bots \/ (bots' = bots \cup {picked[w]} /\ pc[w] = "claimed")
  BY DEF WorkerStep, ReceiveHint, SelectEligible, ClaimPicked, FailCorrupt,
     StartRunning, ReadRefusal, DurationExpires, CleanupTasks, BeginRunStop, DrainObserver,
     FinishRun, MonitorStep, PollStatus, PollHeartbeat, PollStop
<1>4. CASE bots' \subseteq bots
  BY <1>1, <1>2, <1>4, BystandersHold
<1>5. CASE pc[v] \notin Holding
  BY <1>2, <1>5 DEF WorkerHolds, Holding, ControlOK, Points
<1>6. CASE bots' = bots \cup {picked[w]} /\ pc[w] = "claimed" /\ pc[v] \in Holding
  <2>1. token[picked[w]] = w /\ token[picked[v]] = v
    BY <1>6 DEF ExecutionInv, WorkerHolds, Holding, Points
  <2>2. picked[v] # picked[w]
    BY <2>1
  <2>3. QED
    BY <1>1, <1>2, <1>6, <2>2, BystandersHold
<1>7. QED
  BY <1>3, <1>4, <1>5, <1>6

(* A bot trades only for a run that was started and is not recorded as       *)
(* stopped.                                                                  *)
LEMMA StepKeepsBots ==
  ASSUME ControlOK, StoreTypeOK, ExecutionInv, [Next]_vars
  PROVE  BotsTrade'
<1> SUFFICES ASSUME NEW r \in bots' PROVE status'[r] \notin Unclaimed \cup {"stopped"}
  BY DEF BotsTrade
<1>1. ASSUME r \in bots, PlainStep PROVE status'[r] \notin Unclaimed \cup {"stopped"}
  BY <1>1, ClaimedRowsStay DEF ControlOK, ExecutionInv, BotsTrade
<1>2. ASSUME NEW w \in Worker, FinishStep(w)
      PROVE  status'[r] \notin Unclaimed \cup {"stopped"}
  <2>1. /\ r \in bots
        /\ r \in Run /\ picked[w] \in Run
        /\ outcome[w] \in {"stopped", "failed", "interrupted"}
        /\ status' = [status EXCEPT ![picked[w]] = outcome[w]]
        /\ status[r] \notin Unclaimed \cup {"stopped"}
    BY <1>2 DEF FinishStep, FinishRun, Finish, TerminateRun, ControlOK, WorkingHasRun,
       Outcomes, ExecutionInv, BotsTrade
  <2>2. outcome[w] = "stopped" => picked[w] \notin bots
    BY <1>2 DEF FinishStep, FinishRun, ExecutionInv, WorkerHolds
  <2>3. QED
    BY <2>1, <2>2 DEF Unclaimed, Absent, StoreTypeOK
<1>3. ASSUME r \notin bots, PlainStep PROVE status'[r] \notin Unclaimed \cup {"stopped"}
  <2>1. \E w \in Worker : WorkerStep(w) \/ MonitorStep(w)
    BY <1>3, OthersOnlyInterrupt DEF OthersIntact
  <2>2. PICK w \in Worker : StartRunning(w) /\ r = picked[w] /\ MarkRunning(w, r)
    BY <1>3, <2>1
       DEF WorkerStep, ReceiveHint, SelectEligible, ClaimPicked, FailCorrupt,
       StartRunning, ReadRefusal, DurationExpires, CleanupTasks, BeginRunStop,
       DrainObserver, FinishRun, MonitorStep, PollStatus, PollHeartbeat, PollStop
  <2>3. r \in Run
    BY <2>2 DEF StartRunning, ControlOK, WorkingHasRun
  <2>4. status'[r] = "running"
    BY <2>2, <2>3 DEF MarkRunning, OwnedTransition, StoreTypeOK
  <2>5. QED
    BY <2>4 DEF Unclaimed, Absent
<1>4. QED
  BY <1>1, <1>2, <1>3, StepUsesStore

LEMMA ExecutionInvStep ==
  ASSUME ControlOK, StoreTypeOK, ExecutionInv, [Next]_vars
  PROVE  ExecutionInv'
<1>1. ASSUME NEW v \in Worker PROVE WorkerHolds(v)'
  <2>1. CASE \A w \in Worker : ~WorkerStep(w) /\ ~MonitorStep(w)
    BY <2>1, OtherStepHolds
  <2>2. ASSUME NEW w \in Worker, WorkerStep(w) \/ MonitorStep(w) PROVE WorkerHolds(v)'
    BY <2>2, WorkerStepHolds, BesideWorkerHolds
  <2>3. QED
    BY <2>1, <2>2
<1>2. QED
  BY <1>1, StepKeepsBots DEF ExecutionInv

LEMMA TypesStay == Spec => []StoreTypeOK
BY ProcessesUseTheStore, StoreTypeCorrect, PTL

LEMMA HoldersStay == Spec => []ExecutionInv
<1>1. Init => ExecutionInv
  BY DEF Init, ExecutionInv, BotsTrade, WorkerHolds, Holding
<1>2. ControlOK /\ StoreTypeOK /\ ExecutionInv /\ [Next]_vars => ExecutionInv'
  BY ExecutionInvStep
<1>3. QED
  BY <1>1, <1>2, ControlStays, TypesStay, PTL DEF Spec

(* No two coordinators ever execute the same run, and no bot goes on trading *)
(* for a run recorded as stopped, whatever hints, stale selections, stops,   *)
(* crashes, shutdowns and recoveries overlap.                                *)
THEOREM ExecutionStaysConsistent == Spec => []ExecutionConsistent
<1>1. ControlOK /\ StoreTypeOK /\ ExecutionInv => ExecutionConsistent
  <2> SUFFICES ASSUME ControlOK, StoreTypeOK, ExecutionInv PROVE ExecutionConsistent
    OBVIOUS
  <2>1. TypeOK
    BY DEF TypeOK, ControlOK
  <2>2. OneExecutor
    BY DEF OneExecutor, ExecutionInv, WorkerHolds
  <2>3. StoppedMeansBotGone
    BY DEF StoppedMeansBotGone, ExecutionInv, BotsTrade
  <2>4. QED
    BY <2>1, <2>2, <2>3 DEF ExecutionConsistent
<1>2. QED
  BY <1>1, ControlStays, TypesStay, HoldersStay, PTL

-----------------------------------------------------------------------------
(* Order of claims *)

(* Only a claim, which evaluates the queue anew, starts a run.               *)
LEMMA StartsAreClaims ==
  ASSUME StoreTypeOK, NEW r \in Run, status[r] = "queued", status'[r] = "starting",
         PlainStep
  PROVE  IsNextEligible(r)
<1> USE StatusFacts DEF StoreTypeOK
<1>1. ASSUME NEW q \in Run, NEW w \in Worker, NEW lag \in 0..LockWait, Claim(w, q, lag)
      PROVE  IsNextEligible(r)
  BY <1>1 DEF Claim
<1>2. ASSUME NEW q \in Run, NEW w \in Worker,
             \/ \E lag \in 0..LockWait : Heartbeat(w, q, lag)
             \/ MarkRunning(w, q) \/ BeginStopping(w, q)
             \/ AppendEvent(w, q) \/ EnterFill(w, q)
      PROVE  FALSE
  BY <1>2 DEF Heartbeat, MarkRunning, BeginStopping, OwnedTransition, AppendEvent, EnterFill
<1>3. ASSUME NEW q \in Run, RunTransaction(q) PROVE FALSE
  BY <1>3 DEF RunTransaction, Launch, FailQueued, RequestStop, InterruptExpired,
     OperatorStopRun, LeaveFill, TerminateRun, TerminateRuns
<1>4. ASSUME NEW u \in User, Suspend(u) \/ ResumeAccount(u) PROVE FALSE
  BY <1>4 DEF Suspend, ResumeAccount, TerminateRuns
<1>5. ASSUME StopAll \/ ResumeAdmissions \/ Tick \/ UNCHANGED storeVars PROVE FALSE
  BY <1>5 DEF StopAll, TerminateRuns, ResumeAdmissions, Tick, storeVars
<1>6. QED
  BY <1>1, <1>2, <1>3, <1>4, <1>5 DEF PlainStep

(* A run is claimed before every older queued run only if those may not run. *)
LEMMA NextIsOldest ==
  ASSUME StoreTypeOK, NEW r \in Run, NEW q \in Run, IsNextEligible(r),
         status[q] = "queued", createdAt[q] < createdAt[r]
  PROVE  \/ Owner[q] \notin access
         \/ Cardinality(Active \cap OwnedBy(Owner[q])) >= ActiveRuns
<1>1. q \notin Eligible
  BY DEF IsNextEligible, StoreTypeOK
<1>2. Cardinality(Active \cap OwnedBy(Owner[q])) \in Nat
  BY StoreAssumption, FS_Subset, FS_CardinalityType DEF Active
<1>3. QED
  BY <1>1, <1>2, StoreAssumption DEF Eligible, Queued

(* No run overtakes an older one of an account that may run, however stale   *)
(* the selection its worker made.                                            *)
THEOREM OldestRunsFirst == Spec => OldestEligibleFirst
<1>1. ASSUME ControlOK, StoreTypeOK, [Next]_vars, NEW r \in Run, NEW q \in Run,
             status[r] = "queued", status'[r] = "starting",
             status[q] = "queued", createdAt[q] < createdAt[r]
      PROVE  \/ Owner[q] \notin access
             \/ Cardinality(Active \cap OwnedBy(Owner[q])) >= ActiveRuns
  <2>1. ASSUME NEW w \in Worker, FinishStep(w) PROVE FALSE
    BY <1>1, <2>1
       DEF FinishStep, Finish, TerminateRun, ControlOK, Outcomes, StoreTypeOK
  <2>2. PlainStep
    BY <1>1, <2>1, StepUsesStore
  <2>3. QED
    BY <1>1, <2>2, StartsAreClaims, NextIsOldest
<1>2. ControlOK /\ StoreTypeOK /\ [Next]_vars =>
        [\A r, q \in Run :
           (/\ status[r] = "queued" /\ status'[r] = "starting"
            /\ status[q] = "queued" /\ createdAt[q] < createdAt[r])
           => \/ Owner[q] \notin access
              \/ Cardinality(Active \cap OwnedBy(Owner[q])) >= ActiveRuns]_vars
  BY <1>1
<1>3. QED
  BY <1>2, ControlStays, TypesStay, PTL DEF Spec, OldestEligibleFirst

-----------------------------------------------------------------------------
(* The promise *)

Told(q, s) == Cardinality({i \in DOMAIN q : q[i] = s})

(* One more event is one more announcement of what it says.                  *)
LEMMA ToldOnceMore ==
  ASSUME NEW T, NEW q \in Seq(T), NEW e \in T, NEW s
  PROVE  /\ Told(q, s) \in Nat
         /\ Told(Append(q, e), s) = IF e = s THEN Told(q, s) + 1 ELSE Told(q, s)
<1> DEFINE At == {i \in DOMAIN q : q[i] = s}
           Then == {i \in DOMAIN Append(q, e) : Append(q, e)[i] = s}
           n == Len(q) + 1
<1>1. IsFiniteSet(At)
  <2>1. At \subseteq 1..Len(q)
    OBVIOUS
  <2>2. IsFiniteSet(1..Len(q))
    BY FS_Interval
  <2>3. QED
    BY <2>1, <2>2, FS_Subset
<1>2. Cardinality(At) \in Nat
  BY <1>1, FS_CardinalityType
<1>3. n \notin At
  OBVIOUS
<1>4. Then = IF e = s THEN At \cup {n} ELSE At
  OBVIOUS
<1>5. e = s => Cardinality(Then) = Cardinality(At) + 1
  BY <1>1, <1>3, <1>4, FS_AddElement
<1>6. QED
  BY <1>2, <1>4, <1>5 DEF Told

ResultOf(s) == IF s \in TerminalRunStatuses THEN s ELSE "none"

(* Steps that neither start nor end a run are no steps of the promise.       *)
LEMMA QuietStep ==
  ASSUME StoreTypeOK, UNCHANGED token,
         \A r \in Run : /\ Phase(status'[r]) = Phase(status[r])
                        /\ ResultOf(status'[r]) = ResultOf(status[r])
                        /\ log'[r] = log[r] \/ log'[r] = Append(log[r], "event")
  PROVE  UNCHANGED Promise!promiseVars
<1>1. ASSUME NEW r \in Run, NEW s \in Outcomes
      PROVE  Told(log'[r], s) = Told(log[r], s)
  <2>1. log[r] \in Seq({"event"} \cup TerminalRunStatuses)
    BY DEF StoreTypeOK
  <2>2. Told(Append(log[r], "event"), s) = Told(log[r], s)
    BY <2>1, ToldOnceMore DEF Outcomes
  <2>3. QED
    BY <2>2
<1>2. QED
  BY <1>1 DEF Promise!promiseVars, ResultOf, Told

(* Runs that end together are concluded and announced together.              *)
LEMMA ConcludeStep ==
  ASSUME StoreTypeOK, NEW S \in SUBSET Unfinished, S # {}, NEW how \in [S -> Outcomes],
         \A r \in S : status[r] = "queued" => how[r] # "interrupted",
         UNCHANGED token,
         status' = [r \in Run |-> IF r \in S THEN how[r] ELSE status[r]],
         log' = [r \in Run |-> IF r \in S THEN Append(log[r], how[r]) ELSE log[r]]
  PROVE  Promise!Conclude(S, how)
<1> USE StatusFacts DEF Outcomes, Absent
<1>1. S \subseteq Run
  BY DEF Unfinished, Queued, Active
<1>2. \A r \in S : Phase(status[r]) = (IF status[r] = "queued" THEN "waiting" ELSE "executing")
  BY DEF Phase, Unfinished, Queued, Active
<1>3. \A r \in S : Phase(status'[r]) = "concluded"
  BY <1>1 DEF Phase
<1>4. ASSUME NEW r \in Run, NEW s \in Outcomes
      PROVE  Told(log'[r], s) =
               IF r \in S /\ s = how[r] THEN Told(log[r], s) + 1 ELSE Told(log[r], s)
  <2>1. log[r] \in Seq({"event"} \cup TerminalRunStatuses)
    BY DEF StoreTypeOK
  <2>2. QED
    BY <2>1, ToldOnceMore
<1>5. QED
  BY <1>1, <1>2, <1>3, <1>4 DEF Promise!Conclude, Promise!Results, Told

LEMMA EndIsConclusion ==
  ASSUME StoreTypeOK, NEW r \in Unfinished, NEW s \in TerminalRunStatuses,
         TerminateRun(r, s), status[r] = "queued" => s # "interrupted"
  PROVE  Promise!Next
<1> DEFINE how == [x \in {r} |-> s]
<1>1. r \in Run
  BY DEF Unfinished, Queued, Active
<1>2. Promise!Conclude({r}, how)
  <2>1. how \in [{r} -> Outcomes] /\ how[r] = s
    BY StatusFacts DEF Outcomes
  <2>2. /\ status' = [x \in Run |-> IF x \in {r} THEN how[x] ELSE status[x]]
        /\ log' = [x \in Run |-> IF x \in {r} THEN Append(log[x], how[x]) ELSE log[x]]
        /\ UNCHANGED token
    BY <1>1 DEF TerminateRun, StoreTypeOK
  <2> HIDE DEF how
  <2>3. QED
    BY <2>1, <2>2, ConcludeStep
<1>3. how \in [{r} -> Promise!Results]
  BY StatusFacts DEF Promise!Results
<1>4. QED
  BY <1>1, <1>2, <1>3 DEF Promise!Next

LEMMA EndsAreConclusions ==
  ASSUME StoreTypeOK, NEW S \in SUBSET Unfinished, TerminateRuns(S)
  PROVE  Promise!Next \/ UNCHANGED Promise!promiseVars
<1>1. S \subseteq Run
  BY DEF Unfinished, Queued, Active
<1>2. CASE S = {}
  BY <1>2, QuietStep DEF TerminateRuns, StoreTypeOK
<1>3. CASE S # {}
  <2>1. PICK how \in [S -> Outcomes] :
          how = [r \in S |-> IF status[r] = "queued" THEN "stopped" ELSE "interrupted"]
    BY DEF Outcomes
  <2>2. /\ \A r \in S : status[r] = "queued" => how[r] # "interrupted"
        /\ status' = [r \in Run |-> IF r \in S THEN how[r] ELSE status[r]]
        /\ log' = [r \in Run |-> IF r \in S THEN Append(log[r], how[r]) ELSE log[r]]
        /\ UNCHANGED token
    BY <1>1, <2>1 DEF TerminateRuns
  <2>3. Promise!Conclude(S, how)
    BY <1>3, <2>1, <2>2, ConcludeStep
  <2>4. QED
    BY <1>1, <2>3 DEF Promise!Next, Promise!Results, Outcomes
<1>4. QED
  BY <1>2, <1>3

(* A claim starts a run below both allowances.                               *)
LEMMA ClaimIsStart ==
  ASSUME StoreTypeOK, NEW r \in Run, NEW w \in Worker, NEW lag \in 0..LockWait,
         Claim(w, r, lag)
  PROVE  Promise!Next
<1> USE StatusFacts, StoreAssumption DEF StoreTypeOK
<1>1. /\ status[r] = "queued"
      /\ status' = [status EXCEPT ![r] = "starting"]
      /\ token' = [token EXCEPT ![r] = w]
      /\ log' = log
      /\ Cardinality(Active) < GlobalActiveRuns
      /\ Cardinality(Active \cap OwnedBy(Owner[r])) < ActiveRuns
  BY DEF Claim, IsNextEligible, Eligible, Queued
<1>2. /\ Promise!ExecutingFor({Owner[r]}) = Active \cap OwnedBy(Owner[r])
      /\ Promise!ExecutingFor(User) = Active
  BY DEF Promise!ExecutingFor, Active, OwnedBy, Phase, Absent
<1>3. \A S : Promise!Cardinality(S) = Cardinality(S)
  BY DEF Promise!Cardinality, Cardinality
<1>4. Phase(status[r]) = "waiting"
  BY <1>1 DEF Phase, Absent
<1>5. [x \in Run |-> Phase(status'[x])] =
        [[x \in Run |-> Phase(status[x])] EXCEPT ![r] = "executing"]
  BY <1>1 DEF Phase, Absent
<1>6. \A x \in Run : ResultOf(status'[x]) = ResultOf(status[x])
  BY <1>1 DEF ResultOf
<1>7. [x \in Run |-> ResultOf(status'[x])] = [x \in Run |-> ResultOf(status[x])]
  BY <1>6, Zenon
<1>8. [x \in Run |-> [s \in Outcomes |-> Told(log'[x], s)]] =
        [x \in Run |-> [s \in Outcomes |-> Told(log[x], s)]]
  BY <1>1, Zenon
<1>9. Promise!Start(r, w)
  BY ONLY <1>1, <1>2, <1>3, <1>4, <1>5, <1>7, <1>8
     DEF Promise!Start, ResultOf, Told
<1>10. QED
  BY <1>9 DEF Promise!Next

LEMMA StoreKeepsPromise ==
  ASSUME StoreTypeOK, [StoreNext]_storeVars
  PROVE  Promise!Next \/ UNCHANGED Promise!promiseVars
<1> USE StatusFacts
<1>1. ASSUME UNCHANGED <<status, token, log>> PROVE UNCHANGED Promise!promiseVars
  BY <1>1, QuietStep
<1>2. ASSUME NEW r \in Run, NEW s \in InterruptibleRunStatuses,
             status[r] \in InterruptibleRunStatuses,
             status' = [status EXCEPT ![r] = s], UNCHANGED <<token, log>>
      PROVE  UNCHANGED Promise!promiseVars
  BY <1>2, QuietStep DEF Phase, ResultOf, Absent, StoreTypeOK
<1>3. \A r \in Run : status[r] \in InterruptibleRunStatuses \cup {"queued"} => r \in Unfinished
  BY DEF Unfinished, Queued, Active
<1>4. ASSUME NEW r \in Run, NEW w \in Worker, WorkerTransaction(w, r)
      PROVE  Promise!Next \/ UNCHANGED Promise!promiseVars
  <2>1. CASE \E lag \in 0..LockWait : Claim(w, r, lag)
    BY <2>1, ClaimIsStart
  <2>2. CASE MarkRunning(w, r) \/ BeginStopping(w, r)
    BY <2>2, <1>2, PreviousFacts DEF MarkRunning, BeginStopping, OwnedTransition
  <2>3. CASE EnterFill(w, r) \/ \E lag \in 0..LockWait : Heartbeat(w, r, lag)
    BY <2>3, <1>1 DEF EnterFill, Heartbeat
  <2>4. CASE \E s \in TerminalRunStatuses : Finish(w, r, s)
    BY <2>4, <1>3, EndIsConclusion DEF Finish, Owns
  <2>5. CASE AppendEvent(w, r)
    BY <2>5, QuietStep DEF AppendEvent, StoreTypeOK
  <2>6. QED
    BY <1>4, <2>1, <2>2, <2>3, <2>4, <2>5 DEF WorkerTransaction
<1>5. ASSUME NEW r \in Run, RunTransaction(r)
      PROVE  Promise!Next \/ UNCHANGED Promise!promiseVars
  <2>1. CASE Launch(r)
    <3>1. Promise!Submit(r)
      BY <2>1 DEF Launch, Promise!Submit, Phase, StoreTypeOK, Absent
    <3>2. QED
      BY <3>1 DEF Promise!Next
  <2>2. CASE FailQueued(r)
    BY <2>2, <1>3, EndIsConclusion DEF FailQueued
  <2>3. CASE RequestStop(r)
    BY <2>3, <1>2, <1>3, EndIsConclusion DEF RequestStop, OwnedStopPreviousStatuses
  <2>4. CASE \E since \in 0..LockWait : InterruptExpired(r, since)
    BY <2>4, <1>3, EndIsConclusion, PreviousFacts DEF InterruptExpired
  <2>5. CASE OperatorStopRun(r)
    BY <2>5, EndsAreConclusions DEF OperatorStopRun
  <2>6. CASE LeaveFill(r)
    BY <2>6, <1>1 DEF LeaveFill
  <2>7. QED
    BY <1>5, <2>1, <2>2, <2>3, <2>4, <2>5, <2>6 DEF RunTransaction
<1>6. ASSUME (\E u \in User : Suspend(u)) \/ StopAll
      PROVE  Promise!Next \/ UNCHANGED Promise!promiseVars
  BY <1>6, EndsAreConclusions DEF Suspend, StopAll
<1>7. ASSUME \/ \E u \in User : ResumeAccount(u)
             \/ ResumeAdmissions \/ Tick \/ UNCHANGED storeVars
      PROVE  UNCHANGED Promise!promiseVars
  BY <1>7, <1>1 DEF ResumeAccount, ResumeAdmissions, Tick, storeVars
<1>8. QED
  BY <1>4, <1>5, <1>6, <1>7 DEF StoreNext

(* However rows, leases, workers and recovery behave, an account holder sees *)
(* runs that execute once, within the allowances, and conclude once, with    *)
(* exactly one announcement of the conclusion the row has.                   *)
THEOREM ProcessesKeepThePromise == Spec => KeepsPromise
<1>1. StoreInit => Promise!Init
  <2> SUFFICES ASSUME StoreInit PROVE Promise!Init
    OBVIOUS
  <2>1. \A r \in Run, s \in Outcomes : {i \in DOMAIN log[r] : log[r][i] = s} = {}
    BY DEF StoreInit
  <2>2. Cardinality({}) = 0
    BY FS_EmptySet
  <2>3. QED
    BY <2>1, <2>2, StatusFacts
       DEF StoreInit, Promise!Init, Promise!Results, Outcomes, Phase, Absent
<1>2. StoreTypeOK /\ [StoreNext]_storeVars => [Promise!Next]_(Promise!promiseVars)
  BY StoreKeepsPromise
<1>3. QED
  BY <1>1, <1>2, ProcessesUseTheStore, TypesStay, PTL
     DEF StoreSpec, KeepsPromise, Promise!Spec

=============================================================================
