----------------------------- MODULE RunPromise -----------------------------
(***************************************************************************)
(* What the control plane promises about paper runs, with no database,     *)
(* workers, leases or clocks: a submitted run is executed at most once and *)
(* by one executor, within the account and service allowances; it is       *)
(* concluded once; and its conclusion is announced exactly once.           *)
(***************************************************************************)
EXTENDS Naturals, FiniteSets

CONSTANTS Run, User, Owner, Executor, NoExecutor, PerUser, Overall

VARIABLES
  phase,      \* "unborn", "waiting", "executing" or "concluded"
  executor,   \* who executes, or executed, the run
  result,     \* how the run ended
  announced   \* how often subscribers were told that the run ended this way

promiseVars == <<phase, executor, result, announced>>

Results == {"stopped", "failed", "interrupted"}

Init ==
  /\ phase = [r \in Run |-> "unborn"]
  /\ executor = [r \in Run |-> NoExecutor]
  /\ result = [r \in Run |-> "none"]
  /\ announced = [r \in Run |-> [s \in Results |-> 0]]

ExecutingFor(S) == {r \in Run : phase[r] = "executing" /\ Owner[r] \in S}

Submit(r) ==
  /\ phase[r] = "unborn"
  /\ phase' = [phase EXCEPT ![r] = "waiting"]
  /\ UNCHANGED <<executor, result, announced>>

Start(r, x) ==
  /\ phase[r] = "waiting"
  /\ Cardinality(ExecutingFor({Owner[r]})) < PerUser
  /\ Cardinality(ExecutingFor(User)) < Overall
  /\ phase' = [phase EXCEPT ![r] = "executing"]
  /\ executor' = [executor EXCEPT ![r] = x]
  /\ UNCHANGED <<result, announced>>

\* Several runs may end together; one that never started is not interrupted.
Conclude(S, how) ==
  /\ S # {}
  /\ \A r \in S : \/ phase[r] = "executing"
                  \/ phase[r] = "waiting" /\ how[r] # "interrupted"
  /\ phase' = [r \in Run |-> IF r \in S THEN "concluded" ELSE phase[r]]
  /\ result' = [r \in Run |-> IF r \in S THEN how[r] ELSE result[r]]
  /\ announced' = [r \in Run |-> [s \in Results |->
                     IF r \in S /\ s = how[r] THEN announced[r][s] + 1
                                             ELSE announced[r][s]]]
  /\ UNCHANGED executor

Next ==
  \/ \E r \in Run : Submit(r) \/ \E x \in Executor : Start(r, x)
  \/ \E S \in SUBSET Run : \E how \in [S -> Results] : Conclude(S, how)

Spec == Init /\ [][Next]_promiseVars

=============================================================================
