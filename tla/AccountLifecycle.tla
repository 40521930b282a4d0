-------------------------- MODULE AccountLifecycle --------------------------
(***************************************************************************)
(* What an account owns, and how it goes: bots and runs, deletion on the   *)
(* owner's request, retention of history, quarantine after a restore       *)
(* (api/lifecycle, api/bots/store.py, api/operations/control).             *)
(*                                                                         *)
(* Runs have the phases RunPromise gives them; RunExecution shows that the *)
(* control plane keeps to those, and leases, workers and allowances are    *)
(* left to it.  All transactions that create, claim or end runs, purge or  *)
(* restore hold the admission lock, so each is one action.  The maintenance *)
(* of a worker and that of the command line may come in any order.         *)
(*                                                                         *)
(* The durable events of a concluded run are numbered 1..Events;           *)
(* purged[r] of them, the oldest, are deleted.                             *)
(***************************************************************************)
EXTENDS AccountAccess, FiniteSetsExt

CONSTANTS
  Bot,            \* saved bots
  BotOwner,       \* BotOwner[b]: the account that saves b
  Run,            \* runs that may be launched
  BotOf,          \* BotOf[r]: the bot that r runs
  Events,         \* durable events of a run
  RetainedRuns,   \* PAPER_BETA.retained_runs
  EventBatch,     \* CLEANUP_EVENT_BATCH_SIZE
  RunBatch,       \* CLEANUP_RUN_BATCH_SIZE
  AccountBatch    \* CLEANUP_ACCOUNT_BATCH_SIZE

ASSUME LifecycleAssumption ==
  /\ BotOwner \in [Bot -> User]
  /\ BotOf \in [Run -> Bot]
  /\ IsFiniteSet(User) /\ IsFiniteSet(Run)
  /\ {Events, RetainedRuns} \subseteq Nat
  /\ {EventBatch, RunBatch, AccountBatch} \subseteq Nat \ {0}

VARIABLES
  bot,          \* bot[b]: "unsaved", "saved", "deleted" or "erased"
  phase,        \* phase[r]: "unborn", "waiting", "executing", "concluded", "erased"
  createdAt,    \* createdAt[r]: position in the order of created_at
  endedAt,      \* endedAt[r]: position in the order of ended_at
  aged,         \* runs that ended before the retention cutoff
  hidden,       \* runs with history_expired_at
  purged,       \* purged[r]: how many of its events are deleted
  requestedAt,  \* requestedAt[u]: position of its receipt in the order of requested_at
  paused        \* OperationControl.admissions_paused

runVars == <<phase, createdAt, endedAt, aged, hidden, purged>>
ownedVars == <<bot, runVars, requestedAt, paused>>
lifecycleVars == <<accessVars, ownedVars>>

Owner(r) == BotOwner[BotOf[r]]

LifecycleTypeOK ==
  /\ AccessTypeOK
  /\ bot \in [Bot -> {"unsaved", "saved", "deleted", "erased"}]
  /\ phase \in [Run -> {"unborn", "waiting", "executing", "concluded", "erased"}]
  /\ createdAt \in [Run -> Nat]
  /\ endedAt \in [Run -> Nat]
  /\ aged \subseteq Run
  /\ hidden \subseteq Run
  /\ purged \in [Run -> 0..Events]
  /\ requestedAt \in [User -> Nat]
  /\ paused \in BOOLEAN

LifecycleInit ==
  /\ AccessInit
  /\ bot = [b \in Bot |-> "unsaved"]
  /\ phase = [r \in Run |-> "unborn"]
  /\ createdAt = [r \in Run |-> 0]
  /\ endedAt = [r \in Run |-> 0]
  /\ aged = {} /\ hidden = {}
  /\ purged = [r \in Run |-> 0]
  /\ requestedAt = [u \in User |-> 0]
  /\ paused = FALSE

-----------------------------------------------------------------------------
InPhase(p) == {r \in Run : phase[r] = p}
Unfinished == InPhase("waiting") \cup InPhase("executing")
Rows == Unfinished \cup InPhase("concluded")
OwnedBy(u) == {r \in Run : Owner(r) = u}
BotsOf(u) == {b \in Bot : BotOwner[b] = u}

(* Bots and runs *)

CreateBot(q, b) ==
  /\ Handled(q)
  /\ Lockable(q.user) /\ q.user \in Access
  /\ bot[b] = "unsaved" /\ BotOwner[b] = q.user
  /\ bot' = [bot EXCEPT ![b] = "saved"]
  /\ UNCHANGED <<gateVars, profileVars, credentialVars, runVars, requestedAt, paused>>

SoftDelete(q, b) ==
  /\ Handled(q)
  /\ bot[b] = "saved" /\ BotOwner[b] = q.user
  /\ \A r \in Unfinished : BotOf[r] # b
  /\ bot' = [bot EXCEPT ![b] = "deleted"]
  /\ UNCHANGED <<gateVars, profileVars, credentialVars, runVars, requestedAt, paused>>

Launch(q, r) ==
  /\ Handled(q)
  /\ q.canLaunch /\ Owner(r) = q.user
  /\ bot[BotOf[r]] = "saved"
  /\ ~paused
  /\ Lockable(q.user) /\ q.user \in Access
  /\ phase[r] = "unborn"
  /\ phase' = [phase EXCEPT ![r] = "waiting"]
  /\ createdAt' = [createdAt EXCEPT ![r] = Cardinality(Run \ InPhase("unborn"))]
  /\ UNCHANGED <<gateVars, profileVars, credentialVars, bot, requestedAt, paused,
                 endedAt, aged, hidden, purged>>

Claim(r) ==
  /\ ~paused
  /\ phase[r] = "waiting" /\ Owner(r) \in Access
  /\ phase' = [phase EXCEPT ![r] = "executing"]
  /\ UNCHANGED <<accessVars, bot, requestedAt, paused,
                 createdAt, endedAt, aged, hidden, purged>>

\* The runs of S end together, as the last of those that ended so far.
ConcludeRuns(S) ==
  /\ phase' = [r \in Run |-> IF r \in S THEN "concluded" ELSE phase[r]]
  /\ endedAt' = [r \in Run |-> IF r \in S
                               THEN Cardinality(InPhase("concluded") \cup InPhase("erased"))
                               ELSE endedAt[r]]
  /\ UNCHANGED <<createdAt, aged, hidden, purged>>

Conclude(r) ==
  /\ r \in Unfinished
  /\ ConcludeRuns({r})
  /\ UNCHANGED <<accessVars, bot, requestedAt, paused>>

\* The retention cutoff passes the run that ended first among those it has not.
AgeRun(r) ==
  LET young == InPhase("concluded") \ aged
  IN /\ r \in young
     /\ \A o \in young : endedAt[r] <= endedAt[o]
     /\ aged' = aged \cup {r}
     /\ UNCHANGED <<accessVars, bot, requestedAt, paused,
                    phase, createdAt, endedAt, hidden, purged>>

-----------------------------------------------------------------------------
(* Gates *)

\* Operator suspension: AccountControls.suspend and terminate_account together
SuspendOwner(u) ==
  /\ SuspendAccount(u)
  /\ ConcludeRuns(Unfinished \cap OwnedBy(u))
  /\ UNCHANGED <<account, quarantined, request, profileVars, spent, viewVars,
                 bot, requestedAt, paused>>

\* Receipts are numbered as they come; one that is forgotten has been served.
ReceiptsSoFar == Cardinality({u \in User : request[u] # "none" \/ account[u] = "erased"})

RequestDeletion(q) ==
  /\ Handled(q)
  /\ Reauthenticated(q)
  /\ SuspendAccount(q.user)
  /\ ConcludeRuns(Unfinished \cap OwnedBy(q.user))
  /\ request' = [request EXCEPT ![q.user] = IF @ = "none" THEN "waiting" ELSE @]
  /\ requestedAt' = [requestedAt EXCEPT ![q.user] =
                       IF request[q.user] = "none" THEN ReceiptsSoFar ELSE @]
  /\ UNCHANGED <<account, quarantined, profileVars, spent, bot, paused>>

\* StopAll
StopEverything ==
  /\ paused' = TRUE
  /\ ConcludeRuns(Unfinished)
  /\ UNCHANGED <<accessVars, bot, requestedAt>>

ResumeAdmissions ==
  /\ paused' = FALSE
  /\ UNCHANGED <<accessVars, bot, runVars, requestedAt>>

\* RestoreQuarantine.apply; the UPDATE of all accounts waits for their locks
Quarantine ==
  /\ loggingIn = {}
  /\ paused' = TRUE
  /\ ConcludeRuns(Unfinished)
  /\ quarantined' = quarantined \cup Present
  /\ sessions' = {} /\ links' = {}
  /\ UNCHANGED <<account, suspended, request, profileVars, spent, viewVars,
                 bot, requestedAt>>

\* approve_reconciled_account
Approve(u) ==
  /\ paused
  /\ Lockable(u)
  /\ request[u] = "none"
  /\ u \notin suspended /\ u \in quarantined
  /\ quarantined' = quarantined \ {u}
  /\ UNCHANGED <<account, suspended, request, profileVars, credentialVars, viewVars,
                 bot, runVars, requestedAt, paused>>

-----------------------------------------------------------------------------
(* Maintenance *)

\* Mutant: a run is hidden by the batch that takes its last events.
PurgeRuns_HidesLast(S) ==
  LET gone == {r \in S : purged[r] + EventBatch >= Events}
  IN /\ hidden' = hidden \cup gone
     /\ purged' = [r \in Run |-> IF r \in gone THEN Events
                                 ELSE IF r \in S THEN purged[r] + EventBatch
                                 ELSE purged[r]]
     /\ phase' = [r \in Run |-> IF r \in gone THEN "erased" ELSE phase[r]]
     /\ UNCHANGED <<createdAt, endedAt, aged>>

\* TerminalHistoryPurger.purge of the runs S: each is hidden, loses a batch of its
\* oldest events, and its row once none is left.
PurgeRuns(S) ==
  LET gone == {r \in S : purged[r] + EventBatch >= Events}
  IN /\ hidden' = hidden \cup S
     /\ purged' = [r \in Run |-> IF r \in gone THEN Events
                                 ELSE IF r \in S THEN purged[r] + EventBatch
                                 ELSE purged[r]]
     /\ phase' = [r \in Run |-> IF r \in gone THEN "erased" ELSE phase[r]]
     /\ UNCHANGED <<createdAt, endedAt, aged>>

\* The deletion grace is over for the receipt that waited longest.
Quiesce(u) ==
  /\ request[u] = "waiting"
  /\ \A o \in User : request[o] = "waiting" => requestedAt[u] <= requestedAt[o]
  /\ request' = [request EXCEPT ![u] = "due"]
  /\ UNCHANGED <<account, suspended, quarantined, profileVars, credentialVars, viewVars,
                 bot, runVars, requestedAt, paused>>

Due == {u \in User : request[u] = "due"}

DueBatch ==
  {u \in Due : Cardinality({o \in Due : requestedAt[o] < requestedAt[u]}) < AccountBatch}

\* Mutant: a run that is hidden already is not taken again.
RunBatches_Shown(u) ==
  LET rows == (Rows \cap OwnedBy(u)) \ hidden
      size == IF Cardinality(rows) < RunBatch THEN Cardinality(rows) ELSE RunBatch
  IN kSubset(size, rows)

\* A batch of an account's runs, by an order of their ids that has no meaning
RunBatches(u) ==
  LET rows == Rows \cap OwnedBy(u)
      size == IF Cardinality(rows) < RunBatch THEN Cardinality(rows) ELSE RunBatch
  IN kSubset(size, rows)

\* Every run of u is gone once the runs of S are purged
Emptied(u, S) ==
  \A r \in Rows \cap OwnedBy(u) :
    r \in S \cap InPhase("concluded") /\ purged[r] + EventBatch >= Events

\* AccountPurger.clean, for the runs S of the batch
PurgeAccounts(S) ==
  LET finished == {u \in DueBatch : Emptied(u, S)}
  IN /\ DueBatch # {}
     /\ \A u \in DueBatch : /\ Lockable(u)
                            /\ S \cap OwnedBy(u) \in RunBatches(u)
     /\ \A r \in S : Owner(r) \in DueBatch
     /\ PurgeRuns(S \cap InPhase("concluded"))
     /\ account' = [u \in User |-> IF u \in finished THEN "erased" ELSE account[u]]
     /\ request' = [u \in User |-> IF u \in finished THEN "done" ELSE request[u]]
     /\ bot' = [b \in Bot |-> IF BotOwner[b] \in finished /\ bot[b] # "unsaved"
                              THEN "erased" ELSE bot[b]]
     /\ sessions' = {x \in sessions : x.user \notin finished}
     /\ links' = {k \in links : k.user \notin finished}
     /\ UNCHANGED <<suspended, quarantined, profileVars, spent, viewVars,
                    requestedAt, paused>>

\* Concluded runs of the same account created no earlier
Newer(r, S) == {o \in S : Owner(o) = Owner(r) /\ createdAt[o] >= createdAt[r]}

ExpiredHistory ==
  {r \in InPhase("concluded") :
     \/ r \in hidden
     \/ r \in aged
     \/ Cardinality(Newer(r, InPhase("concluded"))) > RetainedRuns}

ExpiredBatch ==
  {r \in ExpiredHistory :
     Cardinality({o \in ExpiredHistory : createdAt[o] < createdAt[r]}) < RunBatch}

\* HistoryRetention.clean
RetainHistory ==
  /\ ExpiredBatch # {}
  /\ PurgeRuns(ExpiredBatch)
  /\ UNCHANGED <<accessVars, bot, requestedAt, paused>>

\* AuditRetention.clean: completed receipts are forgotten in the end
ForgetReceipt(u) ==
  /\ request[u] = "done"
  /\ request' = [request EXCEPT ![u] = "none"]
  /\ UNCHANGED <<account, suspended, quarantined, profileVars, credentialVars, viewVars,
                 bot, runVars, requestedAt, paused>>

-----------------------------------------------------------------------------
Maintenance ==
  \/ \E S \in SUBSET Rows : PurgeAccounts(S)
  \/ RetainHistory
  \/ \E u \in User : Quiesce(u) \/ ForgetReceipt(u)

RequestAction(q) ==
  \/ \E b \in Bot : CreateBot(q, b) \/ SoftDelete(q, b)
  \/ \E r \in Run : Launch(q, r)
  \/ RequestDeletion(q)

LifecycleNext ==
  \/ AccessNext /\ UNCHANGED ownedVars
  \/ \E q \in inFlight : RequestAction(q)
  \/ \E r \in Run : Claim(r) \/ Conclude(r) \/ AgeRun(r)
  \/ \E u \in User : SuspendOwner(u) \/ Approve(u)
  \/ StopEverything
  \/ ResumeAdmissions
  \/ Quarantine
  \/ Maintenance

LifecycleSpec == LifecycleInit /\ [][LifecycleNext]_lifecycleVars

\* The worker's supervisor repeats the maintenance every minute; a row lock that a
\* login holds is granted to whoever waits for it in turn, and a login ends.
LifecycleFairness ==
  /\ \A u \in User : WF_lifecycleVars(Quiesce(u))
  /\ WF_lifecycleVars((\E n \in loggingIn : LoginFails(n)) /\ UNCHANGED ownedVars)
  /\ SF_lifecycleVars(\E S \in SUBSET Rows : PurgeAccounts(S))

FairLifecycleSpec == LifecycleSpec /\ LifecycleFairness

-----------------------------------------------------------------------------
\* Once its owner has asked for its deletion, an account never has access again, no
\* credential of it stands or is issued, and no run of it waits or executes, whatever
\* logins, links, operators and restores were under way (lifecycle/deletion/service.py,
\* lifecycle/restoration/state.py, operations/control/accounts.py).
DeletionIsFinal ==
  \A u \in User : request[u] # "none" =>
    /\ u \notin Access
    /\ SessionsOf(u) = {} /\ LinksOf(u) = {}
    /\ Unfinished \cap OwnedBy(u) = {}

\* No row outlives what it refers to: runs have bots, bots have accounts, and work
\* that is under way has a saved bot and an owner with access.  Deletion of a bot and
\* purge of an account race launches and requests that were authenticated before.
NothingDangles ==
  /\ \A r \in Rows : bot[BotOf[r]] \in {"saved", "deleted"}
  /\ \A b \in Bot : bot[b] \in {"saved", "deleted"} => BotOwner[b] \in Present
  /\ \A x \in sessions \cup links : x.user \in Present
  /\ \A r \in Unfinished : bot[BotOf[r]] = "saved" /\ Owner(r) \in Access

\* Rows, credentials and work stand only as long as what they stand on, through every
\* race of requests, operators and maintenance, and for good after a deletion request.
NothingOutlivesAccess == LifecycleTypeOK /\ NothingDangles /\ DeletionIsFinal

\* What a visibility query returns (HistorySelection.retained_run_ids_query)
Shown(r) ==
  LET retained == InPhase("concluded") \ (hidden \cup aged)
  IN r \in retained /\ Cardinality(Newer(r, retained)) <= RetainedRuns

\* A concluded run that its owner can still see has all its events: retention and
\* deletion take events batch by batch, in whichever order (lifecycle/history/purge.py).
VisibleHistoryIsWhole == \A r \in Run : Shown(r) => purged[r] = 0

\* A deletion that was requested is carried out, row by row, until the account is gone.
DeletionsComplete == \A u \in User : request[u] = "waiting" ~> account[u] = "erased"

=============================================================================
