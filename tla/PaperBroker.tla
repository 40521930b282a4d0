----------------------------- MODULE PaperBroker -----------------------------
(***************************************************************************)
(* Concurrent submissions to the paper broker (execution/paper/__init__.py)*)
(* and the settlement of resolved markets (cli/resolution/settlement.py),  *)
(* interleaved at their awaits.  A submission sleeps its latency, reads    *)
(* the book and the market twice, enters the host's execution scope,       *)
(* applies the fill in one uninterrupted turn and leaves the scope.  Orders *)
(* that carry a source id share one claim: the first call owns it, later   *)
(* ones wait for its answer.  Any call may be cancelled at any await.      *)
(*                                                                         *)
(* Book contents, ages and market metadata are reduced to whether their    *)
(* validation accepts; BookWalk models what an accepted book gives.        *)
(***************************************************************************)
EXTENDS Portfolio

CONSTANTS Calls,       \* submissions, retries of an order included
          OrderOf,     \* [token, side, source, named, valid] of each call
          NoSource,    \* the source of an order without one
          NoCall,
          MaxRevision  \* bound on the coverage gaps of a market

ASSUME CallsAssumption ==
  /\ \A c \in Calls : /\ OrderOf[c].token \in Tokens /\ OrderOf[c].side \in Sides
                      /\ OrderOf[c].named \in BOOLEAN /\ OrderOf[c].valid \in BOOLEAN
  /\ NoCall \notin Calls
  /\ MaxRevision \in Nat

Sources == {OrderOf[c].source : c \in Calls} \ {NoSource}

VARIABLES pc,          \* where each call is suspended
          answer,      \* what it returned
          claims,      \* _fills_by_source_id: the call that owns the claim
          outcome,     \* the future of the claim a call created
          receipt,     \* applied_fill of that claim
          waitsOn,     \* the owner a duplicate waits for
          startedAt,   \* book continuity when the call began
          continuity,  \* revision and blackout of each market
          tracked,     \* conditions in the TrackedMarketRegistry
          resolving,   \* the resolution the dispatch loop is applying
          applied,     \* history: calls whose fill reached the portfolio
          disturbed,   \* history: calls overtaken by a gap
          told         \* history: how often the bot heard of each resolution

callVars == <<pc, answer, claims, outcome, receipt, waitsOn, startedAt>>
worldVars == <<continuity, tracked, resolving, told>>
historyVars == <<applied, disturbed>>
brokerVars == <<ledgerVars, callVars, worldVars, historyVars>>

MarketOf(c) == ConditionOf[OrderOf[c].token]

Unset == [by |-> NoCall, status |-> "NONE"]
Pending == [by |-> NoCall, status |-> "PENDING"]
Broken == [by |-> NoCall, status |-> "RAISED"]
Filled(c) == [by |-> c, status |-> "FILLED"]
Rejected(c) == [by |-> c, status |-> "REJECTED"]

Quiet == [phase |-> "idle"]

BrokerInit ==
  /\ LedgerInit
  /\ pc = [c \in Calls |-> "idle"]
  /\ answer = [c \in Calls |-> Unset]
  /\ claims = [s \in Sources |-> NoCall]
  /\ outcome = [c \in Calls |-> Unset]
  /\ receipt = [c \in Calls |-> Unset]
  /\ waitsOn = [c \in Calls |-> NoCall]
  /\ startedAt = [c \in Calls |-> [revision |-> 0, blackout |-> FALSE]]
  /\ continuity = [m \in Conditions |-> [revision |-> 0, blackout |-> FALSE]]
  /\ tracked = {}
  /\ resolving = Quiet
  /\ applied = {} /\ disturbed = {}
  /\ told = [m \in Conditions |-> 0]

-----------------------------------------------------------------------------
(* submit: claims *)

Awaiting == {"waiting", "sleeping", "book1", "market1", "book2", "market2",
             "entering", "exiting"}

BeforeFill(c) == pc[c] \in Awaiting \ {"waiting", "exiting"}

OwnsClaim(c) == outcome[c] # Unset

\* _submit_once up to its first await
Begin(c) ==
  /\ pc' = [pc EXCEPT ![c] = "sleeping"]
  /\ startedAt' = [startedAt EXCEPT ![c] = continuity[MarketOf(c)]]
  /\ disturbed' = IF continuity[MarketOf(c)].blackout THEN disturbed \union {c}
                  ELSE disturbed

Submit(c) ==
  /\ pc[c] = "idle"
  /\ OrderOf[c].valid
  /\ LET s == OrderOf[c].source
     IN \/ /\ s = NoSource
           /\ Begin(c)
           /\ UNCHANGED <<claims, outcome, waitsOn>>
        \/ /\ s # NoSource /\ claims[s] = NoCall
           /\ claims' = [claims EXCEPT ![s] = c]
           /\ outcome' = [outcome EXCEPT ![c] = Pending]
           /\ Begin(c)
           /\ UNCHANGED waitsOn
        \/ /\ s # NoSource /\ claims[s] # NoCall
           /\ waitsOn' = [waitsOn EXCEPT ![c] = claims[s]]
           /\ pc' = [pc EXCEPT ![c] = "waiting"]
           /\ UNCHANGED <<claims, outcome, startedAt, disturbed>>
  /\ UNCHANGED <<ledgerVars, worldVars, applied, answer, receipt>>

\* validate_order fails before any claim is looked up.
RejectMalformed(c) ==
  /\ pc[c] = "idle"
  /\ ~OrderOf[c].valid
  /\ pc' = [pc EXCEPT ![c] = "answered"]
  /\ answer' = [answer EXCEPT ![c] = Rejected(c)]
  /\ UNCHANGED <<ledgerVars, worldVars, historyVars,
                 claims, outcome, receipt, waitsOn, startedAt>>

\* The owner returns: claim.complete(fill)
Return(c, a) ==
  /\ pc' = [pc EXCEPT ![c] = "answered"]
  /\ answer' = [answer EXCEPT ![c] = a]
  /\ outcome' = IF OwnsClaim(c) THEN [outcome EXCEPT ![c] = a] ELSE outcome
  /\ UNCHANGED <<claims, receipt, waitsOn, startedAt>>

\* Mutant: every raising owner fails and forgets its claim.
Raise_ForgetsReceipt(c) ==
  /\ pc' = [pc EXCEPT ![c] = "raised"]
  /\ outcome' = IF OwnsClaim(c) THEN [outcome EXCEPT ![c] = Broken] ELSE outcome
  /\ claims' = IF OwnsClaim(c) THEN [claims EXCEPT ![OrderOf[c].source] = NoCall]
               ELSE claims
  /\ UNCHANGED <<answer, receipt, waitsOn, startedAt>>

\* The owner raises: an applied fill stays as the receipt of its source id,
\* otherwise the claim fails and is forgotten.
Raise(c) ==
  /\ pc' = [pc EXCEPT ![c] = "raised"]
  /\ \/ /\ ~OwnsClaim(c)
        /\ UNCHANGED <<outcome, claims>>
     \/ /\ OwnsClaim(c) /\ receipt[c] # Unset
        /\ outcome' = [outcome EXCEPT ![c] = receipt[c]]
        /\ UNCHANGED claims
     \/ /\ OwnsClaim(c) /\ receipt[c] = Unset
        /\ outcome' = [outcome EXCEPT ![c] = Broken]
        /\ claims' = [claims EXCEPT ![OrderOf[c].source] = IF @ = c THEN NoCall ELSE @]
  /\ UNCHANGED <<answer, receipt, waitsOn, startedAt>>

\* A duplicate resumes when the shared future is done: same fill, or its error.
WakeWaiter(c) ==
  /\ pc[c] = "waiting"
  /\ outcome[waitsOn[c]] # Pending
  /\ IF outcome[waitsOn[c]] = Broken THEN Raise(c)
     ELSE Return(c, outcome[waitsOn[c]])
  /\ UNCHANGED <<ledgerVars, worldVars, historyVars>>

Cancel(c) ==
  /\ pc[c] \in Awaiting
  /\ Raise(c)
  /\ UNCHANGED <<ledgerVars, worldVars, historyVars>>

-----------------------------------------------------------------------------
(* _submit_once *)

\* Mutant: a gap that closed again goes unnoticed.
Disrupted_BlackoutOnly(c) ==
  startedAt[c].blackout \/ continuity[MarketOf(c)].blackout

\* BookContinuity.was_disrupted_by
Disrupted(c) ==
  LET now == continuity[MarketOf(c)]
  IN startedAt[c].blackout \/ now.blackout \/ now.revision # startedAt[c].revision

IsSettled(c) == MarketOf(c) \in settled

Advance(c, to) ==
  /\ pc' = [pc EXCEPT ![c] = to]
  /\ UNCHANGED <<answer, claims, outcome, receipt, waitsOn, startedAt>>

Reject(c) == Return(c, Rejected(c))

\* The latency sleep ends, or replay runs out of data and the order is rejected.
Wake(c) ==
  /\ pc[c] = "sleeping"
  /\ \/ Reject(c)
     \/ /\ ~Disrupted(c)
        /\ ~(OrderOf[c].named /\ IsSettled(c))
        /\ Advance(c, "book1")
  /\ UNCHANGED <<ledgerVars, worldVars, historyVars>>

\* books.latest answers: unusable books and failed reads reject the order.
ReadBook(c) ==
  /\ pc[c] \in {"book1", "book2"}
  /\ \/ Reject(c)
     \/ Advance(c, IF pc[c] = "book1" THEN "market1" ELSE "market2")
  /\ UNCHANGED <<ledgerVars, worldVars, historyVars>>

\* find_by_slug answers; a market settled meanwhile rejects the order.
ReadMarket(c) ==
  /\ pc[c] \in {"market1", "market2"}
  /\ \/ Reject(c)
     \/ /\ ~IsSettled(c)
        /\ Advance(c, IF pc[c] = "market1" THEN "book2" ELSE "entering")
  /\ UNCHANGED <<ledgerVars, worldVars, historyVars>>

\* FillOwnership refuses the lease, or its session cannot be opened.
ScopeRefused(c) ==
  /\ pc[c] = "entering"
  /\ Raise(c)
  /\ UNCHANGED <<ledgerVars, worldVars, historyVars>>

\* Mutant: the settled conditions are not read again once the scope is held.
Apply_SettlementUnseen(c) ==
  /\ pc[c] = "entering"
  /\ ~Disrupted(c)
  /\ \E fill \in FillsOf[OrderOf[c].side], fee \in Fees :
       ApplyFill(OrderOf[c].token, OrderOf[c].side, fill, fee)
  /\ applied' = applied \union {c}
  /\ answer' = [answer EXCEPT ![c] = Filled(c)]
  /\ receipt' = IF OwnsClaim(c) THEN [receipt EXCEPT ![c] = Filled(c)] ELSE receipt
  /\ pc' = [pc EXCEPT ![c] = "exiting"]
  /\ UNCHANGED <<worldVars, disturbed, claims, outcome, waitsOn, startedAt>>

\* The scope is held: revalidate and mutate without yielding.
Apply(c) ==
  /\ pc[c] = "entering"
  /\ ~IsSettled(c)
  /\ ~Disrupted(c)
  /\ \E fill \in FillsOf[OrderOf[c].side], fee \in Fees :
       ApplyFill(OrderOf[c].token, OrderOf[c].side, fill, fee)
  /\ applied' = applied \union {c}
  /\ answer' = [answer EXCEPT ![c] = Filled(c)]
  /\ receipt' = IF OwnsClaim(c) THEN [receipt EXCEPT ![c] = Filled(c)] ELSE receipt
  /\ pc' = [pc EXCEPT ![c] = "exiting"]
  /\ UNCHANGED <<worldVars, disturbed, claims, outcome, waitsOn, startedAt>>

\* One of the checks of that turn refuses: aged book, settled market, gap,
\* changed metadata or no depth within slippage.  The scope is still to be left.
RejectInScope(c) ==
  /\ pc[c] = "entering"
  /\ answer' = [answer EXCEPT ![c] = Rejected(c)]
  /\ pc' = [pc EXCEPT ![c] = "exiting"]
  /\ UNCHANGED <<ledgerVars, worldVars, historyVars,
                 claims, outcome, receipt, waitsOn, startedAt>>

\* Closing the scope awaits: it may raise after the fill has been applied.
LeaveScope(c) ==
  /\ pc[c] = "exiting"
  /\ Return(c, answer[c]) \/ Raise(c)
  /\ UNCHANGED <<ledgerVars, worldVars, historyVars>>

-----------------------------------------------------------------------------
(* The dispatch loop applies one market resolution at a time *)

\* Mutant: the registry tracks a condition it has seen resolved.
Track_Terminal(m) ==
  /\ m \notin tracked
  /\ tracked' = tracked \union {m}
  /\ UNCHANGED <<ledgerVars, callVars, historyVars, continuity, resolving, told>>

\* The registry refuses a condition it has seen resolved.
Track(m) ==
  /\ m \notin tracked \union settled
  /\ tracked' = tracked \union {m}
  /\ UNCHANGED <<ledgerVars, callVars, historyVars, continuity, resolving, told>>

ResolutionArrives(m, w) ==
  /\ resolving = Quiet
  /\ m \in tracked
  /\ resolving' = [phase |-> "entering", market |-> m, winner |-> w]
  /\ UNCHANGED <<ledgerVars, callVars, historyVars, continuity, tracked, told>>

\* settle_market, followed wallets and registry.resolve in one turn.
ApplyResolution ==
  /\ resolving.phase = "entering"
  /\ IF resolving.market \in settled THEN UNCHANGED ledgerVars
     ELSE SettleMarket(resolving.market, resolving.winner)
  /\ tracked' = tracked \ {resolving.market}
  /\ resolving' = [resolving EXCEPT !.phase = "exiting"]
  /\ UNCHANGED <<callVars, historyVars, continuity, told>>

\* The scope is refused, or settling fails and the snapshots are restored:
\* the error ends the run.
ResolutionFails ==
  /\ resolving.phase \in {"entering", "exiting"}
  /\ resolving' = [phase |-> "failed"]
  /\ UNCHANGED <<ledgerVars, callVars, historyVars, continuity, tracked, told>>

TellBot ==
  /\ resolving.phase = "exiting"
  /\ told' = [told EXCEPT ![resolving.market] = @ + 1]
  /\ resolving' = Quiet
  /\ UNCHANGED <<ledgerVars, callVars, historyVars, continuity, tracked>>

\* CoverageBlackouts.begin and recover_books_at (replay only)
GapBegins(m) ==
  /\ continuity[m].revision < MaxRevision
  /\ continuity' = [continuity EXCEPT ![m] =
                      [revision |-> @.revision + 1, blackout |-> TRUE]]
  /\ disturbed' = disturbed \union {c \in Calls : BeforeFill(c) /\ MarketOf(c) = m}
  /\ UNCHANGED <<ledgerVars, callVars, applied, tracked, resolving, told>>

GapRecovers(m) ==
  /\ continuity[m].blackout
  /\ continuity' = [continuity EXCEPT ![m].blackout = FALSE]
  /\ UNCHANGED <<ledgerVars, callVars, historyVars, tracked, resolving, told>>

-----------------------------------------------------------------------------
Progress(c) ==
  \/ WakeWaiter(c) \/ Wake(c) \/ ReadBook(c) \/ ReadMarket(c)
  \/ ScopeRefused(c) \/ Apply(c) \/ RejectInScope(c) \/ LeaveScope(c)

Resolve == ApplyResolution \/ ResolutionFails \/ TellBot

BrokerNext ==
  \/ \E c \in Calls : Submit(c) \/ RejectMalformed(c) \/ Cancel(c) \/ Progress(c)
  \/ \E m \in Conditions : Track(m) \/ GapBegins(m) \/ GapRecovers(m)
  \/ \E m \in Conditions : \E w \in TokensOf(m) : ResolutionArrives(m, w)
  \/ Resolve

BrokerSpec == BrokerInit /\ [][BrokerNext]_brokerVars

-----------------------------------------------------------------------------
Statuses == {"NONE", "PENDING", "RAISED", "FILLED", "REJECTED"}
Results == [by : Calls \union {NoCall}, status : Statuses]
Continuities == [revision : 0..MaxRevision, blackout : BOOLEAN]

BrokerTypeOK ==
  /\ pc \in [Calls -> Awaiting \union {"idle", "answered", "raised"}]
  /\ answer \in [Calls -> Results] /\ outcome \in [Calls -> Results]
  /\ receipt \in [Calls -> Results]
  /\ claims \in [Sources -> Calls \union {NoCall}]
  /\ waitsOn \in [Calls -> Calls \union {NoCall}]
  /\ \A c \in Calls : pc[c] = "waiting" => waitsOn[c] # NoCall
  /\ startedAt \in [Calls -> Continuities]
  /\ continuity \in [Conditions -> Continuities]
  /\ tracked \subseteq Conditions
  /\ applied \subseteq Calls /\ disturbed \subseteq Calls
  /\ told \in [Conditions -> Nat]

\* The calls that answer for a source id: its well-formed submissions.
SameSource(c, d) ==
  /\ OrderOf[c].source # NoSource /\ OrderOf[c].source = OrderOf[d].source
  /\ OrderOf[c].valid /\ OrderOf[d].valid

\* Retries, duplicates, cancelled owners and failing scopes never apply the
\* order of one source id to the portfolio twice, and no duplicate of an
\* applied order is answered with anything but its fill (173-180, 323-327).
AppliedOncePerSource ==
  \A c \in applied, d \in Calls : SameSource(c, d) =>
    /\ d \in applied => d = c
    /\ pc[d] = "answered" => answer[d] = Filled(c)

\* A source id has one answer, a rejection included, however often and however
\* concurrently it is submitted (157-171).
OneAnswerPerSource ==
  \A c, d \in Calls :
    SameSource(c, d) /\ pc[c] = "answered" /\ pc[d] = "answered"
      => answer[c] = answer[d]

\* A duplicate never waits in vain: the owner it waits for is still on its way to
\* an answer, or has left one.  Whatever cancels or fails an owner settles the
\* future its duplicates share (157-181).
WaitersAnswered ==
  \A c \in Calls : pc[c] = "waiting" =>
    \/ outcome[waitsOn[c]] \notin {Unset, Pending}
    \/ outcome[waitsOn[c]] = Pending /\ pc[waitsOn[c]] \in Awaiting \ {"waiting"}

\* However an order is retried, duplicated or cancelled, its source id stands for
\* one order: at most one fill, and one answer for everybody, which nobody awaits in
\* vain.
OneOrderPerSource ==
  BrokerTypeOK /\ AppliedOncePerSource /\ OneAnswerPerSource /\ WaitersAnswered

\* A fill is never priced on a book the feed lost between submission and fill.
NoFillAcrossGap == applied \intersect disturbed = {}

\* A resolution reaches the bot once, whatever tracks the market again, and every
\* position of a market is gone when it does (settlement.py 62-106).
BotToldOnce ==
  \A m \in Conditions : told[m] <= 1 /\ (told[m] = 1 => m \in settled)

=============================================================================
