---------------------------- MODULE WalletRuntime ----------------------------
(***************************************************************************)
(* The loop of a paper runtime (runtime/streams.py) for a bot that follows *)
(* wallets.  A cycle reads the bot's plan, opens the books of wallets it   *)
(* follows anew, settles what is already resolved and builds the streams;  *)
(* then it hands events to the bot one at a time until the plan or the     *)
(* registry of tracked markets changes.  The streams, with what they had   *)
(* received, are thrown away by the next cycle; the registry, the books of *)
(* followed wallets and the source keys the runner has seen are not.       *)
(*                                                                         *)
(* Time is in seconds, the resolution of a trade's timestamp.  The exchange *)
(* and its Data API, which shows a trade some time after it happened, are   *)
(* external.  Books, gaps and hints do not appear: StreamMerger has them.   *)
(***************************************************************************)
EXTENDS FollowedWallets

CONSTANTS Plans,       \* plans the bot may ask for
          Offers,      \* trades that may happen: [wallet, token, side, size, price]
          Marks,       \* prices a position may be marked at
          MaxAge,      \* event_max_age_ms
          Overlap,     \* the second a poll's window reaches back
          MaxTracked,  \* max_tracked_markets
          MaxTime, MaxTrades, MaxPlans  \* bounds of the model

ASSUME WindowAssumption == MaxAge \in Nat /\ Overlap \in Nat

VARIABLES now,
          trades,      \* the exchange: every trade, in order
          indexed,     \* those the Data API shows
          resolved,    \* winner of each resolved market
          wanted,      \* the plan the bot answers when asked
          asked,       \* how often it changed its mind
          phase,       \* where the loop is
          plan,        \* the plan of this cycle
          reading,     \* the wallet whose positions were read, and what it held
          stream,      \* last: of each selector; seen; inbox
          revision,    \* registry revision the cycle watches
          registry,    \* tracked and terminal markets, revision
          books,       \* the followed wallets' states
          claimed,     \* the runner's deduper
          heard,       \* history: trades given to the bot, in order
          closedAt     \* history: when the run settled a market

worldVars == <<now, trades, indexed, resolved, wanted, asked>>
cycleVars == <<phase, plan, reading, stream, revision>>
keptVars == <<registry, books, claimed, heard, closedAt>>
vars == <<worldVars, cycleVars, keptVars>>

Nobody == [wallet |-> Anyone, holding |-> NoHolding]
Unresolved == [m \in Markets |-> Anyone]

NewStream(p) ==
  [last |-> [s \in Selectors(p) |-> 0], seen |-> {}, inbox |-> <<>>]

Init ==
  /\ now = MaxAge
  /\ trades = <<>> /\ indexed = {} /\ resolved = Unresolved
  /\ wanted \in Plans /\ asked = 0
  /\ phase = "refresh" /\ plan = wanted /\ reading = Nobody
  /\ stream = NewStream({}) /\ revision = 0
  /\ registry = [tracked |-> {}, terminal |-> {}, revision |-> 0]
  /\ books = [w \in Wallets |-> Unknown]
  /\ claimed = {} /\ heard = <<>>
  /\ closedAt = [m \in Markets |-> 0]

-----------------------------------------------------------------------------
(* The exchange, its Data API and the bot's wishes *)

\* Trades and resolutions in the order they happened; nobody sells what he lacks.
Owned(w, t) ==
  MapThenSumSet(LAMBDA i : Signed(trades[i].side, trades[i].size),
                {i \in DOMAIN trades : trades[i].wallet = w /\ trades[i].token = t})

Tick ==
  /\ now < MaxTime
  /\ now' = now + 1
  /\ UNCHANGED <<trades, indexed, resolved, wanted, asked, cycleVars, keptVars>>

Happened(id, at, o) ==
  [id |-> id, at |-> at, wallet |-> o.wallet, token |-> o.token, side |-> o.side,
   size |-> o.size, price |-> o.price]

Trade(o) ==
  /\ Len(trades) < MaxTrades
  /\ resolved[MarketOf[o.token]] = Anyone
  /\ o.side = "SELL" => Owned(o.wallet, o.token) >= o.size
  /\ trades' = Append(trades, Happened(Len(trades) + 1, now, o))
  /\ UNCHANGED <<now, indexed, resolved, wanted, asked, cycleVars, keptVars>>

\* The Data API may show trades out of order, within the overlap of two polls.
Index(i) ==
  /\ i \in DOMAIN trades \ indexed
  /\ \A j \in DOMAIN trades \ indexed : trades[i].at <= trades[j].at + Overlap
  /\ indexed' = indexed \cup {i}
  /\ UNCHANGED <<now, trades, resolved, wanted, asked, cycleVars, keptVars>>

ExchangeResolves(m, t) ==
  /\ resolved[m] = Anyone /\ t \in TokensIn(m)
  /\ resolved' = [resolved EXCEPT ![m] = t]
  /\ UNCHANGED <<now, trades, indexed, wanted, asked, cycleVars, keptVars>>

ChangesItsMind(p) ==
  /\ asked < MaxPlans /\ p # wanted
  /\ wanted' = p /\ asked' = asked + 1
  /\ UNCHANGED <<now, trades, indexed, resolved, cycleVars, keptVars>>

-----------------------------------------------------------------------------
(* TrackedMarketRegistry *)

IsTerminal(m) == m \in registry.terminal

Adding(ms) == ms \ (registry.tracked \cup registry.terminal)

HasCapacity(ms) ==
  Adding(ms) = {} \/ Cardinality(registry.tracked \cup Adding(ms)) <= MaxTracked

WithMarkets(r, ms) ==
  LET added == ms \ (r.tracked \cup r.terminal)
  IN [r EXCEPT !.tracked = @ \cup added, !.revision = @ + Cardinality(added)]

Without(r, ms) ==
  [tracked |-> r.tracked \ ms, terminal |-> r.terminal \cup ms,
   revision |-> r.revision + Cardinality(ms)]

-----------------------------------------------------------------------------
(* A cycle: run_runtime_streams up to merge_streams *)

\* TrackedMarketLimitExceeded ends the run.
Fails ==
  /\ phase' = "failed"
  /\ UNCHANGED <<worldVars, plan, reading, stream, revision, keptVars>>

\* FollowedWalletSynchronizer asks the tracker only when the plan follows someone.
Synchronize(p) ==
  IF DiscoveryWallets(p) = {} THEN books
  ELSE [w \in Wallets |-> Synchronized(books[w], w \in DiscoveryWallets(p))]

Refresh ==
  /\ phase = "refresh"
  /\ IF ~HasCapacity(ConfiguredMarkets(wanted)) THEN Fails
     ELSE /\ plan' = wanted
          /\ registry' = WithMarkets(registry, ConfiguredMarkets(wanted))
          /\ books' = Synchronize(wanted)
          /\ phase' = "bootstrap"
          /\ UNCHANGED <<worldVars, reading, stream, revision, claimed, heard, closedAt>>

ToBootstrap == {w \in DiscoveryWallets(plan) : NeedsBootstrap(books[w])}

InScope(w, t) ==
  DiscoveryScope(plan, w) = {} \/ MarketOf[t] \in DiscoveryScope(plan, w)

\* The positions as the exchange has them when it answers, marked at some price.
ReadPositions(w, mark) ==
  /\ phase = "bootstrap" /\ reading = Nobody /\ w \in ToBootstrap
  /\ reading' = [wallet |-> w,
                 holding |-> [t \in Tokens |->
                                IF InScope(w, t) /\ Owned(w, t) > 0
                                THEN [size |-> Owned(w, t), mark |-> mark]
                                ELSE NoHolding[t]]]
  /\ UNCHANGED <<worldVars, phase, plan, stream, revision, keptVars>>

HeldMarkets(holding) == {MarketOf[t] : t \in {u \in Tokens : holding[u].size > 0}}

\* After the books of the positions were read.
Bootstrap ==
  LET w == reading.wallet
      ms == HeldMarkets(reading.holding) IN
  /\ phase = "bootstrap" /\ reading # Nobody
  /\ IF ~HasCapacity(ms) THEN Fails
     ELSE /\ registry' = WithMarkets(registry, ms)
          /\ books' = [books EXCEPT ![w] = Bootstrapped(@, reading.holding, now)]
          /\ reading' = Nobody
          /\ UNCHANGED <<worldVars, phase, plan, stream, revision, claimed, heard, closedAt>>

\* open_market_slugs: of every wallet and every epoch
OpenMarkets ==
  {MarketOf[t] : t \in {u \in Tokens :
     \E w \in Wallets :
       \/ u \in OpenTokens(books[w])
       \/ \E e \in ToSet(books[w].history) : u \in OpenTokens(e)}}

Settle(ms) ==
  /\ registry' = Without(WithMarkets(registry, OpenMarkets), ms)
  /\ books' = [w \in Wallets |-> FoldSet(LAMBDA m, b : Settled(b, m, resolved[m]),
                                          books[w], ms)]
  /\ closedAt' = [m \in Markets |-> IF m \in ms THEN now ELSE closedAt[m]]

\* settle_existing sees what the metadata of a tracked market already told, then
\* the streams are built; a plan of resolved markets only ends the run.
Open(ms) ==
  /\ phase = "bootstrap" /\ reading = Nobody /\ ToBootstrap = {}
  /\ ms \subseteq registry.tracked
  /\ \A m \in ms : resolved[m] # Anyone
  /\ IF ~HasCapacity(OpenMarkets) THEN Fails
     ELSE /\ Settle(ms)
          /\ stream' = NewStream(plan)
          /\ revision' = registry'.revision
          /\ phase' = IF registry'.tracked = {} /\ ~WalletEnabled(plan)
                      THEN "ended" ELSE "streaming"
          /\ UNCHANGED <<worldVars, plan, reading, claimed, heard>>

-----------------------------------------------------------------------------
(* WalletActivityStream *)

Fresh(trade) == trade.at >= now - MaxAge

\* Mutant: a poll starts at the newest trade it has seen.
WindowStart_NoOverlap(s) ==
  LET newest == IF stream.last[s] > now - MaxAge THEN stream.last[s] ELSE now - MaxAge
  IN newest

WindowStart(s) ==
  LET newest == IF stream.last[s] > now - MaxAge THEN stream.last[s] ELSE now - MaxAge
  IN newest - Overlap

Rows(s) ==
  {trades[i] : i \in {j \in indexed : /\ Covers(s, trades[j].wallet, MarketOf[trades[j].token])
                                      /\ trades[j].at >= WindowStart(s)}}

Latest(rows, from) == IF rows = {} THEN from ELSE Max({r.at : r \in rows} \cup {from})

Poll(s) ==
  LET usable == {r \in Rows(s) : Fresh(r)}
      new == SelectSeq(ByTime(usable), LAMBDA r : r.id \notin stream.seen) IN
  /\ phase = "streaming" /\ WalletEnabled(plan)
  /\ stream' = [last |-> [stream.last EXCEPT ![s] = Latest(usable, @)],
                seen |-> stream.seen \cup {r.id : r \in usable},
                inbox |-> stream.inbox \o [k \in DOMAIN new |->
                                             [trade |-> new[k], observed |-> now]]]
  /\ stream' # stream
  /\ UNCHANGED <<worldVars, phase, plan, reading, revision, keptVars>>

-----------------------------------------------------------------------------
(* StreamEventDispatcher and BotRunner.dispatch_wallet_trade *)

Claim(trade) == trade.id \notin claimed

Accepts(event) ==
  LET trade == event.trade IN
  /\ event.observed >= now - MaxAge
  /\ AcceptsTrade(wanted, trade.wallet, MarketOf[trade.token])
  /\ Claim(trade)

Dispatch ==
  LET event == Head(stream.inbox)
      trade == event.trade
      m == MarketOf[trade.token] IN
  /\ phase = "streaming" /\ stream.inbox # <<>>
  /\ IF IsTerminal(m)
     THEN /\ stream' = [stream EXCEPT !.inbox = Tail(@)]
          /\ UNCHANGED <<worldVars, phase, plan, reading, revision, keptVars>>
     ELSE IF ~HasCapacity({m}) THEN Fails
     ELSE IF ~Accepts(event)
     THEN /\ stream' = [stream EXCEPT !.inbox = Tail(@)]
          /\ UNCHANGED <<worldVars, phase, plan, reading, revision, keptVars>>
     ELSE /\ stream' = [stream EXCEPT !.inbox = Tail(@)]
          /\ claimed' = claimed \cup {trade.id}
          /\ heard' = Append(heard, trade.id)
          /\ books' = [books EXCEPT ![trade.wallet] = RecordTrade(@, trade)]
          /\ registry' = WithMarkets(registry, {m})
          /\ UNCHANGED <<worldVars, phase, plan, reading, revision, closedAt>>

\* ResolutionSettlementService.apply, for an event of the feed or of Gamma
DispatchResolution(m) ==
  /\ phase = "streaming" /\ m \in registry.tracked /\ resolved[m] # Anyone
  /\ registry' = Without(registry, {m})
  /\ books' = [w \in Wallets |-> Settled(books[w], m, resolved[m])]
  /\ closedAt' = [closedAt EXCEPT ![m] = now]
  /\ UNCHANGED <<worldVars, cycleVars, claimed, heard>>

\* Either change ends the cycle, also over an event that has been dequeued.
Rebuild ==
  /\ phase = "streaming"
  /\ wanted # plan \/ registry.revision # revision
  /\ phase' = "refresh" /\ stream' = NewStream({})
  /\ UNCHANGED <<worldVars, plan, reading, revision, keptVars>>

World ==
  \/ Tick
  \/ \E o \in Offers : Trade(o)
  \/ \E i \in 1..MaxTrades : Index(i)
  \/ \E m \in Markets, t \in Tokens : ExchangeResolves(m, t)
  \/ \E p \in Plans : ChangesItsMind(p)

Runtime ==
  \/ Refresh
  \/ \E w \in Wallets, p \in Marks : ReadPositions(w, p)
  \/ Bootstrap
  \/ \E ms \in SUBSET Markets : Open(ms)
  \/ \E s \in DOMAIN stream.last : Poll(s)
  \/ Dispatch
  \/ \E m \in Markets : DispatchResolution(m)
  \/ Rebuild

Next == World \/ Runtime

Spec == Init /\ [][Next]_vars

-----------------------------------------------------------------------------
(* Properties *)

HeardOnce == \A i, j \in DOMAIN heard : heard[i] = heard[j] => i = j

\* A trade that is still fresh, and that a stream has not delivered, is in the
\* window of the next poll, however late or out of order it was indexed.
NothingPassedOver ==
  phase = "streaming" /\ WalletEnabled(plan) =>
    \A i \in DOMAIN trades, s \in Selectors(plan) :
      /\ Covers(s, trades[i].wallet, MarketOf[trades[i].token])
      /\ Fresh(trades[i]) /\ i \notin stream.seen
      => trades[i].at >= WindowStart(s)

\* The bot hears of a followed trade at most once, across every rebuild of the
\* streams, and no fresh trade falls between two polls.
TradesReachTheBot == HeardOnce /\ NothingPassedOver

Spent(movements) ==
  FoldSet(LAMBDA m, sum : sum + Signed(m.side, m.size) * m.price, 0, movements)
Cost(holding, movements) ==
  FoldSet(LAMBDA t, sum : sum + holding[t].size * holding[t].mark, 0, DOMAIN holding)
    + Spent(movements)
Shares(holding, movements, t) ==
  holding[t].size
    + FoldSet(LAMBDA m, sum : sum + (IF m.token = t THEN Signed(m.side, m.size) ELSE 0),
              0, movements)

\* A settlement is worth what the shares pay less what they cost.
SettlementBalances(s) ==
  s.gross = Ratio(FoldSet(LAMBDA t, sum :
                            sum + Shares(s.baselines, s.movements, t) * PayoutFor(t, s.winner),
                          0, TokensIn(s.market))
                    - Cost(s.baselines, s.movements), 1)

\* Nothing is left open in a market the epoch has been paid for.
EpochBalances(e) ==
  \A s \in e.settlements : SettlementBalances(s) /\ ~Touches(e, s.market)

\* A market the run settled is open only for a wallet followed since.
SettledWherever(e) ==
  \A m \in registry.terminal : Touches(e, m) => e.followedAt >= closedAt[m]

\* The books of followed wallets lose and invent nothing: every epoch, past ones
\* included, is paid exactly once for a resolved market.
FollowedBooksBalance ==
  \A w \in Wallets : \A e \in {books[w]} \cup ToSet(books[w].history) :
    EpochBalances(e) /\ SettledWherever(e)

=============================================================================
