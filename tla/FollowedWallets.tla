--------------------------- MODULE FollowedWallets ---------------------------
(***************************************************************************)
(* The books a run keeps of the wallets it follows                         *)
(* (cli/followed_wallets).  Following a wallet opens an epoch: what it held *)
(* is the baseline, priced at the market, and each trade the bot accepts   *)
(* is a movement.  Positions are replayed from both.  A resolution closes  *)
(* the market in the epoch and in those before it.                         *)
(*                                                                         *)
(* A trade is [id, wallet, token, side, size, price, at]; its id stands for *)
(* the source key.  Marks are taken as known when a wallet is bootstrapped. *)
(***************************************************************************)
EXTENDS PositionMath, Sequences, SequencesExt, StreamPlans

CONSTANTS Tokens, MarketOf

ASSUME MarketOfAssumption == MarketOf \in [Tokens -> Markets]

NoHolding == [t \in Tokens |-> [size |-> 0, mark |-> 0]]

NewEpoch(n, past) ==
  [epoch |-> n, active |-> TRUE, followedAt |-> 0, bootstrapped |-> FALSE,
   baselines |-> NoHolding, movements |-> {}, sources |-> {}, settlements |-> {},
   history |-> past]

Unknown == [NewEpoch(0, <<>>) EXCEPT !.active = FALSE]

-----------------------------------------------------------------------------
(* synchronize, bootstrap, record_trade *)

Snapshot(state) == [state EXCEPT !.history = <<>>]

Synchronized(state, selected) ==
  IF selected
  THEN IF state.active THEN state
       ELSE NewEpoch(state.epoch + 1,
                     IF state = Unknown THEN <<>>
                     ELSE Append(state.history, Snapshot(state)))
  ELSE [state EXCEPT !.active = FALSE]

NeedsBootstrap(state) == state.active /\ ~state.bootstrapped

Bootstrapped(state, holding, now) ==
  [state EXCEPT !.baselines = holding, !.followedAt = now, !.bootstrapped = TRUE]

RecordTrade(state, trade) ==
  IF state.active /\ state.bootstrapped /\ trade.id \notin state.sources
  THEN [state EXCEPT !.movements = @ \cup {trade}, !.sources = @ \cup {trade.id}]
  ELSE state

-----------------------------------------------------------------------------
(* replay_positions *)

ByTime(trades) ==
  SetToSortSeq(trades, LAMBDA x, y : x.at < y.at \/ (x.at = y.at /\ x.id < y.id))

Moved(position, trade) ==
  [held |-> AfterFill(position.held, trade.side, trade.size, Ratio(trade.price, 1)),
   realized |-> Plus(position.realized,
                     RealizedBy(position.held, trade.side, trade.size,
                                Ratio(trade.price, 1)))]

Opening(baseline) ==
  [held |-> IF baseline.size = 0 THEN Flat
            ELSE [shares |-> baseline.size, basis |-> Ratio(baseline.mark, 1)],
   realized |-> Ratio(0, 1)]

ReplayPosition(state, t) ==
  FoldLeft(Moved, Opening(state.baselines[t]),
           ByTime({m \in state.movements : m.token = t}))

OpenTokens(state) == {t \in Tokens : ReplayPosition(state, t).held.shares # 0}

TokensIn(market) == {t \in Tokens : MarketOf[t] = market}

\* What the state still holds of a market: a baseline or a movement of it.
Touches(state, market) ==
  \E t \in TokensIn(market) :
    state.baselines[t].size > 0 \/ \E m \in state.movements : m.token = t

-----------------------------------------------------------------------------
(* settle *)

HasSettlement(state, market) == \E s \in state.settlements : s.market = market

Gained(position, payout) ==
  Plus(position.realized, RealizedByResolution(position.held, payout))

\* calculate_settlement, with the inputs the record keeps
Settlement(state, market, winner) ==
  [market |-> market, winner |-> winner,
   gross |-> FoldSet(LAMBDA t, sum : Plus(sum, Gained(ReplayPosition(state, t),
                                                      PayoutFor(t, winner))),
                     Ratio(0, 1), TokensIn(market)),
   baselines |-> [t \in TokensIn(market) |-> state.baselines[t]],
   movements |-> {m \in state.movements : MarketOf[m.token] = market}]

SettledEpoch(state, market, winner) ==
  IF HasSettlement(state, market) \/ ~Touches(state, market) THEN state
  ELSE [state EXCEPT
          !.settlements = @ \cup {Settlement(state, market, winner)},
          !.baselines = [t \in Tokens |-> IF MarketOf[t] = market THEN NoHolding[t]
                                          ELSE @[t]],
          !.movements = {m \in @ : MarketOf[m.token] # market}]

\* Mutant: the epochs before the current one are not settled.
Settled_CurrentEpoch(state, market, winner) == SettledEpoch(state, market, winner)

Settled(state, market, winner) ==
  LET past == [i \in DOMAIN state.history |->
                 SettledEpoch(state.history[i], market, winner)]
  IN [SettledEpoch(state, market, winner) EXCEPT !.history = past]

=============================================================================
