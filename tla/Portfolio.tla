------------------------------ MODULE Portfolio ------------------------------
(***************************************************************************)
(* The paper portfolio: cash, cumulative fees, signed positions, and the   *)
(* conditions already settled (execution/paper/portfolio.py and the        *)
(* synchronous half of execution/paper/__init__.py).  Every operation is   *)
(* one uninterrupted turn of the event loop.                               *)
(*                                                                         *)
(* This is also the promise PaperBroker is held to: whatever its           *)
(* concurrent submissions do, the books only move by these two operations. *)
(***************************************************************************)
EXTENDS PositionMath, BookWalk, FiniteSets

CONSTANTS Tokens,        \* outcome tokens
          Conditions,    \* market condition ids
          ConditionOf,   \* the condition each token belongs to
          InitialCash,   \* paper_portfolio_usdc
          Orders, Books, Fees,           \* the orders, books and fees explored
          MaxFills       \* bound on the fills explored

ASSUME MarketsAssumption == ConditionOf \in [Tokens -> Conditions]

ASSUME AmountsAssumption == IsFiniteSet(Tokens) /\ InitialCash \in Int /\ MaxFills \in Nat

ASSUME OrdersAssumption == /\ Orders \subseteq Order
                           /\ Books \subseteq Seq(Level)
                           /\ Fees \subseteq Nat

VARIABLES cash,        \* cash_usdc
          fees,        \* cumulative_fees_usdc
          positions,   \* Flat stands for an absent entry
          settled,     \* _settled_conditions
          fills,       \* fills applied so far
          realized     \* history: profit realized by closing fills and settlements

ledgerVars == <<cash, fees, positions, settled, fills, realized>>

TokensOf(condition) == {t \in Tokens : ConditionOf[t] = condition}

LedgerInit ==
  /\ cash = InitialCash
  /\ fees = 0
  /\ positions = [t \in Tokens |-> Flat]
  /\ settled = {}
  /\ fills = 0
  /\ realized = Ratio(0, 1)

AveragePrice(fill) == Ratio(fill.notional, fill.size)

\* What the walk of one of the books gives on each side.
FillsOf ==
  [side \in Sides |->
     {fill \in {SimulateFill(order, book) : order \in {o \in Orders : o.side = side},
                                            book \in Books} : fill.size > 0}]

\* PaperPortfolio.apply_fill
ApplyFill(token, side, fill, fee) ==
  /\ fills < MaxFills
  /\ fills' = fills + 1
  /\ cash' = cash - Signed(side, fill.notional) - fee
  /\ fees' = fees + fee
  /\ realized' = Plus(realized,
       RealizedBy(positions[token], side, fill.size, AveragePrice(fill)))
  /\ positions' = [positions EXCEPT
       ![token] = AfterFill(@, side, fill.size, AveragePrice(fill))]
  /\ UNCHANGED settled

\* PaperBroker.settle_market: a condition settles once, later calls return ().
SettleMarket(condition, winner) ==
  /\ condition \notin settled
  /\ settled' = settled \union {condition}
  /\ LET open == {t \in TokensOf(condition) : positions[t] # Flat}
         payout(t) == PayoutFor(t, winner)
     IN /\ cash' = MapThenSumSet(LAMBDA t : positions[t].shares * payout(t), open)
                     + cash
        /\ realized' = FoldSet(LAMBDA t, sum :
                                 Plus(sum, RealizedByResolution(positions[t], payout(t))),
                               realized, open)
  /\ positions' = [t \in Tokens |-> IF ConditionOf[t] = condition THEN Flat
                                    ELSE positions[t]]
  /\ UNCHANGED <<fees, fills>>

\* The broker rejects an order for a settled market in the turn of the fill.
Trade ==
  \E t \in Tokens, side \in Sides, fee \in Fees :
    /\ ConditionOf[t] \notin settled
    /\ \E fill \in FillsOf[side] : ApplyFill(t, side, fill, fee)

Settle == \E c \in Conditions : \E w \in TokensOf(c) : SettleMarket(c, w)

LedgerNext == Trade \/ Settle

LedgerSpec == LedgerInit /\ [][LedgerNext]_ledgerVars

-----------------------------------------------------------------------------
LedgerTypeOK ==
  /\ cash \in Int /\ fees \in Nat /\ fills \in 0..MaxFills
  /\ settled \subseteq Conditions
  /\ \A t \in Tokens : positions[t].shares \in Int

\* Money is conserved through opens, adds, partial closes, flips and payouts:
\* what left the cash is held at cost, was paid in fees, or was realized
\* (the basis of portfolio.py 111-122 against the payouts of 134-160).
ProfitExplainsEquity ==
  LET heldAtCost == FoldSet(LAMBDA t, sum :
                              Plus(sum, Times(positions[t].shares, positions[t].basis)),
                            Ratio(0, 1), Tokens)
  IN LedgerTypeOK /\ Plus(heldAtCost, Ratio(cash + fees - InitialCash, 1)) = realized

\* While a market still trades, any order filled from any book, its levels in any
\* order, gets the best execution the displayed depth and the slippage limit
\* admit (book.py 32-60, fill_math.py 22-46).
FillIsBestExecution == settled # Conditions => EveryFillIsBest

=============================================================================
