------------------------------ MODULE BookWalk ------------------------------
(***************************************************************************)
(* How simulate_fill takes an order out of a book snapshot: the executable *)
(* levels are walked best price first, each is taken as far as the order   *)
(* still needs, and the walk stops at the first level beyond the slippage  *)
(* limit (paper/book.py, paper/fill_math.py).                              *)
(***************************************************************************)
EXTENDS Integers, Sequences, SequencesExt, Functions, FiniteSets

CONSTANTS Prices, Sizes, Requests,   \* tick prices, level sizes and order sizes
          SlippagePercent,           \* max_slippage_pct, in hundredths
          MaxLevels                  \* bound on the depth of a book

ASSUME WalkAssumption ==
  /\ Prices \subseteq Nat /\ Sizes \subseteq Nat /\ Requests \subseteq Nat
  /\ {SlippagePercent, MaxLevels} \subseteq Nat

Level == [price : Prices, size : Sizes]

Order == [side : {"BUY", "SELL"}, price : Prices, size : Requests]

\* Mutant: bids are walked from the lowest price.
Ahead_Ascending(side, book, i, j) ==
  \/ book[i].price < book[j].price
  \/ book[i].price = book[j].price /\ i < j

\* Asks rise for a buy, bids fall for a sell; sorted() leaves equal prices in place.
Ahead(side, book, i, j) ==
  \/ IF side = "BUY" THEN book[i].price < book[j].price ELSE book[i].price > book[j].price
  \/ book[i].price = book[j].price /\ i < j

\* How many levels are walked before level i.
Rank(side, book, i) == Cardinality({j \in DOMAIN book : Ahead(side, book, j, i)})

\* BookSnapshot.executable_levels
ExecutableLevels(side, book) ==
  [k \in DOMAIN book |-> book[CHOOSE i \in DOMAIN book : Rank(side, book, i) = k - 1]]

\* price <= reference * (1 + pct) for a buy, >= reference * (1 - pct) for a sell
WithinSlippage(order, price) ==
  IF order.side = "BUY" THEN price * 100 <= order.price * (100 + SlippagePercent)
  ELSE price * 100 >= order.price * (100 - SlippagePercent)

Smaller(m, n) == IF m < n THEN m ELSE n

(* consume_levels: goes on while the next level is needed and acceptable *)
ConsumeLevel(order, walk, level) ==
  LET size == Smaller(level.size, walk.remaining)
  IN IF walk.stopped \/ walk.remaining <= 0 \/ ~WithinSlippage(order, level.price)
     THEN [walk EXCEPT !.stopped = TRUE]
     ELSE [walk EXCEPT !.remaining = @ - size, !.size = @ + size,
                       !.notional = @ + size * level.price]

\* simulate_fill: filled size and notional; no depth in reach gives no fill
SimulateFill(order, book) ==
  LET walked == FoldLeft(LAMBDA walk, level : ConsumeLevel(order, walk, level),
                         [remaining |-> order.size, stopped |-> FALSE,
                          size |-> 0, notional |-> 0],
                         ExecutableLevels(order.side, book))
  IN [size |-> walked.size, notional |-> walked.notional]

-----------------------------------------------------------------------------
\* Every way of taking some shares from each acceptable level of the book.
Takings(order, book) ==
  {shares \in [1..Len(book) -> 0..order.size] :
     /\ \A i \in DOMAIN shares : shares[i] <= book[i].size
     /\ \A i \in DOMAIN shares : shares[i] > 0 => WithinSlippage(order, book[i].price)
     /\ SumFunction(shares) <= order.size}

Cost(shares, book) == SumFunction([i \in DOMAIN shares |-> shares[i] * book[i].price])

\* The fill is one the displayed depth covers, and the best: no admissible taking
\* gives more shares, and none of as many is cheaper to buy or dearer to sell.
EveryFillIsBest ==
  \A order \in Order, book \in BoundedSeq(Level, MaxLevels) :
    LET fill == SimulateFill(order, book)
    IN /\ \E shares \in Takings(order, book) :
            SumFunction(shares) = fill.size /\ Cost(shares, book) = fill.notional
       /\ \A shares \in Takings(order, book) :
            /\ SumFunction(shares) <= fill.size
            /\ SumFunction(shares) = fill.size =>
                 IF order.side = "BUY" THEN fill.notional <= Cost(shares, book)
                 ELSE fill.notional >= Cost(shares, book)

=============================================================================
