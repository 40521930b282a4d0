--------------------------- MODULE MCWalletRuntime ---------------------------
EXTENDS WalletRuntime

CONSTANTS whale, shrimp, market, elsewhere, yes, no

MCMarketOf == [t \in Tokens |-> market]

MCOffers ==
  {[wallet |-> whale, token |-> yes, side |-> "BUY", size |-> 2, price |-> 1],
   [wallet |-> whale, token |-> yes, side |-> "SELL", size |-> 1, price |-> 3]}

\* The bot follows a wallet wherever it trades, or another in a market it
\* watches, or watches a market for which there may be no room.
MCPlans ==
  {{Independent({}, {whale})},
   {Filtered({market}, {shrimp}), Independent({market}, {})},
   {Independent({elsewhere}, {})}}

\* The whale buys once; what it sells of that it held or bought while followed.
BuysOnce == Cardinality({i \in DOMAIN trades : trades[i].side = "BUY"}) <= 1

\* One order of steps that commute is enough: the world waits for a refresh, the
\* bot's wishes for the dispatcher, an index for a poll, a resolution for the
\* settlement of what is open.  After the run nothing happens.
WorldWaits ==
  /\ phase \in {"refresh", "failed", "ended"} => phase' # phase
  /\ wanted' # wanted => phase = "streaming"
  /\ indexed' # indexed => phase = "streaming" /\ WalletEnabled(plan)
  /\ resolved' # resolved =>
       phase = "streaming" \/ (phase = "bootstrap" /\ reading = Nobody /\ ToBootstrap = {})

=============================================================================
