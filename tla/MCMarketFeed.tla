---------------------------- MODULE MCMarketFeed ----------------------------
(* A market with both tokens subscribed and one with only one of its two. *)
EXTENDS MarketFeed, TLC

CONSTANTS yes, no, other, rest, market, elsewhere, bid, ask

MCConditionOf ==
  [t \in TokenIds |-> IF t \in {yes, no} THEN market ELSE elsewhere]

Symmetry == Permutations({yes, no}) \union Permutations(Levels)

=============================================================================
