---------------------------- MODULE MCPaperBroker ----------------------------
EXTENDS PaperBroker, TLC

CONSTANTS first, retry, again, hedge, broken, token, market, signal

MCTokens == {token}
MCConditions == {market}
MCConditionOf == [t \in {token} |-> market]

\* An order and its retries under one source id, and an order of its own.
MCOrderOf ==
  [c \in Calls |->
     [token |-> token,
      side |-> IF c = hedge THEN "SELL" ELSE "BUY",
      source |-> IF c = hedge THEN NoSource ELSE signal,
      named |-> c # hedge,
      valid |-> c # broken]]

\* The calls of one source id place the same order.
Duplicates == Permutations({first, retry, again})

\* The hedge sells more than the order bought, through two levels of the book.
MCOrders == {[side |-> "BUY", price |-> 3, size |-> 1], [side |-> "SELL", price |-> 3, size |-> 3]}
MCBooks == {<<[price |-> 3, size |-> 1], [price |-> 4, size |-> 2]>>}

=============================================================================
