--------------------------- MODULE MCStreamMerger ---------------------------
EXTENDS StreamMerger

CONSTANTS yes, no, other, market, elsewhere

MCConditionOf == [t \in Tokens |-> IF t = other THEN elsewhere ELSE market]

\* Closing is final and touches nothing else: it is followed after one event only.
ClosesSoon == ended = "no" /\ ended' = "closed" => received <= 1

=============================================================================
