-------------------------- MODULE MCArchiveReplay --------------------------
(* A small instance of ArchiveReplay for TLC. *)
EXTENDS ArchiveReplay

CONSTANTS m1, m2, t1, t2, t3, t4

OneMarketTokens == [m \in {m1} |-> {t1, t2}]
TwoMarketTokens == [m \in {m1, m2} |-> IF m = m1 THEN {t1, t2} ELSE {t3, t4}]

Bounds == [delta |-> 1, gap |-> 1, checkpoint |-> 1]
SomeWindows == {<<0, 0>>, <<2, 0>>}
AnyMarket == {{}}
TwoMarketBounds == [delta |-> 1, gap |-> 0, checkpoint |-> 2]
FromTwo == {<<2, 0>>}

\* Outcomes, and markets, differ in their names alone: the first come first.
Before(i, same(_)) == \E k \in 1..i : same(db.events[k])
FirstComeFirst ==
  \A i \in DOMAIN db.events :
    LET e == db.events[i] IN
    /\ e.kind = "baseline" /\ e.token \in {t2, t4} =>
         Before(i, LAMBDA f : f.kind = "baseline" /\ f.session = e.session /\ f.gen = e.gen
                                /\ f.token = (IF e.token = t2 THEN t1 ELSE t3))
    /\ e.kind = "metadata" /\ e.market = m2 => Before(i, LAMBDA f : f.market = m1)
=============================================================================
