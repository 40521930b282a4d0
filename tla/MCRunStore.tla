----------------------------- MODULE MCRunStore -----------------------------
(* Two accounts; u1 owns two of the three runs. *)
EXTENDS RunStore, TLC

CONSTANTS u1, u2, r1, r2, r3

MCOwner == r1 :> u1 @@ r2 :> u1 @@ r3 :> u2

=============================================================================
