--------------------------- MODULE MCRunExecution ---------------------------
(* Two runs of one account, so that order and allowance both matter. *)
EXTENDS RunExecution, TLC

CONSTANTS u1, r1, r2

MCOwner == [r \in Run |-> u1]
\* sound where no run is singled out (Corrupt = {})
FullSymmetry == Permutations(Worker) \cup Permutations(Run)

=============================================================================
