-------------------------- MODULE MCRunEventStream --------------------------
EXTENDS RunEventStream, TLC

Symmetry == Permutations(Viewer)

=============================================================================
