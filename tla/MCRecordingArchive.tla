------------------------- MODULE MCRecordingArchive -------------------------
(* A small instance of RecordingArchive for TLC. *)
EXTENDS RecordingArchive

CONSTANTS m1, t1, t2

OneMarketTokens == [m \in {m1} |-> {t1}]
=============================================================================
