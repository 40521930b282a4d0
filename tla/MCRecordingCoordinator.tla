----------------------- MODULE MCRecordingCoordinator -----------------------
(* One market alone, or two that share the record lock and the writer, of which
   one has a moving book. *)
EXTENDS RecordingCoordinator

CONSTANTS m1, m2

OneRevision == [m \in Market |-> IF m = m1 THEN 1 ELSE 0]
TwoRevisions == [m \in Market |-> IF m = m1 THEN 2 ELSE 0]
=============================================================================
