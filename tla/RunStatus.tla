----------------------------- MODULE RunStatus -----------------------------
(***************************************************************************)
(* The status vocabulary of one paper run and the transition table every   *)
(* writer of the runs table goes through (api/runs/status.py).  "absent"   *)
(* stands for a row that has not been inserted yet.                        *)
(***************************************************************************)

Absent == "absent"

RunStatuses == {"queued", "starting", "running", "stop_requested", "stopping",
                "stopped", "failed", "interrupted"}

RunStatusTransitions ==
  UNION {{"queued"}         \X {"starting", "stopped", "failed"},
         {"starting"}       \X {"running", "stop_requested", "failed", "interrupted"},
         {"running"}        \X {"stop_requested", "stopping", "failed", "interrupted"},
         {"stop_requested"} \X {"stopping", "failed", "interrupted"},
         {"stopping"}       \X {"stopped", "failed", "interrupted"}}

PreviousStatuses(s) == {p \in RunStatuses : <<p, s>> \in RunStatusTransitions}

TerminalRunStatuses ==
  {s \in RunStatuses : \A n \in RunStatuses : <<s, n>> \notin RunStatusTransitions}

InterruptibleRunStatuses == {"starting", "running", "stop_requested", "stopping"}

OwnedStopPreviousStatuses == {"starting", "running"}

=============================================================================
