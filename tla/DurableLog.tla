----------------------------- MODULE DurableLog -----------------------------
(***************************************************************************)
(* What a recorder is promised by the writer it hands its events to: a log *)
(* that only grows, an acknowledgement that is given only for what is in   *)
(* the log, and a refusal only for what is not and never will be.  Between *)
(* the two lies what a crash leaves unanswered.                            *)
(***************************************************************************)
EXTENDS Naturals, Sequences, Functions

VARIABLES
  log,      \* identities of the durable events, in order
  done,     \* those acknowledged
  refused   \* those answered with an error

vars == <<log, done, refused>>

Init == log = <<>> /\ done = {} /\ refused = {}

\* One transaction adds its events at the end, none of them seen before.
Commit ==
  /\ Len(log') > Len(log)
  /\ SubSeq(log', 1, Len(log)) = log
  /\ IsInjective(log')
  /\ Range(log') \cap refused = {}
  /\ UNCHANGED <<done, refused>>

Acknowledge ==
  /\ done \subseteq done' /\ done' \subseteq Range(log)
  /\ UNCHANGED <<log, refused>>

Refuse ==
  /\ refused \subseteq refused' /\ refused' \cap Range(log) = {}
  /\ UNCHANGED <<log, done>>

Next == Commit \/ Acknowledge \/ Refuse

Spec == Init /\ [][Next]_vars
=============================================================================
