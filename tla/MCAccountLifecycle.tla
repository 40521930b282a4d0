------------------------ MODULE MCAccountLifecycle ------------------------
(* u1 saves one bot, which has both runs; u2 only signs in and leaves. *)
EXTENDS AccountLifecycle, TLC

CONSTANTS u1, u2, b1, r1, r2

MCBotOwner == b1 :> u1
MCBotOf == r1 :> b1 @@ r2 :> b1

\* Requests of different sessions share nothing but the rows their handlers lock,
\* and u2 only registers and asks for its deletion; the second run matters to the
\* history of u1 alone, neither to u2 nor to links.
OneAtATime ==
  /\ Cardinality(inFlight) <= 1
  /\ \A k \in links : k.user = u1
  /\ u2 \notin quarantined
  /\ u2 \notin verified \cup admin \cup {n.user : n \in loggingIn}
  /\ u2 \in suspended => request[u2] # "none"
  /\ account[u2] # "unregistered" \/ spent \cap LinkId # {} => phase[r2] = "unborn"

===========================================================================
