--------------------------- MODULE ArchiveWrites ---------------------------
(***************************************************************************)
(* What an open archive accepts and how it changes (RecordingArchive and   *)
(* the lifecycle of its sessions).  Next to the database the archive keeps *)
(* a memory of the session it is open for:                                 *)
(*                                                                         *)
(*    [session, next, last, baselines, hasGap, resumeFrom]                 *)
(*                                                                         *)
(* the next sequence number, the last observation, the tokens that have a  *)
(* baseline in a subscription generation, whether the session has a gap,   *)
(* and the moment from which a resumed recording was not observing.        *)
(***************************************************************************)
EXTENDS ArchiveQueries

EmptyArchive == [sessions |-> <<>>, events |-> <<>>, checkpoints |-> {}]

Active(s) == s.status = "active"
Opened(start) == [start |-> start, end |-> Forever, status |-> "active"]
Ended(s, end, status) == [s EXCEPT !.end = end, !.status = status]
\* CHECK (ended_at_ms >= started_at_ms) of the sessions table
Allowed(s) == s.end >= s.start

-----------------------------------------------------------------------------
(* Opening a session *)

\* Mutant: an unclosed session is taken to have ended as it started.
ResumeFrom_Start(db) ==
  IF Active(LatestSession(db)) THEN LatestSession(db).start ELSE LatestSession(db).end
ResumeFrom(db) ==
  LET prior == LatestSession(db) IN
  CASE ~Active(prior) -> prior.end
    [] Active(prior) /\ LastObserved(db) # 0 -> LastObserved(db)
    [] OTHER -> prior.start

\* mark_interrupted_session, of a resume and of a lease for replay
Interrupted(db) == Ended(LatestSession(db), ResumeFrom(db), "incomplete")
Resumable(db) == Active(LatestSession(db)) => Allowed(Interrupted(db))
Recovered(db) ==
  LET n == Len(db.sessions)
      end == GreatestOf({db.sessions[n].start, LastSessionObserved(db, n)}) IN
  [db EXCEPT !.sessions[n] = Ended(@, end, "incomplete")]

\* read_resume_state: the resumed clock starts no earlier than this.
ClockFloor(db) ==
  LET prior == LatestSession(db)
      boundary == IF Active(prior) THEN prior.start ELSE prior.end IN
  GreatestOf({boundary, LastObserved(db)})

PriorSessions(db) ==
  IF db.sessions # <<>> /\ Active(LatestSession(db))
  THEN [db.sessions EXCEPT ![Len(db.sessions)] = Interrupted(db)]
  ELSE db.sessions
WithSession(db, start) == [db EXCEPT !.sessions = Append(PriorSessions(db), Opened(start))]
MemoryOf(db) ==
  [session |-> Len(db.sessions) + 1, next |-> LastSequence(db) + 1,
   last |-> LastObserved(db), baselines |-> {}, hasGap |-> FALSE,
   resumeFrom |-> IF db.sessions = <<>> THEN 0 ELSE ResumeFrom(db)]

-----------------------------------------------------------------------------
(* Appending and closing *)

MarketsWith(db, kind) ==
  {db.events[i].market : i \in {j \in DOMAIN db.events : db.events[j].kind = kind}}
KnownMarkets(db) == MarketsWith(db, "metadata")

\* append_events checks each event against what the ones before it left
\* (_validate_event_dependencies, _invalidate_gap_baselines).
Dependent(e, seen) ==
  CASE e.kind \in {"gap", "metadata"} -> TRUE
    [] e.kind = "delta" -> e.market \in seen.markets /\ <<e.gen, e.token>> \in seen.baselines
    [] OTHER -> e.market \in seen.markets
BaselinesAfter(e, baselines) ==
  CASE e.kind = "baseline" -> baselines \cup {<<e.gen, e.token>>}
    [] e.kind = "gap" -> {k \in baselines : k[2] \notin ResolvedTokens(e)}
    [] OTHER -> baselines
Sees(seen, e) ==
  [seen EXCEPT
     !.ok = @ /\ e.session = seen.session /\ e.at >= seen.last /\ Dependent(e, seen),
     !.last = e.at,
     !.markets = IF e.kind = "metadata" THEN @ \cup {e.market} ELSE @,
     !.baselines = BaselinesAfter(e, @),
     !.hasGap = @ \/ IsGap(e)]
Checked(db, memory, first, events) ==
  FoldLeft(Sees, [ok |-> first = memory.next, session |-> memory.session,
                  last |-> memory.last, markets |-> KnownMarkets(db),
                  baselines |-> memory.baselines, hasGap |-> memory.hasGap], events)
MemoryAfter(memory, seen, count) ==
  [memory EXCEPT !.next = @ + count, !.last = seen.last,
                 !.baselines = seen.baselines, !.hasGap = seen.hasGap]

\* append_checkpoints, and PRIMARY KEY (token, time, sequence) of its table
CheckpointsAllowed(db, memory, rows) ==
  \A c \in rows :
    /\ c.session = memory.session /\ c.seq < memory.next /\ c.at >= memory.last
    /\ c.market \in KnownMarkets(db) /\ <<c.gen, c.token>> \in memory.baselines
    /\ \A d \in db.checkpoints : ~(c.token = d.token /\ c.at = d.at /\ c.seq = d.seq)

\* archive.close: a clean end is now, a failed one the last durable moment
Boundary(db, memory) == GreatestOf({db.sessions[memory.session].start, memory.last})
CleanStatus(memory) == IF memory.hasGap THEN "incomplete" ELSE "complete"
Closed(db, memory, clean, now) ==
  [db EXCEPT !.sessions[memory.session] =
     Ended(@, IF clean THEN GreatestOf({Boundary(db, memory), now}) ELSE Boundary(db, memory),
           IF clean THEN CleanStatus(memory) ELSE "failed")]
=============================================================================
