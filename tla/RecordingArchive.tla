-------------------------- MODULE RecordingArchive --------------------------
(***************************************************************************)
(* The recorder's asynchronous writer, the archive it commits to, and the  *)
(* life of a recording over crashes, resumes and replay leases             *)
(* (AsyncRecordingWriter, RecordingCommandProcessor, RecordingArchive,     *)
(* start_recording_session, RecordingReader.for_replay).                   *)
(*                                                                         *)
(* Callers put commands in a bounded queue without waiting.  One task      *)
(* takes them out, runs each on a thread, and answers when the thread is   *)
(* back; the process can die at any of these points, after which the       *)
(* database file is all that is left.  SQLite runs in WAL mode with        *)
(* synchronous FULL, so that a committed transaction survives; the file    *)
(* lock lets one recorder or replay have the archive at a time.            *)
(*                                                                         *)
(* The recorder's clock never runs backwards within a process, and starts  *)
(* a resumed session no earlier than what the archive already holds, but   *)
(* the wall clock it is anchored to may have moved either way in between.  *)
(* The anomaly journal is left out, and so is flush, which nothing calls.  *)
(***************************************************************************)
EXTENDS ArchiveWrites

CONSTANTS
  Generation,   \* subscription generations callers use
  QueueSize,    \* commands the write queue holds
  BatchSize,    \* events one transaction takes at most
  MaxTime,      \* bound on the clock
  MaxEvents,    \* bound on the events, bridged outages and a batch's last aside
  MaxSessions,  \* bound on the recordings made
  MaxCheckpoints, \* bound on the checkpoint rows
  MaxFaults     \* bound on transactions that SQLite fails

ASSUME WriterAssumption ==
  /\ {QueueSize, BatchSize, MaxTime, MaxSessions} \subseteq Nat \ {0}
  /\ {MaxEvents, MaxCheckpoints, MaxFaults} \subseteq Nat
  /\ MaxTime < Forever

VARIABLES
  db,        \* the database file
  clock,     \* the recorder's observation clock
  recorder,  \* what the recorder's main task is doing
  memory,    \* what the open RecordingArchive remembers
  next,      \* AsyncRecordingWriter._next_sequence
  queue,     \* commands not taken yet
  work,      \* the commands the processor has taken, and what it does
  failure,   \* RecordingCommandProcessor.failure is set
  done,      \* events acknowledged, by session and sequence
  refused,   \* events answered with an error
  faults     \* transactions SQLite failed so far

vars == <<db, clock, recorder, memory, next, queue, work, failure, done, refused, faults>>
answers == <<done, refused>>

Row == [session : 1..MaxSessions, gen : Generation \cup {0}, at : 1..MaxTime,
        kind : {"metadata", "baseline", "delta", "resolution", "gap"},
        market : Market \cup {NoMarket}, token : Token \cup {NoToken},
        start : 0..MaxTime, end : 0..Forever, scope : SUBSET Market]

NoCommand == [op |-> "none", first |-> 0, events |-> <<>>, gap |-> 0, rows |-> {},
              at |-> 0, clean |-> FALSE]
Idle == [step |-> "idle", cmds |-> <<>>, then |-> NoCommand]

Forgotten == [session |-> 0, next |-> 1, last |-> 0, baselines |-> {},
              hasGap |-> FALSE, resumeFrom |-> 0]

Init ==
  /\ db = EmptyArchive
  /\ clock = 1
  /\ recorder = "down"
  /\ memory = Forgotten
  /\ next = 1
  /\ queue = <<>>
  /\ work = Idle
  /\ failure = FALSE
  /\ done = {} /\ refused = {}
  /\ faults = 0

-----------------------------------------------------------------------------
(* Opening the archive *)

Opens(start) ==
  /\ db' = WithSession(db, start)
  /\ clock' = start
  /\ memory' = MemoryOf(db)
  /\ next' = LastSequence(db) + 1
  /\ UNCHANGED <<queue, work, failure, answers, faults>>

Create ==
  /\ recorder = "down" /\ db.sessions = <<>>
  /\ recorder' = "recording"
  /\ Opens(clock)

Resume ==
  /\ recorder = "down" /\ db.sessions # <<>> /\ Len(db.sessions) < MaxSessions
  /\ Resumable(db)
  /\ recorder' = "resumed"
  /\ \E start \in ClockFloor(db)..MaxTime : start >= ResumeFrom(db) /\ Opens(start)

\* RecordingReader.for_replay: the lease first ends what a crash left active.
LeaseForReplay ==
  /\ recorder = "down" /\ db.sessions # <<>> /\ Active(LatestSession(db))
  /\ db' = Recovered(db)
  /\ UNCHANGED <<clock, recorder, memory, next, queue, work, failure, answers, faults>>

-----------------------------------------------------------------------------
(* AsyncRecordingWriter: commands enter the queue *)

\* Commands without an answer
Pending == (IF work.step \in {"writing", "rejected"} THEN work.cmds ELSE <<>>)
             \o (IF work.then.op = "none" THEN <<>> ELSE <<work.then>>) \o queue

CanSubmit == ~failure /\ Len(queue) < QueueSize
Enqueue(c) == queue' = Append(queue, c)

\* _enqueue_event_batch, open_gap: the sequence advances once the put succeeded.
Records(op, events) ==
  /\ CanSubmit
  /\ Enqueue([NoCommand EXCEPT !.op = op, !.first = next, !.events = events])
  /\ next' = next + Len(events)
  /\ UNCHANGED <<db, clock, memory, work, failure, answers, faults>>

Event(kind, gen, m, t) ==
  [session |-> memory.session, gen |-> gen, at |-> clock, kind |-> kind, market |-> m,
   token |-> t, start |-> 0, end |-> 0, scope |-> {}]
GapEvent(start, end, scope) ==
  [Event("gap", 0, NoMarket, NoToken) EXCEPT !.start = start, !.end = end, !.scope = scope]

Recording(n) ==
  recorder = "recording" /\ UNCHANGED recorder /\ next + n <= MaxEvents + memory.session

\* The coordinator records the metadata of a market it does not know, and what
\* its captures deliver.
RecordMarket ==
  /\ Recording(1)
  /\ \/ \E m \in Market \ KnownMarkets(db) : Records("events", <<Event("metadata", 0, m, NoToken)>>)
     \/ \E m \in Market, gen \in Generation, kind \in {"baseline", "delta"} :
          \E t \in TokensOf[m] : Records("events", <<Event(kind, gen, m, t)>>)

\* record_batch: a resolution Gamma reports comes with its metadata revision.
RecordResolution ==
  /\ Recording(1)
  /\ \E m \in KnownMarkets(db) \ MarketsWith(db, "resolution") :
       Records("events", <<Event("metadata", 0, m, NoToken),
                           Event("resolution", 0, m, NoToken)>>)

OpenGap ==
  /\ Recording(1)
  /\ \E m \in Market : Records("open", <<GapEvent(clock, Forever, {m})>>)

CloseGap ==
  /\ recorder = "recording" /\ CanSubmit
  /\ \E i \in OpenGaps(db) :
       Enqueue([NoCommand EXCEPT !.op = "close", !.gap = i, !.at = clock])
  /\ UNCHANGED <<db, clock, recorder, memory, next, work, failure, answers, faults>>

\* checkpoint_batch: the newest sequence handed out, both tokens at once
Checkpoint ==
  /\ recorder = "recording" /\ CanSubmit
  /\ Cardinality(db.checkpoints) < MaxCheckpoints
  /\ \E m \in Market, gen \in Generation :
       Enqueue([NoCommand EXCEPT !.op = "checkpoint",
         !.rows = {[seq |-> next - 1, session |-> memory.session, gen |-> gen, at |-> clock,
                    market |-> m, token |-> t] : t \in TokensOf[m]}])
  /\ UNCHANGED <<db, clock, recorder, memory, next, work, failure, answers, faults>>

\* The process ends.  What was not committed is gone with it, and the file lock.
Exits ==
  /\ recorder' = "down"
  /\ memory' = Forgotten /\ next' = 1
  /\ queue' = <<>> /\ work' = Idle /\ failure' = FALSE
  /\ UNCHANGED <<db, clock, answers, faults>>

\* start_recording_session bridges the offline interval before anything else.
Bridge ==
  /\ recorder = "resumed"
  /\ recorder' = "bridging"
  /\ Records("open", <<GapEvent(memory.resumeFrom, clock, {})>>)
Bridged ==
  /\ recorder = "bridging" /\ <<memory.session, memory.next - 1>> \in done
  /\ recorder' = "recording"
  /\ UNCHANGED <<db, clock, memory, next, queue, work, failure, answers, faults>>
\* record_markets has no writer to stop when the bridge fails.
BridgeFails == recorder = "bridging" /\ work.step = "ended" /\ Exits

\* stop: put waits for room, and looks for a failure it may have slept through.
Stop ==
  /\ recorder = "recording"
  /\ recorder' = IF failure THEN "joining" ELSE "putting"
  /\ UNCHANGED <<db, clock, memory, next, queue, work, failure, answers, faults>>
\* Mutant: the stop does not look for a failure it may have slept through.
PutStop_Blind(clean) ==
  /\ recorder = "putting" /\ Len(queue) < QueueSize
  /\ Enqueue([NoCommand EXCEPT !.op = "stop", !.clean = clean])
  /\ recorder' = "stopping"
  /\ UNCHANGED <<db, clock, memory, next, work, failure, answers, faults>>
PutStop(clean) ==
  /\ recorder = "putting" /\ Len(queue) < QueueSize
  /\ Enqueue([NoCommand EXCEPT !.op = "stop", !.clean = clean])
  /\ recorder' = IF failure THEN "joining" ELSE "stopping"
  /\ UNCHANGED <<db, clock, memory, next, work, failure, answers, faults>>
Unanswered(op) == \E i \in DOMAIN Pending : Pending[i].op = op
Stopped ==
  /\ recorder = "joining" \/ (recorder = "stopping" /\ ~Unanswered("stop"))
  /\ work.step = "ended"
  /\ Exits

-----------------------------------------------------------------------------
(* RecordingCommandProcessor: take, write on a thread, answer *)

IsEvents(c) == c.op = "events"
EventCount(cmds) == FoldLeft(LAMBDA n, c : n + Len(c.events), 0, cmds)
EventsOf(cmds) == FoldLeft(LAMBDA es, c : es \o c.events, <<>>, cmds)

\* _write_event_batch gathers what is queued until the batch is large enough or
\* something else comes out, which is processed right after the batch.
Gathered ==
  CHOOSE n \in 1..Len(queue) :
    /\ \A i \in 1..n : IsEvents(queue[i])
    /\ \A k \in 1..n - 1 : EventCount(SubSeq(queue, 1, k)) < BatchSize
    /\ \/ n = Len(queue)
       \/ EventCount(SubSeq(queue, 1, n)) >= BatchSize
       \/ ~IsEvents(queue[n + 1])

Take ==
  /\ work.step = "idle" /\ queue # <<>>
  /\ IF ~IsEvents(Head(queue))
     THEN work' = [step |-> "writing", cmds |-> <<Head(queue)>>, then |-> NoCommand]
          /\ queue' = Tail(queue)
     ELSE LET n == Gathered
              takesNext == n < Len(queue) /\ EventCount(SubSeq(queue, 1, n)) < BatchSize IN
          /\ work' = [step |-> "writing", cmds |-> SubSeq(queue, 1, n),
                      then |-> IF takesNext THEN queue[n + 1] ELSE NoCommand]
          /\ queue' = SubSeq(queue, IF takesNext THEN n + 2 ELSE n + 1, Len(queue))
  /\ UNCHANGED <<db, clock, recorder, memory, next, failure, answers, faults>>

Seen(cmds) == Checked(db, memory, Head(cmds).first, EventsOf(cmds))

\* What the archive refuses before, or SQLite while, it writes the rows
Accepts(cmds) ==
  LET c == Head(cmds) IN
  CASE c.op \in {"events", "open"} -> Seen(cmds).ok
    [] c.op = "close" -> db.events[c.gap].end = Forever
    [] c.op = "checkpoint" -> CheckpointsAllowed(db, memory, c.rows)
    [] OTHER -> TRUE

Transact(cmds) ==
  LET c == Head(cmds) IN
  CASE c.op \in {"events", "open"} ->
         /\ db' = [db EXCEPT !.events = @ \o EventsOf(cmds)]
         /\ memory' = MemoryAfter(memory, Seen(cmds), EventCount(cmds))
    [] c.op = "close" ->
         db' = [db EXCEPT !.events[c.gap].end = c.at] /\ UNCHANGED memory
    [] c.op = "checkpoint" ->
         /\ db' = [db EXCEPT !.checkpoints = @ \cup c.rows]
         /\ memory' = [memory EXCEPT !.last = GreatestOf({r.at : r \in c.rows})]
    [] c.op = "stop" ->
         db' = Closed(db, memory, c.clean, clock) /\ UNCHANGED memory

Write ==
  /\ work.step = "writing"
  /\ Accepts(work.cmds)
  /\ Transact(work.cmds)
  /\ work' = [work EXCEPT !.step = "written"]
  /\ UNCHANGED <<clock, recorder, next, queue, failure, answers, faults>>

\* The transaction is rolled back: a check refused the rows, or SQLite did.
WriteFails ==
  /\ work.step = "writing"
  /\ IF Accepts(work.cmds)
     THEN faults < MaxFaults /\ faults' = faults + 1
     ELSE UNCHANGED faults
  /\ work' = [work EXCEPT !.step = "rejected"]
  /\ UNCHANGED <<db, clock, recorder, memory, next, queue, failure, answers>>

Ids(cmds) ==
  UNION {{<<memory.session, k>> : k \in cmds[i].first..cmds[i].first + Len(cmds[i].events) - 1} :
           i \in DOMAIN cmds}

\* Mutant: the command that ended the batch is acknowledged with it.
Answer_Then ==
  /\ work.step = "written"
  /\ done' = done \cup Ids(work.cmds \o <<work.then>>)
  /\ work' = IF work.then.op = "none" THEN Idle
             ELSE [step |-> "writing", cmds |-> <<work.then>>, then |-> NoCommand]
  /\ UNCHANGED <<db, clock, recorder, memory, next, queue, failure, refused, faults>>
Answer ==
  /\ work.step = "written"
  /\ done' = done \cup Ids(work.cmds)
  /\ work' = CASE Head(work.cmds).op = "stop" -> [Idle EXCEPT !.step = "ended"]
               [] work.then.op # "none" ->
                    [step |-> "writing", cmds |-> <<work.then>>, then |-> NoCommand]
               [] OTHER -> Idle
  /\ UNCHANGED <<db, clock, recorder, memory, next, queue, failure, refused, faults>>

\* The first failure ends the processor: everything queued gets its error.
AnswerError ==
  /\ work.step = "rejected"
  /\ failure' = TRUE
  /\ refused' = refused \cup Ids(work.cmds \o <<work.then>> \o queue)
  /\ queue' = <<>>
  /\ work' = [Idle EXCEPT !.step = IF Head(work.cmds).op = "stop" THEN "ended" ELSE "closing"]
  /\ UNCHANGED <<db, clock, recorder, memory, next, done, faults>>

\* It closes the archive as failed, and ends whether or not that succeeds.
CloseFailed ==
  /\ work.step = "closing"
  /\ \/ /\ db' = Closed(db, memory, FALSE, clock)
        /\ UNCHANGED faults
     \/ /\ faults < MaxFaults /\ faults' = faults + 1
        /\ UNCHANGED db
  /\ work' = [Idle EXCEPT !.step = "ended"]
  /\ UNCHANGED <<clock, recorder, memory, next, queue, failure, answers>>

-----------------------------------------------------------------------------
(* The world around it *)

Tick ==
  /\ recorder # "down" /\ clock < MaxTime
  /\ clock' = clock + 1
  /\ UNCHANGED <<db, recorder, memory, next, queue, work, failure, answers, faults>>

Crash == recorder # "down" /\ Exits

Processor == Take \/ Write \/ WriteFails \/ Answer \/ AnswerError \/ CloseFailed
Callers == RecordMarket \/ RecordResolution \/ OpenGap \/ CloseGap \/ Checkpoint
Service == Bridge \/ Bridged \/ BridgeFails \/ (\E clean \in BOOLEAN : PutStop(clean)) \/ Stopped

Next == Create \/ Resume \/ LeaseForReplay \/ Callers \/ Service \/ Stop \/ Processor
          \/ Tick \/ Crash

Spec == Init /\ [][Next]_vars

-----------------------------------------------------------------------------
(* Properties *)

\* The types, and the numbering on which they rest: the events that wait, one
\* after the other, have the numbers that follow the archive's last, up to the one
\* the writer hands out next; and the archive's memory is what its rows say.
ArchiveNumbered ==
  /\ db.events \in Seq(Row)
  /\ recorder \in {"down", "resumed", "bridging", "recording", "putting", "stopping", "joining"}
  /\ work.step \in {"idle", "writing", "written", "rejected", "closing", "ended"}
  /\ Len(queue) <= QueueSize
  /\ recorder # "down" /\ ~failure =>
       /\ memory.next = LastSequence(db) + 1 /\ memory.last = LastObserved(db)
       /\ \A i \in DOMAIN Pending : Pending[i].events # <<>> =>
            Pending[i].first = memory.next + EventCount(SubSeq(Pending, 1, i - 1))
       /\ next = memory.next + EventCount(Pending)

FirstEvent(s) == LeastOf({i \in DOMAIN db.events : db.events[i].session = s})
HasEvents(s) == \E i \in DOMAIN db.events : db.events[i].session = s

\* Sessions follow each other in time, only the newest can be unfinished, events
\* lie within theirs, and a resumed session opens with a gap over every market,
\* from where the one before ended.
OutagesAreGaps ==
  /\ \A s \in DOMAIN db.sessions :
       /\ Active(db.sessions[s]) => s = Len(db.sessions)
       /\ Allowed(db.sessions[s])
       /\ \A t \in SessionTimes(db, s) : db.sessions[s].start <= t /\ t <= db.sessions[s].end
  /\ \A s \in 2..Len(db.sessions) :
       /\ db.sessions[s - 1].end <= db.sessions[s].start
       /\ HasEvents(s) =>
            LET g == db.events[FirstEvent(s)] IN
            /\ IsGap(g) /\ IsGlobal(g)
            /\ g.start = db.sessions[s - 1].end /\ g.end = g.at

\* The rows, what the writer remembers of them and what waits for it are one
\* numbered history, in which a crash or a stop leaves a gap that says so.
ArchiveConsistent == ArchiveNumbered /\ OutagesAreGaps

Durable == INSTANCE DurableLog WITH
  log <- [i \in DOMAIN db.events |-> <<db.events[i].session, i>>]

\* Acknowledged events are in the archive, refused ones never get there, and what
\* is there stays, in its order (DurableLog).
ImplementsDurableLog == Durable!Spec

\* Who waits for the writer waits for a command it will answer, or for its end: a
\* stop that found no room, while the writer failed and emptied the queue, is not
\* left in a queue that nobody reads.
NobodyWaitsInVain ==
  /\ recorder = "stopping" /\ Unanswered("stop") => ~failure /\ work.step # "ended"
  /\ recorder = "joining" => failure /\ work.step \in {"closing", "ended"}
  /\ recorder = "bridging" /\ Unanswered("open") => ~failure /\ work.step # "ended"
=============================================================================
