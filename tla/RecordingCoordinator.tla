------------------------ MODULE RecordingCoordinator ------------------------
(***************************************************************************)
(* The recorder: one capture per market feeding a pump task, a main task   *)
(* that restarts, checkpoints and resolves, and the writer that commits    *)
(* their commands to the archive in order (RecordingCoordinator,           *)
(* CapturePump, RecordingPersistence, RecordingCommandProcessor).          *)
(*                                                                         *)
(* The tasks share one event loop: a task runs until it awaits.  Steps     *)
(* named in Sync continue without an await, and while a task is in one of  *)
(* them nothing else moves (Yielded).  What is awaited is modelled: the    *)
(* record lock (fair), the acknowledgement of a command, a subscription,   *)
(* the close of a handle, the end of a cancelled pump.                     *)
(*                                                                         *)
(* Books are their revision number at the exchange: a baseline carries any *)
(* revision, a delta applies to the revision before its own.  Observation  *)
(* times are archive sequence numbers, the finest order the clock can give.*)
(* Metadata revisions, trades, ticks, the anomaly journal and changes of   *)
(* the plan are left out.                                                  *)
(***************************************************************************)
EXTENDS Naturals, FiniteSets, Sequences, SequencesExt

CONSTANTS
  Market,          \* tracked conditions
  Resumed,         \* those with a gap left open by the previous session
  Resolving,       \* conditions the exchange resolves
  MaxRevision,     \* bound on the revisions of each book
  MaxFailures,     \* bound on captures that end or cannot be opened
  HandleCapacity,  \* messages an SDK handle holds before it drops the oldest
  MaxPending,      \* MAX_PENDING_CAPTURE_EVENTS
  QueueSize        \* DEFAULT_RECORDING_WRITE_QUEUE_SIZE

ASSUME RecorderAssumption ==
  /\ IsFiniteSet(Market) /\ "main" \notin Market
  /\ Resumed \subseteq Market /\ Resolving \subseteq Market
  /\ MaxRevision \in [Market -> Nat]
  /\ MaxFailures \in Nat
  /\ {HandleCapacity, MaxPending, QueueSize} \subseteq Nat \ {0}

Main == "main"
Tasks == Market \cup {Main}

VARIABLES
  revision,   \* revision[m]: the exchange's book
  handle,     \* handle[m]: unread messages and drop count of the open handle
  tracked,    \* tracked[m]: the coordinator's TrackedMarket; lost: history, the
              \* generations of which a full queue refused an event
  pump,       \* pump[m]: locals of the market's CapturePump.run
  act,        \* act[t]: where task t is, and the locals of what it awaits
  todo,       \* calls the main task still has to make
  control,    \* control messages not handled yet
  lock,       \* the record lock: its holder, then those that wait
  queue,      \* commands the writer has not committed
  log,        \* the archive's events, in sequence order
  gaps,       \* the archive's coverage gaps
  checkpoints,\* the newest batch of the archive's book checkpoints
  remaining,  \* resumed gaps whose market has not recovered
  resumedOpen,\* resumed gaps not closed
  failures,   \* captures that ended or could not be opened
  failed      \* why recording ended, or "no"

vars == <<revision, handle, tracked, pump, act, todo, control, lock, queue, log,
          gaps, checkpoints, remaining, resumedOpen, failures, failed>>
archiveVars == <<log, gaps, checkpoints>>
resumeVars == <<remaining, resumedOpen>>

Sync == {"locked", "own", "release", "select", "loop", "next"}
Awaits == {"none", "reading", "lock", "own_ack", "resumed_ack", "checkpoint_ack",
           "cancelled", "idle", "opening", "closing", "draining", "gap_ack", "gamma_ack"}

Entry == [kind : {"base", "delta", "resolution", "gap"}, market : Market,
          gen : Nat, rev : Nat]

TypeOK ==
  /\ \A m \in Market : revision[m] \in 0..MaxRevision[m]
  /\ \A m \in Market :
       /\ Len(handle[m].msgs) <= HandleCapacity
       /\ tracked[m].seen <= handle[m].dropped
       /\ tracked[m].capture \in {0, tracked[m].gen}
       /\ Cardinality(tracked[m].gaps) <= 1
       /\ Len(pump[m].pending) <= MaxPending
  /\ \A t \in Tasks : act[t].step \in Sync \cup Awaits
  /\ Cardinality({t \in Tasks : act[t].step \in Sync}) <= 1
  /\ IsInjective(lock)
  /\ Len(queue) <= QueueSize
  /\ log \in Seq(Entry)
  /\ \A i \in DOMAIN gaps : log[i].kind = "gap"
  /\ remaining \subseteq resumedOpen

\* The gap a resumed market was left with is an event of the previous session.
ResumedGaps == SetToSeq(Resumed)
ResumedGap(m) == CHOOSE i \in DOMAIN ResumedGaps : ResumedGaps[i] = m

Idle == [step |-> "none", use |-> "none", at |-> 0, market |-> Main, closed |-> FALSE,
         targets |-> {}]
NoPump == [pending |-> <<>>, stop |-> "no", resolved |-> FALSE, retired |-> FALSE]

Init ==
  /\ revision = [m \in Market |-> 0]
  /\ handle = [m \in Market |-> [msgs |-> <<>>, dropped |-> 0]]
  /\ tracked = [m \in Market |->
       [gen |-> 0, capture |-> 0, complete |-> FALSE, book |-> 0, seen |-> 0,
        gaps |-> {}, claimed |-> FALSE, observed |-> Len(ResumedGaps), lost |-> {}]]
  /\ pump = [m \in Market |-> NoPump]
  /\ act = [t \in Tasks |-> IF t = Main THEN [Idle EXCEPT !.step = "next"] ELSE Idle]
  /\ todo = <<[op |-> "ensure", market |-> Main]>>
  /\ control = <<>>
  /\ lock = <<>>
  /\ queue = <<>>
  /\ log = [i \in DOMAIN ResumedGaps |->
              [kind |-> "gap", market |-> ResumedGaps[i], gen |-> 0, rev |-> 0]]
  /\ gaps = [i \in DOMAIN ResumedGaps |->
              [market |-> ResumedGaps[i], start |-> 0, end |-> 0]]
  /\ checkpoints = {}
  /\ remaining = Resumed
  /\ resumedOpen = Resumed
  /\ failures = 0
  /\ failed = "no"

Running(t) == failed = "no" /\ \A u \in Tasks \ {t} : act[u].step \notin Sync
Yielded == failed = "no" /\ \A t \in Tasks : act[t].step \notin Sync

At(t, step) == Running(t) /\ act[t].step = step
Awaiting(t, step) == Yielded /\ act[t].step = step
Go(t, step) == act' = [act EXCEPT ![t].step = step]

\* asyncio.Lock: a free lock is taken without an await, a held one is handed over
\* in order, and the task it is handed to runs when the loop gets there.
Locks(t, use, locals) ==
  /\ lock' = Append(lock, t)
  /\ act' = [act EXCEPT ![t] =
       [locals EXCEPT !.step = IF lock = <<>> THEN "locked" ELSE "lock", !.use = use]]
Holds(t, use) == At(t, "locked") /\ act[t].use = use
Releases == lock' = Tail(lock)

-----------------------------------------------------------------------------
(* The writer's queue and the archive *)

TakesSequence(c) == c.op \in {"event", "open"}
Assigned == Len(log) + Cardinality({i \in DOMAIN queue : TakesSequence(queue[i])})

\* An error in the main task ends the recording; in a pump it becomes a fatal
\* control message.
Raises(t, why) ==
  IF t = Main
  THEN failed' = why /\ UNCHANGED <<act, pump>>
  ELSE /\ pump' = [pump EXCEPT ![t].stop = "fatal"]
       /\ act' = [act EXCEPT ![t] = [Idle EXCEPT !.step = "reading"]]
       /\ UNCHANGED failed

\* put_nowait, then await the acknowledgement at locals.step
Submits(t, cmd, locals) ==
  IF Len(queue) < QueueSize
  THEN /\ queue' = Append(queue, cmd)
       /\ act' = [act EXCEPT ![t] = locals]
       /\ UNCHANGED <<pump, failed>>
  ELSE Raises(t, "queue full") /\ UNCHANGED queue

Answered(t) == \A i \in DOMAIN queue : queue[i].by # t

\* Tokens have a baseline in gen if no later gap of their market withdrew it.
HasBaseline(m, gen) ==
  \E i \in DOMAIN log :
    /\ log[i].kind = "base" /\ log[i].market = m /\ log[i].gen = gen
    /\ \A j \in i + 1..Len(log) : ~(log[j].kind = "gap" /\ log[j].market = m)

Refuses(c) ==
  \/ c.op = "event" /\ c.entry.kind = "delta" /\ ~HasBaseline(c.entry.market, c.entry.gen)
  \/ c.op = "checkpoint" /\ \E b \in c.books : ~HasBaseline(b.market, b.gen)

Error(c) ==
  CASE Refuses(c) -> "refused"
    [] c.op = "close" /\ gaps[c.gap].end # 0 -> "coverage gap is already closed"
    [] OTHER -> "no"

(* RecordingCommandProcessor.run: commit the oldest command, stop at an error *)
Commit ==
  LET c == Head(queue) IN
  /\ Yielded
  /\ queue # <<>>
  /\ failed' = Error(c)
  /\ IF Error(c) # "no" THEN UNCHANGED <<archiveVars, queue>>
     ELSE /\ queue' = Tail(queue)
          /\ log' = IF TakesSequence(c) THEN Append(log, c.entry) ELSE log
          /\ gaps' = CASE c.op = "open" ->
                           [i \in DOMAIN gaps \cup {Len(log) + 1} |->
                              IF i \in DOMAIN gaps THEN gaps[i]
                              ELSE [market |-> c.entry.market, start |-> c.at, end |-> 0]]
                       [] c.op = "close" -> [gaps EXCEPT ![c.gap].end = c.at]
                       [] OTHER -> gaps
          /\ checkpoints' = IF c.op = "checkpoint" THEN c.books ELSE checkpoints
  /\ UNCHANGED <<revision, handle, tracked, pump, act, todo, control, lock,
                 resumeVars, failures>>

-----------------------------------------------------------------------------
(* The exchange and the SDK handle: drop-oldest, counted *)

Deliver(m, msg) ==
  LET msgs == Append(handle[m].msgs, msg) IN
  handle' = [handle EXCEPT ![m] =
    IF Len(msgs) <= HandleCapacity
    THEN [@ EXCEPT !.msgs = msgs]
    ELSE [msgs |-> Tail(msgs), dropped |-> @.dropped + 1]]

Send(m) ==
  /\ Yielded
  /\ revision[m] < MaxRevision[m]
  /\ revision' = [revision EXCEPT ![m] = @ + 1]
  /\ IF tracked[m].capture = 0 THEN UNCHANGED handle
     ELSE Deliver(m, [kind |-> "delta", rev |-> revision[m] + 1])
  /\ UNCHANGED <<tracked, pump, act, todo, control, lock, queue, archiveVars,
                 resumeVars, failures, failed>>

SendResolution(m) ==
  /\ Yielded
  /\ m \in Resolving /\ ~tracked[m].claimed /\ tracked[m].capture # 0
  /\ \A i \in DOMAIN handle[m].msgs : handle[m].msgs[i].kind # "resolution"
  /\ Deliver(m, [kind |-> "resolution", rev |-> revision[m]])
  /\ UNCHANGED <<revision, tracked, pump, act, todo, control, lock, queue,
                 archiveVars, resumeVars, failures, failed>>

-----------------------------------------------------------------------------
(* CapturePump.run *)

\* Mutant: a market that Gamma resolved goes on recording.
Wanted_Unclaimed(m) == tracked[m].capture = tracked[m].gen

Wanted(m) == tracked[m].capture = tracked[m].gen /\ ~tracked[m].claimed

Reads(m) ==
  /\ Yielded
  /\ act[m].step = "reading"
  /\ pump[m].stop = "no" /\ ~pump[m].resolved /\ ~pump[m].retired
  /\ Len(pump[m].pending) < MaxPending

\* project the message, then queue it: both before the next await
EnqueueEvent(m, msg) ==
  LET entry == [kind |-> msg.kind, market |-> m, gen |-> tracked[m].gen, rev |-> msg.rev]
      full == Len(queue) >= QueueSize
      seq == Assigned + 1
      projected ==
        CASE msg.kind = "resolution" -> [tracked[m] EXCEPT !.claimed = TRUE]
          [] msg.kind = "base" -> [tracked[m] EXCEPT !.complete = TRUE, !.book = msg.rev]
          [] OTHER -> [tracked[m] EXCEPT !.book = msg.rev]
  IN /\ tracked' = [tracked EXCEPT ![m] =
          IF full THEN [projected EXCEPT !.lost = @ \cup {projected.gen}] ELSE projected]
     /\ IF full
        THEN /\ pump' = [pump EXCEPT ![m].stop = "fatal"]
             /\ UNCHANGED queue
        ELSE /\ queue' = Append(queue, [op |-> "event", by |-> "nobody", entry |-> entry])
             /\ pump' = [pump EXCEPT
                  ![m].pending = Append(@, [seq |-> seq, ready |-> tracked'[m].complete]),
                  ![m].resolved = msg.kind = "resolution"]

PumpRead(m) ==
  /\ Reads(m)
  /\ handle[m].msgs # <<>>
  /\ handle' = [handle EXCEPT ![m].msgs = Tail(@)]
  /\ LET msg == Head(handle[m].msgs) IN
     \/ \* a delta with no baseline fails in the capture itself
        /\ msg.kind = "delta" /\ ~tracked[m].complete
        /\ pump' = [pump EXCEPT ![m].stop = "failure"]
        /\ UNCHANGED <<tracked, queue>>
     \/ /\ ~(msg.kind = "delta" /\ ~tracked[m].complete)
        /\ handle[m].dropped > tracked[m].seen
        /\ tracked' = [tracked EXCEPT ![m].seen = handle[m].dropped]
        /\ pump' = [pump EXCEPT ![m].stop = "drop"]
        /\ UNCHANGED queue
     \/ /\ ~(msg.kind = "delta" /\ ~tracked[m].complete)
        /\ handle[m].dropped = tracked[m].seen
        /\ ~Wanted(m)
        /\ pump' = [pump EXCEPT ![m].retired = TRUE]
        /\ UNCHANGED <<tracked, queue>>
     \/ /\ ~(msg.kind = "delta" /\ ~tracked[m].complete)
        /\ handle[m].dropped = tracked[m].seen
        /\ Wanted(m)
        /\ EnqueueEvent(m, msg)
  /\ UNCHANGED <<revision, act, todo, control, lock, archiveVars, resumeVars,
                 failures, failed>>

CaptureEnds(m) ==
  /\ Reads(m)
  /\ \/ tracked[m].capture = 0 /\ UNCHANGED failures
     \/ tracked[m].capture # 0 /\ failures < MaxFailures /\ failures' = failures + 1
  /\ pump' = [pump EXCEPT ![m].stop = "failure"]
  /\ UNCHANGED <<revision, handle, tracked, act, todo, control, lock, queue,
                 archiveVars, resumeVars, failed>>

\* an acknowledged event closes the market's gaps once its book is complete
PumpCommitted(m) ==
  /\ Yielded
  /\ act[m].step = "reading"
  /\ pump[m].stop # "fatal"
  /\ pump[m].pending # <<>>
  /\ LET event == Head(pump[m].pending) IN
     /\ event.seq <= Len(log)
     /\ pump' = [pump EXCEPT ![m].pending = Tail(@)]
     /\ tracked' = [tracked EXCEPT ![m].observed =
                      IF event.seq > @ THEN event.seq ELSE @]
     /\ IF event.ready \/ log[event.seq].kind = "resolution"
        THEN act' = [act EXCEPT ![m] = [Idle EXCEPT !.step = "own", !.at = event.seq,
                                                    !.market = m]]
        ELSE Go(m, "loop")
  /\ UNCHANGED <<revision, handle, todo, control, lock, queue, archiveVars,
                 resumeVars, failures, failed>>

Settled(m) == \A i \in DOMAIN pump[m].pending : pump[m].pending[i].seq <= Len(log)

(* back in the loop: losses counted meanwhile stop the capture *)
PumpLoops(m) ==
  /\ At(m, "loop")
  /\ Go(m, "reading")
  /\ IF pump[m].stop = "no" /\ ~pump[m].resolved /\ handle[m].dropped > tracked[m].seen
     THEN /\ tracked' = [tracked EXCEPT ![m].seen = handle[m].dropped]
          /\ pump' = [pump EXCEPT ![m].stop = "drop"]
     ELSE UNCHANGED <<tracked, pump>>
  /\ UNCHANGED <<revision, handle, todo, control, lock, queue, archiveVars,
                 resumeVars, failures, failed>>

PumpReturns(m) ==
  /\ Yielded
  /\ act[m].step = "reading"
  /\ \/ pump[m].pending = <<>> /\ pump[m].stop # "no"
     \/ pump[m].pending = <<>> /\ (pump[m].resolved \/ pump[m].retired)
     \/ pump[m].stop = "fatal" /\ Settled(m)
  /\ Go(m, "none")
  /\ pump' = [pump EXCEPT ![m] = NoPump]
  /\ control' = IF pump[m].retired THEN control
                ELSE Append(control, [market |-> m, gen |-> tracked[m].gen,
                       kind |-> IF pump[m].stop = "fatal" THEN "fatal"
                                ELSE IF pump[m].resolved THEN "resolved"
                                ELSE pump[m].stop])
  /\ UNCHANGED <<revision, handle, tracked, todo, lock, queue, archiveVars,
                 resumeVars, failures, failed>>

-----------------------------------------------------------------------------
(* _close_market_gaps, run by a pump for its market and by the main task *)

Rest == <<revision, handle, todo, control, archiveVars, failures>>

Returns(t) == IF t = Main THEN "next" ELSE "loop"
CloseCommand(t, g) == [op |-> "close", by |-> t, gap |-> g, at |-> act[t].at]

CloseOwn(t) ==
  LET m == act[t].market IN
  /\ At(t, "own")
  /\ \/ /\ tracked[m].gaps = {}
        /\ Go(t, "release")
        /\ UNCHANGED <<queue, pump, failed>>
     \/ \E g \in tracked[m].gaps :
          Submits(t, CloseCommand(t, g),
                  [act[t] EXCEPT !.step = "own_ack", !.closed = TRUE])
  /\ UNCHANGED <<Rest, tracked, lock, resumeVars>>

OwnClosed(t) ==
  /\ Awaiting(t, "own_ack") /\ Answered(t)
  /\ tracked' = [tracked EXCEPT ![act[t].market].gaps = {}]
  /\ Go(t, "release")
  /\ UNCHANGED <<Rest, pump, queue, lock, resumeVars, failed>>

ReleaseResumed(t) ==
  LET m == act[t].market IN
  /\ At(t, "release")
  /\ \/ /\ m \notin remaining
        /\ Go(t, "select")
        /\ UNCHANGED <<remaining, queue, pump, failed>>
     \/ /\ m \in remaining
        /\ remaining' = IF Len(queue) < QueueSize THEN remaining \ {m} ELSE remaining
        /\ Submits(t, CloseCommand(t, ResumedGap(m)), [act[t] EXCEPT !.step = "resumed_ack"])
  /\ UNCHANGED <<Rest, tracked, lock, resumedOpen>>

ResumedClosed(t) ==
  /\ Awaiting(t, "resumed_ack") /\ Answered(t)
  /\ resumedOpen' = resumedOpen \ {act[t].market}
  /\ act' = [act EXCEPT ![t].step = "select", ![t].closed = TRUE]
  /\ UNCHANGED <<Rest, tracked, pump, queue, lock, remaining, failed>>

CanCheckpoint(m) ==
  /\ tracked[m].capture # 0
  /\ tracked[m].complete
  /\ tracked[m].gaps = {} /\ m \notin resumedOpen
  /\ ~tracked[m].claimed

SelectRecovered(t) ==
  LET m == act[t].market IN
  /\ At(t, "select")
  /\ \/ /\ act[t].closed /\ CanCheckpoint(m)
        /\ Locks(t, "checkpoint", [act[t] EXCEPT !.targets = {m}])
     \/ /\ ~(act[t].closed /\ CanCheckpoint(m))
        /\ Go(t, Returns(t))
        /\ UNCHANGED lock
  /\ UNCHANGED <<Rest, tracked, pump, queue, resumeVars, failed>>

\* Mutant: the checkpoint names the newest durable event.
LastSequence_Durable == Len(log)

\* AsyncRecordingWriter.last_sequence counts what is queued
LastSequence == Assigned

WriteCheckpoints(t) ==
  /\ Holds(t, "checkpoint")
  /\ IF \E m \in act[t].targets : tracked[m].capture = 0
     THEN /\ Raises(t, "checkpoint market has no active capture")
          /\ Releases
          /\ UNCHANGED queue
     ELSE /\ Submits(t,
               [op |-> "checkpoint", by |-> t,
                books |-> {[market |-> m, gen |-> tracked[m].capture,
                            rev |-> tracked[m].book, seq |-> LastSequence] :
                             m \in act[t].targets}],
               [act[t] EXCEPT !.step = "checkpoint_ack"])
          /\ IF Len(queue) < QueueSize THEN UNCHANGED lock ELSE Releases
  /\ UNCHANGED <<Rest, tracked, resumeVars>>

CheckpointsWritten(t) ==
  /\ Awaiting(t, "checkpoint_ack") /\ Answered(t)
  /\ Releases
  /\ act' = [act EXCEPT ![t] = [Idle EXCEPT !.step = Returns(t)]]
  /\ UNCHANGED <<Rest, tracked, pump, queue, resumeVars, failed>>

-----------------------------------------------------------------------------
(* RecordingCoordinator.run: calls the main task makes, one after another *)

Calls(op, markets) == [i \in DOMAIN markets |-> [op |-> op, market |-> markets[i]]]
InOrder == SetToSeq(Market)
Call(op) == Calls(op, <<Main>>)

\* _restart_capture
Restart(m) == Calls("close", <<m>>) \o Calls("regap", <<m>>) \o Call("ensure")

AfterResolution(m) == Calls("close", <<m>>)

HandleControl ==
  LET c == Head(control)
      m == c.market
  IN
  /\ Awaiting(Main, "idle")
  /\ control # <<>>
  /\ control' = Tail(control)
  /\ Go(Main, "next")
  /\ \/ c.gen # tracked[m].gen /\ UNCHANGED <<todo, failed>>
     \/ /\ c.gen = tracked[m].gen /\ c.kind = "resolved"
        /\ todo' = AfterResolution(m) /\ UNCHANGED failed
     \/ /\ c.gen = tracked[m].gen /\ c.kind = "fatal"
        /\ failed' = "capture write" /\ UNCHANGED todo
     \/ /\ c.gen = tracked[m].gen /\ c.kind \in {"drop", "failure"}
        /\ todo' = IF tracked[m].claimed THEN Calls("close", <<m>>) ELSE Restart(m)
        /\ UNCHANGED failed
  /\ UNCHANGED <<revision, handle, tracked, pump, lock, queue, archiveVars,
                 resumeVars, failures>>

\* the plan refresh, or the checkpoint timer
Tick ==
  /\ Awaiting(Main, "idle")
  /\ \E timer \in {<<>>, Call("checkpoint")} :
       todo' = Calls("detect", InOrder) \o Call("ensure") \o timer
  /\ Go(Main, "next")
  /\ UNCHANGED <<revision, handle, tracked, pump, control, lock, queue, archiveVars,
                 resumeVars, failures, failed>>

\* _reconcile_resolutions: Gamma says m is resolved
Reconcile(m) ==
  /\ Awaiting(Main, "idle")
  /\ m \in Resolving /\ ~tracked[m].claimed
  /\ todo' = Calls("gamma", <<m>>) \o Calls("close", <<m>>)
  /\ Go(Main, "next")
  /\ UNCHANGED <<revision, handle, tracked, pump, control, lock, queue, archiveVars,
                 resumeVars, failures, failed>>

NextIs(op) == At(Main, "next") /\ todo # <<>> /\ Head(todo).op = op
Target == Head(todo).market
Done(calls) == todo' = calls \o Tail(todo)

MainIdles ==
  /\ At(Main, "next") /\ todo = <<>>
  /\ Go(Main, "idle")
  /\ UNCHANGED <<revision, handle, tracked, pump, todo, control, lock, queue,
                 archiveVars, resumeVars, failures, failed>>

\* Mutant: a market with an open gap is not captured again.
Uncaptured_GapBlocks(m) == ~tracked[m].claimed /\ tracked[m].capture = 0 /\ tracked[m].gaps = {}
Uncaptured(m) == ~tracked[m].claimed /\ tracked[m].capture = 0

EnsureCaptures ==
  /\ \/ /\ NextIs("ensure")
        /\ Done(Calls("open", InOrder)) /\ UNCHANGED act
     \/ /\ NextIs("open")
        /\ Done(<<>>)
        /\ act' = IF Uncaptured(Target)
                  THEN [act EXCEPT ![Main] = [Idle EXCEPT !.step = "opening", !.market = Target]]
                  ELSE act
  /\ UNCHANGED <<revision, handle, tracked, pump, control, lock, queue, archiveVars,
                 resumeVars, failures, failed>>

CaptureOpens ==
  LET m == act[Main].market IN
  /\ Awaiting(Main, "opening")
  /\ handle' = [handle EXCEPT ![m] =
                 [msgs |-> <<[kind |-> "base", rev |-> revision[m]]>>, dropped |-> 0]]
  /\ tracked' = [tracked EXCEPT ![m].gen = @ + 1, ![m].capture = tracked[m].gen + 1,
                                ![m].complete = FALSE, ![m].book = 0, ![m].seen = 0]
  /\ pump' = [pump EXCEPT ![m] = NoPump]
  /\ act' = [act EXCEPT ![m] = [Idle EXCEPT !.step = "reading"],
                        ![Main] = [Idle EXCEPT !.step = "next"]]
  /\ UNCHANGED <<revision, todo, control, lock, queue, archiveVars, resumeVars,
                 failures, failed>>

CaptureRefused ==
  /\ Awaiting(Main, "opening")
  /\ failures < MaxFailures
  /\ failures' = failures + 1
  /\ todo' = Calls("gap", <<act[Main].market>>) \o todo
  /\ Go(Main, "next")
  /\ UNCHANGED <<revision, handle, tracked, pump, control, lock, queue, archiveVars,
                 resumeVars, failed>>

DetectDrops ==
  LET m == Target
      lost == /\ tracked[m].capture # 0 /\ ~tracked[m].claimed
              /\ handle[m].dropped # tracked[m].seen
  IN
  /\ NextIs("detect")
  /\ Done(IF lost THEN Restart(m) ELSE <<>>)
  /\ tracked' = IF lost THEN [tracked EXCEPT ![m].seen = handle[m].dropped] ELSE tracked
  /\ UNCHANGED <<revision, handle, pump, act, control, lock, queue, archiveVars,
                 resumeVars, failures, failed>>

(* RecordingPersistence.open_gap: a market has at most one active gap *)
NeedsRecovery(m) == tracked[m].gaps # {} \/ m \in remaining

GapWanted(op, m) == tracked[m].gaps = {} /\ (op = "regap" => ~NeedsRecovery(m))

OpenGap ==
  LET m == Target
      op == Head(todo).op
  IN
  /\ NextIs("gap") \/ NextIs("regap")
  /\ Done(<<>>)
  /\ IF GapWanted(op, m)
     THEN Locks(Main, "gap", [Idle EXCEPT !.market = m, !.at = tracked[m].observed])
     ELSE UNCHANGED <<lock, act>>
  /\ UNCHANGED <<revision, handle, tracked, pump, control, queue, archiveVars,
                 resumeVars, failures, failed>>

RecordGap ==
  LET m == act[Main].market IN
  /\ Holds(Main, "gap")
  /\ Submits(Main, [op |-> "open", by |-> Main, at |-> act[Main].at,
                    entry |-> [kind |-> "gap", market |-> m, gen |-> tracked[m].gen, rev |-> 0]],
             [act[Main] EXCEPT !.step = "gap_ack", !.at = Assigned + 1])
  /\ UNCHANGED <<Rest, tracked, lock, resumeVars>>

GapRecorded ==
  /\ Awaiting(Main, "gap_ack") /\ Answered(Main)
  /\ tracked' = [tracked EXCEPT ![act[Main].market].gaps = @ \cup {act[Main].at}]
  /\ Releases
  /\ Go(Main, "next")
  /\ UNCHANGED <<Rest, pump, queue, resumeVars, failed>>

CheckpointTimer ==
  LET targets == {m \in Market : CanCheckpoint(m)} IN
  /\ NextIs("checkpoint")
  /\ Done(<<>>)
  /\ IF targets = {} THEN UNCHANGED <<lock, act>>
     ELSE Locks(Main, "checkpoint", [Idle EXCEPT !.targets = targets])
  /\ UNCHANGED <<revision, handle, tracked, pump, control, queue, archiveVars,
                 resumeVars, failures, failed>>

(* _record_gamma_resolution: claim, commit, then close the market's gaps *)
GammaLocks ==
  /\ NextIs("gamma")
  /\ Done(<<>>)
  /\ Locks(Main, "gamma", [Idle EXCEPT !.market = Target])
  /\ UNCHANGED <<revision, handle, tracked, pump, control, queue, archiveVars,
                 resumeVars, failures, failed>>

GammaClaims(m) == ~tracked[m].claimed

RecordGamma ==
  LET m == act[Main].market IN
  /\ Holds(Main, "gamma")
  /\ \/ /\ ~GammaClaims(m)
        /\ Releases
        /\ Go(Main, "next")
        /\ UNCHANGED <<tracked, queue, pump, failed>>
     \/ /\ GammaClaims(m)
        /\ tracked' = [tracked EXCEPT ![m].claimed = TRUE]
        /\ Submits(Main, [op |-> "event", by |-> Main,
                          entry |-> [kind |-> "resolution", market |-> m,
                                     gen |-> tracked[m].gen, rev |-> tracked[m].book]],
                   [act[Main] EXCEPT !.step = "gamma_ack", !.at = Assigned + 1])
        /\ UNCHANGED lock
  /\ UNCHANGED <<Rest, resumeVars>>

GammaRecorded ==
  /\ Awaiting(Main, "gamma_ack") /\ Answered(Main)
  /\ tracked' = [tracked EXCEPT ![act[Main].market].observed =
                   IF act[Main].at > @ THEN act[Main].at ELSE @]
  /\ Releases
  /\ Go(Main, "own")
  /\ UNCHANGED <<Rest, pump, queue, resumeVars, failed>>

-----------------------------------------------------------------------------
(* _close_capture: forget it under the lock, close it, cancel its pump *)

CloseLocks ==
  /\ NextIs("close")
  /\ Done(<<>>)
  /\ Locks(Main, "close", [Idle EXCEPT !.market = Target])
  /\ UNCHANGED <<revision, handle, tracked, pump, control, queue, archiveVars,
                 resumeVars, failures, failed>>

ForgetCapture ==
  LET m == act[Main].market IN
  /\ Holds(Main, "close")
  /\ tracked' = [tracked EXCEPT ![m].capture = 0]
  /\ Releases
  /\ Go(Main, "closing")
  /\ UNCHANGED <<Rest, pump, queue, resumeVars, failed>>

\* What a cancelled pump leaves: its place at the lock is given up, a close of a
\* resumed gap is undone, a command already queued is not taken back.
CancelPump ==
  LET m == act[Main].market IN
  /\ Awaiting(Main, "closing")
  /\ lock' = RemoveFirst(lock, m)
  /\ queue' = [i \in DOMAIN queue |->
                IF queue[i].by = m THEN [queue[i] EXCEPT !.by = "nobody"] ELSE queue[i]]
  /\ remaining' = remaining \cup (IF act[m].step = "resumed_ack" THEN {m} ELSE {})
  /\ act' = [act EXCEPT ![Main].step = IF act[m].step = "none" THEN "next" ELSE "draining",
                        ![m] = IF @.step = "none" THEN @
                               ELSE [Idle EXCEPT !.step = "cancelled"]]
  /\ UNCHANGED <<Rest, tracked, pump, resumedOpen, failed>>

PumpDrained ==
  LET m == act[Main].market IN
  /\ Awaiting(Main, "draining")
  /\ Settled(m)
  /\ act' = [act EXCEPT ![Main].step = "next", ![m] = Idle]
  /\ pump' = [pump EXCEPT ![m] = NoPump]
  /\ UNCHANGED <<Rest, tracked, queue, lock, resumeVars, failed>>

-----------------------------------------------------------------------------
LockGranted(t) ==
  /\ Awaiting(t, "lock")
  /\ Head(lock) = t
  /\ Go(t, "locked")
  /\ UNCHANGED <<Rest, tracked, pump, queue, lock, resumeVars, failed>>

CloseGapsStep(t) ==
  \/ LockGranted(t) \/ CloseOwn(t) \/ OwnClosed(t) \/ ReleaseResumed(t) \/ ResumedClosed(t)
  \/ SelectRecovered(t) \/ WriteCheckpoints(t) \/ CheckpointsWritten(t)

PumpStep(m) ==
  PumpRead(m) \/ PumpCommitted(m) \/ PumpLoops(m) \/ PumpReturns(m) \/ CloseGapsStep(m)

MainStep ==
  \/ MainIdles \/ EnsureCaptures \/ DetectDrops \/ OpenGap \/ RecordGap \/ GapRecorded
  \/ CheckpointTimer \/ GammaLocks \/ RecordGamma \/ GammaRecorded
  \/ CloseLocks \/ ForgetCapture \/ CancelPump \/ PumpDrained
  \/ CloseGapsStep(Main)

Next ==
  \/ Commit
  \/ \E m \in Market : Send(m) \/ SendResolution(m) \/ CaptureEnds(m) \/ PumpStep(m)
                       \/ Reconcile(m)
  \/ MainStep \/ HandleControl \/ Tick \/ CaptureOpens \/ CaptureRefused

Spec == Init /\ [][Next]_vars

\* The loop runs every task that is ready whenever the others yield, and control
\* messages go before timers: strong fairness, as Yielded comes and goes.  The writer
\* drains its queue and the timers fire; the exchange owes nothing.
FairSpec ==
  /\ Spec
  /\ SF_vars(Commit) /\ SF_vars(MainStep) /\ SF_vars(HandleControl)
  /\ SF_vars(CaptureOpens \/ CaptureRefused)
  /\ WF_vars(Tick)
  /\ \A m \in Market : SF_vars(PumpStep(m))

-----------------------------------------------------------------------------
IsBook(e) == e.kind \in {"base", "delta"}

\* A market resolves once in the archive, whichever of the stream and Gamma says
\* it first, and no book event of the market is recorded after that
\* (_enqueue_event and record_gamma_resolution claim the market).
ResolutionIsFinal ==
  \A i, j \in DOMAIN log :
    i < j /\ log[i].kind = "resolution" /\ log[j].market = log[i].market
      => log[j].kind = "gap"

\* A checkpoint holds the book that replaying its generation up to its sequence
\* gives, however many events were still queued when it was taken, unless a full
\* queue refused an event that the projector had applied.
CheckpointsReplay ==
  \A c \in checkpoints : c.gen \notin tracked[c.market].lost =>
    LET seen == {i \in 1..c.seq : /\ IsBook(log[i]) /\ log[i].market = c.market
                                  /\ log[i].gen = c.gen}
    IN seen # {} /\ log[Max(seen)].rev = c.rev

\* The archive never refuses what the recorder sends, unless a full queue refused it
\* first: every delta and every checkpoint follows a baseline of its generation that
\* no gap withdrew.
ArchiveAccepts == failed = "refused" => \E m \in Market : tracked[m].lost # {}

\* What the recorder sends is accepted, and its checkpoints say what a replay finds.
RecorderConsistent == TypeOK /\ ArchiveAccepts /\ CheckpointsReplay

Recording(m) == tracked[m].capture # 0 /\ act[m].step # "none"

\* A market whose capture or pump stopped is recorded again, unless it resolved or
\* the recording ended: no stop is lost between the pump, the control queue and
\* the generations the main task ignores.
CapturesReopen ==
  \A m \in Market :
    [](~Recording(m) => <>(Recording(m) \/ tracked[m].claimed \/ failed # "no"))

\* A resolved market gives up its capture, whoever claimed the resolution.
ResolvedMarketsStop ==
  \A m \in Market :
    [](tracked[m].claimed => <>(tracked[m].capture = 0 \/ failed # "no"))

\* Neither a stopped market nor a resolved one is forgotten.
MarketsAreSeenThrough == CapturesReopen /\ ResolvedMarketsStop

=============================================================================
