---------------------------- MODULE ArchiveReplay ----------------------------
(***************************************************************************)
(* A recording and its backtest: the recorder writes an archive while the  *)
(* exchange moves, then a bot is run over a part of it on a virtual clock  *)
(* (ReplayScheduler, PendingReplayEvents, ReplayClock).                    *)
(*                                                                         *)
(* The recording half is the coordinator reduced to what it commits, with  *)
(* the archive's own checks (ArchiveWrites): RecordingCoordinator and      *)
(* RecordingArchive have its concurrency.  A delta carries the revision it *)
(* led to, which only the properties read.                                 *)
(*                                                                         *)
(* A callback of the bot may sleep, as the paper broker does for an order: *)
(* the clock and the archive go on under it, without calling the bot.      *)
(* What the bot trades is PaperBroker's subject.                           *)
(***************************************************************************)
EXTENDS ArchiveWrites, ReplayStart

CONSTANTS
  MaxTime,      \* bound on the recording's clock
  MaxEvents,    \* bound on the events of the archive
  MaxOf,        \* bounds on its deltas, gaps and checkpoints
  MaxSessions,  \* bound on the recordings made
  Windows,      \* the ranges a backtest is asked for, 0 for what is not given
  Plans,        \* the markets a bot's rules name when it starts
  MaxAge        \* config.event_max_age_ms: older books are not dispatched

ASSUME ReplayAssumption ==
  /\ {PlanRefresh, MaxTime, MaxSessions} \subseteq Nat \ {0}
  /\ {MaxEvents, MaxAge} \subseteq Nat /\ MaxOf \in [{"delta", "gap", "checkpoint"} -> Nat]
  /\ Plans \subseteq SUBSET Market
  /\ Windows \subseteq (0..MaxTime) \X (0..MaxTime)
  /\ MaxTime < Forever

VARIABLES
  db,        \* the archive
  memory,    \* what the open archive remembers of its session
  time,      \* the recorder's clock
  exchange,  \* the revision of every token's book
  phase,     \* recording, closed, or what the backtest is doing
  sel,       \* the selection of the backtest
  plan,      \* the markets the bot's rules name; none means all
  r,         \* the replay (ReplayStart)
  refreshAt, \* ReplayScheduler._next_plan_refresh_ms
  due,       \* _plan_refresh_due
  until,     \* what a sleeping callback sleeps until
  told       \* the last book of each token that left the queue

vars == <<db, memory, time, exchange, phase, sel, plan, r, refreshAt, due, until, told>>
recording == <<db, memory, time, exchange>>
scheduler == <<refreshAt, due, until>>

Unselected == [session |-> 0, allow |-> FALSE, explicit |-> FALSE, from |-> 0, to |-> 0,
               markets |-> {}, tokens |-> {}]

Init ==
  /\ db = WithSession(EmptyArchive, 1)
  /\ memory = MemoryOf(EmptyArchive)
  /\ time = 1
  /\ exchange = [t \in Token |-> 1]
  /\ phase = "recording"
  /\ sel = Unselected /\ plan = {}
  /\ r = Unprimed(EmptyArchive, Unselected)
  /\ refreshAt = 0 /\ due = FALSE /\ until = 0
  /\ told = [t \in Token |-> NoBook]

-----------------------------------------------------------------------------
(* The recording *)

Row(kind, gen, m, t, book) ==
  [session |-> memory.session, gen |-> gen, at |-> time, kind |-> kind, market |-> m,
   token |-> t, start |-> 0, end |-> 0, scope |-> {}, book |-> book]

Fewer(kind) == Cardinality({i \in DOMAIN db.events : db.events[i].kind = kind}) < MaxOf[kind]
Written(d, rows) == [d EXCEPT !.events = @ \o rows]
Writes(rows) ==
  LET seen == Checked(db, memory, memory.next, rows) IN
  /\ seen.ok /\ Len(db.events) + Len(rows) <= MaxEvents
  /\ memory' = MemoryAfter(memory, seen, Len(rows))

Concerning(m) == {i \in DOMAIN db.events : IsGap(db.events[i]) /\ Affects(db.events[i], {m}, TokensOf[m])}
Generation(m) == Cardinality(Concerning(m)) + 1
OpenGapsOf(m) == {i \in Concerning(m) : db.events[i].end = Forever}
Terminal(m) == m \in MarketsWith(db, "resolution")
Baselined(m) == {t \in TokensOf[m] : <<Generation(m), t>> \in memory.baselines}
LastOf(m) == GreatestOf({db.events[i].at : i \in {j \in DOMAIN db.events : db.events[j].market = m}})

ClosedGaps(d, m, at) ==
  [d EXCEPT !.events = [i \in DOMAIN @ |->
     IF i \in OpenGapsOf(m) THEN [@[i] EXCEPT !.end = at] ELSE @[i]]]

Records == phase = "recording" /\ UNCHANGED <<time, phase, sel, plan, r, scheduler, told>>

RecordMetadata(m) ==
  /\ Records
  /\ m \notin KnownMarkets(db)
  /\ Writes(<<Row("metadata", 0, m, NoToken, 0)>>)
  /\ db' = Written(db, <<Row("metadata", 0, m, NoToken, 0)>>)
  /\ UNCHANGED exchange

\* The baseline that completes the pair ends the market's gap.
RecordBaseline(m, t) ==
  LET row == Row("baseline", Generation(m), m, t, exchange[t])
      complete == TokensOf[m] = Baselined(m) \cup {t} IN
  /\ Records
  /\ ~Terminal(m) /\ t \notin Baselined(m)
  /\ Writes(<<row>>)
  /\ db' = Written(IF complete THEN ClosedGaps(db, m, time) ELSE db, <<row>>)
  /\ UNCHANGED exchange

RecordDelta(m, t) ==
  LET row == Row("delta", Generation(m), m, t, exchange[t] + 1) IN
  /\ Records
  /\ ~Terminal(m) /\ t \in Baselined(m) /\ Fewer("delta")
  /\ Writes(<<row>>)
  /\ db' = Written(db, <<row>>)
  /\ exchange' = [exchange EXCEPT ![t] = @ + 1]

\* The gap starts where the market was last observed; its books move meanwhile.
RecordGap(m) ==
  LET row == [Row("gap", Generation(m), NoMarket, NoToken, 0) EXCEPT
                !.start = LastOf(m), !.end = Forever, !.scope = {m}] IN
  /\ Records
  /\ m \in KnownMarkets(db) /\ ~Terminal(m) /\ OpenGapsOf(m) = {} /\ Fewer("gap")
  /\ Writes(<<row>>)
  /\ db' = Written(db, <<row>>)
  /\ exchange' = Over(exchange, TokensOf[m], LAMBDA t : exchange[t] + 1)

\* Reported by Gamma, with the metadata, or by the market's own capture
RecordResolution(m) ==
  /\ Records
  /\ m \in KnownMarkets(db) /\ ~Terminal(m)
  /\ \E rows \in {<<Row("metadata", 0, m, NoToken, 0), Row("resolution", 0, m, NoToken, 0)>>,
                  <<Row("resolution", Generation(m), m, NoToken, 0)>>} :
       Writes(rows) /\ db' = Written(ClosedGaps(db, m, time), rows)
  /\ UNCHANGED exchange

RecordCheckpoint(m) ==
  LET rows == {[seq |-> memory.next - 1, session |-> memory.session, gen |-> Generation(m),
                at |-> time, market |-> m, token |-> t, book |-> exchange[t]] : t \in TokensOf[m]} IN
  /\ Records
  /\ Baselined(m) = TokensOf[m] /\ OpenGapsOf(m) = {} /\ ~Terminal(m)
  /\ CheckpointsAllowed(db, memory, rows)
  /\ Cardinality({<<c.market, c.seq>> : c \in db.checkpoints}) < MaxOf["checkpoint"]
  /\ db' = [db EXCEPT !.checkpoints = @ \cup rows]
  /\ memory' = [memory EXCEPT !.last = time]
  /\ UNCHANGED exchange

Tick ==
  /\ phase = "recording" /\ time < MaxTime
  /\ time' = time + 1
  /\ UNCHANGED <<db, memory, exchange, phase, sel, plan, r, scheduler, told>>

CloseSession(clean) ==
  /\ phase = "recording" /\ db.events # <<>>
  /\ db' = Closed(db, memory, clean, time)
  /\ phase' = "closed"
  /\ UNCHANGED <<memory, time, exchange, sel, plan, r, scheduler, told>>

\* A resumed session opens with the gap over all the markets it was away for.
ResumeSession ==
  LET opened == WithSession(db, time)
      row == [Row("gap", 0, NoMarket, NoToken, 0) EXCEPT
                !.session = Len(opened.sessions), !.start = ResumeFrom(db), !.end = time] IN
  /\ phase = "closed" /\ Len(db.sessions) < MaxSessions
  /\ Len(db.events) < MaxEvents /\ Fewer("gap")
  /\ db' = Written(opened, <<row>>)
  /\ memory' = [MemoryOf(db) EXCEPT !.next = @ + 1, !.last = time, !.hasGap = TRUE]
  /\ exchange' = [t \in Token |-> exchange[t] + 1]
  /\ phase' = "recording"
  /\ UNCHANGED <<time, sel, plan, r, scheduler, told>>

Recorder ==
  \/ \E m \in Market :
       \/ RecordMetadata(m) \/ RecordGap(m) \/ RecordResolution(m) \/ RecordCheckpoint(m)
       \/ \E t \in TokensOf[m] : RecordBaseline(m, t) \/ RecordDelta(m, t)
  \/ Tick \/ ResumeSession \/ (\E clean \in BOOLEAN : CloseSession(clean))

-----------------------------------------------------------------------------
(* The backtest starts *)

Options ==
  {[session |-> s, from |-> w[1], to |-> w[2], markets |-> ms, allow |-> allow] :
     s \in DOMAIN db.sessions, w \in Windows, ms \in Plans, allow \in BOOLEAN}

\* _refresh_admissions: a market of the plan needs metadata, and a book or a blackout.
MissingMarkets(s, markets) ==
  {m \in markets \ s.settled :
     \/ m \notin s.st.known
     \/ m \notin s.admitted /\ ~HasCompleteBook(s.st, m) /\ m \notin s.st.black}
Candidates(s, markets) ==
  (IF markets \ s.settled # {} THEN markets ELSE s.st.known) \ s.settled
Admitting(s, markets) ==
  LET fresh == Candidates(s, markets) \ s.admitted
      books == Bootstraps(s.st, fresh) IN
  IF MissingMarkets(s, markets) # {} THEN [s EXCEPT !.st = Failed(@)]
  ELSE EnqueueBooks([s EXCEPT !.admitted = @ \cup fresh, !.st = Publish(@, books, s.clock)], books)

\* What waits is given to the bot before the scheduler goes on.
Drained(s, next) ==
  CASE s.markers # <<>> -> next
    [] s.markers = <<>> /\ next = "draining" -> "running"
    [] s.markers = <<>> /\ next = "finishing" -> "ended"
Continues(s, next) ==
  /\ r' = s
  /\ phase' = IF s.st.error THEN "failed" ELSE Drained(s, next)

StartBacktest ==
  /\ phase = "closed"
  /\ \E options \in Options, rules \in Plans :
     \E requested \in {Requested(db, options)} :
       /\ Selectable(db, options, requested)
       /\ \E selection \in {Selected(db, requested)} :
          /\ Bootstrappable(db, selection) /\ Primable(db, selection)
          /\ sel' = selection /\ plan' = rules
          /\ due' = FALSE
          /\ \E prepared \in {Prepared(db, selection, rules)} :
             /\ refreshAt' = NextInterval(prepared.clock)
             /\ Continues(IF prepared.st.error THEN prepared
                          ELSE Admitting(Activated(prepared, prepared.clock), rules), "draining")
  /\ UNCHANGED <<recording, until, told>>

-----------------------------------------------------------------------------
(* ReplayScheduler *)

NextEvent == Head(r.cursor)
Target == IF r.cursor = <<>> THEN sel.to ELSE db.events[NextEvent].at

\* _apply_event_mutation
Mutated(s) ==
  LET i == Head(s.cursor)
      popped == [s EXCEPT !.cursor = Tail(@)]
      applied == Apply(s.st, s.db, i)
      shown == EnqueueBooks([popped EXCEPT !.st = applied.st],
                            applied.books \cap TokensOfAll(s.admitted)) IN
  CASE IsGap(s.db.events[i]) -> popped
    [] s.db.events[i].kind = "resolution" /\ s.db.events[i].market \in s.admitted ->
         [shown EXCEPT !.markers = Append(@, Marker("resolution", s.db.events[i].market))]
    [] OTHER -> shown

\* A market that this event made the bot follow still gets its resolution.
NewlyResolved(before, after) ==
  LET e == db.events[Head(before.cursor)] IN
  IF e.kind = "resolution" /\ e.market \notin before.admitted /\ e.market \in after.admitted
  THEN [after EXCEPT !.markers = Append(@, Marker("resolution", e.market))]
  ELSE after

RefreshDue ==
  /\ phase = "running" /\ refreshAt < Target
  /\ Continues(Admitting(Moved(r, refreshAt), plan), "draining")
  /\ refreshAt' = refreshAt + PlanRefresh
  /\ UNCHANGED <<recording, sel, plan, due, until, told>>

ReplayEvent ==
  /\ phase = "running" /\ r.cursor # <<>> /\ refreshAt >= Target
  /\ LET before == Moved(r, Target)
         applied == Mutated(before) IN
     Continues(IF IsGap(db.events[NextEvent]) \/ applied.st.error THEN applied
               ELSE NewlyResolved(before, Admitting(applied, plan)), "draining")
  /\ UNCHANGED <<recording, sel, plan, scheduler, told>>

\* The range ends, at once if a bot without positions says it is done.
Finish ==
  /\ phase = "running" /\ r.cursor = <<>> /\ refreshAt >= Target
  /\ LET end == Moved(r, sel.to) IN
     IF refreshAt = sel.to
     THEN Continues(Admitting(end, plan), "finishing") /\ refreshAt' = refreshAt + PlanRefresh
     ELSE Continues(end, "finishing") /\ UNCHANGED refreshAt
  /\ UNCHANGED <<recording, sel, plan, due, until, told>>
FastForward ==
  /\ phase = "running" /\ r.cursor # <<>> /\ Boundaries(r) = {}
  /\ Continues([r EXCEPT !.clock = sel.to], "finishing")
  /\ UNCHANGED <<recording, sel, plan, scheduler, told>>

Draining == phase \in {"draining", "finishing"}
MarketOf(t) == CHOOSE m \in Market : t \in TokensOf[m]

\* dispatch_book: the book is too old, or the callback is entered
DispatchBook ==
  /\ Draining /\ r.markers # <<>> /\ Head(r.markers).kind = "book"
  /\ LET t == Head(r.markers).what
         popped == [r EXCEPT !.markers = Tail(@), !.pending[t] = NoBook] IN
     /\ told' = [told EXCEPT ![t] = r.pending[t]]
     /\ r' = popped
     /\ phase' = IF r.clock - r.pending[t].at <= MaxAge
                   /\ (plan = {} \/ MarketOf(t) \in plan \cup r.admitted)
                 THEN "callback_" \o phase ELSE Drained(popped, phase)
  /\ UNCHANGED <<recording, sel, plan, scheduler>>

\* _settle: the position is paid out once, the market's books end
Settle ==
  /\ Draining /\ r.markers # <<>> /\ Head(r.markers).kind = "resolution"
  /\ LET m == Head(r.markers).what
         popped == [r EXCEPT !.markers = Tail(@), !.settled = @ \cup {m}, !.admitted = @ \ {m}] IN
     /\ r' = popped
     /\ phase' = IF m \in r.settled THEN Drained(popped, phase) ELSE "callback_" \o phase
  /\ UNCHANGED <<recording, sel, plan, scheduler, told>>

InCallback == phase \in {"callback_draining", "callback_finishing"}
AfterCallback == IF phase = "callback_draining" THEN "draining" ELSE "finishing"

\* The bot may have changed its mind; the plan is read again if that is due.
CallbackReturns ==
  /\ InCallback /\ until = 0
  /\ \E rules \in {plan} \cup {{m} : m \in r.st.known} :
       /\ plan' = rules
       /\ IF due THEN Continues(Admitting(r, rules), AfterCallback)
          ELSE Continues(r, AfterCallback)
  /\ due' = FALSE
  /\ UNCHANGED <<recording, sel, refreshAt, until, told>>

\* ReplayClock.sleep; beyond the range it raises, and the order is rejected.
CallbackSleeps ==
  /\ InCallback /\ until = 0
  /\ until' \in r.clock + 1..sel.to
  /\ UNCHANGED <<recording, sel, plan, r, phase, refreshAt, due, told>>

\* _advance_during_callback: one turn of its loop
EventIsNext == r.cursor # <<>> /\ db.events[NextEvent].at <= until
                 /\ db.events[NextEvent].at <= refreshAt
RefreshIsNext == refreshAt <= until
                   /\ (r.cursor # <<>> => refreshAt < db.events[NextEvent].at)
SleepOverEvent ==
  /\ InCallback /\ EventIsNext
  /\ LET at == db.events[NextEvent].at
         moved == IF at > r.clock THEN Moved(r, at) ELSE r IN
     r' = Mutated(moved) /\ phase' = IF r'.st.error THEN "failed" ELSE phase
  /\ UNCHANGED <<recording, sel, plan, scheduler, told>>
SleepOverRefresh ==
  /\ InCallback /\ ~EventIsNext /\ RefreshIsNext
  /\ r' = Moved(r, refreshAt)
  /\ refreshAt' = refreshAt + PlanRefresh
  /\ due' = TRUE
  /\ UNCHANGED <<recording, sel, plan, phase, until, told>>
WakeUp ==
  /\ InCallback /\ until # 0 /\ ~EventIsNext /\ ~RefreshIsNext
  /\ r' = Moved(r, until)
  /\ until' = 0
  /\ UNCHANGED <<recording, sel, plan, phase, refreshAt, due, told>>

Scheduler ==
  \/ RefreshDue \/ ReplayEvent \/ Finish \/ FastForward
  \/ DispatchBook \/ Settle
  \/ CallbackReturns \/ CallbackSleeps \/ SleepOverEvent \/ SleepOverRefresh \/ WakeUp

Next == Recorder \/ StartBacktest \/ Scheduler
Spec == Init /\ [][Next]_vars

-----------------------------------------------------------------------------
(* Properties *)

Replaying == phase \notin {"recording", "closed", "failed"}

\* A reader refuses at a delta: the ranges that begin with one are enough, and all.
Selections ==
  [from : {1} \cup {db.events[i].at : i \in {j \in DOMAIN db.events : db.events[j].kind = "delta"}},
   to : {Forever}, session : 0..Len(db.sessions),
   markets : (SUBSET Market) \ {{}}, tokens : {{t} : t \in Token} \cup {Token}]
\* Every selection of what the recorder was allowed to commit can be read: it never
\* begins with a delta whose baseline a reader would not find.
AcceptedIsReadable == phase = "recording" => \A s \in Selections : Readable(db, s)

\* The newest book event of t that the replay has passed
Passed ==
  {i \in DOMAIN db.events : db.events[i].session = sel.session /\ db.events[i].at <= sel.to}
    \ Range(r.cursor)
PassedBooks(t) ==
  {i \in Passed : db.events[i].token = t /\ db.events[i].kind \in {"baseline", "delta"}}

\* The bot sees the books the recorder had at this point of the archive, never a
\* later one, never one from before a gap (unless the recorder held it at its end).
BooksAreTheRecorders ==
  Replaying => \A m \in {n \in r.st.known : Visible(r.st, n)} : \A t \in TokensOf[m] :
    r.st.shown[t] # NoBook =>
      /\ PassedBooks(t) # {}
      /\ LET last == GreatestOf(PassedBooks(t)) IN
         /\ r.st.shown[t].rev = db.events[last].book
         /\ \A g \in Passed : IsGap(db.events[g]) /\ Affects(db.events[g], {m}, {t})
              => \/ g < last \/ IsInstantaneous(db.events[g])
                 \/ \E c \in db.checkpoints : c.token = t /\ c.seq >= last /\ db.events[g].end <= c.at

\* While a gap lasts, from the moment it was recorded to start at, its markets show
\* the bot nothing, and no book of theirs waits for it.
GapsHideBooks ==
  Replaying => \A g \in CoverageGaps(db, sel) : \A m \in sel.markets :
    LET gap == db.events[g] IN
    /\ Affects(gap, {m}, TokensOf[m])
    /\ gap.start <= r.clock /\ r.clock < gap.end
    /\ m \in r.st.known \ r.st.resolved
    => ~Visible(r.st, m) /\ \A t \in TokensOf[m] : r.pending[t] = NoBook

\* Books wait once and in their newest form, and when nothing waits the bot has
\* been offered the newest book of every market it follows.
BotIsToldEverything ==
  Replaying =>
    /\ \A t \in Token :
         /\ Cardinality({i \in DOMAIN r.markers : r.markers[i] = Marker("book", t)})
              = (IF r.pending[t] = NoBook THEN 0 ELSE 1)
         /\ r.pending[t] # NoBook => r.pending[t] = r.st.shown[t]
    /\ phase = "running" =>
         \A m \in r.admitted \cap r.st.known : Visible(r.st, m) =>
           \A t \in TokensOf[m] : told[t].rev = r.st.shown[t].rev

\* A market the bot had a book of is settled once, however its end is learned.
SettledOnce ==
  Replaying => \A i \in Passed :
    LET m == db.events[i].market IN
    db.events[i].kind = "resolution" /\ (\E t \in TokensOf[m] : told[t] # NoBook) =>
      Cardinality({k \in DOMAIN r.markers : r.markers[k] = Marker("resolution", m)})
        = (IF m \in r.settled THEN 0 ELSE 1)

\* What is due to the bot reaches it once: books in their newest form, and the end
\* of a market it had a book of.
ToldOnceAndInFull == BotIsToldEverything /\ SettledOnce
=============================================================================
