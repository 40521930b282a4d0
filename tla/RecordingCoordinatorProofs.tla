--------------------- MODULE RecordingCoordinatorProofs ---------------------
(* Proofs about the recorder, for any markets, captures, revisions and limits. *)
EXTENDS RecordingCoordinator, FiniteSetTheorems, SequenceTheorems, TLAPS

(* What the variables range over. *)
Messages == [kind : {"base", "delta", "resolution"}, rev : Nat]
Handles == [msgs : Seq(Messages), dropped : Nat]
Tracked == [gen : Nat, capture : Nat, complete : BOOLEAN, book : Nat, seen : Nat,
            gaps : SUBSET Nat, claimed : BOOLEAN, observed : Nat, lost : SUBSET Nat]
Pending == [seq : Nat, ready : BOOLEAN]
Pumps == [pending : Seq(Pending), stop : {"no", "fatal", "failure", "drop"},
          resolved : BOOLEAN, retired : BOOLEAN]
Uses == {"none", "checkpoint", "gap", "gamma", "close"}
Acts == [step : Sync \cup Awaits, use : Uses, at : Nat, market : Tasks,
         closed : BOOLEAN, targets : SUBSET Market]

(* A task that handles a market knows which: the main task has none in its own *)
(* loop and when it writes checkpoints of many.                                *)
Unplaced(a) ==
  \/ a.step \in {"none", "reading", "next", "loop", "idle", "cancelled"}
  \/ a.use = "checkpoint" /\ a.step \in {"lock", "locked", "checkpoint_ack"}
PlacedActs == {a \in Acts : a.market \in Market \/ Unplaced(a)}

Ops == {"open", "close", "gap", "regap", "detect", "gamma"}
MarketCalls == [op : Ops, market : Market]
MainCalls == [op : {"ensure", "checkpoint"}, market : {Main}]
Callable == MarketCalls \cup MainCalls
Controls == [market : Market, gen : Nat,
             kind : {"no", "fatal", "failure", "drop", "resolved"}]

GapIds == Nat \cup {ResumedGap(m) : m \in Market}
Senders == Tasks \cup {"nobody"}
GapEntry == {e \in Entry : e.kind = "gap"}
EventCommands == [op : {"event"}, by : Senders, entry : Entry]
OpenCommands == [op : {"open"}, by : Senders, at : Nat, entry : GapEntry]
CloseCommands == [op : {"close"}, by : Senders, gap : GapIds, at : Nat]
Checkpoints == [market : Market, gen : Nat, rev : Nat, seq : Nat]
CheckpointCommands == [op : {"checkpoint"}, by : Senders, books : SUBSET Checkpoints]
Commands == EventCommands \cup OpenCommands \cup CloseCommands \cup CheckpointCommands

TasksOK ==
  /\ act \in [Tasks -> PlacedActs]
  /\ todo \in Seq(Callable)
  /\ control \in Seq(Controls)

CapturesOK ==
  /\ revision \in [Market -> Nat]
  /\ handle \in [Market -> Handles]
  /\ tracked \in [Market -> Tracked]
  /\ pump \in [Market -> Pumps]
  /\ remaining \subseteq Market

ArchiveOK ==
  /\ queue \in Seq(Commands)
  /\ log \in Seq(Entry)

RecorderTypes == TasksOK /\ CapturesOK /\ ArchiveOK

(* What the archive holds of a market after its resolution, what it will hold once *)
(* the queue is committed, and who answers for it: the claim that is never undone. *)
Resolution(e) == e.kind = "resolution"
QuietAfter(e, f) == Resolution(e) /\ f.market = e.market => f.kind = "gap"

LogFinal == \A i, j \in DOMAIN log : i < j => QuietAfter(log[i], log[j])
LogQueueFinal ==
  \A i \in DOMAIN log, j \in DOMAIN queue :
    TakesSequence(queue[j]) => QuietAfter(log[i], queue[j].entry)
QueueFinal ==
  \A i, j \in DOMAIN queue :
    i < j /\ TakesSequence(queue[i]) /\ TakesSequence(queue[j])
      => QuietAfter(queue[i].entry, queue[j].entry)
LogClaimed == \A i \in DOMAIN log : Resolution(log[i]) => tracked[log[i].market].claimed
QueueClaimed ==
  \A j \in DOMAIN queue :
    TakesSequence(queue[j]) /\ Resolution(queue[j].entry)
      => tracked[queue[j].entry.market].claimed

FinalInv == LogFinal /\ LogQueueFinal /\ QueueFinal /\ LogClaimed /\ QueueClaimed

RecorderInv == RecorderTypes /\ FinalInv

-----------------------------------------------------------------------------
(* Sequences of markets, and what tasks keep *)

LEMMA MarketsInOrder ==
  ASSUME NEW S, IsFiniteSet(S)
  PROVE  SetToSeq(S) \in Seq(S)
<1> DEFINE n == Cardinality(S)
<1>1. n \in Nat /\ ExistsBijection(1..n, S)
  BY FS_CardinalityType
<1>2. PICK f \in [1..n -> S] : IsInjective(f)
  BY <1>1 DEF ExistsBijection, Bijection, Injection
<1>3. SetToSeq(S) \in [1..n -> S]
  BY <1>2 DEF SetToSeq
<1> HIDE DEF n
<1> QED BY <1>1, <1>3

LEMMA ActFields ==
  ASSUME NEW a \in Acts
  PROVE  /\ a.step \in Sync \cup Awaits /\ a.use \in Uses /\ a.at \in Nat
         /\ a.market \in Tasks /\ a.closed \in BOOLEAN /\ a.targets \subseteq Market
  BY DEF Acts

(* A task that goes on keeps what it knows. *)
LEMMA ActGoesOn ==
  ASSUME NEW a \in Acts, NEW s \in Sync \cup Awaits
  PROVE  /\ [a EXCEPT !.step = s] \in Acts
         /\ [a EXCEPT !.step = s].step = s
         /\ [a EXCEPT !.step = s].use = a.use
         /\ [a EXCEPT !.step = s].market = a.market
  BY DEF Acts

LEMMA IdleActs ==
  /\ Idle \in Acts
  /\ \A s \in Sync \cup Awaits : [Idle EXCEPT !.step = s] \in Acts
  /\ \A m \in Market : [Idle EXCEPT !.market = m] \in Acts
  /\ \A m \in Market, s \in Sync \cup Awaits, n \in Nat :
       [Idle EXCEPT !.step = s, !.at = n, !.market = m] \in Acts
  BY DEF Acts, Idle, Tasks, Uses, Sync, Awaits

LEMMA ActKept ==
  ASSUME TasksOK, NEW t \in Tasks, NEW a \in PlacedActs,
         act' = [act EXCEPT ![t] = a]
  PROVE  act' \in [Tasks -> PlacedActs]
  BY DEF TasksOK

LEMMA MarketsAreTasks == Main \in Tasks /\ Market \subseteq Tasks /\ Main \notin Market
  BY RecorderAssumption DEF Tasks, Main

(* Steps at which a task need not know a market. *)
Loose == {"none", "reading", "next", "loop", "idle", "cancelled"}

LEMMA GoKept ==
  ASSUME TasksOK, NEW t \in Tasks, NEW s \in Sync \cup Awaits, Go(t, s),
         act[t].market \in Market \/ s \in Loose
  PROVE  act' \in [Tasks -> PlacedActs]
<1> DEFINE a == [act[t] EXCEPT !.step = s]
<1>1. act[t] \in Acts
  BY DEF TasksOK, PlacedActs
<1>2. a \in Acts /\ a.step = s /\ a.market = act[t].market
  BY <1>1, ActGoesOn
<1>3. a \in PlacedActs
  BY <1>2 DEF PlacedActs, Unplaced, Loose
<1>4. act' = [act EXCEPT ![t] = a]
  BY DEF Go
<1> HIDE DEF a
<1> QED BY <1>3, <1>4, ActKept

LEMMA LocksKept ==
  ASSUME TasksOK, NEW t \in Tasks, NEW u \in Uses, NEW locals \in Acts,
         Locks(t, u, locals), locals.market \in Market \/ u = "checkpoint"
  PROVE  act' \in [Tasks -> PlacedActs]
<1> DEFINE s == IF lock = <<>> THEN "locked" ELSE "lock"
           a == [locals EXCEPT !.step = s, !.use = u]
<1>1. s \in {"lock", "locked"}
  OBVIOUS
<1>2. act' = [act EXCEPT ![t] = a]
  BY DEF Locks
<1> HIDE DEF s
<1>3. a \in Acts /\ a.step = s /\ a.use = u /\ a.market = locals.market
  BY <1>1 DEF Acts, Sync, Awaits
<1>4. a \in PlacedActs
  BY <1>1, <1>3 DEF PlacedActs, Unplaced
<1> HIDE DEF a
<1> QED BY <1>2, <1>4, ActKept

LEMMA RaisesKept ==
  ASSUME RecorderTypes, NEW t \in Tasks, NEW why, Raises(t, why)
  PROVE  act' \in [Tasks -> PlacedActs] /\ pump' \in [Market -> Pumps]
<1> USE DEF RecorderTypes, CapturesOK
<1>1. CASE t = Main
  BY <1>1 DEF Raises, TasksOK
<1>2. CASE t # Main
  <2> DEFINE a == [Idle EXCEPT !.step = "reading"]
  <2>1. t \in Market
    BY <1>2 DEF Tasks
  <2>2. a \in Acts /\ a.step = "reading"
    BY IdleActs, ActGoesOn DEF Sync, Awaits
  <2>3. a \in PlacedActs
    BY <2>2 DEF PlacedActs, Unplaced
  <2>4. act' = [act EXCEPT ![t] = a] /\ pump' = [pump EXCEPT ![t].stop = "fatal"]
    BY <1>2 DEF Raises
  <2> HIDE DEF a
  <2>5. act' \in [Tasks -> PlacedActs]
    BY <2>3, <2>4, ActKept
  <2>6. pump[t] \in Pumps
    BY <2>1
  <2>7. [pump[t] EXCEPT !.stop = "fatal"] \in Pumps
    BY <2>6 DEF Pumps
  <2> QED BY <2>4, <2>5, <2>7
<1> QED BY <1>1, <1>2

LEMMA SubmitsKept ==
  ASSUME RecorderTypes, NEW t \in Tasks, NEW cmd \in Commands, NEW locals \in PlacedActs,
         Submits(t, cmd, locals)
  PROVE  /\ act' \in [Tasks -> PlacedActs] /\ pump' \in [Market -> Pumps]
         /\ queue' \in Seq(Commands)
         /\ queue' = queue \/ queue' = Append(queue, cmd)
<1> USE DEF RecorderTypes, CapturesOK, ArchiveOK
<1>1. CASE Len(queue) < QueueSize
  <2>1. act' = [act EXCEPT ![t] = locals] /\ pump' = pump /\ queue' = Append(queue, cmd)
    BY <1>1 DEF Submits
  <2>2. act' \in [Tasks -> PlacedActs]
    BY <2>1, ActKept
  <2> QED BY <2>1, <2>2
<1>2. CASE ~(Len(queue) < QueueSize)
  <2>1. Raises(t, "queue full") /\ queue' = queue
    BY <1>2 DEF Submits
  <2> QED BY <2>1, RaisesKept
<1> QED BY <1>1, <1>2

LEMMA TrackedKept ==
  ASSUME NEW r \in Tracked, NEW n \in Nat, NEW S \in SUBSET Nat
  PROVE  /\ [r EXCEPT !.seen = n] \in Tracked /\ [r EXCEPT !.seen = n].claimed = r.claimed
         /\ [r EXCEPT !.capture = 0] \in Tracked
         /\ [r EXCEPT !.capture = 0].claimed = r.claimed
         /\ [r EXCEPT !.claimed = TRUE] \in Tracked /\ [r EXCEPT !.claimed = TRUE].claimed
         /\ [r EXCEPT !.book = n] \in Tracked /\ [r EXCEPT !.book = n].claimed = r.claimed
         /\ [r EXCEPT !.complete = TRUE, !.book = n] \in Tracked
         /\ [r EXCEPT !.complete = TRUE, !.book = n].claimed = r.claimed
         /\ [r EXCEPT !.observed = n] \in Tracked
         /\ [r EXCEPT !.observed = n].claimed = r.claimed
         /\ [r EXCEPT !.gaps = S] \in Tracked /\ [r EXCEPT !.gaps = S].claimed = r.claimed
         /\ [r EXCEPT !.lost = S] \in Tracked /\ [r EXCEPT !.lost = S].claimed = r.claimed
  BY DEF Tracked

LEMMA TrackedOpened ==
  ASSUME NEW r \in Tracked, NEW n \in Nat
  PROVE  LET q == [r EXCEPT !.gen = n, !.capture = n, !.complete = FALSE, !.book = 0,
                            !.seen = 0]
         IN  q \in Tracked /\ q.claimed = r.claimed
<1> DEFINE r1 == [r EXCEPT !.gen = n]
           r2 == [r1 EXCEPT !.capture = n]
           r3 == [r2 EXCEPT !.complete = FALSE]
           r4 == [r3 EXCEPT !.book = 0]
           r5 == [r4 EXCEPT !.seen = 0]
<1>1. r1 \in Tracked /\ r1.claimed = r.claimed
  BY DEF Tracked
<1> HIDE DEF r1
<1>2. r2 \in Tracked /\ r2.claimed = r.claimed
  BY <1>1 DEF Tracked
<1> HIDE DEF r2
<1>3. r3 \in Tracked /\ r3.claimed = r.claimed
  BY <1>2 DEF Tracked
<1> HIDE DEF r3
<1>4. r4 \in Tracked /\ r4.claimed = r.claimed
  BY <1>3 DEF Tracked
<1> HIDE DEF r4
<1>5. r5 \in Tracked /\ r5.claimed = r.claimed
  BY <1>4 DEF Tracked
<1> QED BY <1>5 DEF r1, r2, r3, r4

-----------------------------------------------------------------------------
(* What steps do to the archive and its queue *)

(* A command may be queued if it says nothing of a resolved market but a gap, and *)
(* claims the market it resolves.                                                 *)
Lawful(c) ==
  TakesSequence(c) =>
    \/ c.entry.kind = "gap"
    \/ /\ ~tracked[c.entry.market].claimed
       /\ Resolution(c.entry) => tracked'[c.entry.market].claimed

(* Who awaits a command does not matter to what it says. *)
Readdressed ==
  /\ DOMAIN queue' = DOMAIN queue
  /\ \A i \in DOMAIN queue :
       /\ TakesSequence(queue'[i]) <=> TakesSequence(queue[i])
       /\ TakesSequence(queue[i]) => queue'[i].entry = queue[i].entry

Sends ==
  /\ log' = log
  /\ \/ Readdressed
     \/ \E c \in Commands : queue' = Append(queue, c) /\ Lawful(c)

ClaimsStand == \A m \in Market : tracked[m].claimed => tracked'[m].claimed

Kept == RecorderTypes' /\ Sends /\ ClaimsStand

LEMMA EntryMarkets ==
  /\ \A e \in Entry : e.market \in Market /\ e.kind \in {"base", "delta", "resolution", "gap"}
  /\ \A c \in Commands : TakesSequence(c) => c.entry \in Entry
<1>1. \A e \in Entry : e.market \in Market /\ e.kind \in {"base", "delta", "resolution", "gap"}
  BY DEF Entry
<1>2. ASSUME NEW c \in Commands, TakesSequence(c)
      PROVE  c.entry \in Entry
  <2>1. c.op \in {"event", "open"}
    BY <1>2 DEF TakesSequence
  <2>2. c \in EventCommands \cup OpenCommands
    BY <2>1 DEF Commands, CloseCommands, CheckpointCommands
  <2> QED BY <2>2 DEF EventCommands, OpenCommands, GapEntry
<1> QED BY <1>1, <1>2

LEMMA ReaddressedIsFinal ==
  ASSUME RecorderTypes, FinalInv, log' = log, Readdressed, ClaimsStand
  PROVE  FinalInv'
<1> USE DEF FinalInv, Readdressed
<1>0. /\ \A i \in DOMAIN log : log[i].market \in Market
      /\ \A i \in DOMAIN queue : TakesSequence(queue[i]) => queue[i].entry.market \in Market
  BY EntryMarkets DEF RecorderTypes, ArchiveOK
<1>1. LogFinal'
  BY DEF LogFinal
<1>2. LogQueueFinal'
  BY DEF LogQueueFinal
<1>3. QueueFinal'
  BY DEF QueueFinal
<1>4. LogClaimed'
  BY <1>0 DEF LogClaimed, ClaimsStand
<1>5. QueueClaimed'
  BY <1>0 DEF QueueClaimed, ClaimsStand
<1> QED BY <1>1, <1>2, <1>3, <1>4, <1>5

LEMMA QueuedIsFinal ==
  ASSUME RecorderTypes, FinalInv, log' = log, NEW c \in Commands,
         queue' = Append(queue, c), Lawful(c), ClaimsStand
  PROVE  FinalInv'
<1> DEFINE n == Len(queue)
<1> USE DEF FinalInv
<1>1. /\ n \in Nat /\ DOMAIN queue = 1..n /\ DOMAIN queue' = 1..(n + 1)
      /\ \A i \in 1..n : queue'[i] = queue[i]
      /\ queue'[n + 1] = c
  BY DEF RecorderTypes, ArchiveOK
<1> HIDE DEF n
<1>2. /\ \A i \in DOMAIN log : log[i].market \in Market
      /\ \A i \in DOMAIN queue : TakesSequence(queue[i]) => queue[i].entry.market \in Market
      /\ TakesSequence(c) => c.entry.market \in Market
  BY EntryMarkets DEF RecorderTypes, ArchiveOK
<1>3. LogFinal'
  BY DEF LogFinal
<1>4. ASSUME TakesSequence(c), c.entry.kind # "gap"
      PROVE  /\ ~tracked[c.entry.market].claimed
             /\ Resolution(c.entry) => tracked'[c.entry.market].claimed
  BY <1>4 DEF Lawful
<1>5. ASSUME NEW i \in DOMAIN log, TakesSequence(c)
      PROVE  QuietAfter(log[i], c.entry)
  BY <1>4, <1>5 DEF QuietAfter, LogClaimed
<1>6. ASSUME NEW i \in DOMAIN queue, TakesSequence(queue[i]), TakesSequence(c)
      PROVE  QuietAfter(queue[i].entry, c.entry)
  BY <1>4, <1>6 DEF QuietAfter, QueueClaimed
<1>7. LogQueueFinal'
  BY <1>1, <1>5 DEF LogQueueFinal
<1>8. QueueFinal'
  <2> SUFFICES ASSUME NEW i \in DOMAIN queue', NEW j \in DOMAIN queue', i < j,
                      TakesSequence(queue'[i]), TakesSequence(queue'[j])
               PROVE  QuietAfter(queue'[i].entry, queue'[j].entry)
    BY DEF QueueFinal
  <2>1. i \in 1..n
    BY <1>1
  <2>2. CASE j \in 1..n
    BY <1>1, <2>1, <2>2 DEF QueueFinal
  <2>3. CASE j = n + 1
    BY <1>1, <1>6, <2>1, <2>3
  <2> QED BY <1>1, <2>2, <2>3
<1>9. LogClaimed'
  BY <1>2 DEF LogClaimed, ClaimsStand
<1>10. QueueClaimed'
  <2> SUFFICES ASSUME NEW j \in DOMAIN queue', TakesSequence(queue'[j]),
                      Resolution(queue'[j].entry)
               PROVE  tracked'[queue'[j].entry.market].claimed
    BY DEF QueueClaimed
  <2>1. CASE j \in 1..n
    BY <1>1, <1>2, <2>1 DEF QueueClaimed, ClaimsStand
  <2>2. CASE j = n + 1
    BY <1>1, <1>4, <2>2 DEF Resolution
  <2> QED BY <1>1, <2>1, <2>2
<1> QED BY <1>3, <1>7, <1>8, <1>9, <1>10

LEMMA SendsIsFinal ==
  ASSUME RecorderTypes, FinalInv, Sends, ClaimsStand
  PROVE  FinalInv'
  BY ReaddressedIsFinal, QueuedIsFinal DEF Sends

LEMMA CommitIsFinal ==
  ASSUME RecorderInv, Commit
  PROVE  RecorderInv'
<1> DEFINE c == Head(queue)
           n == Len(queue)
           k == Len(log)
<1> USE DEF RecorderInv, RecorderTypes
<1>1. TasksOK' /\ CapturesOK' /\ tracked' = tracked
  BY DEF Commit, TasksOK, CapturesOK, resumeVars
<1>2. CASE Error(c) # "no"
  <2>1. log' = log /\ queue' = queue
    BY <1>2 DEF Commit, archiveVars
  <2>2. Readdressed /\ ClaimsStand
    BY <1>1, <2>1 DEF Readdressed, ClaimsStand
  <2>3. FinalInv'
    BY <2>1, <2>2, ReaddressedIsFinal
  <2>4. ArchiveOK'
    BY <2>1 DEF ArchiveOK
  <2> QED BY <1>1, <2>3, <2>4
<1>3. CASE Error(c) = "no"
  <2>1. /\ queue # <<>> /\ queue' = Tail(queue)
        /\ log' = IF TakesSequence(c) THEN Append(log, c.entry) ELSE log
    BY <1>3 DEF Commit
  <2>2. /\ n \in Nat \ {0} /\ DOMAIN queue = 1..n /\ DOMAIN queue' = 1..(n - 1)
        /\ \A i \in 1..(n - 1) : queue'[i] = queue[i + 1]
        /\ c = queue[1] /\ c \in Commands
        /\ queue' \in Seq(Commands)
    BY <2>1 DEF ArchiveOK
  <2>3. k \in Nat /\ DOMAIN log = 1..k
    BY DEF ArchiveOK
  <2> HIDE DEF c, n, k
  <2> USE DEF FinalInv
  <2>6. QueueFinal'
    <3> SUFFICES ASSUME NEW i \in DOMAIN queue', NEW j \in DOMAIN queue', i < j,
                        TakesSequence(queue'[i]), TakesSequence(queue'[j])
                 PROVE  QuietAfter(queue'[i].entry, queue'[j].entry)
      BY DEF QueueFinal
    <3>1. /\ i + 1 \in DOMAIN queue /\ queue'[i] = queue[i + 1]
          /\ j + 1 \in DOMAIN queue /\ queue'[j] = queue[j + 1]
          /\ i + 1 < j + 1
      BY <2>2
    <3> QED BY <3>1 DEF QueueFinal
  <2>4. CASE ~TakesSequence(c)
    <3>1. log' = log
      BY <2>1, <2>4
    <3>2. ArchiveOK'
      BY <2>2, <3>1 DEF ArchiveOK
    <3>3. LogFinal' /\ LogClaimed'
      BY <1>1, <3>1 DEF LogFinal, LogClaimed
    <3>4. LogQueueFinal'
      BY <2>2, <3>1 DEF LogQueueFinal
    <3>5. QueueFinal'
      BY <2>6
    <3>6. QueueClaimed'
      BY <1>1, <2>2 DEF QueueClaimed
    <3> QED BY <1>1, <3>2, <3>3, <3>4, <3>5, <3>6
  <2>5. CASE TakesSequence(c)
    <3>1. c.entry \in Entry /\ log' = Append(log, c.entry)
      BY <2>1, <2>2, <2>5, EntryMarkets
    <3>2. /\ DOMAIN log' = 1..(k + 1) /\ log'[k + 1] = c.entry
          /\ \A i \in 1..k : log'[i] = log[i]
          /\ log' \in Seq(Entry)
      BY <3>1 DEF ArchiveOK, k
    <3>3. ArchiveOK'
      BY <2>2, <3>2 DEF ArchiveOK
    <3>4. \A i \in 1..k : QuietAfter(log[i], c.entry)
      <4>1. 1 \in DOMAIN queue /\ queue[1] = c
        BY <2>2
      <4> QED BY <2>3, <2>5, <4>1 DEF LogQueueFinal
    <3>5. LogFinal'
      <4> SUFFICES ASSUME NEW i \in DOMAIN log', NEW j \in DOMAIN log', i < j
                   PROVE  QuietAfter(log'[i], log'[j])
        BY DEF LogFinal
      <4>1. i \in 1..k
        BY <2>3, <3>2
      <4>2. CASE j \in 1..k
        BY <2>3, <3>2, <4>1, <4>2 DEF LogFinal
      <4>3. CASE j = k + 1
        BY <3>2, <3>4, <4>1, <4>3
      <4> QED BY <2>3, <3>2, <4>2, <4>3
    <3>6. LogQueueFinal'
      <4> SUFFICES ASSUME NEW i \in DOMAIN log', NEW j \in DOMAIN queue',
                          TakesSequence(queue'[j])
                   PROVE  QuietAfter(log'[i], queue'[j].entry)
        BY DEF LogQueueFinal
      <4>1. j + 1 \in DOMAIN queue /\ queue'[j] = queue[j + 1] /\ 1 < j + 1
        BY <2>2
      <4>2. CASE i \in 1..k
        BY <2>3, <3>2, <4>1, <4>2 DEF LogQueueFinal
      <4>3. CASE i = k + 1
        BY <2>2, <2>5, <3>2, <4>1, <4>3 DEF QueueFinal
      <4> QED BY <2>3, <3>2, <4>2, <4>3
    <3>7. QueueFinal'
      BY <2>6
    <3>8. LogClaimed'
      BY <1>1, <2>2, <2>3, <2>5, <3>2 DEF LogClaimed, QueueClaimed
    <3>9. QueueClaimed'
      BY <1>1, <2>2 DEF QueueClaimed
    <3> QED BY <1>1, <3>3, <3>5, <3>6, <3>7, <3>8, <3>9
  <2> QED BY <2>4, <2>5
<1> QED BY <1>2, <1>3

LEMMA AssignedIsNat ==
  ASSUME RecorderTypes
  PROVE  Assigned \in Nat
<1> DEFINE S == {i \in DOMAIN queue : TakesSequence(queue[i])}
<1>1. Len(queue) \in Nat /\ DOMAIN queue = 1..Len(queue) /\ Len(log) \in Nat
  BY DEF RecorderTypes, ArchiveOK
<1>2. IsFiniteSet(1..Len(queue)) /\ S \subseteq 1..Len(queue)
  BY <1>1, FS_Interval
<1>3. Cardinality(S) \in Nat
  BY <1>2, FS_Subset, FS_CardinalityType
<1> QED BY <1>1, <1>3 DEF Assigned

LEMMA QuietStep ==
  ASSUME RecorderTypes, TasksOK', CapturesOK', UNCHANGED <<queue, log>>, ClaimsStand
  PROVE  Kept
  BY DEF Kept, Sends, Readdressed, RecorderTypes, ArchiveOK

LEMMA UnclaimedStep ==
  ASSUME RecorderTypes, UNCHANGED tracked
  PROVE  ClaimsStand
  BY DEF ClaimsStand

(* A command that takes no sequence number, or records a gap, is lawful. *)
LEMMA SentStep ==
  ASSUME RecorderTypes, TasksOK', CapturesOK', queue' \in Seq(Commands), UNCHANGED log,
         ClaimsStand, NEW c \in Commands, Lawful(c),
         queue' = queue \/ queue' = Append(queue, c)
  PROVE  Kept
  BY DEF Kept, Sends, Readdressed, RecorderTypes, ArchiveOK

LEMMA CloseIsLawful ==
  ASSUME RecorderTypes, NEW t \in Tasks, NEW g \in GapIds
  PROVE  CloseCommand(t, g) \in Commands /\ Lawful(CloseCommand(t, g))
<1>1. act[t].at \in Nat
  BY ActFields DEF RecorderTypes, TasksOK, PlacedActs
<1>2. CloseCommand(t, g) \in CloseCommands
  BY <1>1 DEF CloseCommand, CloseCommands, Senders
<1>3. CloseCommand(t, g).op = "close"
  BY DEF CloseCommand
<1> QED BY <1>2, <1>3 DEF Commands, Lawful, TakesSequence

LEMMA CheckpointIsLawful ==
  ASSUME NEW t \in Tasks, NEW books \in SUBSET Checkpoints
  PROVE  LET c == [op |-> "checkpoint", by |-> t, books |-> books]
         IN  c \in Commands /\ Lawful(c)
<1> DEFINE c == [op |-> "checkpoint", by |-> t, books |-> books]
<1>1. c \in CheckpointCommands /\ c.op = "checkpoint"
  BY DEF CheckpointCommands, Senders
<1> QED BY <1>1 DEF Commands, Lawful, TakesSequence

LEMMA LockGrantedKeeps ==
  ASSUME RecorderTypes, NEW t \in Tasks, LockGranted(t)
  PROVE  Kept
<1> USE DEF RecorderTypes, LockGranted, Rest, resumeVars, archiveVars
<1> DEFINE a == [act[t] EXCEPT !.step = "locked"]
<1>1. act[t] \in PlacedActs /\ act[t] \in Acts /\ act[t].step = "lock"
  BY DEF TasksOK, PlacedActs, Awaiting
<1>2. a \in Acts /\ a.step = "locked" /\ a.use = act[t].use /\ a.market = act[t].market
  BY <1>1, ActGoesOn DEF Sync
<1>3. a \in PlacedActs
  BY <1>1, <1>2 DEF PlacedActs, Unplaced
<1>4. act' = [act EXCEPT ![t] = a]
  BY DEF Go
<1> HIDE DEF a
<1>5. act' \in [Tasks -> PlacedActs]
  BY <1>3, <1>4, ActKept
<1>6. TasksOK' /\ CapturesOK'
  BY <1>5 DEF TasksOK, CapturesOK
<1> QED BY <1>6, QuietStep, UnclaimedStep

LEMMA CloseOwnKeeps ==
  ASSUME RecorderTypes, NEW t \in Tasks, CloseOwn(t)
  PROVE  Kept
<1> USE DEF RecorderTypes, Rest, resumeVars, archiveVars
<1> DEFINE m == act[t].market
<1>1. act[t] \in PlacedActs /\ act[t] \in Acts /\ act[t].step = "own"
  BY DEF TasksOK, PlacedActs, CloseOwn, At
<1>2. m \in Market
  BY <1>1 DEF PlacedActs, Unplaced
<1>3. CASE tracked[m].gaps = {} /\ Go(t, "release") /\ UNCHANGED <<queue, pump>>
  <2>1. act' \in [Tasks -> PlacedActs]
    BY <1>2, <1>3, GoKept DEF Sync
  <2>2. TasksOK' /\ CapturesOK'
    BY <1>3, <2>1 DEF TasksOK, CapturesOK, CloseOwn
  <2> QED BY <1>3, <2>2, QuietStep, UnclaimedStep DEF CloseOwn
<1>4. ASSUME NEW g \in tracked[m].gaps,
             Submits(t, CloseCommand(t, g), [act[t] EXCEPT !.step = "own_ack", !.closed = TRUE])
      PROVE  Kept
  <2> DEFINE a == [act[t] EXCEPT !.step = "own_ack", !.closed = TRUE]
             c == CloseCommand(t, g)
  <2>1. a \in Acts /\ a.market = m
    BY <1>1 DEF Acts, Awaits
  <2>2. a \in PlacedActs
    BY <1>2, <2>1 DEF PlacedActs
  <2>3. g \in GapIds
    BY <1>2 DEF CapturesOK, Tracked, GapIds
  <2>4. c \in Commands /\ Lawful(c)
    BY <2>3, CloseIsLawful
  <2> HIDE DEF a, c
  <2>5. Submits(t, c, a)
    BY <1>4 DEF a, c
  <2>6. /\ act' \in [Tasks -> PlacedActs] /\ pump' \in [Market -> Pumps]
        /\ queue' \in Seq(Commands)
        /\ queue' = queue \/ queue' = Append(queue, c)
    BY <2>2, <2>4, <2>5, SubmitsKept
  <2>7. TasksOK' /\ CapturesOK'
    BY <2>6 DEF TasksOK, CapturesOK, CloseOwn
  <2> QED BY <2>4, <2>6, <2>7, SentStep, UnclaimedStep DEF CloseOwn
<1> QED BY <1>3, <1>4 DEF CloseOwn

LEMMA OwnClosedKeeps ==
  ASSUME RecorderTypes, NEW t \in Tasks, OwnClosed(t)
  PROVE  Kept
<1> USE DEF RecorderTypes, OwnClosed, Rest, resumeVars, archiveVars
<1> DEFINE m == act[t].market
<1>1. act[t] \in PlacedActs /\ act[t].step = "own_ack"
  BY DEF TasksOK, Awaiting
<1>2. m \in Market
  BY <1>1 DEF PlacedActs, Unplaced
<1>3. act' \in [Tasks -> PlacedActs]
  BY <1>2, GoKept DEF Sync
<1>4. tracked[m] \in Tracked /\ {} \in SUBSET Nat
  BY <1>2 DEF CapturesOK
<1>5. /\ [tracked[m] EXCEPT !.gaps = {}] \in Tracked
      /\ [tracked[m] EXCEPT !.gaps = {}].claimed = tracked[m].claimed
  BY <1>4, TrackedKept
<1>6. tracked' \in [Market -> Tracked] /\ ClaimsStand
  BY <1>2, <1>5 DEF CapturesOK, ClaimsStand
<1>7. TasksOK' /\ CapturesOK'
  BY <1>3, <1>6 DEF TasksOK, CapturesOK
<1> QED BY <1>6, <1>7, QuietStep

LEMMA ReleaseResumedKeeps ==
  ASSUME RecorderTypes, NEW t \in Tasks, ReleaseResumed(t)
  PROVE  Kept
<1> USE DEF RecorderTypes, Rest, resumeVars, archiveVars
<1> DEFINE m == act[t].market
<1>1. act[t] \in PlacedActs /\ act[t] \in Acts /\ act[t].step = "release"
  BY DEF TasksOK, PlacedActs, ReleaseResumed, At
<1>2. m \in Market
  BY <1>1 DEF PlacedActs, Unplaced
<1>3. CASE m \notin remaining
  <2>1. act' \in [Tasks -> PlacedActs]
    BY <1>2, <1>3, GoKept DEF Sync, ReleaseResumed
  <2>2. TasksOK' /\ CapturesOK'
    BY <1>3, <2>1 DEF TasksOK, CapturesOK, ReleaseResumed
  <2> QED BY <1>3, <2>2, QuietStep, UnclaimedStep DEF ReleaseResumed
<1>4. CASE m \in remaining
  <2> DEFINE a == [act[t] EXCEPT !.step = "resumed_ack"]
             c == CloseCommand(t, ResumedGap(m))
  <2>1. a \in Acts /\ a.market = m
    BY <1>1, ActGoesOn DEF Awaits
  <2>2. a \in PlacedActs
    BY <1>2, <2>1 DEF PlacedActs
  <2>3. ResumedGap(m) \in GapIds
    BY <1>2 DEF GapIds
  <2>4. c \in Commands /\ Lawful(c)
    BY <2>3, CloseIsLawful
  <2>5. remaining' \subseteq Market
    BY <1>4 DEF ReleaseResumed, CapturesOK
  <2> HIDE DEF a, c
  <2>6. Submits(t, c, a)
    BY <1>4 DEF a, c, ReleaseResumed
  <2>7. /\ act' \in [Tasks -> PlacedActs] /\ pump' \in [Market -> Pumps]
        /\ queue' \in Seq(Commands)
        /\ queue' = queue \/ queue' = Append(queue, c)
    BY <2>2, <2>4, <2>6, SubmitsKept
  <2>8. TasksOK' /\ CapturesOK'
    BY <2>5, <2>7 DEF TasksOK, CapturesOK, ReleaseResumed
  <2> QED BY <2>4, <2>7, <2>8, SentStep, UnclaimedStep DEF ReleaseResumed
<1> QED BY <1>3, <1>4

LEMMA ResumedClosedKeeps ==
  ASSUME RecorderTypes, NEW t \in Tasks, ResumedClosed(t)
  PROVE  Kept
<1> USE DEF RecorderTypes, ResumedClosed, Rest, resumeVars, archiveVars
<1> DEFINE a == [act[t] EXCEPT !.step = "select", !.closed = TRUE]
<1>1. act[t] \in PlacedActs /\ act[t] \in Acts /\ act[t].step = "resumed_ack"
  BY DEF TasksOK, PlacedActs, Awaiting
<1>2. act[t].market \in Market
  BY <1>1 DEF PlacedActs, Unplaced
<1>3. a \in Acts /\ a.market = act[t].market
  BY <1>1 DEF Acts, Sync
<1>4. a \in PlacedActs
  BY <1>2, <1>3 DEF PlacedActs
<1>5. act' = [act EXCEPT ![t] = a]
  BY DEF TasksOK
<1> HIDE DEF a
<1>6. act' \in [Tasks -> PlacedActs]
  BY <1>4, <1>5, ActKept
<1>7. TasksOK' /\ CapturesOK'
  BY <1>6 DEF TasksOK, CapturesOK
<1> QED BY <1>7, QuietStep, UnclaimedStep

LEMMA SelectRecoveredKeeps ==
  ASSUME RecorderTypes, NEW t \in Tasks, SelectRecovered(t)
  PROVE  Kept
<1> USE DEF RecorderTypes, Rest, resumeVars, archiveVars
<1> DEFINE m == act[t].market
           a == [act[t] EXCEPT !.targets = {m}]
<1>1. act[t] \in PlacedActs /\ act[t] \in Acts /\ act[t].step = "select"
  BY DEF TasksOK, PlacedActs, At, SelectRecovered
<1>2. m \in Market
  BY <1>1 DEF PlacedActs, Unplaced
<1>3. a \in Acts /\ a.market = m
  BY <1>1, <1>2 DEF Acts
<1> HIDE DEF a
<1>4. CASE Locks(t, "checkpoint", a)
  <2>1. act' \in [Tasks -> PlacedActs]
    BY <1>2, <1>3, <1>4, LocksKept DEF Uses
  <2>2. TasksOK' /\ CapturesOK'
    BY <2>1 DEF TasksOK, CapturesOK, SelectRecovered
  <2> QED BY <2>2, QuietStep, UnclaimedStep DEF SelectRecovered
<1>5. CASE Go(t, Returns(t)) /\ UNCHANGED lock
  <2>1. Returns(t) \in {"next", "loop"}
    BY DEF Returns
  <2>2. Returns(t) \in Sync \cup Awaits
    BY <2>1 DEF Sync
  <2>3. act' \in [Tasks -> PlacedActs]
    BY <1>2, <1>5, <2>2, GoKept
  <2>4. TasksOK' /\ CapturesOK'
    BY <1>5, <2>3 DEF TasksOK, CapturesOK, SelectRecovered
  <2> QED BY <2>4, QuietStep, UnclaimedStep DEF SelectRecovered
<1> QED BY <1>4, <1>5 DEF SelectRecovered, a

LEMMA WriteCheckpointsKeeps ==
  ASSUME RecorderTypes, NEW t \in Tasks, WriteCheckpoints(t)
  PROVE  Kept
<1> USE DEF RecorderTypes, Rest, resumeVars, archiveVars
<1> DEFINE a == [act[t] EXCEPT !.step = "checkpoint_ack"]
           books == {[market |-> m, gen |-> tracked[m].capture, rev |-> tracked[m].book,
                      seq |-> LastSequence] : m \in act[t].targets}
           c == [op |-> "checkpoint", by |-> t, books |-> books]
<1>1. act[t] \in PlacedActs /\ act[t] \in Acts /\ act[t].step = "locked"
      /\ act[t].use = "checkpoint" /\ act[t].targets \subseteq Market
  BY ActFields DEF TasksOK, PlacedActs, WriteCheckpoints, Holds, At
<1>3. CASE Raises(t, "checkpoint market has no active capture") /\ UNCHANGED queue
  <2>1. act' \in [Tasks -> PlacedActs] /\ pump' \in [Market -> Pumps]
    BY <1>3, RaisesKept
  <2>2. TasksOK' /\ CapturesOK'
    BY <2>1 DEF TasksOK, CapturesOK, WriteCheckpoints
  <2> QED BY <1>3, <2>2, QuietStep, UnclaimedStep DEF WriteCheckpoints
<1>4. CASE Submits(t, c, a)
  <2>1. a \in Acts /\ a.step = "checkpoint_ack" /\ a.use = "checkpoint"
    BY <1>1, ActGoesOn DEF Awaits
  <2>2. a \in PlacedActs
    BY <2>1 DEF PlacedActs, Unplaced
  <2>3. LastSequence \in Nat
    BY AssignedIsNat DEF LastSequence
  <2>4. books \in SUBSET Checkpoints
    BY <1>1, <2>3 DEF Checkpoints, CapturesOK, Tracked
  <2> HIDE DEF a, books
  <2>5. c \in Commands /\ Lawful(c)
    BY <2>4, CheckpointIsLawful
  <2> HIDE DEF c
  <2>6. /\ act' \in [Tasks -> PlacedActs] /\ pump' \in [Market -> Pumps]
        /\ queue' \in Seq(Commands)
        /\ queue' = queue \/ queue' = Append(queue, c)
    BY <1>4, <2>2, <2>5, SubmitsKept
  <2>7. TasksOK' /\ CapturesOK'
    BY <2>6 DEF TasksOK, CapturesOK, WriteCheckpoints
  <2> QED BY <2>5, <2>6, <2>7, SentStep, UnclaimedStep DEF WriteCheckpoints
<1> QED BY <1>3, <1>4 DEF WriteCheckpoints

LEMMA CheckpointsWrittenKeeps ==
  ASSUME RecorderTypes, NEW t \in Tasks, CheckpointsWritten(t)
  PROVE  Kept
<1> USE DEF RecorderTypes, CheckpointsWritten, Rest, resumeVars, archiveVars
<1> DEFINE s == Returns(t)
           a == [Idle EXCEPT !.step = s]
<1>1. s \in {"next", "loop"}
  BY DEF Returns
<1>2. s \in Sync \cup Awaits
  BY <1>1 DEF Sync
<1> HIDE DEF s
<1>3. a \in Acts /\ a.step = s
  BY <1>2, IdleActs, ActGoesOn
<1>4. a \in PlacedActs
  BY <1>1, <1>3 DEF PlacedActs, Unplaced
<1>5. act' = [act EXCEPT ![t] = a]
  BY DEF s
<1> HIDE DEF a
<1>7. act' \in [Tasks -> PlacedActs]
  BY <1>4, <1>5, ActKept
<1>8. TasksOK' /\ CapturesOK'
  BY <1>7 DEF TasksOK, CapturesOK
<1> QED BY <1>8, QuietStep, UnclaimedStep

-----------------------------------------------------------------------------
(* The exchange and the pumps *)

LEMMA DeliverKeeps ==
  ASSUME RecorderTypes, NEW m \in Market, NEW msg \in Messages, Deliver(m, msg)
  PROVE  handle' \in [Market -> Handles]
<1> DEFINE h == handle[m]
           msgs == Append(h.msgs, msg)
           g == IF Len(msgs) <= HandleCapacity THEN [h EXCEPT !.msgs = msgs]
                ELSE [msgs |-> Tail(msgs), dropped |-> h.dropped + 1]
<1>1. h \in Handles
  BY DEF RecorderTypes, CapturesOK
<1>2. h.msgs \in Seq(Messages) /\ h.dropped \in Nat
  BY <1>1 DEF Handles
<1>3. msgs \in Seq(Messages) /\ Tail(msgs) \in Seq(Messages)
  BY <1>2
<1> HIDE DEF msgs
<1>4. g \in Handles
  <2>1. [h EXCEPT !.msgs = msgs] \in Handles
    BY <1>1, <1>3 DEF Handles
  <2>2. [msgs |-> Tail(msgs), dropped |-> h.dropped + 1] \in Handles
    BY <1>2, <1>3 DEF Handles
  <2> QED BY <2>1, <2>2
<1>5. handle' = [handle EXCEPT ![m] = g]
  BY DEF Deliver, msgs
<1> HIDE DEF g
<1> QED BY <1>4, <1>5 DEF RecorderTypes, CapturesOK

LEMMA SendKeeps ==
  ASSUME RecorderTypes, NEW m \in Market, Send(m)
  PROVE  Kept
<1> USE DEF RecorderTypes, resumeVars, archiveVars
<1>1. revision[m] \in Nat /\ revision' \in [Market -> Nat]
  BY DEF CapturesOK, Send
<1>2. handle' \in [Market -> Handles]
  <2> DEFINE msg == [kind |-> "delta", rev |-> revision[m] + 1]
  <2>1. msg \in Messages
    BY <1>1 DEF Messages
  <2> HIDE DEF msg
  <2>2. CASE Deliver(m, msg)
    BY <2>1, <2>2, DeliverKeeps
  <2>3. CASE UNCHANGED handle
    BY <2>3 DEF CapturesOK
  <2> QED BY <2>2, <2>3 DEF Send, msg
<1>3. TasksOK' /\ CapturesOK'
  BY <1>1, <1>2 DEF TasksOK, CapturesOK, Send
<1> QED BY <1>3, QuietStep, UnclaimedStep DEF Send

LEMMA SendResolutionKeeps ==
  ASSUME RecorderTypes, NEW m \in Market, SendResolution(m)
  PROVE  Kept
<1> USE DEF RecorderTypes, resumeVars, archiveVars, SendResolution
<1> DEFINE msg == [kind |-> "resolution", rev |-> revision[m]]
<1>1. msg \in Messages
  BY DEF Messages, CapturesOK
<1>2. handle' \in [Market -> Handles]
  BY <1>1, DeliverKeeps
<1>3. TasksOK' /\ CapturesOK'
  BY <1>2 DEF TasksOK, CapturesOK
<1> QED BY <1>3, QuietStep, UnclaimedStep

(* A projected event is queued only while its market is unclaimed, and its *)
(* resolution claims the market in the same step.                          *)
LEMMA EnqueueKeeps ==
  ASSUME RecorderTypes, NEW m \in Market, NEW msg \in Messages,
         ~tracked[m].claimed, EnqueueEvent(m, msg),
         UNCHANGED <<revision, act, todo, control, log, remaining>>,
         handle' \in [Market -> Handles]
  PROVE  Kept
<1> USE DEF RecorderTypes
<1> DEFINE full == Len(queue) >= QueueSize
           r == tracked[m]
           q0 == CASE msg.kind = "resolution" -> [r EXCEPT !.claimed = TRUE]
                   [] msg.kind = "base" -> [r EXCEPT !.complete = TRUE, !.book = msg.rev]
                   [] OTHER -> [r EXCEPT !.book = msg.rev]
           q == IF full THEN [q0 EXCEPT !.lost = q0.lost \cup {q0.gen}] ELSE q0
           entry == [kind |-> msg.kind, market |-> m, gen |-> r.gen, rev |-> msg.rev]
           c == [op |-> "event", by |-> "nobody", entry |-> entry]
           p == pump[m]
<1>1. r \in Tracked /\ p \in Pumps /\ r.gen \in Nat
  BY DEF CapturesOK, Tracked
<1>2. msg.kind \in {"base", "delta", "resolution"} /\ msg.rev \in Nat
  BY DEF Messages
<1>2a. q0 \in Tracked /\ (msg.kind = "resolution" => q0.claimed)
  <2>1. CASE msg.kind = "resolution"
    BY <1>1, <2>1, TrackedKept
  <2>2. CASE msg.kind = "base"
    <3>1. q0 = [r EXCEPT !.complete = TRUE, !.book = msg.rev]
      BY <2>2
    <3>2. [r EXCEPT !.complete = TRUE, !.book = msg.rev] \in Tracked
      BY <1>1, <1>2 DEF Tracked
    <3> HIDE DEF q0
    <3> QED BY <2>2, <3>1, <3>2
  <2>3. CASE msg.kind = "delta"
    BY <1>1, <1>2, <2>3, TrackedKept
  <2> QED BY <1>2, <2>1, <2>2, <2>3
<1> HIDE DEF q0
<1>3. q \in Tracked /\ (msg.kind = "resolution" => q.claimed)
  <2>1. q0.lost \cup {q0.gen} \in SUBSET Nat
    BY <1>2a DEF Tracked
  <2>2. /\ [q0 EXCEPT !.lost = q0.lost \cup {q0.gen}] \in Tracked
        /\ [q0 EXCEPT !.lost = q0.lost \cup {q0.gen}].claimed = q0.claimed
    BY <1>2a, <2>1, TrackedKept
  <2> QED BY <1>2a, <2>2
<1>4. tracked' = [tracked EXCEPT ![m] = q]
  BY DEF EnqueueEvent, q0
<1> HIDE DEF q
<1>5. tracked' \in [Market -> Tracked] /\ tracked'[m] = q
      /\ (\A x \in Market \ {m} : tracked'[x] = tracked[x])
  BY <1>3, <1>4 DEF CapturesOK
<1>6. ClaimsStand
  BY <1>5 DEF ClaimsStand
<1>7. entry \in Entry /\ entry.market = m /\ entry.kind = msg.kind
  BY <1>1, <1>2 DEF Entry
<1> HIDE DEF entry
<1>8. c \in EventCommands /\ c.entry = entry
  BY <1>7 DEF EventCommands, Senders
<1>9. c \in Commands /\ Lawful(c)
  BY <1>3, <1>5, <1>7, <1>8 DEF Commands, Lawful, Resolution
<1>10. CASE full
  <2>1. pump' = [pump EXCEPT ![m].stop = "fatal"] /\ queue' = queue
    BY <1>10 DEF EnqueueEvent
  <2>2. [p EXCEPT !.stop = "fatal"] \in Pumps
    BY <1>1 DEF Pumps
  <2>3. pump' \in [Market -> Pumps]
    BY <2>1, <2>2 DEF CapturesOK
  <2>4. TasksOK' /\ CapturesOK'
    BY <1>5, <2>3 DEF TasksOK, CapturesOK
  <2> QED BY <1>6, <2>1, <2>4, QuietStep
<1>11. CASE ~full
  <2> DEFINE item == [seq |-> Assigned + 1, ready |-> tracked'[m].complete]
             p2 == [p EXCEPT !.pending = Append(p.pending, item),
                             !.resolved = msg.kind = "resolution"]
  <2>1. item \in Pending
    BY <1>3, <1>5, AssignedIsNat DEF Pending, Tracked
  <2>2. queue' = Append(queue, c)
    BY <1>11 DEF EnqueueEvent, c, entry
  <2>3. pump' = [pump EXCEPT ![m] = p2]
    BY <1>11 DEF EnqueueEvent, CapturesOK
  <2> HIDE DEF item
  <2>4. Append(p.pending, item) \in Seq(Pending)
    BY <1>1, <2>1 DEF Pumps
  <2>5. (msg.kind = "resolution") \in BOOLEAN
    OBVIOUS
  <2>6. p2 \in Pumps
    BY <1>1, <2>4, <2>5 DEF Pumps
  <2> HIDE DEF p2
  <2>7. pump' \in [Market -> Pumps]
    BY <2>3, <2>6 DEF CapturesOK
  <2>8. queue' \in Seq(Commands)
    BY <1>9, <2>2 DEF ArchiveOK
  <2>9. TasksOK' /\ CapturesOK'
    BY <1>5, <2>7 DEF TasksOK, CapturesOK
  <2> QED BY <1>6, <1>9, <2>2, <2>8, <2>9, SentStep
<1> QED BY <1>10, <1>11

LEMMA PumpStopKept ==
  ASSUME RecorderTypes, NEW m \in Market, NEW s \in {"no", "fatal", "failure", "drop"}
  PROVE  /\ [pump EXCEPT ![m].stop = s] \in [Market -> Pumps]
         /\ [pump EXCEPT ![m].retired = TRUE] \in [Market -> Pumps]
         /\ [pump EXCEPT ![m] = NoPump] \in [Market -> Pumps]
<1> USE DEF RecorderTypes, CapturesOK
<1>1. pump[m] \in Pumps
  OBVIOUS
<1>2. [pump[m] EXCEPT !.stop = s] \in Pumps /\ [pump[m] EXCEPT !.retired = TRUE] \in Pumps
  BY <1>1 DEF Pumps
<1>3. NoPump \in Pumps
  BY DEF Pumps, NoPump
<1> QED BY <1>2, <1>3

LEMMA SeenKept ==
  ASSUME RecorderTypes, NEW m \in Market,
         tracked' = [tracked EXCEPT ![m].seen = handle[m].dropped]
  PROVE  tracked' \in [Market -> Tracked] /\ ClaimsStand
<1> USE DEF RecorderTypes, CapturesOK
<1>1. tracked[m] \in Tracked /\ handle[m].dropped \in Nat
  BY DEF Handles
<1>2. /\ [tracked[m] EXCEPT !.seen = handle[m].dropped] \in Tracked
      /\ [tracked[m] EXCEPT !.seen = handle[m].dropped].claimed = tracked[m].claimed
  BY <1>1, TrackedKept
<1> QED BY <1>2 DEF ClaimsStand

LEMMA PumpReadKeeps ==
  ASSUME RecorderTypes, NEW m \in Market, PumpRead(m)
  PROVE  Kept
<1> USE DEF RecorderTypes, resumeVars, archiveVars
<1> DEFINE msg == Head(handle[m].msgs)
<1>1. handle[m] \in Handles /\ handle[m].msgs # <<>>
  BY DEF CapturesOK, PumpRead
<1>2. msg \in Messages /\ Tail(handle[m].msgs) \in Seq(Messages)
  BY <1>1 DEF Handles
<1>3. [handle[m] EXCEPT !.msgs = Tail(handle[m].msgs)] \in Handles
  BY <1>1, <1>2 DEF Handles
<1>4. handle' \in [Market -> Handles]
  BY <1>3 DEF CapturesOK, PumpRead
<1> HIDE DEF msg
<1>5. CASE pump' = [pump EXCEPT ![m].stop = "failure"] /\ UNCHANGED <<tracked, queue>>
  <2>1. TasksOK' /\ CapturesOK'
    BY <1>4, <1>5, PumpStopKept DEF TasksOK, CapturesOK, PumpRead
  <2> QED BY <1>5, <2>1, QuietStep, UnclaimedStep DEF PumpRead
<1>6. CASE /\ tracked' = [tracked EXCEPT ![m].seen = handle[m].dropped]
           /\ pump' = [pump EXCEPT ![m].stop = "drop"]
           /\ UNCHANGED queue
  <2>1. tracked' \in [Market -> Tracked] /\ ClaimsStand
    BY <1>6, SeenKept
  <2>2. TasksOK' /\ CapturesOK'
    BY <1>4, <1>6, <2>1, PumpStopKept DEF TasksOK, CapturesOK, PumpRead
  <2> QED BY <1>6, <2>1, <2>2, QuietStep DEF PumpRead
<1>7. CASE pump' = [pump EXCEPT ![m].retired = TRUE] /\ UNCHANGED <<tracked, queue>>
  <2>1. TasksOK' /\ CapturesOK'
    BY <1>4, <1>7, PumpStopKept DEF TasksOK, CapturesOK, PumpRead
  <2> QED BY <1>7, <2>1, QuietStep, UnclaimedStep DEF PumpRead
<1>8. CASE Wanted(m) /\ EnqueueEvent(m, msg)
  BY <1>2, <1>4, <1>8, EnqueueKeeps DEF Wanted, PumpRead
<1> QED BY <1>5, <1>6, <1>7, <1>8 DEF PumpRead, msg

LEMMA CaptureEndsKeeps ==
  ASSUME RecorderTypes, NEW m \in Market, CaptureEnds(m)
  PROVE  Kept
<1> USE DEF RecorderTypes, resumeVars, archiveVars, CaptureEnds
<1>1. TasksOK' /\ CapturesOK'
  BY PumpStopKept DEF TasksOK, CapturesOK
<1> QED BY <1>1, QuietStep, UnclaimedStep

LEMMA PumpCommittedKeeps ==
  ASSUME RecorderTypes, NEW m \in Market, PumpCommitted(m)
  PROVE  Kept
<1> USE DEF RecorderTypes, resumeVars, archiveVars
<1> DEFINE p == pump[m]
           event == Head(p.pending)
           r == tracked[m]
           n == IF event.seq > r.observed THEN event.seq ELSE r.observed
           a == [Idle EXCEPT !.step = "own", !.at = event.seq, !.market = m]
<1>1. p \in Pumps /\ p.pending # <<>> /\ r \in Tracked /\ m \in Tasks
  BY MarketsAreTasks DEF CapturesOK, PumpCommitted
<1>2. event \in Pending /\ Tail(p.pending) \in Seq(Pending) /\ event.seq \in Nat
  <2>1. event \in Pending /\ Tail(p.pending) \in Seq(Pending)
    BY <1>1 DEF Pumps
  <2> QED BY <2>1 DEF Pending
<1>3. [p EXCEPT !.pending = Tail(p.pending)] \in Pumps
  BY <1>1, <1>2 DEF Pumps
<1>4. pump' = [pump EXCEPT ![m] = [p EXCEPT !.pending = Tail(p.pending)]]
  BY DEF PumpCommitted, CapturesOK
<1>5. pump' \in [Market -> Pumps]
  BY <1>3, <1>4 DEF CapturesOK
<1>6. tracked' = [tracked EXCEPT ![m] = [r EXCEPT !.observed = n]]
  BY DEF PumpCommitted, CapturesOK
<1>7. n \in Nat
  BY <1>1, <1>2 DEF Tracked
<1> HIDE DEF n
<1>8. [r EXCEPT !.observed = n] \in Tracked /\ [r EXCEPT !.observed = n].claimed = r.claimed
  BY <1>1, <1>7, TrackedKept
<1>9. tracked' \in [Market -> Tracked] /\ ClaimsStand
  BY <1>6, <1>8 DEF CapturesOK, ClaimsStand
<1>10. act' \in [Tasks -> PlacedActs]
  <2>1. CASE act' = [act EXCEPT ![m] = a]
    <3>1. a \in Acts /\ a.market = m
      BY <1>2, IdleActs, MarketsAreTasks DEF Acts, Idle, Sync, Uses
    <3>2. a \in PlacedActs
      BY <3>1 DEF PlacedActs
    <3> HIDE DEF a
    <3> QED BY <1>1, <2>1, <3>2, ActKept
  <2>2. CASE Go(m, "loop")
    BY <1>1, <2>2, GoKept DEF Sync, Loose
  <2> QED BY <2>1, <2>2 DEF PumpCommitted
<1>11. TasksOK' /\ CapturesOK'
  BY <1>5, <1>9, <1>10 DEF TasksOK, CapturesOK, PumpCommitted
<1> QED BY <1>9, <1>11, QuietStep DEF PumpCommitted

LEMMA PumpLoopsKeeps ==
  ASSUME RecorderTypes, NEW m \in Market, PumpLoops(m)
  PROVE  Kept
<1> USE DEF RecorderTypes, resumeVars, archiveVars
<1>1. act' \in [Tasks -> PlacedActs]
  BY MarketsAreTasks, GoKept DEF PumpLoops, Awaits, Loose
<1>2. CASE /\ tracked' = [tracked EXCEPT ![m].seen = handle[m].dropped]
           /\ pump' = [pump EXCEPT ![m].stop = "drop"]
  <2>1. tracked' \in [Market -> Tracked] /\ ClaimsStand
    BY <1>2, SeenKept
  <2>2. TasksOK' /\ CapturesOK'
    BY <1>1, <1>2, <2>1, PumpStopKept DEF TasksOK, CapturesOK, PumpLoops
  <2> QED BY <2>1, <2>2, QuietStep DEF PumpLoops
<1>3. CASE UNCHANGED <<tracked, pump>>
  <2>1. TasksOK' /\ CapturesOK'
    BY <1>1, <1>3 DEF TasksOK, CapturesOK, PumpLoops
  <2> QED BY <1>3, <2>1, QuietStep, UnclaimedStep DEF PumpLoops
<1> QED BY <1>2, <1>3 DEF PumpLoops

LEMMA PumpReturnsKeeps ==
  ASSUME RecorderTypes, NEW m \in Market, PumpReturns(m)
  PROVE  Kept
<1> USE DEF RecorderTypes, resumeVars, archiveVars
<1> DEFINE kind == IF pump[m].stop = "fatal" THEN "fatal"
                   ELSE IF pump[m].resolved THEN "resolved" ELSE pump[m].stop
           c == [market |-> m, gen |-> tracked[m].gen, kind |-> kind]
<1>1. act' \in [Tasks -> PlacedActs]
  BY MarketsAreTasks, GoKept DEF PumpReturns, Awaits, Loose
<1>2. pump[m].stop \in {"no", "fatal", "failure", "drop"} /\ tracked[m].gen \in Nat
  BY DEF CapturesOK, Pumps, Tracked
<1>3. kind \in {"no", "fatal", "failure", "drop", "resolved"}
  BY <1>2
<1> HIDE DEF kind
<1>4. c \in Controls
  BY <1>2, <1>3 DEF Controls
<1>5. control' = control \/ control' = Append(control, c)
  BY DEF PumpReturns, kind
<1> HIDE DEF c
<1>6. control' \in Seq(Controls)
  BY <1>4, <1>5 DEF TasksOK
<1>7. TasksOK' /\ CapturesOK'
  BY <1>1, <1>6, PumpStopKept DEF TasksOK, CapturesOK, PumpReturns
<1> QED BY <1>7, QuietStep, UnclaimedStep DEF PumpReturns

LEMMA CloseGapsKeeps ==
  ASSUME RecorderTypes, NEW t \in Tasks, CloseGapsStep(t)
  PROVE  Kept
  BY LockGrantedKeeps, CloseOwnKeeps, OwnClosedKeeps, ReleaseResumedKeeps, ResumedClosedKeeps,
     SelectRecoveredKeeps, WriteCheckpointsKeeps, CheckpointsWrittenKeeps
  DEF CloseGapsStep

LEMMA PumpKeeps ==
  ASSUME RecorderTypes, NEW m \in Market, PumpStep(m)
  PROVE  Kept
  BY MarketsAreTasks, PumpReadKeeps, PumpCommittedKeeps, PumpLoopsKeeps, PumpReturnsKeeps,
     CloseGapsKeeps
  DEF PumpStep

-----------------------------------------------------------------------------
(* The main task *)

LEMMA CallsAreCalls ==
  /\ \A op \in Ops, ms \in Seq(Market) : Calls(op, ms) \in Seq(Callable)
  /\ \A op \in {"ensure", "checkpoint"} : Call(op) \in Seq(Callable)
  /\ \A m \in Market : <<m>> \in Seq(Market)
  /\ \A m \in Market : Restart(m) \in Seq(Callable)
  /\ InOrder \in Seq(Market)
<1>1. ASSUME NEW op \in Ops, NEW ms \in Seq(Market)
      PROVE  Calls(op, ms) \in Seq(Callable)
  <2>1. \A i \in DOMAIN ms : [op |-> op, market |-> ms[i]] \in Callable
    BY DEF Callable, MarketCalls
  <2>2. Len(ms) \in Nat /\ DOMAIN ms = 1..Len(ms)
    OBVIOUS
  <2> QED BY <2>1, <2>2 DEF Calls
<1>2. ASSUME NEW op \in {"ensure", "checkpoint"}
      PROVE  Call(op) \in Seq(Callable)
  <2>1. [op |-> op, market |-> Main] \in Callable
    BY DEF Callable, MainCalls
  <2>2. Call(op) = [i \in 1..1 |-> [op |-> op, market |-> Main]]
    BY DEF Call, Calls
  <2> QED BY <2>1, <2>2
<1>3. \A m \in Market : <<m>> \in Seq(Market)
  OBVIOUS
<1>4. ASSUME NEW m \in Market
      PROVE  Restart(m) \in Seq(Callable)
  <2>1. Calls("close", <<m>>) \in Seq(Callable) /\ Calls("regap", <<m>>) \in Seq(Callable)
        /\ Call("ensure") \in Seq(Callable)
    BY <1>1, <1>2, <1>3 DEF Ops
  <2> QED BY <2>1 DEF Restart
<1>5. InOrder \in Seq(Market)
  BY MarketsInOrder, RecorderAssumption DEF InOrder
<1> QED BY <1>1, <1>2, <1>3, <1>4, <1>5

LEMMA NextCall ==
  ASSUME RecorderTypes, NEW op, NextIs(op)
  PROVE  /\ Tail(todo) \in Seq(Callable)
         /\ op \in Ops => Target \in Market
         /\ act[Main].step = "next"
<1>1. todo \in Seq(Callable) /\ todo # <<>> /\ Head(todo).op = op
  BY DEF RecorderTypes, TasksOK, NextIs
<1>2. Head(todo) \in Callable /\ Tail(todo) \in Seq(Callable)
  BY <1>1
<1>3. op \in Ops => Head(todo).market \in Market
  BY <1>1, <1>2 DEF Callable, MarketCalls, MainCalls, Ops
<1> QED BY <1>2, <1>3 DEF Target, NextIs, At

LEMMA DoneKept ==
  ASSUME NEW calls \in Seq(Callable), Tail(todo) \in Seq(Callable), Done(calls)
  PROVE  todo' \in Seq(Callable)
  BY DEF Done

LEMMA MainGoes ==
  ASSUME RecorderTypes, NEW s \in {"next", "idle"}, Go(Main, s)
  PROVE  act' \in [Tasks -> PlacedActs]
  BY MarketsAreTasks, GoKept DEF RecorderTypes, Sync, Awaits, Loose

LEMMA HandleControlKeeps ==
  ASSUME RecorderTypes, HandleControl
  PROVE  Kept
<1> USE DEF RecorderTypes, resumeVars, archiveVars
<1> DEFINE c == Head(control)
<1>1. c \in Controls /\ Tail(control) \in Seq(Controls)
  <2>1. control # <<>> /\ control \in Seq(Controls)
    BY DEF HandleControl, TasksOK
  <2> QED BY <2>1
<1>2. c.market \in Market
  BY <1>1 DEF Controls
<1> HIDE DEF c
<1>3. todo' \in Seq(Callable)
  <2>1. /\ Calls("close", <<c.market>>) \in Seq(Callable)
        /\ Restart(c.market) \in Seq(Callable)
    BY <1>2, CallsAreCalls DEF Ops
  <2>2. \/ todo' = todo \/ todo' = Calls("close", <<c.market>>) \/ todo' = Restart(c.market)
    BY DEF HandleControl, AfterResolution, c
  <2> QED BY <2>1, <2>2 DEF TasksOK
<1>4. act' \in [Tasks -> PlacedActs]
  BY MainGoes DEF HandleControl
<1>5. control' \in Seq(Controls)
  BY <1>1 DEF HandleControl
<1>6. TasksOK' /\ CapturesOK'
  BY <1>3, <1>4, <1>5 DEF TasksOK, CapturesOK, HandleControl
<1> QED BY <1>6, QuietStep, UnclaimedStep DEF HandleControl

LEMMA TickKeeps ==
  ASSUME RecorderTypes, Tick
  PROVE  Kept
<1> USE DEF RecorderTypes, resumeVars, archiveVars, Tick
<1>1. todo' \in Seq(Callable)
  <2>1. PICK timer \in {<<>>, Call("checkpoint")} :
          todo' = Calls("detect", InOrder) \o Call("ensure") \o timer
    OBVIOUS
  <2>2. /\ Calls("detect", InOrder) \in Seq(Callable)
        /\ Call("ensure") \in Seq(Callable) /\ Call("checkpoint") \in Seq(Callable)
    BY CallsAreCalls DEF Ops
  <2>3. timer \in Seq(Callable)
    <3>1. timer = <<>> \/ timer = Call("checkpoint")
      OBVIOUS
    <3>2. <<>> \in Seq(Callable)
      OBVIOUS
    <3> QED BY <2>2, <3>1, <3>2
  <2> QED BY <2>1, <2>2, <2>3
<1>2. act' \in [Tasks -> PlacedActs]
  BY MainGoes
<1>3. TasksOK' /\ CapturesOK'
  BY <1>1, <1>2 DEF TasksOK, CapturesOK
<1> QED BY <1>3, QuietStep, UnclaimedStep

LEMMA ReconcileKeeps ==
  ASSUME RecorderTypes, NEW m \in Market, Reconcile(m)
  PROVE  Kept
<1> USE DEF RecorderTypes, resumeVars, archiveVars, Reconcile
<1>1. todo' \in Seq(Callable)
  <2>1. Calls("gamma", <<m>>) \in Seq(Callable) /\ Calls("close", <<m>>) \in Seq(Callable)
    BY CallsAreCalls DEF Ops
  <2> QED BY <2>1
<1>2. act' \in [Tasks -> PlacedActs]
  BY MainGoes
<1>3. TasksOK' /\ CapturesOK'
  BY <1>1, <1>2 DEF TasksOK, CapturesOK
<1> QED BY <1>3, QuietStep, UnclaimedStep

LEMMA MainIdlesKeeps ==
  ASSUME RecorderTypes, MainIdles
  PROVE  Kept
<1> USE DEF RecorderTypes, resumeVars, archiveVars, MainIdles
<1>1. act' \in [Tasks -> PlacedActs]
  BY MainGoes
<1>2. TasksOK' /\ CapturesOK'
  BY <1>1 DEF TasksOK, CapturesOK
<1> QED BY <1>2, QuietStep, UnclaimedStep

LEMMA EnsureCapturesKeeps ==
  ASSUME RecorderTypes, EnsureCaptures
  PROVE  Kept
<1> USE DEF RecorderTypes, resumeVars, archiveVars
<1>1. <<>> \in Seq(Callable) /\ Calls("open", InOrder) \in Seq(Callable)
  BY CallsAreCalls DEF Ops
<1>2. CASE NextIs("ensure") /\ Done(Calls("open", InOrder)) /\ UNCHANGED act
  <2>1. todo' \in Seq(Callable)
    BY <1>1, <1>2, NextCall, DoneKept
  <2>2. TasksOK' /\ CapturesOK'
    BY <1>2, <2>1 DEF TasksOK, CapturesOK, EnsureCaptures
  <2> QED BY <2>2, QuietStep, UnclaimedStep DEF EnsureCaptures
<1>3. CASE /\ NextIs("open") /\ Done(<<>>)
           /\ act' = IF Uncaptured(Target)
                     THEN [act EXCEPT ![Main] = [Idle EXCEPT !.step = "opening",
                                                             !.market = Target]]
                     ELSE act
  <2> DEFINE a == [Idle EXCEPT !.step = "opening", !.market = Target]
  <2>1. todo' \in Seq(Callable)
    BY <1>1, <1>3, NextCall, DoneKept
  <2>2. Target \in Market
    BY <1>3, NextCall DEF Ops
  <2>3. a \in Acts /\ a.market = Target
    BY <2>2, MarketsAreTasks DEF Acts, Idle, Awaits, Uses
  <2>4. a \in PlacedActs
    BY <2>2, <2>3 DEF PlacedActs
  <2>5. act' = act \/ act' = [act EXCEPT ![Main] = a]
    BY <1>3
  <2> HIDE DEF a
  <2>6. act' \in [Tasks -> PlacedActs]
    BY <2>4, <2>5, MarketsAreTasks, ActKept DEF TasksOK
  <2>7. TasksOK' /\ CapturesOK'
    BY <2>1, <2>6 DEF TasksOK, CapturesOK, EnsureCaptures
  <2> QED BY <2>7, QuietStep, UnclaimedStep DEF EnsureCaptures
<1> QED BY <1>2, <1>3 DEF EnsureCaptures

LEMMA CaptureOpensKeeps ==
  ASSUME RecorderTypes, CaptureOpens
  PROVE  Kept
<1> USE DEF RecorderTypes, resumeVars, archiveVars
<1> DEFINE m == act[Main].market
           r == tracked[m]
           q == [r EXCEPT !.gen = r.gen + 1, !.capture = r.gen + 1, !.complete = FALSE,
                          !.book = 0, !.seen = 0]
           msg == [kind |-> "base", rev |-> revision[m]]
           h == [msgs |-> <<msg>>, dropped |-> 0]
           a == [Idle EXCEPT !.step = "reading"]
           b == [Idle EXCEPT !.step = "next"]
<1>1. m \in Market
  BY MarketsAreTasks DEF TasksOK, PlacedActs, Unplaced, CaptureOpens, Awaiting
<1>2. r \in Tracked /\ r.gen \in Nat /\ msg \in Messages
  BY <1>1 DEF CapturesOK, Tracked, Messages
<1>3. q \in Tracked /\ q.claimed = r.claimed
  <2>1. r.gen + 1 \in Nat
    BY <1>2
  <2> HIDE DEF r
  <2> QED BY <1>2, <2>1, TrackedOpened
<1>4. tracked' = [tracked EXCEPT ![m] = q]
  BY <1>1 DEF CaptureOpens, CapturesOK
<1> HIDE DEF q
<1>5. tracked' \in [Market -> Tracked] /\ ClaimsStand
  BY <1>1, <1>3, <1>4 DEF CapturesOK, ClaimsStand
<1> HIDE DEF msg
<1>6. h \in Handles
  BY <1>2 DEF Handles
<1>7. handle' = [handle EXCEPT ![m] = h]
  BY DEF CaptureOpens, msg
<1> HIDE DEF h
<1>8. handle' \in [Market -> Handles]
  BY <1>6, <1>7 DEF CapturesOK
<1>9. pump' \in [Market -> Pumps]
  BY <1>1, PumpStopKept DEF CaptureOpens
<1>10. a \in PlacedActs /\ b \in PlacedActs
  <2>1. a \in Acts /\ a.step = "reading" /\ b \in Acts /\ b.step = "next"
    BY IdleActs, ActGoesOn DEF Sync, Awaits
  <2> QED BY <2>1 DEF PlacedActs, Unplaced
<1>11. act' = [act EXCEPT ![m] = a, ![Main] = b]
  BY DEF CaptureOpens
<1> HIDE DEF a, b
<1>12. act' \in [Tasks -> PlacedActs]
  BY <1>10, <1>11 DEF TasksOK
<1>13. TasksOK' /\ CapturesOK'
  BY <1>5, <1>8, <1>9, <1>12 DEF TasksOK, CapturesOK, CaptureOpens
<1> QED BY <1>5, <1>13, QuietStep DEF CaptureOpens

LEMMA CaptureRefusedKeeps ==
  ASSUME RecorderTypes, CaptureRefused
  PROVE  Kept
<1> USE DEF RecorderTypes, resumeVars, archiveVars, CaptureRefused
<1> DEFINE m == act[Main].market
<1>1. m \in Market
  BY MarketsAreTasks DEF TasksOK, PlacedActs, Unplaced, Awaiting
<1>2. Calls("gap", <<m>>) \in Seq(Callable)
  BY <1>1, CallsAreCalls DEF Ops
<1>3. todo' \in Seq(Callable)
  BY <1>2 DEF TasksOK
<1>4. act' \in [Tasks -> PlacedActs]
  BY MainGoes
<1>5. TasksOK' /\ CapturesOK'
  BY <1>3, <1>4 DEF TasksOK, CapturesOK
<1> QED BY <1>5, QuietStep, UnclaimedStep

LEMMA DetectDropsKeeps ==
  ASSUME RecorderTypes, DetectDrops
  PROVE  Kept
<1> USE DEF RecorderTypes, resumeVars, archiveVars
<1>1. Target \in Market
  BY NextCall DEF DetectDrops, Ops
<1>2. todo' \in Seq(Callable)
  <2>1. <<>> \in Seq(Callable) /\ Restart(Target) \in Seq(Callable)
    BY <1>1, CallsAreCalls
  <2>2. Tail(todo) \in Seq(Callable)
    BY NextCall DEF DetectDrops
  <2>3. Done(Restart(Target)) \/ Done(<<>>)
    BY DEF DetectDrops
  <2> QED BY <2>1, <2>2, <2>3, DoneKept
<1>3. tracked' \in [Market -> Tracked] /\ ClaimsStand
  <2>1. CASE tracked' = [tracked EXCEPT ![Target].seen = handle[Target].dropped]
    BY <1>1, <2>1, SeenKept
  <2>2. CASE tracked' = tracked
    BY <2>2, UnclaimedStep DEF CapturesOK
  <2> QED BY <2>1, <2>2 DEF DetectDrops
<1>4. TasksOK' /\ CapturesOK'
  BY <1>2, <1>3 DEF TasksOK, CapturesOK, DetectDrops
<1> QED BY <1>3, <1>4, QuietStep DEF DetectDrops

(* Waiting for the record lock with a market in hand, or with targets of a checkpoint. *)
LEMMA MainLocks ==
  ASSUME RecorderTypes, NEW m \in Market, NEW n \in Nat, NEW u \in Uses,
         NEW targets \in SUBSET Market,
         \/ Locks(Main, u, [Idle EXCEPT !.market = m, !.at = n])
         \/ Locks(Main, u, [Idle EXCEPT !.market = m])
         \/ u = "checkpoint" /\ Locks(Main, u, [Idle EXCEPT !.targets = targets])
  PROVE  act' \in [Tasks -> PlacedActs]
<1> USE DEF RecorderTypes
<1> DEFINE a == [Idle EXCEPT !.market = m, !.at = n]
           b == [Idle EXCEPT !.market = m]
           c == [Idle EXCEPT !.targets = targets]
<1>1. /\ a \in Acts /\ a.market = m /\ b \in Acts /\ b.market = m /\ c \in Acts
  BY MarketsAreTasks, IdleActs DEF Acts, Idle
<1> HIDE DEF a, b, c
<1>2. CASE Locks(Main, u, a)
  BY <1>1, <1>2, MarketsAreTasks, LocksKept
<1>3. CASE Locks(Main, u, b)
  BY <1>1, <1>3, MarketsAreTasks, LocksKept
<1>4. CASE u = "checkpoint" /\ Locks(Main, u, c)
  BY <1>1, <1>4, MarketsAreTasks, LocksKept
<1> QED BY <1>2, <1>3, <1>4 DEF a, b, c

LEMMA OpenGapKeeps ==
  ASSUME RecorderTypes, OpenGap
  PROVE  Kept
<1> USE DEF RecorderTypes, resumeVars, archiveVars
<1>1. PICK op \in {"gap", "regap"} : NextIs(op)
  BY DEF OpenGap
<1>2. Target \in Market /\ Tail(todo) \in Seq(Callable) /\ <<>> \in Seq(Callable)
  BY <1>1, NextCall DEF Ops
<1>3. todo' \in Seq(Callable)
  BY <1>2, DoneKept DEF OpenGap
<1>4. tracked[Target].observed \in Nat
  BY <1>2 DEF CapturesOK, Tracked
<1>5. act' \in [Tasks -> PlacedActs]
  <2>1. CASE Locks(Main, "gap", [Idle EXCEPT !.market = Target,
                                             !.at = tracked[Target].observed])
    BY <1>2, <1>4, <2>1, MainLocks DEF Uses
  <2>2. CASE UNCHANGED act
    BY <2>2 DEF TasksOK
  <2> QED BY <2>1, <2>2 DEF OpenGap
<1>6. TasksOK' /\ CapturesOK'
  BY <1>3, <1>5 DEF TasksOK, CapturesOK, OpenGap
<1> QED BY <1>6, QuietStep, UnclaimedStep DEF OpenGap

LEMMA CheckpointTimerKeeps ==
  ASSUME RecorderTypes, CheckpointTimer
  PROVE  Kept
<1> USE DEF RecorderTypes, resumeVars, archiveVars
<1> DEFINE targets == {m \in Market : CanCheckpoint(m)}
<1>1. targets \subseteq Market /\ Tail(todo) \in Seq(Callable) /\ <<>> \in Seq(Callable)
  BY NextCall DEF CheckpointTimer
<1>2. todo' \in Seq(Callable)
  BY <1>1, DoneKept DEF CheckpointTimer
<1>3. act' \in [Tasks -> PlacedActs]
  <2>1. CASE targets # {} /\ Locks(Main, "checkpoint", [Idle EXCEPT !.targets = targets])
    <3>1. PICK m \in Market : m \in targets
      BY <2>1
    <3> HIDE DEF targets
    <3>2. targets \in SUBSET Market /\ 0 \in Nat /\ "checkpoint" \in Uses
      BY <1>1 DEF Uses
    <3> QED BY <2>1, <3>1, <3>2, MainLocks
  <2>2. CASE UNCHANGED act
    BY <2>2 DEF TasksOK
  <2> QED BY <2>1, <2>2 DEF CheckpointTimer
<1>4. TasksOK' /\ CapturesOK'
  BY <1>2, <1>3 DEF TasksOK, CapturesOK, CheckpointTimer
<1> QED BY <1>4, QuietStep, UnclaimedStep DEF CheckpointTimer

LEMMA GammaLocksKeeps ==
  ASSUME RecorderTypes, GammaLocks
  PROVE  Kept
<1> USE DEF RecorderTypes, resumeVars, archiveVars
<1>1. Target \in Market /\ Tail(todo) \in Seq(Callable) /\ <<>> \in Seq(Callable)
  BY NextCall DEF GammaLocks, Ops
<1>2. todo' \in Seq(Callable)
  BY <1>1, DoneKept DEF GammaLocks
<1>3. act' \in [Tasks -> PlacedActs]
  <2>1. 0 \in Nat /\ {} \in SUBSET Market /\ "gamma" \in Uses
    BY DEF Uses
  <2> QED BY <1>1, <2>1, MainLocks DEF GammaLocks
<1>4. TasksOK' /\ CapturesOK'
  BY <1>2, <1>3 DEF TasksOK, CapturesOK, GammaLocks
<1> QED BY <1>4, QuietStep, UnclaimedStep DEF GammaLocks

LEMMA CloseLocksKeeps ==
  ASSUME RecorderTypes, CloseLocks
  PROVE  Kept
<1> USE DEF RecorderTypes, resumeVars, archiveVars
<1>1. Target \in Market /\ Tail(todo) \in Seq(Callable) /\ <<>> \in Seq(Callable)
  BY NextCall DEF CloseLocks, Ops
<1>2. todo' \in Seq(Callable)
  BY <1>1, DoneKept DEF CloseLocks
<1>3. act' \in [Tasks -> PlacedActs]
  <2>1. 0 \in Nat /\ {} \in SUBSET Market /\ "close" \in Uses
    BY DEF Uses
  <2> QED BY <1>1, <2>1, MainLocks DEF CloseLocks
<1>4. TasksOK' /\ CapturesOK'
  BY <1>2, <1>3 DEF TasksOK, CapturesOK, CloseLocks
<1> QED BY <1>4, QuietStep, UnclaimedStep DEF CloseLocks

(* The main task at a step where it has a market in hand. *)
LEMMA MainHolds ==
  ASSUME RecorderTypes, act[Main].step \in {"locked", "gap_ack", "gamma_ack", "closing", "draining"},
         act[Main].step = "locked" => act[Main].use # "checkpoint"
  PROVE  /\ act[Main] \in Acts /\ act[Main].market \in Market /\ act[Main].at \in Nat
         /\ tracked[act[Main].market] \in Tracked
  BY MarketsAreTasks, ActFields DEF RecorderTypes, TasksOK, CapturesOK, PlacedActs, Unplaced

LEMMA RecordGapKeeps ==
  ASSUME RecorderTypes, RecordGap
  PROVE  Kept
<1> USE DEF RecorderTypes, Rest, resumeVars, archiveVars
<1> DEFINE m == act[Main].market
           entry == [kind |-> "gap", market |-> m, gen |-> tracked[m].gen, rev |-> 0]
           c == [op |-> "open", by |-> Main, at |-> act[Main].at, entry |-> entry]
           n == Assigned + 1
           a == [act[Main] EXCEPT !.step = "gap_ack", !.at = n]
<1>1. act[Main] \in Acts /\ m \in Market /\ act[Main].at \in Nat /\ tracked[m] \in Tracked
  BY MainHolds DEF RecordGap, Holds, At
<1>2. entry \in Entry /\ entry.kind = "gap" /\ entry \in GapEntry
  BY <1>1 DEF Entry, GapEntry, Tracked
<1> HIDE DEF entry
<1>3. c \in OpenCommands /\ c.entry = entry
  BY <1>1, <1>2, MarketsAreTasks DEF OpenCommands, Senders
<1>4. c \in Commands /\ Lawful(c)
  BY <1>2, <1>3 DEF Commands, Lawful
<1>5. n \in Nat
  BY AssignedIsNat
<1> HIDE DEF n
<1>6. a \in Acts /\ a.market = m
  BY <1>1, <1>5 DEF Acts, Awaits
<1>7. a \in PlacedActs
  BY <1>1, <1>6 DEF PlacedActs
<1>8. Submits(Main, c, a)
  BY DEF RecordGap, n, entry
<1> HIDE DEF a, c
<1>9. /\ act' \in [Tasks -> PlacedActs] /\ pump' \in [Market -> Pumps]
      /\ queue' \in Seq(Commands)
      /\ queue' = queue \/ queue' = Append(queue, c)
  BY <1>4, <1>7, <1>8, MarketsAreTasks, SubmitsKept
<1>10. TasksOK' /\ CapturesOK'
  BY <1>9 DEF TasksOK, CapturesOK, RecordGap
<1> QED BY <1>4, <1>9, <1>10, SentStep, UnclaimedStep DEF RecordGap

LEMMA GapRecordedKeeps ==
  ASSUME RecorderTypes, GapRecorded
  PROVE  Kept
<1> USE DEF RecorderTypes, Rest, resumeVars, archiveVars
<1> DEFINE m == act[Main].market
           S == tracked[m].gaps \cup {act[Main].at}
<1>1. m \in Market /\ act[Main].at \in Nat /\ tracked[m] \in Tracked
  BY MainHolds DEF GapRecorded, Awaiting
<1>2. S \in SUBSET Nat
  BY <1>1 DEF Tracked
<1>3. tracked' = [tracked EXCEPT ![m] = [tracked[m] EXCEPT !.gaps = S]]
  BY <1>1 DEF GapRecorded, CapturesOK
<1> HIDE DEF S
<1>4. /\ [tracked[m] EXCEPT !.gaps = S] \in Tracked
      /\ [tracked[m] EXCEPT !.gaps = S].claimed = tracked[m].claimed
  BY <1>1, <1>2, TrackedKept
<1>5. tracked' \in [Market -> Tracked] /\ ClaimsStand
  BY <1>1, <1>3, <1>4 DEF CapturesOK, ClaimsStand
<1>6. act' \in [Tasks -> PlacedActs]
  BY MainGoes DEF GapRecorded
<1>7. TasksOK' /\ CapturesOK'
  BY <1>5, <1>6 DEF TasksOK, CapturesOK, GapRecorded
<1> QED BY <1>5, <1>7, QuietStep DEF GapRecorded

LEMMA RecordGammaKeeps ==
  ASSUME RecorderTypes, RecordGamma
  PROVE  Kept
<1> USE DEF RecorderTypes, Rest, resumeVars, archiveVars
<1> DEFINE m == act[Main].market
           r == tracked[m]
           n == Assigned + 1
           entry == [kind |-> "resolution", market |-> m, gen |-> r.gen, rev |-> r.book]
           c == [op |-> "event", by |-> Main, entry |-> entry]
           a == [act[Main] EXCEPT !.step = "gamma_ack", !.at = n]
<1>1. act[Main] \in Acts /\ m \in Market /\ r \in Tracked
  BY MainHolds DEF RecordGamma, Holds, At
<1>2. CASE Go(Main, "next") /\ UNCHANGED <<tracked, queue, pump>>
  <2>1. act' \in [Tasks -> PlacedActs]
    BY <1>2, MainGoes
  <2>2. TasksOK' /\ CapturesOK'
    BY <1>2, <2>1 DEF TasksOK, CapturesOK, RecordGamma
  <2> QED BY <1>2, <2>2, QuietStep, UnclaimedStep DEF RecordGamma
<1>3. CASE /\ GammaClaims(m)
           /\ tracked' = [tracked EXCEPT ![m].claimed = TRUE]
           /\ Submits(Main, c, a)
  <2>1. [r EXCEPT !.claimed = TRUE] \in Tracked /\ [r EXCEPT !.claimed = TRUE].claimed
    BY <1>1, TrackedKept
  <2>2. /\ tracked' \in [Market -> Tracked] /\ tracked'[m].claimed
        /\ \A x \in Market \ {m} : tracked'[x] = tracked[x]
    BY <1>1, <1>3, <2>1 DEF CapturesOK
  <2>3. ClaimsStand
    BY <2>2 DEF ClaimsStand
  <2>4. entry \in Entry /\ entry.market = m
    BY <1>1 DEF Entry, Tracked
  <2> HIDE DEF entry
  <2>5. c \in EventCommands /\ c.entry = entry
    BY <2>4, MarketsAreTasks DEF EventCommands, Senders
  <2>6. c \in Commands /\ Lawful(c)
    BY <1>3, <2>2, <2>4, <2>5 DEF Commands, Lawful, GammaClaims
  <2>7. n \in Nat
    BY AssignedIsNat
  <2> HIDE DEF n
  <2>8. a \in Acts /\ a.market = m
    BY <1>1, <2>7 DEF Acts, Awaits
  <2>9. a \in PlacedActs
    BY <1>1, <2>8 DEF PlacedActs
  <2> HIDE DEF a, c
  <2>10. /\ act' \in [Tasks -> PlacedActs] /\ pump' \in [Market -> Pumps]
         /\ queue' \in Seq(Commands)
         /\ queue' = queue \/ queue' = Append(queue, c)
    BY <1>3, <2>6, <2>9, MarketsAreTasks, SubmitsKept
  <2>11. TasksOK' /\ CapturesOK'
    BY <2>2, <2>10 DEF TasksOK, CapturesOK, RecordGamma
  <2> QED BY <2>3, <2>6, <2>10, <2>11, SentStep DEF RecordGamma
<1> QED BY <1>2, <1>3 DEF RecordGamma

LEMMA GammaRecordedKeeps ==
  ASSUME RecorderTypes, GammaRecorded
  PROVE  Kept
<1> USE DEF RecorderTypes, Rest, resumeVars, archiveVars
<1> DEFINE m == act[Main].market
           r == tracked[m]
           n == IF act[Main].at > r.observed THEN act[Main].at ELSE r.observed
<1>1. m \in Market /\ act[Main].at \in Nat /\ r \in Tracked
  BY MainHolds DEF GammaRecorded, Awaiting
<1>2. n \in Nat
  BY <1>1 DEF Tracked
<1>3. tracked' = [tracked EXCEPT ![m] = [r EXCEPT !.observed = n]]
  BY <1>1 DEF GammaRecorded, CapturesOK
<1> HIDE DEF n
<1>4. [r EXCEPT !.observed = n] \in Tracked /\ [r EXCEPT !.observed = n].claimed = r.claimed
  BY <1>1, <1>2, TrackedKept
<1>5. tracked' \in [Market -> Tracked] /\ ClaimsStand
  BY <1>1, <1>3, <1>4 DEF CapturesOK, ClaimsStand
<1>6. act' \in [Tasks -> PlacedActs]
  BY <1>1, MarketsAreTasks, GoKept DEF GammaRecorded, Sync
<1>7. TasksOK' /\ CapturesOK'
  BY <1>5, <1>6 DEF TasksOK, CapturesOK, GammaRecorded
<1> QED BY <1>5, <1>7, QuietStep DEF GammaRecorded

LEMMA ForgetCaptureKeeps ==
  ASSUME RecorderTypes, ForgetCapture
  PROVE  Kept
<1> USE DEF RecorderTypes, Rest, resumeVars, archiveVars
<1> DEFINE m == act[Main].market
           r == tracked[m]
<1>1. m \in Market /\ r \in Tracked
  BY MainHolds DEF ForgetCapture, Holds, At
<1>2. [r EXCEPT !.capture = 0] \in Tracked /\ [r EXCEPT !.capture = 0].claimed = r.claimed
  BY <1>1, TrackedKept
<1>3. tracked' \in [Market -> Tracked] /\ ClaimsStand
  BY <1>1, <1>2 DEF CapturesOK, ClaimsStand, ForgetCapture
<1>4. act' \in [Tasks -> PlacedActs]
  BY <1>1, MarketsAreTasks, GoKept DEF ForgetCapture, Awaits
<1>5. TasksOK' /\ CapturesOK'
  BY <1>3, <1>4 DEF TasksOK, CapturesOK, ForgetCapture
<1> QED BY <1>3, <1>5, QuietStep DEF ForgetCapture

LEMMA ReaddressedCommand ==
  ASSUME NEW c \in Commands
  PROVE  /\ [c EXCEPT !.by = "nobody"] \in Commands
         /\ [c EXCEPT !.by = "nobody"].op = c.op
         /\ TakesSequence(c) => [c EXCEPT !.by = "nobody"].entry = c.entry
<1> DEFINE d == [c EXCEPT !.by = "nobody"]
<1>1. CASE c \in EventCommands
  <2>1. d \in EventCommands /\ d.op = c.op /\ d.entry = c.entry
    BY <1>1 DEF EventCommands, Senders
  <2> QED BY <2>1 DEF Commands
<1>2. CASE c \in OpenCommands
  <2>1. d \in OpenCommands /\ d.op = c.op /\ d.entry = c.entry
    BY <1>2 DEF OpenCommands, Senders
  <2> QED BY <2>1 DEF Commands
<1>3. CASE c \in CloseCommands
  <2>1. d \in CloseCommands /\ d.op = c.op /\ c.op = "close"
    BY <1>3 DEF CloseCommands, Senders
  <2> QED BY <2>1 DEF Commands, TakesSequence
<1>4. CASE c \in CheckpointCommands
  <2>1. d \in CheckpointCommands /\ d.op = c.op /\ c.op = "checkpoint"
    BY <1>4 DEF CheckpointCommands, Senders
  <2> QED BY <2>1 DEF Commands, TakesSequence
<1> QED BY <1>1, <1>2, <1>3, <1>4 DEF Commands

LEMMA CancelPumpKeeps ==
  ASSUME RecorderTypes, CancelPump
  PROVE  Kept
<1> USE DEF RecorderTypes, Rest, resumeVars, archiveVars
<1> DEFINE m == act[Main].market
           s == IF act[m].step = "none" THEN "next" ELSE "draining"
           a == [act[Main] EXCEPT !.step = s]
           b == IF act[m].step = "none" THEN act[m] ELSE [Idle EXCEPT !.step = "cancelled"]
           to(c) == IF c.by = m THEN [c EXCEPT !.by = "nobody"] ELSE c
<1>1. act[Main] \in Acts /\ m \in Market /\ m \in Tasks /\ m # Main
  BY MainHolds, MarketsAreTasks DEF CancelPump, Awaiting
<1>2. a \in Acts /\ a.market = m
  <2>1. s \in Sync \cup Awaits
    BY DEF Sync, Awaits
  <2> HIDE DEF s
  <2> QED BY <1>1, <2>1, ActGoesOn
<1>3. a \in PlacedActs
  BY <1>1, <1>2 DEF PlacedActs
<1>4. b \in PlacedActs
  <2>1. CASE act[m].step = "none"
    BY <1>1, <2>1 DEF TasksOK
  <2>2. CASE act[m].step # "none"
    <3>1. b \in Acts /\ b.step = "cancelled"
      BY <2>2, IdleActs, ActGoesOn DEF Awaits
    <3> QED BY <3>1 DEF PlacedActs, Unplaced
  <2> QED BY <2>1, <2>2
<1>5. act' = [act EXCEPT ![Main] = a, ![m] = b]
  BY <1>1 DEF CancelPump, TasksOK
<1> HIDE DEF a, b, s
<1>6. act' \in [Tasks -> PlacedActs]
  BY <1>3, <1>4, <1>5 DEF TasksOK
<1>7. remaining' \subseteq Market
  BY <1>1 DEF CancelPump, CapturesOK
<1>8. TasksOK' /\ CapturesOK'
  BY <1>6, <1>7 DEF TasksOK, CapturesOK, CancelPump
<1>9. \A c \in Commands : /\ to(c) \in Commands /\ to(c).op = c.op
                          /\ TakesSequence(c) => to(c).entry = c.entry
  BY ReaddressedCommand
<1>10. queue' = [i \in DOMAIN queue |-> to(queue[i])]
  BY DEF CancelPump
<1> HIDE DEF to
<1>11. /\ DOMAIN queue' = DOMAIN queue
       /\ \A i \in DOMAIN queue : queue'[i] = to(queue[i]) /\ queue[i] \in Commands
  BY <1>10 DEF ArchiveOK
<1>12. Readdressed
  BY <1>9, <1>11 DEF Readdressed, TakesSequence
<1>13. queue' \in Seq(Commands)
  <2>1. Len(queue) \in Nat /\ DOMAIN queue = 1..Len(queue)
    BY DEF ArchiveOK
  <2> QED BY <1>9, <1>10, <1>11, <2>1
<1>14. log' = log /\ ClaimsStand
  BY UnclaimedStep DEF CancelPump
<1> QED BY <1>8, <1>12, <1>13, <1>14 DEF Kept, Sends, ArchiveOK

LEMMA PumpDrainedKeeps ==
  ASSUME RecorderTypes, PumpDrained
  PROVE  Kept
<1> USE DEF RecorderTypes, Rest, resumeVars, archiveVars
<1> DEFINE m == act[Main].market
           a == [act[Main] EXCEPT !.step = "next"]
<1>1. act[Main] \in Acts /\ m \in Market /\ m \in Tasks /\ m # Main
  BY MainHolds, MarketsAreTasks DEF PumpDrained, Awaiting
<1>2. a \in Acts /\ a.step = "next"
  BY <1>1, ActGoesOn DEF Sync
<1>3. a \in PlacedActs /\ Idle \in PlacedActs
  BY <1>2, IdleActs DEF PlacedActs, Unplaced, Idle
<1>4. act' = [act EXCEPT ![Main] = a, ![m] = Idle]
  BY <1>1 DEF PumpDrained, TasksOK
<1> HIDE DEF a
<1>5. act' \in [Tasks -> PlacedActs]
  BY <1>3, <1>4 DEF TasksOK
<1>6. pump' \in [Market -> Pumps]
  BY <1>1, PumpStopKept DEF PumpDrained
<1>7. TasksOK' /\ CapturesOK'
  BY <1>5, <1>6 DEF TasksOK, CapturesOK, PumpDrained
<1> QED BY <1>7, QuietStep, UnclaimedStep DEF PumpDrained

LEMMA MainKeeps ==
  ASSUME RecorderTypes, MainStep
  PROVE  Kept
  BY MarketsAreTasks, MainIdlesKeeps, EnsureCapturesKeeps, DetectDropsKeeps, OpenGapKeeps,
     RecordGapKeeps, GapRecordedKeeps, CheckpointTimerKeeps, GammaLocksKeeps, RecordGammaKeeps,
     GammaRecordedKeeps, CloseLocksKeeps, ForgetCaptureKeeps, CancelPumpKeeps,
     PumpDrainedKeeps, CloseGapsKeeps
  DEF MainStep

-----------------------------------------------------------------------------
(* Resolutions are final *)

LEMMA InitRecorder == Init => RecorderInv
<1> SUFFICES ASSUME Init PROVE RecorderInv
  OBVIOUS
<1> USE DEF Init
<1>1. ResumedGaps \in Seq(Market)
  <2>1. IsFiniteSet(Resumed)
    BY RecorderAssumption, FS_Subset
  <2>2. ResumedGaps \in Seq(Resumed)
    BY <2>1, MarketsInOrder DEF ResumedGaps
  <2> QED BY <2>2, RecorderAssumption
<1>2. /\ Len(ResumedGaps) \in Nat /\ DOMAIN ResumedGaps = 1..Len(ResumedGaps)
      /\ \A i \in DOMAIN ResumedGaps : ResumedGaps[i] \in Market
  BY <1>1
<1>3. log \in Seq(Entry) /\ \A i \in DOMAIN log : log[i].kind = "gap"
  <2>1. \A i \in DOMAIN ResumedGaps :
          [kind |-> "gap", market |-> ResumedGaps[i], gen |-> 0, rev |-> 0] \in Entry
    BY <1>2 DEF Entry
  <2>2. log \in [1..Len(ResumedGaps) -> Entry]
    BY <1>2, <2>1
  <2>3. log \in Seq(Entry)
    BY <1>2, <2>2
  <2> QED BY <2>3
<1>4. TasksOK
  <2>1. Idle \in PlacedActs /\ [Idle EXCEPT !.step = "next"] \in PlacedActs
    <3>1. [Idle EXCEPT !.step = "next"] \in Acts /\ [Idle EXCEPT !.step = "next"].step = "next"
      BY IdleActs, ActGoesOn DEF Sync
    <3> QED BY <3>1, IdleActs DEF PlacedActs, Unplaced, Idle
  <2>2. act \in [Tasks -> PlacedActs]
    BY <2>1
  <2>3. [op |-> "ensure", market |-> Main] \in Callable
    BY DEF Callable, MainCalls
  <2>4. todo \in Seq(Callable) /\ control \in Seq(Controls)
    BY <2>3
  <2> QED BY <2>2, <2>4 DEF TasksOK
<1>5. CapturesOK
  <2>1. handle \in [Market -> Handles]
    BY DEF Handles
  <2>2. tracked \in [Market -> Tracked]
    BY <1>2 DEF Tracked
  <2>3. pump \in [Market -> Pumps]
    BY DEF Pumps, NoPump
  <2> QED BY <2>1, <2>2, <2>3, RecorderAssumption DEF CapturesOK
<1>6. ArchiveOK
  BY <1>3 DEF ArchiveOK
<1>7. FinalInv
  BY <1>3 DEF FinalInv, LogFinal, LogQueueFinal, QueueFinal, LogClaimed, QueueClaimed,
              QuietAfter, Resolution
<1> QED BY <1>4, <1>5, <1>6, <1>7 DEF RecorderInv, RecorderTypes

LEMMA NextRecorder == RecorderInv /\ [Next]_vars => RecorderInv'
<1> SUFFICES ASSUME RecorderInv, [Next]_vars PROVE RecorderInv'
  OBVIOUS
<1>1. CASE Commit
  BY <1>1, CommitIsFinal
<1>2. ASSUME Kept PROVE RecorderInv'
  BY <1>2, SendsIsFinal DEF Kept, RecorderInv
<1> USE DEF RecorderInv
<1>3. ASSUME NEW m \in Market,
             Send(m) \/ SendResolution(m) \/ CaptureEnds(m) \/ PumpStep(m) \/ Reconcile(m)
      PROVE  RecorderInv'
  BY <1>2, <1>3, SendKeeps, SendResolutionKeeps, CaptureEndsKeeps, PumpKeeps, ReconcileKeeps
<1>4. CASE MainStep
  BY <1>2, <1>4, MainKeeps
<1>5. CASE HandleControl \/ Tick \/ CaptureOpens \/ CaptureRefused
  BY <1>2, <1>5, HandleControlKeeps, TickKeeps, CaptureOpensKeeps, CaptureRefusedKeeps
<1>6. CASE UNCHANGED vars
  <2>1. TasksOK' /\ CapturesOK' /\ UNCHANGED <<queue, log, tracked>>
    BY <1>6 DEF vars, RecorderTypes, TasksOK, CapturesOK
  <2> QED BY <1>2, <2>1, QuietStep, UnclaimedStep
<1> QED BY <1>1, <1>3, <1>4, <1>5, <1>6 DEF Next

LEMMA RecorderInvariant == Spec => []RecorderInv
  BY InitRecorder, NextRecorder, PTL DEF Spec

(* Whichever of the stream and Gamma reports the resolution of a market first, for   *)
(* any number of markets, captures and failures, the archive holds one resolution of *)
(* it and no book event after it.  _enqueue_event and record_gamma_resolution claim  *)
(* the market in the step that queues the resolution, and the writer keeps the order.*)
THEOREM ResolutionStaysFinal == Spec => []ResolutionIsFinal
<1>1. RecorderInv => ResolutionIsFinal
  BY DEF RecorderInv, FinalInv, LogFinal, QuietAfter, Resolution, ResolutionIsFinal
<1> QED BY <1>1, RecorderInvariant, PTL

-----------------------------------------------------------------------------
(***************************************************************************)
(* What the recorder sends is accepted, and its checkpoints replay.        *)
(*                                                                         *)
(* The inductive invariant AllInv has four parts: the types and claims of  *)
(* RecorderInv above; BoundsInv, what is counted and who may run;          *)
(* ControlInv, who has a place at the record lock and what each task may   *)
(* rely on when it gets there, while recording goes on; and RecordsInv,    *)
(* which says of every queued command that what it needs was recorded or   *)
(* queued before it, and of every projected book that it is the last one   *)
(* recorded or queued.                                                     *)
(***************************************************************************)

(* r is q without x: the others have their places, and who came first still does. *)
GivesUp(q, x, r) ==
  /\ \A t : (\E i \in DOMAIN r : r[i] = t) <=> t # x /\ (\E i \in DOMAIN q : q[i] = t)
  /\ \A t : t # x /\ q # <<>> /\ q[1] = t => r[1] = t

(* Who gives up its place at the lock leaves the order of the others. *)
LEMMA PlaceGivenUp ==
  ASSUME NEW T, NEW q \in Seq(T), IsInjective(q), NEW x, NEW r, r = RemoveFirst(q, x)
  PROVE  r \in Seq(T) /\ IsInjective(r) /\ GivesUp(q, x, r)
<1> USE DEF GivesUp
<1> DEFINE n == Len(q)
<1>0. n \in Nat /\ DOMAIN q = 1..n /\ n = Len(q)
  OBVIOUS
<1> HIDE DEF n
<1>1. CASE ~\E i \in 1..n : q[i] = x
  <2>1. r = q
    BY <1>0, <1>1 DEF RemoveFirst
  <2> QED BY <1>0, <1>1, <2>1
<1>2. CASE \E i \in 1..n : q[i] = x
  <2> DEFINE k == SelectInSeq(q, LAMBDA v : v = x)
  <2>1. PICK j \in 1..n : q[j] = x
    BY <1>2
  <2>2. \A i \in 1..n : q[i] = x => i = j
    BY <1>0, <2>1 DEF IsInjective
  <2>3. k = j
    <3>1. {i \in 1..Len(q) : q[i] = x} = {j}
      BY <1>0, <2>1, <2>2
    <3>2. k = Min({i \in 1..Len(q) : q[i] = x})
      BY <3>1 DEF SelectInSeq
    <3>3. Min({j}) = j
      BY DEF Min
    <3> QED BY <3>1, <3>2, <3>3
  <2>4. r = RemoveAt(q, j)
    BY <1>0, <1>2, <2>3 DEF RemoveFirst
  <2> HIDE DEF k
  <2>5. r = SubSeq(q, 1, j - 1) \o SubSeq(q, j + 1, n)
    BY <1>0, <2>4 DEF RemoveAt
  <2>6. /\ DOMAIN r = 1..(n - 1) /\ Len(r) = n - 1 /\ r \in Seq(T)
        /\ \A i \in 1..(n - 1) : r[i] = IF i < j THEN q[i] ELSE q[i + 1]
    <3> DEFINE a == SubSeq(q, 1, j - 1)
               b == SubSeq(q, j + 1, n)
    <3>1. /\ a \in Seq(T) /\ Len(a) = j - 1 /\ DOMAIN a = 1..(j - 1)
          /\ \A i \in 1..(j - 1) : a[i] = q[i]
      BY <1>0, <2>1
    <3>2. /\ b \in Seq(T) /\ Len(b) = n - j /\ DOMAIN b = 1..(n - j)
          /\ \A i \in 1..(n - j) : b[i] = q[i + j]
      <4>1. j \in Nat /\ j + 1 \in Nat /\ j <= n /\ 1 + n - (j + 1) = n - j
        BY <1>0, <2>1
      <4>0. \A i \in j + 1..n : q[i] \in T
        BY <1>0, <4>1
      <4>2. b \in Seq(T) /\ Len(b) = n - j /\ DOMAIN b = 1..(n - j)
        <5>1. b \in Seq(T) /\ Len(b) = IF j + 1 <= n THEN n - (j + 1) + 1 ELSE 0
          BY <1>0, <4>0, <4>1, SubSeqProperties
        <5> HIDE DEF b
        <5>2. Len(b) = n - j
          <6>1. CASE j = n
            BY <1>0, <4>1, <5>1, <6>1
          <6>2. CASE j < n
            <7>1. j + 1 <= n
              BY <1>0, <4>1, <6>2
            <7>2. Len(b) = n - (j + 1) + 1
              BY <5>1, <7>1
            <7> QED BY <1>0, <4>1, <7>2
          <6>3. j = n \/ j < n
            <7>1. j \in Int /\ n \in Int /\ j <= n
              BY <1>0, <4>1
            <7> QED BY ONLY <7>1, SMT
          <6> QED BY <6>1, <6>2, <6>3
        <5>3. DOMAIN b = 1..Len(b)
          BY <5>1, LenProperties
        <5> QED BY <5>1, <5>2, <5>3
      <4>3. ASSUME NEW i \in 1..(n - j) PROVE b[i] = q[i + j]
        <5>1. j + 1 + i - 1 = i + j
          BY <1>0, <4>1
        <5>2. i \in 1..n - (j + 1) + 1
          BY <1>0, <4>1
        <5>3. b[i] = q[j + 1 + i - 1]
          BY <1>0, <4>0, <4>1, <5>2, SubSeqProperties
        <5> QED BY <5>1, <5>3
      <4> QED BY <4>2, <4>3
    <3> HIDE DEF a, b
    <3>3. r = a \o b
      BY <2>5 DEF a, b
    <3>4. r \in Seq(T) /\ Len(r) = n - 1 /\ DOMAIN r = 1..(n - 1)
      <4>1. r \in Seq(T) /\ Len(r) = Len(a) + Len(b)
        <5>1. a \in Seq(T) /\ b \in Seq(T)
          BY <3>1, <3>2
        <5>2. a \o b \in Seq(T) /\ Len(a \o b) = Len(a) + Len(b)
          BY <5>1, ConcatProperties
        <5> QED BY <3>3, <5>2
      <4>2. Len(r) = n - 1
        BY <1>0, <2>1, <3>1, <3>2, <4>1
      <4> QED BY <4>1, <4>2
    <3>5. ASSUME NEW i \in 1..(n - 1) PROVE r[i] = IF i < j THEN q[i] ELSE q[i + 1]
      <4>1. CASE i < j
        BY <1>0, <2>1, <3>1, <3>2, <3>3, <4>1
      <4>2. CASE i >= j
        <5>1. r[i] = b[i - (j - 1)] /\ i - (j - 1) \in 1..(n - j)
          BY <1>0, <2>1, <3>1, <3>2, <3>3, <4>2
        <5>2. b[i - (j - 1)] = q[(i - (j - 1)) + j] /\ (i - (j - 1)) + j = i + 1
          BY <1>0, <2>1, <3>2, <5>1
        <5> QED BY <1>0, <2>1, <4>2, <5>1, <5>2
      <4> QED BY <1>0, <2>1, <4>1, <4>2
    <3> QED BY <3>4, <3>5
  <2>7. IsInjective(r)
    <3> SUFFICES ASSUME NEW g \in 1..(n - 1), NEW h \in 1..(n - 1), r[g] = r[h] PROVE g = h
      BY <2>6 DEF IsInjective
    <3> DEFINE place(i) == IF i < j THEN i ELSE i + 1
    <3>1. place(g) \in 1..n /\ place(h) \in 1..n /\ r[g] = q[place(g)] /\ r[h] = q[place(h)]
      BY <1>0, <2>1, <2>6
    <3>2. place(g) = place(h)
      BY <1>0, <3>1 DEF IsInjective
    <3> QED BY <1>0, <2>1, <3>2
  <2>8. \A t : (\E i \in DOMAIN r : r[i] = t) <=> t # x /\ (\E i \in DOMAIN q : q[i] = t)
    <3>1. ASSUME NEW i \in DOMAIN r PROVE r[i] # x /\ \E h \in DOMAIN q : q[h] = r[i]
      BY <1>0, <2>1, <2>2, <2>6, <3>1
    <3>2. ASSUME NEW h \in DOMAIN q, q[h] # x PROVE \E i \in DOMAIN r : r[i] = q[h]
      <4>1. CASE h < j
        BY <1>0, <2>1, <2>6, <4>1
      <4>2. CASE h > j
        <5>1. h - 1 \in 1..(n - 1) /\ r[h - 1] = q[(h - 1) + 1]
          BY <1>0, <2>1, <2>6, <4>2
        <5> QED BY <2>6, <5>1, <1>0
      <4> QED BY <1>0, <2>1, <3>2, <4>1, <4>2
    <3> QED BY <3>1, <3>2
  <2>9. ASSUME q # <<>>, q[1] # x PROVE r[1] = q[1]
    BY <1>0, <2>1, <2>6, <2>9
  <2> QED BY <2>6, <2>7, <2>8, <2>9
<1> QED BY <1>0, <1>1, <1>2

(* The bounds of TypeOK, and that only an opened capture has messages and a book. *)
CaptureBounded(m) ==
  /\ revision[m] <= MaxRevision[m]
  /\ Len(handle[m].msgs) <= HandleCapacity
  /\ tracked[m].seen <= handle[m].dropped
  /\ tracked[m].capture \in {0, tracked[m].gen}
  /\ tracked[m].complete \/ handle[m].msgs # <<>> => tracked[m].gen # 0
  /\ \A g, h \in tracked[m].gaps : g = h
  /\ Len(pump[m].pending) <= MaxPending

(* The archive's queue, its gaps and the gaps left by earlier sessions are bounded, *)
(* and one task at a time runs.                                                     *)
CapturesBounded == \A m \in Market : CaptureBounded(m)

ArchiveBounded ==
  /\ Len(queue) <= QueueSize
  /\ DOMAIN gaps \subseteq DOMAIN log
  /\ \A i \in DOMAIN gaps : log[i].kind = "gap"
  /\ remaining \subseteq resumedOpen

SchedulerInv ==
  /\ lock \in Seq(Tasks) /\ IsInjective(lock)
  /\ \A t, u \in Tasks : act[t].step \in Sync /\ act[u].step \in Sync => t = u

BoundsInv == CapturesBounded /\ ArchiveBounded /\ SchedulerInv

(* While recording goes on: a task has a place at the lock exactly while it waits for *)
(* it or holds it, and its holder comes first.                                        *)
InLock(a) == a.step \in {"lock", "locked", "checkpoint_ack", "gap_ack", "gamma_ack"}
Holding(a) == a.step \in {"locked", "checkpoint_ack", "gap_ack", "gamma_ack"}

(* Who waits for the lock or holds it, and only those, are in it, the holder first. *)
LockInv ==
  /\ \A t \in Tasks : InLock(act[t]) <=> \E i \in DOMAIN lock : lock[i] = t
  /\ \A t \in Tasks : Holding(act[t]) => lock[1] = t

(* Pumps act for their own market, and only while it is captured; what is about to be *)
(* checkpointed has a book; a resumed gap is closed by one task at a time.            *)
Closing(m) == act[Main].step \in {"closing", "draining"} /\ act[Main].market = m
(* A task that waits for the lock, or just got it, to do u. *)
AtLock(a, u) == a.use = u /\ a.step \in {"lock", "locked"}

PumpsInv ==
  /\ \A m \in Market : act[m].market \in {m, Main}
  /\ \A m \in Market : AtLock(act[m], "checkpoint") => act[m].targets \subseteq {m}
  /\ \A t \in Tasks : AtLock(act[t], "checkpoint") =>
       \A m \in act[t].targets : tracked[m].complete
  /\ \A t \in Tasks : act[t].step = "resumed_ack" =>
       act[t].market \in resumedOpen \ remaining
  /\ \A t, u \in Tasks :
       /\ act[t].step = "resumed_ack" /\ act[u].step = "resumed_ack"
       /\ act[t].market = act[u].market
       => t = u
  /\ \A m \in Market : tracked[m].capture = 0 /\ ~Closing(m) => act[m].step = "none"
  /\ act[Main].step = "draining" => act[act[Main].market].step = "cancelled"

(* A gap is only opened for a market that has none and is not captured: its capture is *)
(* closed by the call before.                                                          *)
Regaps(c) == c.op \in {"gap", "regap"}
Uncapturing(m) ==
  tracked[m].capture = 0 \/ (AtLock(act[Main], "close") /\ act[Main].market = m)

(* What the main task relies on: no capture and no gap where it opens a gap, no capture *)
(* where it opens one.                                                                *)
MainInv ==
  /\ (AtLock(act[Main], "gap") \/ act[Main].step = "gap_ack")
       => tracked[act[Main].market].capture = 0 /\ tracked[act[Main].market].gaps = {}
  /\ act[Main].step = "opening" =>
       /\ tracked[act[Main].market].capture = 0
       /\ todo # <<>> => ~Regaps(todo[1])
  /\ todo # <<>> /\ Regaps(todo[1]) => Uncapturing(todo[1].market)
  /\ \A i \in 2..Len(todo) :
       Regaps(todo[i]) => todo[i - 1].op = "close" /\ todo[i - 1].market = todo[i].market

(* Once recording ended the tasks no longer move. *)
ControlInv == failed = "no" => LockInv /\ PumpsInv /\ MainInv

(* Some entry before position j of the queue is in good, and none after it is bad. *)
NoneQueued(i, j, bad) ==
  \A k \in i..j : TakesSequence(queue[k]) => queue[k].entry \notin bad

(* The entry in good is in the archive, or in the queue before j. *)
SinceLogged(j, good, bad) ==
  \E i \in DOMAIN log :
    /\ log[i] \in good
    /\ \A k \in i + 1..Len(log) : log[k] \notin bad
    /\ NoneQueued(1, j - 1, bad)

SinceQueued(j, good, bad) ==
  \E i \in 1..j - 1 :
    /\ TakesSequence(queue[i]) /\ queue[i].entry \in good
    /\ NoneQueued(i + 1, j - 1, bad)

Since(j, good, bad) == SinceLogged(j, good, bad) \/ SinceQueued(j, good, bad)

(* Entries of a generation of a market: its books, those of a revision, its baselines; *)
(* and the gaps of a market, which withdraw its baselines.                              *)
BooksOf(m, g) == {e \in Entry : e.market = m /\ e.gen = g /\ e.kind \in {"base", "delta"}}
BooksAt(m, g, r) == {e \in BooksOf(m, g) : e.rev = r}
BasesOf(m, g) == {e \in Entry : e.market = m /\ e.gen = g /\ e.kind = "base"}
GapsOf(m) == {e \in Entry : e.market = m /\ e.kind = "gap"}

(* Before command j: the generation has a baseline no gap withdrew, its last book is r. *)
HasBase(j, m, g) == Since(j, BasesOf(m, g), GapsOf(m))
HasBook(j, m, g, r) == Since(j, BooksAt(m, g, r), BooksOf(m, g))

(* The sequence command j finds when its turn comes. *)
Before(j) == {i \in 1..j - 1 : TakesSequence(queue[i])}
SequenceAt(j) == Len(log) + Cardinality(Before(j))

(* What a queued command relies on has come before it, unless it was lost. *)
Founded(j) ==
  LET c == queue[j] IN
  /\ c.op = "event" /\ c.entry.kind = "delta" /\ c.entry.gen \notin tracked[c.entry.market].lost
       => HasBase(j, c.entry.market, c.entry.gen)
  /\ c.op = "checkpoint" =>
       \A b \in c.books : b.gen \notin tracked[b.market].lost =>
         /\ HasBase(j, b.market, b.gen)
         /\ HasBook(j, b.market, b.gen, b.rev)
         /\ b.seq = SequenceAt(j)

(* The projected book of a market is the last one recorded of its generation. *)
Projected(m) ==
  LET r == tracked[m]
      end == Len(queue) + 1
  IN r.complete /\ r.gen \notin r.lost =>
       /\ HasBook(end, m, r.gen, r.book)
       /\ r.capture # 0 => HasBase(end, m, r.gen)

(* Replaying the archive up to a checkpoint gives its book. *)
Replays(c) ==
  /\ c.seq \in 1..Len(log)
  /\ \E i \in 1..c.seq : /\ log[i] \in BooksAt(c.market, c.gen, c.rev)
                         /\ \A k \in i + 1..c.seq : log[k] \notin BooksOf(c.market, c.gen)

(* Every queued command is founded, every projected book true, every checkpoint right. *)
RecordsInv ==
  /\ \A j \in DOMAIN queue : Founded(j)
  /\ \A m \in Market : Projected(m)
  /\ checkpoints \subseteq Checkpoints
  /\ \A c \in checkpoints : c.gen \notin tracked[c.market].lost => Replays(c)
  /\ ArchiveAccepts

(* The inductive invariant. *)
AllInv == RecorderInv /\ BoundsInv /\ ControlInv /\ RecordsInv

-----------------------------------------------------------------------------
(* What comes before a position of the queue, as commands are queued and committed *)

(* Commands keep their places and what they say. *)
Repeats ==
  /\ DOMAIN queue' = DOMAIN queue
  /\ \A i \in DOMAIN queue :
       /\ queue'[i].op = queue[i].op
       /\ TakesSequence(queue[i]) => queue'[i].entry = queue[i].entry
       /\ queue[i].op = "checkpoint" => queue'[i].books = queue[i].books

(* A command is appended; the position after the last command. *)
Queued(c) == queue' = Append(queue, c)
End == Len(queue) + 1

(* A command appended is the last, and the others keep their places. *)
LEMMA QueuedPlaces ==
  ASSUME ArchiveOK, NEW c, Queued(c)
  PROVE  /\ Len(queue) \in Nat /\ DOMAIN queue = 1..Len(queue)
         /\ DOMAIN queue' = 1..End /\ End' = End + 1 /\ Len(queue') = End
         /\ \A i \in 1..Len(queue) : queue'[i] = queue[i]
         /\ queue'[End] = c
<1> DEFINE n == Len(queue)
<1>1. n \in Nat /\ DOMAIN queue = 1..n /\ queue \in Seq(Commands)
  BY DEF ArchiveOK
<1>2. Len(queue') = n + 1 /\ DOMAIN queue' = 1..n + 1 /\ queue'[n + 1] = c
  BY <1>1 DEF Queued
<1>3. \A i \in 1..n : queue'[i] = queue[i]
  BY <1>1 DEF Queued
<1> QED BY <1>1, <1>2, <1>3 DEF End

(* What came before a position depends on the commands before it. *)
LEMMA SincePrefix ==
  ASSUME NEW j \in Nat, log' = log,
         \A k \in 1..j - 1 : /\ queue'[k].op = queue[k].op
                             /\ TakesSequence(queue[k]) => queue'[k].entry = queue[k].entry
  PROVE  \A good, bad : Since(j, good, bad)' <=> Since(j, good, bad)
<1> SUFFICES ASSUME NEW good, NEW bad PROVE Since(j, good, bad)' <=> Since(j, good, bad)
  OBVIOUS
<1>1. \A k \in 1..j - 1 : /\ TakesSequence(queue'[k]) <=> TakesSequence(queue[k])
                          /\ TakesSequence(queue[k]) => queue'[k].entry = queue[k].entry
  BY DEF TakesSequence
<1>2. NoneQueued(1, j - 1, bad)' <=> NoneQueued(1, j - 1, bad)
  BY <1>1 DEF NoneQueued
<1>3. \A i \in 1..j - 1 : NoneQueued(i + 1, j - 1, bad)' <=> NoneQueued(i + 1, j - 1, bad)
  BY <1>1 DEF NoneQueued
<1>4. SinceLogged(j, good, bad)' <=> SinceLogged(j, good, bad)
  BY <1>2 DEF SinceLogged
<1>5. SinceQueued(j, good, bad)' <=> SinceQueued(j, good, bad)
  BY <1>1, <1>3 DEF SinceQueued
<1> QED BY <1>4, <1>5 DEF Since

(* A command appended leaves what came before it, and what it does not undo. *)
LEMMA SinceNext ==
  ASSUME ArchiveOK, log' = log, NEW c, Queued(c), NEW good, NEW bad,
         Since(End, good, bad), TakesSequence(c) => c.entry \notin bad
  PROVE  Since(End, good, bad)'
<1>0. PICK n \in Nat : n = Len(queue)
  BY QueuedPlaces
<1>1. /\ n \in Nat /\ DOMAIN queue = 1..n /\ End = n + 1 /\ End' = n + 2 /\ Len(queue') = n + 1
      /\ \A i \in 1..n : queue'[i] = queue[i]
      /\ queue'[n + 1] = c
  BY <1>0, QueuedPlaces DEF End
<1>2. End' - 1 = n + 1 /\ End - 1 = n
  BY <1>1
<1>3. ASSUME NEW i \in 1..n + 1, NoneQueued(i, n, bad) PROVE NoneQueued(i, n + 1, bad)'
  <2> SUFFICES ASSUME NEW k \in i..n + 1, TakesSequence(queue'[k])
               PROVE  queue'[k].entry \notin bad
    BY DEF NoneQueued
  <2>1. CASE k = n + 1
    BY <1>1, <2>1
  <2>2. CASE k # n + 1
    <3>1. k \in i..n /\ k \in 1..n
      BY <1>1, <2>2
    <3> QED BY <1>1, <1>3, <3>1 DEF NoneQueued
  <2> QED BY <2>1, <2>2
<1>4. CASE SinceLogged(End, good, bad)
  <2>1. 1 \in 1..n + 1
    BY <1>1
  <2>2. SinceLogged(End, good, bad)'
    BY <1>2, <1>3, <1>4, <2>1 DEF SinceLogged
  <2> QED BY <2>2 DEF Since
<1>5. CASE SinceQueued(End, good, bad)
  <2>1. PICK i \in 1..n : /\ TakesSequence(queue[i]) /\ queue[i].entry \in good
                          /\ NoneQueued(i + 1, n, bad)
    BY <1>2, <1>5 DEF SinceQueued
  <2>2. i + 1 \in 1..n + 1 /\ i \in 1..n + 1
    BY <1>1
  <2>3. NoneQueued(i + 1, n + 1, bad)'
    BY <1>3, <2>1, <2>2
  <2>4. SinceQueued(End, good, bad)'
    BY <1>1, <1>2, <2>1, <2>2, <2>3 DEF SinceQueued
  <2> QED BY <2>4 DEF Since
<1> QED BY <1>4, <1>5 DEF Since

(* A command appended is what came last. *)
LEMMA SinceHere ==
  ASSUME ArchiveOK, NEW c, Queued(c), NEW good, NEW bad, TakesSequence(c), c.entry \in good
  PROVE  Since(End, good, bad)'
<1>0. PICK n \in Nat : n = Len(queue)
  BY QueuedPlaces
<1>1. n \in Nat /\ End' - 1 = n + 1 /\ queue'[n + 1] = c
  BY <1>0, QueuedPlaces DEF End
<1>2. n + 1 \in 1..n + 1 /\ NoneQueued(n + 1 + 1, n + 1, bad)'
  BY <1>1 DEF NoneQueued
<1>3. SinceQueued(End, good, bad)'
  BY <1>1, <1>2 DEF SinceQueued
<1> QED BY <1>3 DEF Since

-----------------------------------------------------------------------------
(* The same, as the oldest command is committed *)

(* The oldest command becomes, if it takes a number, the newest event of the archive. *)
Commits ==
  /\ queue # <<>> /\ queue' = Tail(queue)
  /\ log' = IF TakesSequence(queue[1]) THEN Append(log, queue[1].entry) ELSE log

(* A commit moves every command one place up. *)
LEMMA CommitPlaces ==
  ASSUME ArchiveOK, Commits
  PROVE  \E n \in Nat \ {0}, k \in Nat :
           /\ n = Len(queue) /\ DOMAIN queue = 1..n
           /\ Len(queue') = n - 1 /\ DOMAIN queue' = 1..n - 1
           /\ \A i \in 1..n - 1 : queue'[i] = queue[i + 1]
           /\ k = Len(log) /\ DOMAIN log = 1..k /\ \A i \in 1..k : log'[i] = log[i]
           /\ Len(log') = IF TakesSequence(queue[1]) THEN k + 1 ELSE k
           /\ DOMAIN log' = 1..Len(log')
           /\ TakesSequence(queue[1]) => log'[k + 1] = queue[1].entry
<1> DEFINE n == Len(queue)
           k == Len(log)
<1>1. n \in Nat \ {0} /\ DOMAIN queue = 1..n /\ queue[1] \in Commands
  BY DEF ArchiveOK, Commits
<1>2. /\ Len(queue') = n - 1 /\ DOMAIN queue' = 1..n - 1
      /\ \A i \in 1..n - 1 : queue'[i] = queue[i + 1]
  BY <1>1 DEF ArchiveOK, Commits
<1>3. k \in Nat /\ DOMAIN log = 1..k
  BY DEF ArchiveOK
<1>4. CASE TakesSequence(queue[1])
  <2>1. queue[1].entry \in Entry
    BY <1>1, <1>4, EntryMarkets
  <2>2. log' = Append(log, queue[1].entry)
    BY <1>4 DEF Commits
  <2>3. /\ Len(log') = k + 1 /\ DOMAIN log' = 1..k + 1
        /\ \A i \in 1..k : log'[i] = log[i]
        /\ log'[k + 1] = queue[1].entry
    BY <1>3, <2>1, <2>2 DEF ArchiveOK
  <2> HIDE DEF n, k
  <2> QED BY <1>1, <1>2, <1>3, <1>4, <2>3 DEF n, k
<1>5. CASE ~TakesSequence(queue[1])
  <2>1. log' = log
    BY <1>5 DEF Commits
  <2> QED BY <1>1, <1>2, <1>3, <1>5, <2>1
<1> QED BY <1>4, <1>5

(* Every command moves up by one place, and finds before it what it found. *)
LEMMA SinceCommit ==
  ASSUME ArchiveOK, Commits, NEW j \in Nat, 2 <= j, j <= Len(queue) + 1,
         NEW good, NEW bad, Since(j, good, bad)
  PROVE  Since(j - 1, good, bad)'
<1>1. PICK n \in Nat \ {0}, k \in Nat :
           /\ n = Len(queue) /\ DOMAIN queue = 1..n
           /\ Len(queue') = n - 1 /\ DOMAIN queue' = 1..n - 1
           /\ \A i \in 1..n - 1 : queue'[i] = queue[i + 1]
           /\ k = Len(log) /\ DOMAIN log = 1..k /\ \A i \in 1..k : log'[i] = log[i]
           /\ Len(log') = IF TakesSequence(queue[1]) THEN k + 1 ELSE k
           /\ DOMAIN log' = 1..Len(log')
           /\ TakesSequence(queue[1]) => log'[k + 1] = queue[1].entry
  BY CommitPlaces
<1>2. j \in 2..n + 1 /\ j - 1 - 1 = j - 2
  BY <1>1
<1>3. ASSUME NEW i \in 1..j - 1, NoneQueued(i + 1, j - 1, bad)
      PROVE  NoneQueued(i, j - 1 - 1, bad)'
  <2> SUFFICES ASSUME NEW h \in i..j - 2, TakesSequence(queue'[h])
               PROVE  queue'[h].entry \notin bad
    BY <1>2 DEF NoneQueued
  <2>1. h \in 1..n - 1 /\ h + 1 \in i + 1..j - 1
    BY <1>1, <1>2
  <2>2. queue'[h] = queue[h + 1]
    BY <1>1, <2>1
  <2> QED BY <1>3, <2>1, <2>2 DEF NoneQueued
<1>4. ASSUME NEW i \in DOMAIN log', log'[i] \in good, NoneQueued(2, j - 1, bad),
             \A h \in i + 1..Len(log') : log'[h] \notin bad
      PROVE  Since(j - 1, good, bad)'
  <2>1. 1 \in 1..j - 1 /\ 1 + 1 = 2
    BY <1>2
  <2>2. NoneQueued(1, j - 1 - 1, bad)'
    BY <1>3, <1>4, <2>1
  <2>3. SinceLogged(j - 1, good, bad)'
    BY <1>4, <2>2 DEF SinceLogged
  <2> QED BY <2>3 DEF Since
<1>5. CASE SinceLogged(j, good, bad)
  <2>1. PICK i \in 1..k : /\ log[i] \in good
                          /\ \A h \in i + 1..k : log[h] \notin bad
                          /\ NoneQueued(1, j - 1, bad)
    BY <1>1, <1>5 DEF SinceLogged
  <2>2. NoneQueued(2, j - 1, bad)
    <3> SUFFICES ASSUME NEW h \in 2..j - 1, TakesSequence(queue[h])
                 PROVE  queue[h].entry \notin bad
      BY DEF NoneQueued
    <3>1. h \in 1..j - 1
      BY <1>2
    <3> QED BY <2>1, <3>1 DEF NoneQueued
  <2>3. TakesSequence(queue[1]) => queue[1].entry \notin bad
    <3>1. 1 \in 1..j - 1
      BY <1>2
    <3> QED BY <2>1, <3>1 DEF NoneQueued
  <2>4. i \in DOMAIN log' /\ log'[i] \in good
    BY <1>1, <2>1
  <2>5. ASSUME NEW h \in i + 1..Len(log') PROVE log'[h] \notin bad
    <3>1. CASE h \in i + 1..k
      BY <1>1, <2>1, <3>1
    <3>2. CASE h \notin i + 1..k
      <4>1. TakesSequence(queue[1]) /\ h = k + 1
        <5>1. Len(log') = k + 1 \/ Len(log') = k
          BY <1>1
        <5>2. i \in Nat /\ h \in Nat /\ k \in Nat /\ i < h /\ h <= Len(log')
          BY <1>1, <5>1
        <5>3. ~(h <= k)
          BY ONLY <3>2, <5>2
        <5>4. Len(log') # k
          BY ONLY <5>2, <5>3
        <5>5. h = k + 1
          BY ONLY <5>1, <5>2, <5>3, <5>4
        <5> QED BY <1>1, <5>4, <5>5
      <4> QED BY <1>1, <2>3, <4>1
    <3> QED BY <3>1, <3>2
  <2> QED BY <1>4, <2>2, <2>4, <2>5
<1>6. CASE SinceQueued(j, good, bad)
  <2>1. PICK i \in 1..j - 1 : /\ TakesSequence(queue[i]) /\ queue[i].entry \in good
                              /\ NoneQueued(i + 1, j - 1, bad)
    BY <1>6 DEF SinceQueued
  <2>2. CASE i = 1
    <3>1. /\ Len(log') = k + 1 /\ k + 1 \in DOMAIN log' /\ log'[k + 1] \in good
      BY <1>1, <2>1, <2>2
    <3>2. \A h \in k + 1 + 1..Len(log') : log'[h] \notin bad
      BY <3>1
    <3>3. NoneQueued(2, j - 1, bad)
      BY <2>1, <2>2
    <3> QED BY <1>4, <3>1, <3>2, <3>3
  <2>3. CASE i # 1
    <3>1. i - 1 \in 1..n - 1 /\ (i - 1) + 1 = i /\ i - 1 \in 1..j - 1 - 1 /\ i \in 1..j - 1
      BY <1>1, <1>2, <2>1, <2>3
    <3>2. queue'[i - 1] = queue[i]
      BY <1>1, <3>1
    <3>3. NoneQueued(i, j - 1 - 1, bad)'
      BY <1>3, <2>1, <3>1
    <3>4. SinceQueued(j - 1, good, bad)'
      BY <2>1, <3>1, <3>2, <3>3 DEF SinceQueued
    <3> QED BY <3>4 DEF Since
  <2> QED BY <2>2, <2>3
<1> QED BY <1>5, <1>6 DEF Since

(* The number before a command does not change as it moves up. *)
LEMMA SequenceCommit ==
  ASSUME ArchiveOK, Commits, NEW j \in Nat, 2 <= j, j <= Len(queue) + 1
  PROVE  SequenceAt(j - 1)' = SequenceAt(j)
<1>1. PICK n \in Nat \ {0}, k \in Nat :
           /\ n = Len(queue) /\ DOMAIN queue = 1..n
           /\ Len(queue') = n - 1 /\ DOMAIN queue' = 1..n - 1
           /\ \A i \in 1..n - 1 : queue'[i] = queue[i + 1]
           /\ k = Len(log) /\ DOMAIN log = 1..k /\ \A i \in 1..k : log'[i] = log[i]
           /\ Len(log') = IF TakesSequence(queue[1]) THEN k + 1 ELSE k
           /\ DOMAIN log' = 1..Len(log')
           /\ TakesSequence(queue[1]) => log'[k + 1] = queue[1].entry
  BY CommitPlaces
<1>2. j \in 2..n + 1 /\ j - 1 - 1 = j - 2
  BY <1>1
<1> DEFINE S == {i \in 1..j - 2 : TakesSequence(queue[i + 1])}
           B == Before(j)
           T == B \ {1}
           f == [i \in S |-> i + 1]
<1>3. Before(j - 1)' = S
  <2>1. \A i \in 1..j - 2 : queue'[i] = queue[i + 1]
    BY <1>1, <1>2
  <2> QED BY <1>2, <2>1 DEF Before
<1>4. IsFiniteSet(S) /\ IsFiniteSet(B)
  <2>1. IsFiniteSet(1..j - 2) /\ IsFiniteSet(1..j - 1)
    BY <1>2, FS_Interval
  <2>2. S \in SUBSET (1..j - 2) /\ B \in SUBSET (1..j - 1)
    BY DEF Before
  <2> QED BY <2>1, <2>2, FS_Subset
<1>5. /\ \A i \in S : i + 1 \in T /\ i \in Nat
      /\ \A h \in T : h - 1 \in S /\ (h - 1) + 1 = h
  BY <1>2 DEF Before
<1> HIDE DEF S, B
<1>6. f \in Bijection(S, T)
  <2>1. f \in [S -> T] /\ \A i \in S : f[i] = i + 1
    BY <1>5
  <2> HIDE DEF f, T
  <2>2. \A a, b \in S : f[a] = f[b] => a = b
    BY <1>5, <2>1
  <2>3. \A h \in T : \E i \in S : f[i] = h
    BY <1>5, <2>1
  <2> QED BY <2>1, <2>2, <2>3 DEF Bijection, Injection, Surjection, IsInjective
<1>7. Cardinality(T) = Cardinality(S)
  <2> HIDE DEF f, T
  <2> QED BY <1>4, <1>6, FS_Bijection DEF ExistsBijection
<1>8. Cardinality(T) = IF 1 \in B THEN Cardinality(B) - 1 ELSE Cardinality(B)
  BY <1>4, FS_RemoveElement
<1>9. 1 \in B <=> TakesSequence(queue[1])
  BY <1>2 DEF B, Before
<1>10. Cardinality(S) \in Nat /\ Cardinality(B) \in Nat
  BY <1>4, FS_CardinalityType
<1>11. SequenceAt(j - 1)' = Len(log') + Cardinality(S) /\ SequenceAt(j) = k + Cardinality(B)
  BY <1>1, <1>3 DEF SequenceAt, B
<1> HIDE DEF T
<1>12. CASE TakesSequence(queue[1])
  <2>1. Len(log') = k + 1 /\ Cardinality(S) = Cardinality(B) - 1
    BY <1>1, <1>7, <1>8, <1>9, <1>12
  <2>2. \A x, y \in Nat : x = y - 1 => k + 1 + x = k + y
    OBVIOUS
  <2> QED BY <1>10, <1>11, <2>1, <2>2
<1>13. CASE ~TakesSequence(queue[1])
  BY <1>1, <1>7, <1>8, <1>9, <1>10, <1>11, <1>13
<1> QED BY <1>12, <1>13

-----------------------------------------------------------------------------
(* Steps that keep the records: what they queue is founded, what they project is true *)

(* A step that neither commits nor refuses: what it queues is founded, and what the *)
(* projector knows of a market stays, is started again, is lost, or is what it      *)
(* queued.                                                                          *)
LosesNothing == \A m \in Market : tracked[m].lost \subseteq tracked'[m].lost

(* The projector's book of a market is not touched. *)
BookStays(m) ==
  /\ tracked'[m].gen = tracked[m].gen /\ tracked'[m].complete = tracked[m].complete
  /\ tracked'[m].book = tracked[m].book

(* Nothing new is projected of a market, or the generation counts as lost. *)
Faithful(m) ==
  \/ BookStays(m) /\ tracked'[m].capture \in {tracked[m].capture, 0}
  \/ ~tracked'[m].complete
  \/ tracked'[m].gen \in tracked'[m].lost

(* Founded, for a command that is about to be queued. *)
FoundedAtEnd(c) ==
  /\ c.op = "event" /\ c.entry.kind = "delta" /\ c.entry.gen \notin tracked[c.entry.market].lost
       => HasBase(End, c.entry.market, c.entry.gen)
  /\ c.op = "checkpoint" =>
       \A b \in c.books : b.gen \notin tracked[b.market].lost =>
         /\ HasBase(End, b.market, b.gen)
         /\ HasBook(End, b.market, b.gen, b.rev)
         /\ b.seq = SequenceAt(End)

(* What is queued of a market is what is projected of it. *)
Heard(m, c) ==
  IF ~(TakesSequence(c) /\ c.entry.market = m) THEN Faithful(m)
  ELSE \/ c.entry.kind = "resolution" /\ Faithful(m)
       \/ c.entry.kind = "gap" /\ Faithful(m) /\ tracked'[m].capture = 0
       \/ /\ c.entry.kind \in {"base", "delta"}
          /\ c.entry.gen = tracked'[m].gen /\ c.entry.rev = tracked'[m].book
          /\ c.entry.kind = "delta" => /\ c.op = "event"
                                       /\ tracked'[m].gen = tracked[m].gen

(* A step that queues at most one command, founded and projected. *)
Told ==
  /\ log' = log /\ checkpoints' = checkpoints
  /\ failed' = "refused" => failed = "refused"
  /\ LosesNothing
  /\ \/ Repeats /\ \A m \in Market : Faithful(m)
     \/ \E c \in Commands : Queued(c) /\ FoundedAtEnd(c) /\ \A m \in Market : Heard(m, c)

(* What commands carry. *)
LEMMA CommandSays ==
  /\ \A c \in Commands : c.op = "checkpoint" => c.books \subseteq Checkpoints
  /\ \A c \in Commands : c.op = "event" => c.entry \in Entry
  /\ \A b \in Checkpoints : b.market \in Market
<1>1. ASSUME NEW c \in Commands, c.op = "checkpoint" PROVE c.books \subseteq Checkpoints
  <2>1. c \in CheckpointCommands
    BY <1>1 DEF Commands, EventCommands, OpenCommands, CloseCommands
  <2> QED BY <2>1 DEF CheckpointCommands
<1>2. ASSUME NEW c \in Commands, c.op = "event" PROVE c.entry \in Entry
  BY <1>2, EntryMarkets DEF TakesSequence
<1>3. \A b \in Checkpoints : b.market \in Market
  BY DEF Checkpoints
<1> QED BY <1>1, <1>2, <1>3

(* A founded command stays so while the commands up to it stay. *)
LEMMA FoundedStays ==
  ASSUME ArchiveOK, LosesNothing, log' = log, NEW j \in DOMAIN queue, Founded(j),
         \A i \in 1..j : /\ queue'[i].op = queue[i].op
                         /\ TakesSequence(queue[i]) => queue'[i].entry = queue[i].entry
                         /\ queue[i].op = "checkpoint" => queue'[i].books = queue[i].books
  PROVE  Founded(j)'
<1> DEFINE c == queue[j]
           d == queue'[j]
<1>1. /\ j \in Nat /\ j \in 1..j /\ c \in Commands
      /\ \A i \in 1..j - 1 : i \in 1..j
  BY DEF ArchiveOK
<1>2. /\ d.op = c.op
      /\ TakesSequence(c) => d.entry = c.entry
      /\ c.op = "checkpoint" => d.books = c.books
  BY <1>1
<1>3. \A good, bad : Since(j, good, bad)' <=> Since(j, good, bad)
  BY <1>1, SincePrefix
<1>4. SequenceAt(j)' = SequenceAt(j)
  <2>1. Before(j)' = Before(j)
    BY <1>1 DEF Before, TakesSequence
  <2> QED BY <2>1 DEF SequenceAt
<1> HIDE DEF c, d
<1>5. ASSUME NEW e, e = d.entry, d.op = "event", e.kind = "delta",
             e.gen \notin tracked'[e.market].lost
      PROVE  HasBase(j, e.market, e.gen)'
  <2>1. c.op = "event" /\ TakesSequence(c)
    BY <1>2, <1>5 DEF TakesSequence
  <2>2. e = c.entry /\ e.market \in Market
    BY <1>1, <1>2, <1>5, <2>1, EntryMarkets
  <2>3. HasBase(j, e.market, e.gen)
    BY <1>5, <2>1, <2>2 DEF Founded, LosesNothing, c
  <2> QED BY <1>3, <2>3 DEF HasBase
<1>6. ASSUME d.op = "checkpoint", NEW b \in d.books, b.gen \notin tracked'[b.market].lost
      PROVE  /\ HasBase(j, b.market, b.gen)'
             /\ HasBook(j, b.market, b.gen, b.rev)'
             /\ b.seq = SequenceAt(j)'
  <2>1. c.op = "checkpoint" /\ b \in c.books
    BY <1>2, <1>6
  <2>2. b \in Checkpoints /\ b.market \in Market
    <3>1. c.books \subseteq Checkpoints
      BY <1>1, <2>1, CommandSays
    <3> QED BY <2>1, <3>1, CommandSays
  <2>3. /\ HasBase(j, b.market, b.gen) /\ HasBook(j, b.market, b.gen, b.rev)
        /\ b.seq = SequenceAt(j)
    BY <1>6, <2>1, <2>2 DEF Founded, LosesNothing, c
  <2>4. HasBase(j, b.market, b.gen)' /\ HasBook(j, b.market, b.gen, b.rev)'
    BY <1>3, <2>3 DEF HasBase, HasBook
  <2> QED BY <1>4, <2>3, <2>4
<1> QED BY <1>5, <1>6 DEF Founded, d

(* What the projector holds of a market that nothing was queued of. *)
LEMMA ProjectedStays ==
  ASSUME LosesNothing, NEW m \in Market, Projected(m), Faithful(m),
         BookStays(m) => /\ \A r : HasBook(End, m, tracked[m].gen, r)
                                     => HasBook(End, m, tracked[m].gen, r)'
                         /\ \/ tracked'[m].capture = 0
                            \/ HasBase(End, m, tracked[m].gen) => HasBase(End, m, tracked[m].gen)'
  PROVE  Projected(m)'
<1> SUFFICES ASSUME tracked'[m].complete, tracked'[m].gen \notin tracked'[m].lost
             PROVE  /\ HasBook(End, m, tracked[m].gen, tracked[m].book)'
                    /\ tracked'[m].capture # 0 => HasBase(End, m, tracked[m].gen)'
  BY DEF Projected, End
<1>1. BookStays(m) /\ tracked'[m].capture \in {tracked[m].capture, 0}
  BY DEF Faithful
<1>2. tracked[m].complete /\ tracked[m].gen \notin tracked[m].lost
  BY <1>1 DEF BookStays, LosesNothing
<1>3. /\ HasBook(End, m, tracked[m].gen, tracked[m].book)
      /\ tracked[m].capture # 0 => HasBase(End, m, tracked[m].gen)
  BY <1>2 DEF Projected, End
<1> QED BY <1>1, <1>3 DEF BookStays

(* What the archive and the projector hold, after a step that neither commits nor *)
(* refuses.                                                                       *)
LEMMA CheckpointsStand ==
  ASSUME CapturesOK, CapturesOK', RecordsInv, LosesNothing, log' = log, checkpoints' = checkpoints,
         failed' = "refused" => failed = "refused"
  PROVE  /\ checkpoints' \subseteq Checkpoints
         /\ \A c \in checkpoints' : c.gen \notin tracked'[c.market].lost => Replays(c)'
         /\ ArchiveAccepts'
<1>1. checkpoints' \subseteq Checkpoints
  BY DEF RecordsInv
<1>2. ASSUME NEW c \in checkpoints', c.gen \notin tracked'[c.market].lost
      PROVE  Replays(c)'
  <2>1. c \in checkpoints /\ c.market \in Market
    BY <1>1, CommandSays
  <2>2. c.gen \notin tracked[c.market].lost
    BY <1>2, <2>1 DEF LosesNothing
  <2>3. Replays(c)
    BY <2>1, <2>2 DEF RecordsInv
  <2> QED BY <2>3 DEF Replays
<1>3. ArchiveAccepts'
  BY DEF RecordsInv, ArchiveAccepts, LosesNothing
<1> QED BY <1>1, <1>2, <1>3

(* A step that queues nothing keeps the records. *)
LEMMA RepeatsKeepsRecords ==
  ASSUME RecorderTypes, RecorderTypes', RecordsInv, LosesNothing, log' = log,
         checkpoints' = checkpoints, failed' = "refused" => failed = "refused",
         Repeats, \A m \in Market : Faithful(m)
  PROVE  RecordsInv'
<1>1. PICK n \in Nat : n = Len(queue)
  BY DEF RecorderTypes, ArchiveOK
<1>2. /\ n \in Nat /\ DOMAIN queue = 1..n /\ DOMAIN queue' = 1..n /\ Len(queue') = n
      /\ End = n + 1 /\ End' = n + 1 /\ n + 1 - 1 = n
  <2>1. DOMAIN queue = 1..n /\ queue' \in Seq(Commands)
    BY <1>1 DEF RecorderTypes, ArchiveOK
  <2>2. DOMAIN queue' = 1..n
    BY <2>1 DEF Repeats
  <2>3. Len(queue') = n
    BY <1>1, <2>1, <2>2
  <2> QED BY <1>1, <2>1, <2>2, <2>3 DEF End
<1>3. ASSUME NEW j \in DOMAIN queue' PROVE Founded(j)'
  <2>1. j \in DOMAIN queue /\ \A i \in 1..j : i \in DOMAIN queue
    BY <1>2
  <2>2. \A i \in 1..j : /\ queue'[i].op = queue[i].op
                        /\ TakesSequence(queue[i]) => queue'[i].entry = queue[i].entry
                        /\ queue[i].op = "checkpoint" => queue'[i].books = queue[i].books
    BY <2>1 DEF Repeats
  <2>3. Founded(j)
    BY <2>1 DEF RecordsInv
  <2> QED BY <2>1, <2>2, <2>3, FoundedStays DEF RecorderTypes
<1>4. \A good, bad : Since(n + 1, good, bad)' <=> Since(n + 1, good, bad)
  <2>1. \A k \in 1..n + 1 - 1 : /\ queue'[k].op = queue[k].op
                                /\ TakesSequence(queue[k]) => queue'[k].entry = queue[k].entry
    BY <1>2 DEF Repeats
  <2>2. n + 1 \in Nat
    BY <1>2
  <2> QED BY <2>1, <2>2, SincePrefix
<1>5. ASSUME NEW m \in Market PROVE Projected(m)'
  <2>1. ASSUME BookStays(m)
        PROVE  /\ \A r : HasBook(End, m, tracked[m].gen, r)
                           => HasBook(End, m, tracked[m].gen, r)'
               /\ HasBase(End, m, tracked[m].gen) => HasBase(End, m, tracked[m].gen)'
    <3>1. tracked'[m].gen = tracked[m].gen
      BY <2>1 DEF BookStays
    <3> QED BY <1>2, <1>4, <3>1 DEF HasBook, HasBase
  <2>2. Projected(m)
    BY DEF RecordsInv
  <2> QED BY <2>1, <2>2, ProjectedStays
<1> QED BY <1>3, <1>5, CheckpointsStand DEF RecordsInv, RecorderTypes

(* The command queued is founded in its place. *)
LEMMA QueuedIsFounded ==
  ASSUME RecorderTypes, RecordsInv, LosesNothing, log' = log,
         NEW c \in Commands, Queued(c), FoundedAtEnd(c)
  PROVE  \A j \in DOMAIN queue' : Founded(j)'
<1>1. PICK n \in Nat : n = Len(queue)
  BY DEF RecorderTypes, ArchiveOK
<1>2. /\ DOMAIN queue = 1..n /\ DOMAIN queue' = 1..n + 1 /\ End = n + 1 /\ n + 1 - 1 = n
      /\ \A i \in 1..n : queue'[i] = queue[i]
      /\ queue'[n + 1] = c
  BY <1>1, QueuedPlaces DEF RecorderTypes, End
<1>3. ASSUME NEW j \in 1..n PROVE Founded(j)'
  <2>1. j \in DOMAIN queue /\ \A i \in 1..j : i \in 1..n
    BY <1>2
  <2>2. \A i \in 1..j : /\ queue'[i].op = queue[i].op
                        /\ TakesSequence(queue[i]) => queue'[i].entry = queue[i].entry
                        /\ queue[i].op = "checkpoint" => queue'[i].books = queue[i].books
    BY <1>2, <2>1
  <2>3. Founded(j)
    BY <2>1 DEF RecordsInv
  <2> QED BY <2>1, <2>2, <2>3, FoundedStays DEF RecorderTypes
<1>4. \A good, bad : Since(n + 1, good, bad)' <=> Since(n + 1, good, bad)
  <2>1. \A k \in 1..n + 1 - 1 : /\ queue'[k].op = queue[k].op
                                /\ TakesSequence(queue[k]) => queue'[k].entry = queue[k].entry
    BY <1>2
  <2>2. n + 1 \in Nat
    BY <1>2
  <2> QED BY <2>1, <2>2, SincePrefix
<1>5. SequenceAt(n + 1)' = SequenceAt(n + 1)
  <2>1. \A i \in 1..n + 1 - 1 : queue'[i] = queue[i]
    BY <1>2
  <2>2. Before(n + 1)' = Before(n + 1)
    BY <2>1 DEF Before
  <2> QED BY <2>2 DEF SequenceAt
<1>6. Founded(n + 1)'
  <2>1. ASSUME c.op = "event", c.entry.kind = "delta",
               c.entry.gen \notin tracked'[c.entry.market].lost
        PROVE  HasBase(n + 1, c.entry.market, c.entry.gen)'
    <3>1. c.entry \in Entry /\ c.entry.market \in Market
      BY <2>1, CommandSays, EntryMarkets
    <3>2. HasBase(n + 1, c.entry.market, c.entry.gen)
      BY <1>2, <2>1, <3>1 DEF FoundedAtEnd, LosesNothing
    <3> QED BY <1>4, <3>2 DEF HasBase
  <2>2. ASSUME c.op = "checkpoint", NEW b \in c.books, b.gen \notin tracked'[b.market].lost
        PROVE  /\ HasBase(n + 1, b.market, b.gen)'
               /\ HasBook(n + 1, b.market, b.gen, b.rev)'
               /\ b.seq = SequenceAt(n + 1)'
    <3>1. b.market \in Market
      BY <2>2, CommandSays
    <3>2. /\ HasBase(n + 1, b.market, b.gen) /\ HasBook(n + 1, b.market, b.gen, b.rev)
          /\ b.seq = SequenceAt(n + 1)
      BY <1>2, <2>2, <3>1 DEF FoundedAtEnd, LosesNothing
    <3> QED BY <1>4, <1>5, <3>2 DEF HasBase, HasBook
  <2> QED BY <1>2, <2>1, <2>2 DEF Founded
<1>7. ASSUME NEW j \in DOMAIN queue' PROVE Founded(j)'
  <2>1. j \in 1..n \/ j = n + 1
    BY <1>2
  <2> QED BY <1>3, <1>6, <2>1
<1> QED BY <1>7

(* The projected books are true after it is queued. *)
LEMMA QueuedIsHeard ==
  ASSUME RecorderTypes, RecordsInv, LosesNothing, log' = log,
         NEW c \in Commands, Queued(c), FoundedAtEnd(c), NEW m \in Market, Heard(m, c)
  PROVE  Projected(m)'
<1> USE DEF RecorderTypes
<1> DEFINE e == c.entry
<1>0. /\ Projected(m)
      /\ TakesSequence(c) => e \in Entry
  BY EntryMarkets DEF RecordsInv
<1>1. ASSUME NEW good, NEW bad, Since(End, good, bad), TakesSequence(c) => e \notin bad
      PROVE  Since(End, good, bad)'
  BY <1>1, SinceNext
<1>2. ASSUME Faithful(m), TakesSequence(c) /\ e.market = m => e.kind \in {"gap", "resolution"},
             TakesSequence(c) /\ e.market = m /\ e.kind = "gap" => tracked'[m].capture = 0
      PROVE  Projected(m)'
  <2>1. ASSUME NEW g PROVE TakesSequence(c) => e \notin BooksOf(m, g)
    BY <1>2 DEF BooksOf
  <2>2. ASSUME NEW g, NEW r, HasBook(End, m, g, r)
        PROVE  Since(End, BooksAt(m, g, r), BooksOf(m, g))'
    BY <1>1, <2>1, <2>2 DEF HasBook
  <2>3. ASSUME NEW g, HasBase(End, m, g), tracked'[m].capture # 0
        PROVE  Since(End, BasesOf(m, g), GapsOf(m))'
    <3>1. TakesSequence(c) => e \notin GapsOf(m)
      BY <1>2, <2>3 DEF GapsOf
    <3> QED BY <1>1, <2>3, <3>1 DEF HasBase
  <2>4. ASSUME BookStays(m)
        PROVE  /\ \A r : HasBook(End, m, tracked[m].gen, r)
                           => HasBook(End, m, tracked[m].gen, r)'
               /\ \/ tracked'[m].capture = 0
                  \/ HasBase(End, m, tracked[m].gen) => HasBase(End, m, tracked[m].gen)'
    <3>1. tracked'[m].gen = tracked[m].gen
      BY <2>4 DEF BookStays
    <3>2. PICK g : g = tracked[m].gen
      OBVIOUS
    <3>3. ASSUME NEW r, HasBook(End, m, g, r) PROVE HasBook(End, m, tracked[m].gen, r)'
      <4>1. Since(End, BooksAt(m, g, r), BooksOf(m, g))'
        BY <2>2, <3>3
      <4> QED BY <3>1, <3>2, <4>1 DEF HasBook, BooksAt, BooksOf
    <3>4. ASSUME HasBase(End, m, g), tracked'[m].capture # 0
          PROVE  HasBase(End, m, tracked[m].gen)'
      <4>1. Since(End, BasesOf(m, g), GapsOf(m))'
        BY <2>3, <3>4
      <4> QED BY <3>1, <3>2, <4>1 DEF HasBase, BasesOf, GapsOf
    <3> QED BY <3>2, <3>3, <3>4
  <2> QED BY <1>0, <1>2, <2>4, ProjectedStays
<1>3. ASSUME TakesSequence(c), e.market = m, e.kind \in {"base", "delta"},
             e.gen = tracked'[m].gen, e.rev = tracked'[m].book,
             e.kind = "delta" => c.op = "event" /\ tracked'[m].gen = tracked[m].gen
      PROVE  Projected(m)'
  <2> SUFFICES ASSUME tracked'[m].complete, tracked'[m].gen \notin tracked'[m].lost
               PROVE  /\ HasBook(End, m, tracked[m].gen, tracked[m].book)'
                      /\ HasBase(End, m, tracked[m].gen)'
    BY DEF Projected, End
  <2>1. PICK g, r : g = e.gen /\ r = e.rev
    OBVIOUS
  <2>2. e \in BooksAt(m, g, r)
    BY <1>0, <1>3, <2>1 DEF BooksAt, BooksOf
  <2>3. Since(End, BooksAt(m, g, r), BooksOf(m, g))'
    BY <1>3, <2>2, SinceHere
  <2>4. HasBook(End, m, tracked[m].gen, tracked[m].book)'
    BY <1>3, <2>1, <2>3 DEF HasBook, BooksAt, BooksOf
  <2>5. CASE e.kind = "base"
    <3>1. e \in BasesOf(m, g)
      BY <1>0, <1>3, <2>1, <2>5 DEF BasesOf
    <3>2. Since(End, BasesOf(m, g), GapsOf(m))'
      BY <1>3, <3>1, SinceHere
    <3> QED BY <1>3, <2>1, <2>4, <3>2 DEF HasBase, BasesOf, GapsOf
  <2>6. CASE e.kind = "delta"
    <3>1. c.op = "event" /\ g = tracked[m].gen /\ g \notin tracked[m].lost
      BY <1>3, <2>1, <2>6 DEF LosesNothing
    <3>2. HasBase(End, m, g)
      BY <1>3, <2>1, <2>6, <3>1 DEF FoundedAtEnd
    <3>3. e \notin GapsOf(m)
      BY <2>6 DEF GapsOf
    <3>4. Since(End, BasesOf(m, g), GapsOf(m))'
      BY <1>1, <3>2, <3>3 DEF HasBase
    <3> QED BY <1>3, <2>1, <2>4, <3>4 DEF HasBase, BasesOf, GapsOf
  <2> QED BY <1>3, <2>5, <2>6
<1> QED BY <1>2, <1>3 DEF Heard

(* Every step but a commit keeps the records, if it is Told. *)
LEMMA ToldKeepsRecords ==
  ASSUME RecorderTypes, RecorderTypes', RecordsInv, Told
  PROVE  RecordsInv'
<1> USE DEF Told
<1>1. CASE Repeats /\ \A m \in Market : Faithful(m)
  BY <1>1, RepeatsKeepsRecords
<1>2. ASSUME NEW c \in Commands, Queued(c), FoundedAtEnd(c), \A m \in Market : Heard(m, c)
      PROVE  RecordsInv'
  <2>1. \A j \in DOMAIN queue' : Founded(j)'
    BY <1>2, QueuedIsFounded
  <2>2. \A m \in Market : Projected(m)'
    BY <1>2, QueuedIsHeard
  <2> QED BY <2>1, <2>2, CheckpointsStand DEF RecordsInv, RecorderTypes
<1> QED BY <1>1, <1>2

-----------------------------------------------------------------------------
(* The commit of the oldest command keeps the records *)

(* What the oldest command relies on is in the archive. *)
LEMMA OldestIsFounded ==
  ASSUME RecorderTypes, NEW good, NEW bad, Since(1, good, bad)
  PROVE  \E i \in DOMAIN log : log[i] \in good /\ \A k \in i + 1..Len(log) : log[k] \notin bad
<1>1. ~SinceQueued(1, good, bad)
  BY DEF SinceQueued
<1> QED BY <1>1 DEF Since, SinceLogged

(* The baseline the oldest command relies on is the one the archive looks for. *)
LEMMA BaseIsBaseline ==
  ASSUME RecorderTypes, NEW m, NEW g, HasBase(1, m, g)
  PROVE  HasBaseline(m, g)
<1>1. PICK i \in DOMAIN log :
        log[i] \in BasesOf(m, g) /\ \A k \in i + 1..Len(log) : log[k] \notin GapsOf(m)
  BY OldestIsFounded DEF HasBase
<1>2. \A k \in i + 1..Len(log) : log[k] \in Entry
  <2>1. Len(log) \in Nat /\ DOMAIN log = 1..Len(log)
    BY DEF RecorderTypes, ArchiveOK
  <2> QED BY <2>1 DEF RecorderTypes, ArchiveOK
<1> QED BY <1>1, <1>2 DEF HasBaseline, BasesOf, GapsOf

(* The archive refuses a command only if a full queue refused one of its generation. *)
LEMMA RefusedWasLost ==
  ASSUME RecorderTypes, RecordsInv, queue # <<>>, Refuses(Head(queue))
  PROVE  \E m \in Market : tracked[m].lost # {}
<1> DEFINE c == queue[1]
<1>1. c = Head(queue) /\ 1 \in DOMAIN queue /\ c \in Commands
  BY DEF RecorderTypes, ArchiveOK
<1>2. Founded(1)
  BY <1>1 DEF RecordsInv
<1>3. CASE c.op = "event" /\ c.entry.kind = "delta" /\ ~HasBaseline(c.entry.market, c.entry.gen)
  <2>1. c.entry.market \in Market
    BY <1>1, <1>3, CommandSays, EntryMarkets
  <2>2. c.entry.gen \in tracked[c.entry.market].lost
    BY <1>2, <1>3, BaseIsBaseline DEF Founded
  <2> QED BY <2>1, <2>2
<1>4. ASSUME c.op = "checkpoint", NEW b \in c.books, ~HasBaseline(b.market, b.gen)
      PROVE  \E m \in Market : tracked[m].lost # {}
  <2>1. b.market \in Market
    BY <1>1, <1>4, CommandSays
  <2>2. b.gen \in tracked[b.market].lost
    BY <1>2, <1>4, BaseIsBaseline DEF Founded
  <2> QED BY <2>1, <2>2
<1> QED BY <1>1, <1>3, <1>4 DEF Refuses

(* Nothing is queued before the oldest command. *)
LEMMA NothingBeforeOldest ==
  ASSUME RecorderTypes
  PROVE  SequenceAt(1) = Len(log)
<1>1. Before(1) = {} /\ Len(log) \in Nat
  BY DEF Before, RecorderTypes, ArchiveOK
<1>2. Cardinality(Before(1)) = 0
  BY <1>1, FS_EmptySet
<1> QED BY <1>1, <1>2 DEF SequenceAt

(* A checkpoint that is committed has the book a replay of the archive gives. *)
LEMMA CommittedCheckpointsReplay ==
  ASSUME RecorderTypes, RecordsInv, Commits, UNCHANGED tracked,
         checkpoints' = IF queue[1].op = "checkpoint" THEN queue[1].books ELSE checkpoints
  PROVE  /\ checkpoints' \subseteq Checkpoints
         /\ \A c \in checkpoints' : c.gen \notin tracked'[c.market].lost => Replays(c)'
<1>1. PICK n \in Nat \ {0}, k \in Nat :
           /\ n = Len(queue) /\ DOMAIN queue = 1..n
           /\ Len(queue') = n - 1 /\ DOMAIN queue' = 1..n - 1
           /\ \A i \in 1..n - 1 : queue'[i] = queue[i + 1]
           /\ k = Len(log) /\ DOMAIN log = 1..k /\ \A i \in 1..k : log'[i] = log[i]
           /\ Len(log') = IF TakesSequence(queue[1]) THEN k + 1 ELSE k
           /\ DOMAIN log' = 1..Len(log')
           /\ TakesSequence(queue[1]) => log'[k + 1] = queue[1].entry
  BY CommitPlaces DEF RecorderTypes
<1>2. queue[1] \in Commands /\ 1 \in DOMAIN queue
  BY <1>1 DEF RecorderTypes, ArchiveOK
<1>3. CASE queue[1].op = "checkpoint"
  <2>1. checkpoints' = queue[1].books /\ queue[1].books \subseteq Checkpoints
    BY <1>2, <1>3, CommandSays
  <2>2. log' = log
    BY <1>3 DEF Commits, TakesSequence
  <2>3. Founded(1)
    BY <1>2 DEF RecordsInv
  <2>4. ASSUME NEW b \in queue[1].books, b.gen \notin tracked[b.market].lost
        PROVE  Replays(b)
    <3>1. HasBook(1, b.market, b.gen, b.rev) /\ b.seq = Len(log)
      BY <1>3, <2>3, <2>4, NothingBeforeOldest DEF Founded
    <3>2. PICK i \in DOMAIN log : /\ log[i] \in BooksAt(b.market, b.gen, b.rev)
                                  /\ \A h \in i + 1..Len(log) :
                                       log[h] \notin BooksOf(b.market, b.gen)
      BY <3>1, OldestIsFounded DEF HasBook
    <3>3. b.seq \in 1..Len(log) /\ i \in 1..b.seq
      BY <1>1, <3>1, <3>2
    <3> QED BY <3>1, <3>2, <3>3 DEF Replays
  <2>5. \A b \in queue[1].books : b.gen \notin tracked[b.market].lost => Replays(b)'
    BY <2>2, <2>4 DEF Replays
  <2> QED BY <2>1, <2>5
<1>4. CASE queue[1].op # "checkpoint"
  <2>1. checkpoints' = checkpoints
    BY <1>4
  <2>2. ASSUME NEW c \in checkpoints, Replays(c)
        PROVE  Replays(c)'
    <3>1. c.seq \in 1..k
      BY <1>1, <2>2 DEF Replays
    <3>2. PICK i \in 1..c.seq : /\ log[i] \in BooksAt(c.market, c.gen, c.rev)
                                /\ \A h \in i + 1..c.seq : log[h] \notin BooksOf(c.market, c.gen)
      BY <2>2 DEF Replays
    <3>3. /\ i \in 1..k /\ log'[i] = log[i]
          /\ \A h \in i + 1..c.seq : log'[h] = log[h]
          /\ c.seq \in 1..Len(log')
      BY <1>1, <3>1, <3>2
    <3> QED BY <3>2, <3>3 DEF Replays, BooksAt, BooksOf
  <2> QED BY <2>1, <2>2 DEF RecordsInv
<1> QED BY <1>3, <1>4

(* The commands left in the queue are founded after the commit. *)
LEMMA CommitIsFounded ==
  ASSUME RecorderTypes, RecordsInv, Commits, UNCHANGED tracked
  PROVE  /\ \A j \in DOMAIN queue' : Founded(j)'
         /\ \A m \in Market : Projected(m)'
<1>1. PICK n \in Nat \ {0}, k \in Nat :
           /\ n = Len(queue) /\ DOMAIN queue = 1..n
           /\ Len(queue') = n - 1 /\ DOMAIN queue' = 1..n - 1
           /\ \A i \in 1..n - 1 : queue'[i] = queue[i + 1]
           /\ k = Len(log) /\ DOMAIN log = 1..k /\ \A i \in 1..k : log'[i] = log[i]
           /\ Len(log') = IF TakesSequence(queue[1]) THEN k + 1 ELSE k
           /\ DOMAIN log' = 1..Len(log')
           /\ TakesSequence(queue[1]) => log'[k + 1] = queue[1].entry
  BY CommitPlaces DEF RecorderTypes
<1>2. ASSUME NEW j \in 1..n, NEW good, NEW bad, Since(j + 1, good, bad)
      PROVE  Since(j, good, bad)'
  <2>1. j + 1 \in Nat /\ 2 <= j + 1 /\ j + 1 <= Len(queue) + 1 /\ j + 1 - 1 = j
    BY <1>1
  <2>2. Since(j + 1 - 1, good, bad)'
    BY <1>2, <2>1, SinceCommit DEF RecorderTypes
  <2> QED BY <2>1, <2>2
<1>3. ASSUME NEW j \in 1..n
      PROVE  SequenceAt(j)' = SequenceAt(j + 1)
  <2>1. j + 1 \in Nat /\ 2 <= j + 1 /\ j + 1 <= Len(queue) + 1 /\ j + 1 - 1 = j
    BY <1>1
  <2>2. SequenceAt(j + 1 - 1)' = SequenceAt(j + 1)
    BY <2>1, SequenceCommit DEF RecorderTypes
  <2> QED BY <2>1, <2>2
<1>4. ASSUME NEW j \in DOMAIN queue' PROVE Founded(j)'
  <2>1. j \in 1..n /\ j + 1 \in DOMAIN queue /\ queue'[j] = queue[j + 1]
    BY <1>1
  <2>2. Founded(j + 1)
    BY <2>1 DEF RecordsInv
  <2>3. /\ \A m, g : HasBase(j + 1, m, g) => HasBase(j, m, g)'
        /\ \A m, g, r : HasBook(j + 1, m, g, r) => HasBook(j, m, g, r)'
    BY <1>2, <2>1 DEF HasBase, HasBook, BasesOf, BooksAt, BooksOf, GapsOf
  <2> QED BY <1>3, <2>1, <2>2, <2>3 DEF Founded
<1>5. ASSUME NEW m \in Market PROVE Projected(m)'
  <2>1. n \in 1..n /\ Len(queue) + 1 = n + 1 /\ Len(queue') + 1 = n
    BY <1>1
  <2>2. /\ \A g : HasBase(n + 1, m, g) => HasBase(n, m, g)'
        /\ \A g, r : HasBook(n + 1, m, g, r) => HasBook(n, m, g, r)'
    BY <1>2, <2>1 DEF HasBase, HasBook, BasesOf, BooksAt, BooksOf, GapsOf
  <2>3. Projected(m)
    BY DEF RecordsInv
  <2> QED BY <2>1, <2>2, <2>3 DEF Projected
<1> QED BY <1>4, <1>5

(* A commit, or the refusal of the oldest command, keeps the records. *)
LEMMA CommitKeepsRecords ==
  ASSUME RecorderTypes, RecordsInv, Commit
  PROVE  RecordsInv'
<1> DEFINE c == Head(queue)
<1>1. queue # <<>> /\ c = queue[1] /\ failed' = Error(c) /\ tracked' = tracked
  BY DEF Commit, RecorderTypes, ArchiveOK
<1>2. CASE Error(c) # "no"
  <2>1. UNCHANGED <<log, checkpoints, queue>>
    BY <1>2 DEF Commit, archiveVars
  <2>2. ArchiveAccepts'
    <3>1. failed' = "refused" => Refuses(c)
      BY <1>1 DEF Error
    <3> QED BY <1>1, <3>1, RefusedWasLost DEF ArchiveAccepts
  <2>3. \A j \in DOMAIN queue' : Founded(j)'
    <3>1. LosesNothing
      BY <1>1 DEF LosesNothing
    <3> SUFFICES ASSUME NEW j \in DOMAIN queue PROVE Founded(j)'
      BY <2>1
    <3>2. Founded(j)
      BY DEF RecordsInv
    <3> QED BY <2>1, <3>1, <3>2, FoundedStays DEF RecorderTypes
  <2>4. \A m \in Market : Projected(m)'
    BY <1>1, <2>1 DEF RecordsInv, Projected, HasBase, HasBook, Since, SinceLogged, SinceQueued,
                      NoneQueued
  <2>5. \A b \in checkpoints' : b.gen \notin tracked'[b.market].lost => Replays(b)'
    BY <1>1, <2>1 DEF RecordsInv, Replays
  <2> QED BY <2>1, <2>2, <2>3, <2>4, <2>5 DEF RecordsInv
<1>3. CASE Error(c) = "no"
  <2>1. Commits
    BY <1>1, <1>3 DEF Commit, Commits
  <2>2. checkpoints' = IF queue[1].op = "checkpoint" THEN queue[1].books ELSE checkpoints
    BY <1>1, <1>3 DEF Commit
  <2>3. ArchiveAccepts'
    BY <1>1, <1>3 DEF ArchiveAccepts
  <2> QED BY <1>1, <2>1, <2>2, <2>3, CommittedCheckpointsReplay, CommitIsFounded DEF RecordsInv
<1> QED BY <1>2, <1>3

-----------------------------------------------------------------------------
(* Moves of one task: the lock, the pumps, the calls of the main task *)

(* What the move of a task may do to the lock, to what it and others know, and to *)
(* the gaps of earlier sessions.                                                  *)
LockMoves(t, a) ==
  \/ /\ lock' = lock
     /\ InLock(a) <=> InLock(act[t])
     /\ Holding(a) => Holding(act[t]) \/ lock[1] = t
  \/ /\ ~InLock(act[t]) /\ lock' = Append(lock, t)
     /\ a.step = IF lock = <<>> THEN "locked" ELSE "lock"
  \/ Holding(act[t]) /\ lock' = Tail(lock) /\ ~InLock(a)

(* A gap left by an earlier session is taken to be closed, is closed, or neither. *)
ResumeMoves(t, a) ==
  \/ a.step # "resumed_ack" /\ remaining' = remaining /\ resumedOpen' = resumedOpen
  \/ /\ a.step = "resumed_ack" /\ a.market \in remaining
     /\ remaining' = remaining \ {a.market} /\ resumedOpen' = resumedOpen
  \/ /\ act[t].step = "resumed_ack" /\ a.step # "resumed_ack"
     /\ remaining' = remaining /\ resumedOpen' = resumedOpen \ {act[t].market}

(* A pump moves for its own market, and none moves while the main task ends it. *)
PumpMoves(t, a) ==
  /\ t # Main => /\ a.market \in {t, Main} /\ act[t].step \notin {"none", "cancelled"}
                 /\ AtLock(a, "checkpoint") => a.targets \subseteq {t}
  /\ t = Main => act[Main].step \notin {"closing", "draining"} /\ a.step # "draining"
  /\ AtLock(a, "checkpoint") => \A m \in a.targets : tracked[m].complete
  /\ ResumeMoves(t, a)

(* Captures stay open or closed, complete books stay complete; no gap is opened. *)
BooksStand ==
  \A m \in Market : /\ tracked'[m].capture = tracked[m].capture
                    /\ tracked[m].complete => tracked'[m].complete

CapturesStand ==
  BooksStand /\ \A m \in Market : tracked'[m].gaps \subseteq tracked[m].gaps

(* Task t goes to a. *)
Moved(t, a) == act' = [act EXCEPT ![t] = a]

(* The others stay where they are. *)
LEMMA MovedActs ==
  ASSUME TasksOK, NEW t \in Tasks, NEW a, Moved(t, a)
  PROVE  act'[t] = a /\ \A u \in Tasks \ {t} : act'[u] = act[u]
  BY DEF TasksOK, Moved

(* A task that takes a place, gets the lock or releases it keeps the order. *)
LEMMA LockGoes ==
  ASSUME TasksOK, SchedulerInv, LockInv, NEW t \in Tasks, Running(t),
         NEW a, Moved(t, a), LockMoves(t, a)
  PROVE  SchedulerInv' /\ LockInv'
<1>1. act'[t] = a /\ \A u \in Tasks \ {t} : act'[u] = act[u]
  BY MovedActs
<1>2. \A u, v \in Tasks : act'[u].step \in Sync /\ act'[v].step \in Sync => u = v
  <2>1. \A u \in Tasks : act'[u].step \in Sync => u = t
    BY <1>1 DEF Running
  <2> QED BY <2>1
<1>3. PICK n \in Nat : n = Len(lock)
  BY DEF SchedulerInv
<1>4. /\ DOMAIN lock = 1..n /\ lock \in Seq(Tasks)
      /\ \A i, j \in 1..n : lock[i] = lock[j] => i = j
      /\ \A u \in Tasks : InLock(act[u]) <=> \E i \in 1..n : lock[i] = u
      /\ \A u \in Tasks : Holding(act[u]) => lock[1] = u
  BY <1>3 DEF SchedulerInv, LockInv, IsInjective
<1>5. \A x : Holding(x) => InLock(x)
  BY DEF Holding, InLock
<1>6. CASE /\ lock' = lock
           /\ InLock(a) <=> InLock(act[t])
           /\ Holding(a) => Holding(act[t]) \/ lock[1] = t
  <2>1. \A u \in Tasks : InLock(act'[u]) <=> InLock(act[u])
    BY <1>1, <1>6
  <2>2. \A u \in Tasks : Holding(act'[u]) => Holding(act[u]) \/ lock[1] = u
    BY <1>1, <1>6
  <2> QED BY <1>2, <1>6, <2>1, <2>2 DEF SchedulerInv, LockInv
<1>7. CASE /\ ~InLock(act[t]) /\ lock' = Append(lock, t)
           /\ a.step = IF lock = <<>> THEN "locked" ELSE "lock"
  <2>1. /\ lock' \in Seq(Tasks) /\ DOMAIN lock' = 1..n + 1
        /\ \A i \in 1..n : lock'[i] = lock[i]
        /\ lock'[n + 1] = t
    BY <1>3, <1>4, <1>7
  <2>2. \A i \in 1..n : lock[i] # t
    BY <1>4, <1>7
  <2>3. IsInjective(lock')
    <3> SUFFICES ASSUME NEW i \in 1..n + 1, NEW j \in 1..n + 1, lock'[i] = lock'[j] PROVE i = j
      BY <2>1 DEF IsInjective
    <3>1. (i \in 1..n \/ i = n + 1) /\ (j \in 1..n \/ j = n + 1)
      OBVIOUS
    <3> QED BY <1>4, <2>1, <2>2, <3>1
  <2>4. InLock(a) /\ (Holding(a) => lock = <<>>)
    BY <1>7 DEF InLock, Holding
  <2>5. ASSUME NEW u \in Tasks
        PROVE  InLock(act'[u]) <=> \E i \in 1..n + 1 : lock'[i] = u
    <3>1. CASE u = t
      <4>1. n + 1 \in 1..n + 1
        OBVIOUS
      <4> QED BY <1>1, <2>1, <2>4, <3>1, <4>1
    <3>2. CASE u # t
      <4>1. (\E i \in 1..n + 1 : lock'[i] = u) <=> (\E i \in 1..n : lock[i] = u)
        <5>1. \A i \in 1..n + 1 : i \in 1..n \/ i = n + 1
          OBVIOUS
        <5>2. 1..n \subseteq 1..n + 1
          OBVIOUS
        <5> QED BY <2>1, <3>2, <5>1, <5>2
      <4> QED BY <1>1, <1>4, <3>2, <4>1
    <3> QED BY <3>1, <3>2
  <2>6. ASSUME NEW u \in Tasks, Holding(act'[u])
        PROVE  lock'[1] = u
    <3>1. CASE u = t
      <4>1. n = 0
        BY <1>1, <1>3, <2>4, <2>6, <3>1
      <4> QED BY <2>1, <3>1, <4>1
    <3>2. CASE u # t
      <4>1. Holding(act[u]) /\ lock[1] = u /\ \E i \in 1..n : lock[i] = u
        BY <1>1, <1>4, <1>5, <2>6, <3>2
      <4>2. 1 \in 1..n
        BY <4>1
      <4> QED BY <2>1, <4>1, <4>2
    <3> QED BY <3>1, <3>2
  <2> QED BY <1>2, <2>1, <2>3, <2>5, <2>6 DEF SchedulerInv, LockInv
<1>8. CASE Holding(act[t]) /\ lock' = Tail(lock) /\ ~InLock(a)
  <2>1. lock[1] = t /\ n \in Nat \ {0}
    <3>1. \E i \in 1..n : lock[i] = t
      BY <1>4, <1>5, <1>8
    <3> QED BY <1>4, <1>8, <3>1
  <2>2. /\ lock' \in Seq(Tasks) /\ DOMAIN lock' = 1..n - 1
        /\ \A i \in 1..n - 1 : lock'[i] = lock[i + 1]
    <3>1. lock # <<>>
      BY <1>3, <2>1
    <3> QED BY <1>3, <1>4, <1>8, <2>1, <3>1
  <2>3. IsInjective(lock')
    <3> SUFFICES ASSUME NEW i \in 1..n - 1, NEW j \in 1..n - 1, lock'[i] = lock'[j] PROVE i = j
      BY <2>2 DEF IsInjective
    <3>1. i + 1 \in 1..n /\ j + 1 \in 1..n
      BY <2>1
    <3>2. i + 1 = j + 1
      BY <1>4, <2>2, <3>1
    <3> QED BY <3>2
  <2>4. ASSUME NEW u \in Tasks
        PROVE  InLock(act'[u]) <=> \E i \in 1..n - 1 : lock'[i] = u
    <3>1. CASE u = t
      <4>1. \A i \in 1..n - 1 : lock'[i] # t
        <5> SUFFICES ASSUME NEW i \in 1..n - 1, lock[i + 1] = t PROVE FALSE
          BY <2>2
        <5>1. i + 1 \in 1..n /\ 1 \in 1..n /\ i + 1 # 1
          BY <2>1
        <5> QED BY <1>4, <2>1, <5>1
      <4> QED BY <1>1, <1>8, <3>1, <4>1
    <3>2. CASE u # t
      <4>1. ASSUME NEW i \in 1..n, lock[i] = u
            PROVE  \E j \in 1..n - 1 : lock'[j] = u
        <5>1. i # 1
          BY <2>1, <3>2, <4>1
        <5>2. i - 1 \in 1..n - 1 /\ (i - 1) + 1 = i
          BY <2>1, <5>1
        <5> QED BY <2>2, <4>1, <5>2
      <4>2. ASSUME NEW j \in 1..n - 1, lock'[j] = u
            PROVE  \E i \in 1..n : lock[i] = u
        <5>1. j + 1 \in 1..n
          BY <2>1
        <5> QED BY <2>2, <4>2, <5>1
      <4> QED BY <1>1, <1>4, <3>2, <4>1, <4>2
    <3> QED BY <3>1, <3>2
  <2>5. ASSUME NEW u \in Tasks, Holding(act'[u])
        PROVE  lock'[1] = u
    <3>1. u # t
      BY <1>1, <1>5, <1>8, <2>5
    <3> QED BY <1>1, <1>4, <2>1, <2>5, <3>1
  <2> QED BY <1>2, <2>2, <2>3, <2>4, <2>5 DEF SchedulerInv, LockInv
<1> QED BY <1>6, <1>7, <1>8 DEF LockMoves

(* A recording that ends only lets go of the lock. *)
LEMMA LockIsLeft ==
  ASSUME SchedulerInv, act' = act, lock' = lock \/ (lock # <<>> /\ lock' = Tail(lock))
  PROVE  SchedulerInv'
<1>1. CASE lock' = lock
  BY <1>1 DEF SchedulerInv
<1>2. CASE lock # <<>> /\ lock' = Tail(lock)
  <2>1. PICK n \in Nat : n = Len(lock)
    BY DEF SchedulerInv
  <2>2. DOMAIN lock = 1..n /\ lock \in Seq(Tasks) /\ \A i, j \in 1..n : lock[i] = lock[j] => i = j
    BY <2>1 DEF SchedulerInv, IsInjective
  <2>3. /\ lock' \in Seq(Tasks) /\ DOMAIN lock' = 1..n - 1
        /\ \A i \in 1..n - 1 : lock'[i] = lock[i + 1] /\ i + 1 \in 1..n
    BY <1>2, <2>1, <2>2
  <2>4. IsInjective(lock')
    <3> SUFFICES ASSUME NEW i \in 1..n - 1, NEW j \in 1..n - 1, lock'[i] = lock'[j] PROVE i = j
      BY <2>3 DEF IsInjective
    <3>1. i + 1 = j + 1
      BY <2>2, <2>3
    <3> QED BY <3>1
  <2> QED BY <2>3, <2>4 DEF SchedulerInv
<1> QED BY <1>1, <1>2

(* Who holds the lock comes first. *)
LEMMA HolderIsFirst ==
  ASSUME SchedulerInv, LockInv, NEW t \in Tasks, Holding(act[t])
  PROVE  lock # <<>> /\ lock[1] = t
  BY DEF SchedulerInv, LockInv, Holding, InLock

(* A move of one task keeps what the pumps rely on. *)
LEMMA PumpsGo ==
  ASSUME TasksOK, PumpsInv, remaining \subseteq resumedOpen, NEW t \in Tasks, NEW a,
         Moved(t, a), BooksStand, PumpMoves(t, a), Main \notin Market,
         AtLock(a, "checkpoint") => a.targets \subseteq Market
  PROVE  PumpsInv' /\ remaining' \subseteq resumedOpen'
<1>1. act'[t] = a /\ \A u \in Tasks \ {t} : act'[u] = act[u]
  BY MovedActs
<1>2. Market \subseteq Tasks /\ Main \in Tasks /\ \A m \in Market : m # Main
  BY DEF Tasks
<1>3. /\ \A m \in Market : act'[m].market \in {m, Main}
      /\ \A m \in Market : AtLock(act'[m], "checkpoint") => act'[m].targets \subseteq {m}
  BY <1>1, <1>2 DEF PumpMoves, PumpsInv
<1>4. ASSUME NEW u \in Tasks, AtLock(act'[u], "checkpoint"), NEW m \in act'[u].targets
      PROVE  tracked'[m].complete
  <2>1. CASE u = t
    BY <1>1, <1>4, <2>1 DEF PumpMoves, BooksStand
  <2>2. CASE u # t
    <3>1. tracked[m].complete /\ m \in Market
      BY <1>1, <1>4, <2>2, ActFields DEF PumpsInv, TasksOK, PlacedActs
    <3> QED BY <3>1 DEF BooksStand
  <2> QED BY <2>1, <2>2
<1>5. /\ \A u \in Tasks : act'[u].step = "resumed_ack"
           => act'[u].market \in resumedOpen' \ remaining'
      /\ \A u, v \in Tasks :
           /\ act'[u].step = "resumed_ack" /\ act'[v].step = "resumed_ack"
           /\ act'[u].market = act'[v].market
           => u = v
      /\ remaining' \subseteq resumedOpen'
  <2>0. /\ \A u \in Tasks : act[u].step = "resumed_ack" => act[u].market \in resumedOpen \ remaining
        /\ \A u, v \in Tasks :
             /\ act[u].step = "resumed_ack" /\ act[v].step = "resumed_ack"
             /\ act[u].market = act[v].market
             => u = v
    BY DEF PumpsInv
  <2>1. CASE a.step # "resumed_ack" /\ remaining' = remaining /\ resumedOpen' = resumedOpen
    <3>1. \A u \in Tasks : act'[u].step = "resumed_ack" => act'[u] = act[u]
      BY <1>1, <2>1
    <3> QED BY <2>0, <2>1, <3>1
  <2>2. CASE /\ a.step = "resumed_ack" /\ a.market \in remaining
             /\ remaining' = remaining \ {a.market} /\ resumedOpen' = resumedOpen
    <3>1. \A u \in Tasks \ {t} : act'[u].step = "resumed_ack" => act'[u].market # a.market
      BY <1>1, <2>0, <2>2
    <3>2. \A u \in Tasks : act'[u].step = "resumed_ack"
            => act'[u].market \in resumedOpen' \ remaining'
      BY <1>1, <2>0, <2>2
    <3> QED BY <1>1, <2>0, <2>2, <3>1, <3>2
  <2>3. CASE /\ act[t].step = "resumed_ack" /\ a.step # "resumed_ack"
             /\ remaining' = remaining /\ resumedOpen' = resumedOpen \ {act[t].market}
    <3>1. \A u \in Tasks : act'[u].step = "resumed_ack"
            => u # t /\ act'[u] = act[u] /\ act[u].market # act[t].market
      BY <1>1, <2>0, <2>3
    <3>2. act[t].market \notin remaining
      BY <2>0, <2>3
    <3> QED BY <2>0, <2>3, <3>1, <3>2
  <2> QED BY <2>1, <2>2, <2>3 DEF PumpMoves, ResumeMoves
<1>6. ASSUME NEW m \in Market, tracked'[m].capture = 0, ~Closing(m)'
      PROVE  act'[m].step = "none"
  <2>1. tracked[m].capture = 0
    BY <1>6 DEF BooksStand
  <2>2. ~Closing(m)
    BY <1>1, <1>2, <1>6 DEF Closing, PumpMoves
  <2>3. act[m].step = "none"
    BY <2>1, <2>2 DEF PumpsInv
  <2> QED BY <1>1, <1>2, <2>3 DEF PumpMoves
<1>7. ASSUME act'[Main].step = "draining"
      PROVE  act'[act'[Main].market].step = "cancelled"
  <2>1. t # Main /\ act'[Main] = act[Main] /\ act[Main].step = "draining"
    BY <1>1, <1>2, <1>7 DEF PumpMoves
  <2>2. act[act[Main].market].step = "cancelled"
    BY <2>1 DEF PumpsInv
  <2>3. act[Main].market \in Tasks /\ act[Main].market # t
    BY <1>2, <2>1, <2>2, ActFields DEF TasksOK, PlacedActs, PumpMoves
  <2> QED BY <1>1, <2>1, <2>2, <2>3
<1> QED BY <1>3, <1>4, <1>5, <1>6, <1>7 DEF PumpsInv

(* The calls the main task makes: what opens a gap follows the close of its market. *)
Ordered(s) ==
  /\ s # <<>> => ~Regaps(s[1])
  /\ \A i \in 2..Len(s) :
       Regaps(s[i]) => s[i - 1].op = "close" /\ s[i - 1].market = s[i].market

(* The main task makes the calls in order: a gap follows the close of its market. *)
MainMoves(a) ==
  /\ \/ todo' = todo /\ ~AtLock(act[Main], "close")
     \/ todo' = todo /\ AtLock(a, "close") /\ a.market = act[Main].market
     \/ Ordered(todo')
     \/ /\ AtLock(a, "close") /\ todo # <<>> /\ todo[1].op = "close"
        /\ a.market = todo[1].market /\ todo' = Tail(todo)
     \/ /\ todo' = Calls("gap", <<act[Main].market>>) \o todo /\ act[Main].step = "opening"
  /\ AtLock(a, "gap") \/ a.step = "gap_ack"
       => a.market \in Market /\ tracked[a.market].capture = 0 /\ tracked[a.market].gaps = {}
  /\ a.step = "opening" =>
       /\ a.market \in Market /\ tracked[a.market].capture = 0
       /\ Ordered(todo')

(* Nothing the main task relies on is moved by others. *)
LEMMA MainStands ==
  ASSUME TasksOK, MainInv, act'[Main] = act[Main], todo' = todo, CapturesStand
  PROVE  MainInv'
<1>1. act[Main] \in PlacedActs /\ todo \in Seq(Callable)
  BY DEF TasksOK, Tasks
<1>2. act[Main].step \in {"opening", "gap_ack"} \/ AtLock(act[Main], "gap")
        => act[Main].market \in Market
  BY <1>1 DEF PlacedActs, Unplaced, AtLock
<1>3. \A m \in Market : Uncapturing(m) => Uncapturing(m)'
  BY DEF Uncapturing, CapturesStand, BooksStand
<1>4. todo # <<>> /\ Regaps(todo[1]) => todo[1].market \in Market
  <2>1. todo # <<>> => todo[1] \in Callable
    BY <1>1
  <2> QED BY <2>1 DEF Callable, MainCalls, MarketCalls, Regaps
<1>5. (AtLock(act[Main], "gap") \/ act[Main].step = "gap_ack")
       => tracked'[act[Main].market].capture = 0 /\ tracked'[act[Main].market].gaps = {}
  BY <1>2 DEF MainInv, CapturesStand, BooksStand
<1>6. act[Main].step = "opening" => tracked'[act[Main].market].capture = 0
  BY <1>2 DEF MainInv, CapturesStand, BooksStand
<1> QED BY <1>3, <1>4, <1>5, <1>6 DEF MainInv

(* A move of the main task keeps what it relies on. *)
LEMMA MainMovesOn ==
  ASSUME TasksOK, Main \notin Market, MainInv, NEW a, Moved(Main, a), MainMoves(a), CapturesStand,
         todo' \in Seq(Callable)
  PROVE  MainInv'
<1>1. act'[Main] = a
  BY MovedActs DEF Tasks
<1>2. todo \in Seq(Callable)
  BY DEF TasksOK
<1>3. \A m \in Market : tracked[m].capture = 0 => tracked'[m].capture = 0
  BY DEF CapturesStand, BooksStand
<1>4. \A s \in Seq(Callable) : s # <<>> /\ Regaps(s[1]) => s[1].market \in Market
  <2> SUFFICES ASSUME NEW s \in Seq(Callable), s # <<>>, Regaps(s[1]) PROVE s[1].market \in Market
    OBVIOUS
  <2>1. s[1] \in Callable
    OBVIOUS
  <2> QED BY <2>1 DEF Callable, MainCalls, MarketCalls, Regaps
<1>5. /\ AtLock(a, "gap") \/ a.step = "gap_ack"
           => tracked'[a.market].capture = 0 /\ tracked'[a.market].gaps = {}
      /\ a.step = "opening" => tracked'[a.market].capture = 0 /\ Ordered(todo')
  BY DEF MainMoves, CapturesStand, BooksStand
<1>6. /\ \A x : todo' # <<>> /\ Regaps(todo'[1]) /\ x = todo'[1].market => Uncapturing(x)'
      /\ \A i \in 2..Len(todo') :
           Regaps(todo'[i]) => todo'[i - 1].op = "close" /\ todo'[i - 1].market = todo'[i].market
  <2>1. CASE Ordered(todo')
    BY <2>1 DEF Ordered
  <2>2. CASE todo' = todo /\ ~AtLock(act[Main], "close")
    BY <1>2, <1>3, <1>4, <2>2 DEF MainInv, Uncapturing
  <2>3. CASE todo' = todo /\ AtLock(a, "close") /\ a.market = act[Main].market
    BY <1>1, <1>2, <1>3, <1>4, <2>3 DEF MainInv, Uncapturing
  <2>4. CASE /\ AtLock(a, "close") /\ todo # <<>> /\ todo[1].op = "close"
             /\ a.market = todo[1].market /\ todo' = Tail(todo)
    <3>1. PICK n \in Nat \ {0} : n = Len(todo)
      BY <1>2, <2>4
    <3>2. Len(todo') = n - 1 /\ \A i \in 1..n - 1 : todo'[i] = todo[i + 1] /\ i + 1 \in 2..n
      BY <1>2, <2>4, <3>1
    <3>3. \A i \in 2..n :
            Regaps(todo[i]) => todo[i - 1].op = "close" /\ todo[i - 1].market = todo[i].market
      BY <3>1 DEF MainInv
    <3>4. ASSUME todo' # <<>>, Regaps(todo'[1]), NEW x, x = todo'[1].market
          PROVE  Uncapturing(x)'
      <4>1. 1 \in 1..n - 1 /\ 2 \in 2..n /\ 1 + 1 = 2 /\ 2 - 1 = 1
        BY <3>1, <3>2, <3>4, EmptySeq
      <4>2. todo'[1] = todo[2]
        BY <3>2, <4>1
      <4>3. todo'[1].market = a.market
        BY <2>4, <3>3, <3>4, <4>1, <4>2
      <4> QED BY <1>1, <2>4, <3>4, <4>3 DEF Uncapturing
    <3>5. ASSUME NEW i \in 2..n - 1, Regaps(todo'[i])
          PROVE  todo'[i - 1].op = "close" /\ todo'[i - 1].market = todo'[i].market
      <4>1. /\ i \in 1..n - 1 /\ i - 1 \in 1..n - 1 /\ i + 1 \in 2..n
            /\ (i - 1) + 1 = i /\ (i + 1) - 1 = i
        BY <3>1
      <4>2. todo'[i] = todo[i + 1] /\ todo'[i - 1] = todo[i]
        BY <3>2, <4>1
      <4> QED BY <3>3, <3>5, <4>1, <4>2
    <3> QED BY <3>2, <3>4, <3>5
  <2>5. CASE todo' = Calls("gap", <<act[Main].market>>) \o todo /\ act[Main].step = "opening"
    <3> DEFINE m == act[Main].market
               c == [op |-> "gap", market |-> m]
    <3>1. tracked[m].capture = 0 /\ (todo # <<>> => ~Regaps(todo[1])) /\ m \in Market
      <4>1. act[Main] \in PlacedActs
        BY DEF TasksOK, Tasks
      <4>2. m \in Market
        BY <2>5, <4>1 DEF PlacedActs, Unplaced
      <4> QED BY <2>5, <4>2 DEF MainInv
    <3>2. PICK n \in Nat : n = Len(todo)
      BY <1>2
    <3>3. Calls("gap", <<m>>) = <<c>>
      BY DEF Calls
    <3>4. c \in Callable
      BY <3>1 DEF Callable, MarketCalls, Ops
    <3> HIDE DEF c
    <3>5. /\ Len(todo') = n + 1 /\ todo'[1] = c
          /\ \A i \in 2..n + 1 : todo'[i] = todo[i - 1]
      <4>1. <<c>> \in Seq(Callable) /\ Len(<<c>>) = 1 /\ <<c>>[1] = c
        BY <3>4
      <4>2. todo' = <<c>> \o todo
        BY <2>5, <3>3
      <4> QED BY <1>2, <3>2, <4>1, <4>2
    <3>6. ASSUME NEW x, x = todo'[1].market PROVE Uncapturing(x)'
      <4>1. c.market = m
        BY DEF c
      <4> QED BY <1>3, <3>1, <3>5, <3>6, <4>1 DEF Uncapturing
    <3>7. ASSUME NEW i \in 2..n + 1, Regaps(todo'[i])
          PROVE  todo'[i - 1].op = "close" /\ todo'[i - 1].market = todo'[i].market
      <4>1. todo'[i] = todo[i - 1]
        BY <3>5
      <4>2. CASE i = 2
        <5>1. todo'[i] = todo[1] /\ todo # <<>>
          BY <1>2, <3>2, <4>1, <4>2
        <5> QED BY <3>1, <3>7, <5>1
      <4>3. CASE i # 2
        <5>1. i - 1 \in 2..n + 1 /\ i - 1 \in 2..Len(todo)
          BY <3>2, <4>3
        <5>2. todo'[i - 1] = todo[i - 1 - 1]
          BY <3>5, <5>1
        <5> QED BY <3>7, <4>1, <5>1, <5>2 DEF MainInv
      <4> QED BY <4>2, <4>3
    <3> QED BY <3>5, <3>6, <3>7
  <2> QED BY <2>1, <2>2, <2>3, <2>4, <2>5 DEF MainMoves
<1>7. (AtLock(act[Main], "gap") \/ act[Main].step = "gap_ack")'
        => (tracked[act[Main].market].capture = 0 /\ tracked[act[Main].market].gaps = {})'
  BY <1>1, <1>5 DEF AtLock
<1>8. (act[Main].step = "opening")' =>
        /\ (tracked[act[Main].market].capture = 0)'
        /\ todo' # <<>> => ~Regaps(todo'[1])
  BY <1>1, <1>5 DEF Ordered
<1>9. todo' # <<>> /\ Regaps(todo'[1]) => Uncapturing(todo[1].market)'
  BY <1>6 DEF Uncapturing
<1>10. \A i \in 2..Len(todo') :
         (Regaps(todo[i]) => todo[i - 1].op = "close" /\ todo[i - 1].market = todo[i].market)'
  BY <1>6 DEF Regaps
<1>11. (todo # <<>> /\ Regaps(todo[1]))' => Uncapturing(todo[1].market)'
  BY <1>9 DEF Regaps
<1>12. (todo' # <<>> => ~Regaps(todo'[1])) <=> (todo # <<>> => ~Regaps(todo[1]))'
  BY DEF Regaps
<1> QED BY <1>7, <1>8, <1>10, <1>11, <1>12 DEF MainInv

(* Calls stay ordered as they are made, put together, or all of one kind. *)
LEMMA OrderedTail ==
  ASSUME MainInv, todo \in Seq(Callable), todo # <<>>, todo[1].op # "close"
  PROVE  Ordered(Tail(todo))
<1>1. PICK n \in Nat \ {0} : n = Len(todo)
  OBVIOUS
<1> DEFINE s == Tail(todo)
<1>2. Len(s) = n - 1 /\ \A i \in 1..n - 1 : s[i] = todo[i + 1] /\ i + 1 \in 2..n
  BY <1>1
<1>3. \A i \in 2..n :
        Regaps(todo[i]) => todo[i - 1].op = "close" /\ todo[i - 1].market = todo[i].market
  BY <1>1 DEF MainInv
<1>4. s \in Seq(Callable)
  OBVIOUS
<1> HIDE DEF s
<1>5. ASSUME s # <<>> PROVE ~Regaps(s[1])
  <2>1. 1 \in 1..n - 1 /\ 1 + 1 = 2 /\ 2 - 1 = 1 /\ 2 \in 2..n
    BY <1>1, <1>2, <1>4, <1>5
  <2> QED BY <1>2, <1>3, <2>1
<1>6. ASSUME NEW i \in 2..n - 1, Regaps(s[i])
      PROVE  s[i - 1].op = "close" /\ s[i - 1].market = s[i].market
  <2>1. i \in 1..n - 1 /\ i - 1 \in 1..n - 1 /\ (i - 1) + 1 = i /\ (i + 1) - 1 = i /\ i + 1 \in 2..n
    BY <1>1
  <2>2. s[i] = todo[i + 1] /\ s[i - 1] = todo[i]
    BY <1>2, <2>1
  <2> QED BY <1>3, <1>6, <2>1, <2>2
<1> QED BY <1>2, <1>5, <1>6 DEF Ordered, s

LEMMA OrderedConcat ==
  ASSUME NEW r \in Seq(Callable), NEW s \in Seq(Callable), Ordered(r), Ordered(s)
  PROVE  Ordered(r \o s)
<1>1. PICK n \in Nat, k \in Nat : n = Len(r) /\ k = Len(s)
  OBVIOUS
<1> DEFINE q == r \o s
<1>2. Len(q) = n + k /\ \A i \in 1..n + k : q[i] = IF i <= n THEN r[i] ELSE s[i - n]
  BY <1>1
<1>3. q \in Seq(Callable)
  OBVIOUS
<1> HIDE DEF q
<1>4. ASSUME q # <<>> PROVE ~Regaps(q[1])
  <2>1. n + k # 0
    BY <1>1, <1>2, <1>3, <1>4
  <2>2. CASE n = 0
    <3>1. k # 0 /\ 1 \in 1..n + k /\ 1 - n = 1 /\ ~(1 <= n)
      BY <1>1, <2>1, <2>2
    <3>2. q[1] = s[1] /\ s # <<>>
      BY <1>1, <1>2, <3>1
    <3> QED BY <3>2 DEF Ordered
  <2>3. CASE n # 0
    <3>1. 1 \in 1..n + k /\ 1 <= n /\ r # <<>>
      BY <1>1, <2>3
    <3> QED BY <1>2, <3>1 DEF Ordered
  <2> QED BY <2>2, <2>3
<1>5. ASSUME NEW i \in 2..n + k, Regaps(q[i])
      PROVE  q[i - 1].op = "close" /\ q[i - 1].market = q[i].market
  <2>1. i \in 1..n + k /\ i - 1 \in 1..n + k
    BY <1>1
  <2>2. CASE i <= n
    <3>1. q[i] = r[i] /\ q[i - 1] = r[i - 1] /\ i \in 2..Len(r)
      BY <1>1, <1>2, <2>1, <2>2
    <3> QED BY <1>5, <3>1 DEF Ordered
  <2>3. CASE i = n + 1
    <3>1. q[i] = s[1] /\ s # <<>>
      BY <1>1, <1>2, <2>1, <2>3
    <3> QED BY <1>5, <3>1 DEF Ordered
  <2>4. CASE i > n + 1
    <3>1. /\ i - n \in 2..k /\ i - 1 - n = i - n - 1
          /\ ~(i <= n) /\ ~(i - 1 <= n)
      <4>1. n \in Int /\ k \in Int /\ i \in Int /\ i > n + 1 /\ i <= n + k
        BY <2>4
      <4> QED BY ONLY <4>1, SMT
    <3>2. /\ q[i] = s[i - n] /\ q[i - 1] = s[i - n - 1]
      BY <1>2, <2>1, <3>1
    <3> QED BY <1>1, <1>5, <3>1, <3>2 DEF Ordered
  <2>5. i <= n \/ i = n + 1 \/ i > n + 1
    <3>1. n \in Int /\ i \in Int
      OBVIOUS
    <3> QED BY ONLY <3>1, SMT
  <2> QED BY <2>2, <2>3, <2>4, <2>5
<1> QED BY <1>2, <1>4, <1>5 DEF Ordered, q

LEMMA CallsAreOrdered ==
  /\ Ordered(<<>>)
  /\ \A op \in {"ensure", "checkpoint"} : Ordered(Call(op))
  /\ \A op \in Ops \ {"gap", "regap"}, ms \in Seq(Market) : Ordered(Calls(op, ms))
  /\ \A m \in Market : Ordered(Restart(m))
<1>1. Ordered(<<>>)
  BY DEF Ordered
<1>2. ASSUME NEW op \in {"ensure", "checkpoint"} PROVE Ordered(Call(op))
  <2>1. Call(op) = <<[op |-> op, market |-> Main]>>
    BY DEF Call, Calls
  <2> QED BY <2>1 DEF Ordered, Regaps
<1>3. ASSUME NEW op \in Ops \ {"gap", "regap"}, NEW ms \in Seq(Market)
      PROVE  Ordered(Calls(op, ms))
  <2>1. PICK n \in Nat : n = Len(ms)
    OBVIOUS
  <2> DEFINE s == Calls(op, ms)
  <2>2. /\ s \in Seq(Callable) /\ DOMAIN s = 1..n
        /\ \A i \in 1..n : s[i].op = op
    <3>1. s \in Seq(Callable)
      BY CallsAreCalls
    <3>2. DOMAIN ms = 1..n
      BY <2>1
    <3>3. s = [i \in 1..n |-> [op |-> op, market |-> ms[i]]]
      BY <3>2 DEF Calls
    <3> HIDE DEF s
    <3> QED BY <3>1, <3>3
  <2> HIDE DEF s
  <2>3. Len(s) = n /\ (s # <<>> => 1 \in 1..n)
    BY <2>2
  <2>4. \A i \in 1..n : ~Regaps(s[i])
    BY <2>2 DEF Regaps
  <2>5. \A i \in 2..n : i \in 1..n
    OBVIOUS
  <2> QED BY <2>3, <2>4, <2>5 DEF Ordered, s
<1>4. ASSUME NEW m \in Market PROVE Ordered(Restart(m))
  <2> DEFINE c == [op |-> "close", market |-> m]
             g == [op |-> "regap", market |-> m]
             e == [op |-> "ensure", market |-> Main]
  <2>1. Calls("close", <<m>>) = <<c>> /\ Calls("regap", <<m>>) = <<g>> /\ Call("ensure") = <<e>>
    BY DEF Call, Calls
  <2> HIDE DEF c, g, e
  <2>2. PICK s : s = Restart(m)
    OBVIOUS
  <2>3. /\ c \in Callable /\ g \in Callable /\ e \in Callable
        /\ s = (<<c>> \o <<g>>) \o <<e>>
    BY <2>1, <2>2 DEF Restart, c, g, e, Callable, MarketCalls, MainCalls, Ops
  <2>4. Len(s) = 3 /\ s # <<>> /\ s[1] = c /\ s[2] = g /\ s[3] = e
    <3>1. PICK u, v, w : u = <<c>> /\ v = <<g>> /\ w = <<e>>
      OBVIOUS
    <3>2. /\ u \in Seq(Callable) /\ Len(u) = 1 /\ u[1] = c
          /\ v \in Seq(Callable) /\ Len(v) = 1 /\ v[1] = g
          /\ w \in Seq(Callable) /\ Len(w) = 1 /\ w[1] = e
      BY <2>3, <3>1
    <3>3. PICK x : x = u \o v
      OBVIOUS
    <3>4. x \in Seq(Callable) /\ Len(x) = 2 /\ x[1] = c /\ x[2] = g
      <4>1. /\ x \in Seq(Callable) /\ Len(x) = Len(u) + Len(v)
            /\ \A i \in 1..Len(u) + Len(v) : x[i] = IF i <= Len(u) THEN u[i] ELSE v[i - Len(u)]
        BY <3>2, <3>3, ConcatProperties
      <4> QED BY <3>2, <4>1
    <3>5. s = x \o w
      BY <2>3, <3>1, <3>3
    <3>6. /\ s \in Seq(Callable) /\ Len(s) = Len(x) + Len(w)
          /\ \A i \in 1..Len(x) + Len(w) : s[i] = IF i <= Len(x) THEN x[i] ELSE w[i - Len(x)]
      BY <3>2, <3>4, <3>5, ConcatProperties
    <3> QED BY <3>2, <3>4, <3>6
  <2>5. /\ ~Regaps(s[1]) /\ ~Regaps(s[3])
        /\ s[1].op = "close" /\ s[1].market = s[2].market
    BY <2>4 DEF Regaps, c, g, e
  <2>6. ASSUME NEW i \in 2..3, Regaps(s[i]) PROVE i = 2
    <3>1. i = 2 \/ i = 3
      OBVIOUS
    <3> QED BY <2>5, <2>6, <3>1
  <2>7. 2 - 1 = 1
    OBVIOUS
  <2> QED BY <2>2, <2>4, <2>5, <2>6, <2>7 DEF Ordered
<1> QED BY <1>1, <1>2, <1>3, <1>4

-----------------------------------------------------------------------------
(* Tame steps: one task moves, no book changes *)

(* Most steps leave the captures as they are, and what they queue, if anything, is *)
(* founded and says nothing of a book.                                             *)
Tame(m) ==
  /\ BookStays(m) /\ tracked'[m].capture = tracked[m].capture
  /\ tracked'[m].lost = tracked[m].lost
  /\ tracked'[m].gaps \subseteq tracked[m].gaps
  /\ tracked'[m].seen \in {tracked[m].seen, handle[m].dropped}
  /\ Len(pump'[m].pending) <= Len(pump[m].pending)

(* A command that says nothing of a book. *)
Bookless(c) ==
  TakesSequence(c) => \/ c.entry.kind = "resolution"
                      \/ c.entry.kind = "gap" /\ tracked[c.entry.market].capture = 0

(* At most one command is queued, founded and bookless. *)
Offers ==
  \/ queue' = queue
  \/ Len(queue) < QueueSize
     /\ \E c \in Commands : Queued(c) /\ FoundedAtEnd(c) /\ Bookless(c)

(* The exchange and the archive stay as they are. *)
ArchiveStands == UNCHANGED <<revision, handle, log, gaps, checkpoints>>

(* Task t goes to a, by the rules of the lock, the pumps and the main task. *)
Moves(t, a) ==
  /\ Moved(t, a) /\ LockMoves(t, a) /\ PumpMoves(t, a)
  /\ IF t = Main THEN MainMoves(a) ELSE todo' = todo

(* The recording ends: nobody moves, the lock may be let go. *)
Stops ==
  /\ failed' # "no"
  /\ UNCHANGED <<act, remaining, resumedOpen>>
  /\ lock' = lock \/ (lock # <<>> /\ lock' = Tail(lock))

(* A step of t that changes no book, no capture and no archive. *)
TameStep(t) ==
  /\ Running(t) /\ failed' # "refused"
  /\ \A m \in Market : Tame(m)
  /\ ArchiveStands /\ Offers
  /\ Stops \/ \E a : Moves(t, a)

(* What a tame step queues is founded, and projects nothing. *)
LEMMA TameIsTold ==
  ASSUME RecorderTypes, \A m \in Market : Tame(m), ArchiveStands, Offers, failed' # "refused"
  PROVE  Told
<1>1. LosesNothing
  BY DEF LosesNothing, Tame
<1>2. \A m \in Market : Faithful(m)
  BY DEF Faithful, Tame
<1>3. log' = log /\ checkpoints' = checkpoints
  BY DEF ArchiveStands
<1>4. CASE queue' = queue
  <2>1. Repeats
    BY <1>4 DEF Repeats
  <2> QED BY <1>1, <1>2, <1>3, <2>1 DEF Told
<1>5. ASSUME NEW c \in Commands, Queued(c), FoundedAtEnd(c), Bookless(c)
      PROVE  Told
  <2>1. \A m \in Market : Heard(m, c)
    BY <1>2, <1>5 DEF Heard, Bookless, Tame
  <2> QED BY <1>1, <1>3, <1>5, <2>1 DEF Told
<1> QED BY <1>4, <1>5 DEF Offers

(* A tame step counts nothing past its bound. *)
LEMMA TameKeepsBounds ==
  ASSUME RecorderTypes, RecorderTypes', CapturesBounded, ArchiveBounded,
         \A m \in Market : Tame(m), ArchiveStands, Offers, remaining' \subseteq resumedOpen'
  PROVE  CapturesBounded' /\ ArchiveBounded'
<1>1. ASSUME NEW m \in Market PROVE CaptureBounded(m)'
  <2>1. tracked[m] \in Tracked /\ handle[m] \in Handles /\ pump[m] \in Pumps /\ pump'[m] \in Pumps
    BY DEF RecorderTypes, CapturesOK
  <2>2. tracked[m].seen \in Nat /\ handle[m].dropped \in Nat
    BY <2>1 DEF Tracked, Handles
  <2>3. Len(pump[m].pending) \in Nat /\ Len(pump'[m].pending) \in Nat /\ MaxPending \in Nat
    <3>1. pump[m].pending \in Seq(Pending) /\ pump'[m].pending \in Seq(Pending)
      BY <2>1 DEF Pumps
    <3> QED BY <3>1, RecorderAssumption
  <2>4. Len(pump'[m].pending) <= Len(pump[m].pending) /\ Len(pump[m].pending) <= MaxPending
    BY DEF CapturesBounded, CaptureBounded, Tame
  <2>5. Len(pump'[m].pending) <= MaxPending
    BY ONLY <2>3, <2>4, SMT
  <2>6. tracked'[m].seen <= handle[m].dropped
    BY <2>2 DEF CapturesBounded, CaptureBounded, Tame
  <2>7. /\ tracked'[m].capture \in {0, tracked'[m].gen}
        /\ tracked'[m].complete \/ handle[m].msgs # <<>> => tracked'[m].gen # 0
        /\ \A g, h \in tracked'[m].gaps : g = h
    BY DEF CapturesBounded, CaptureBounded, Tame, BookStays
  <2>8. handle' = handle /\ revision' = revision
    BY DEF ArchiveStands
  <2> QED BY <2>5, <2>6, <2>7, <2>8 DEF CapturesBounded, CaptureBounded
<1>2. Len(queue') <= QueueSize
  <2>1. CASE queue' = queue
    BY <2>1 DEF ArchiveBounded
  <2>2. ASSUME NEW c \in Commands, Queued(c), Len(queue) < QueueSize
        PROVE  Len(queue') <= QueueSize
    <3>1. Len(queue') = Len(queue) + 1 /\ Len(queue) \in Nat
      BY <2>2, QueuedPlaces DEF RecorderTypes, End
    <3>2. QueueSize \in Nat
      BY RecorderAssumption
    <3> QED BY <2>2, <3>1, <3>2
  <2> QED BY <2>1, <2>2 DEF Offers
<1> QED BY <1>1, <1>2 DEF CapturesBounded, ArchiveBounded, ArchiveStands

(* Nobody moves: what the tasks know of the captures still holds. *)
LEMMA ControlStands ==
  ASSUME RecorderTypes, BoundsInv, ControlInv, CapturesStand,
         UNCHANGED <<act, lock, todo, remaining, resumedOpen>>,
         failed' = "no" => failed = "no"
  PROVE  SchedulerInv' /\ ControlInv' /\ remaining' \subseteq resumedOpen'
<1>1. SchedulerInv' /\ remaining' \subseteq resumedOpen'
  BY DEF BoundsInv, SchedulerInv, ArchiveBounded
<1>2. ASSUME failed' = "no" PROVE LockInv' /\ PumpsInv' /\ MainInv'
  <2>1. LockInv /\ PumpsInv /\ MainInv
    BY <1>2 DEF ControlInv
  <2>2. LockInv'
    BY <2>1 DEF LockInv
  <2>3. PumpsInv'
    <3>1. \A m \in Market : Closing(m)' <=> Closing(m)
      BY DEF Closing
    <3>2. \A t \in Tasks : AtLock(act[t], "checkpoint") => act[t].targets \subseteq Market
      BY ActFields DEF RecorderTypes, TasksOK, PlacedActs
    <3> QED BY <2>1, <3>1, <3>2 DEF PumpsInv, CapturesStand, BooksStand
  <2>4. MainInv'
    BY <2>1, MainStands DEF RecorderTypes
  <2> QED BY <2>2, <2>3, <2>4
<1> QED BY <1>1, <1>2 DEF ControlInv

(* A tame step keeps the invariant. *)
LEMMA TameStepKeeps ==
  ASSUME RecorderTypes, RecorderTypes', BoundsInv, ControlInv, NEW t \in Tasks, TameStep(t)
  PROVE  BoundsInv' /\ ControlInv' /\ Told
<1>1. Told
  BY TameIsTold DEF TameStep
<1>2. SchedulerInv' /\ ControlInv' /\ remaining' \subseteq resumedOpen'
  <2>1. CASE Stops
    <3>1. SchedulerInv'
      BY <2>1, LockIsLeft DEF Stops, BoundsInv
    <3> QED BY <2>1, <3>1 DEF Stops, BoundsInv, ArchiveBounded, ControlInv
  <2>2. ASSUME NEW a, Moves(t, a)
        PROVE  SchedulerInv' /\ ControlInv' /\ remaining' \subseteq resumedOpen'
    <3> USE DEF Moves
    <3>1. /\ LockInv /\ PumpsInv /\ MainInv /\ TasksOK /\ TasksOK' /\ SchedulerInv
          /\ Running(t) /\ remaining \subseteq resumedOpen
      BY DEF ControlInv, TameStep, Running, RecorderTypes, BoundsInv, ArchiveBounded
    <3>2. SchedulerInv' /\ LockInv'
      BY <2>2, <3>1, LockGoes
    <3>3. CapturesStand
      BY DEF TameStep, Tame, CapturesStand, BooksStand, BookStays
    <3>4. act'[t] = a /\ \A u \in Tasks \ {t} : act'[u] = act[u]
      BY <2>2, <3>1, MovedActs
    <3>5. AtLock(a, "checkpoint") => a.targets \subseteq Market
      BY <3>1, <3>4, ActFields DEF TasksOK, PlacedActs
    <3>6. PumpsInv' /\ remaining' \subseteq resumedOpen'
      BY <2>2, <3>1, <3>3, <3>5, PumpsGo, MarketsAreTasks DEF CapturesStand
    <3>7. MainInv'
      <4>1. CASE t = Main
        <5>1. todo' \in Seq(Callable)
          BY <3>1 DEF TasksOK
        <5> QED BY <2>2, <3>1, <3>3, <4>1, <5>1, MainMovesOn, MarketsAreTasks
      <4>2. CASE t # Main
        <5>1. act'[Main] = act[Main] /\ todo' = todo
          BY <2>2, <3>4, <4>2, MarketsAreTasks
        <5> QED BY <3>1, <3>3, <5>1, MainStands
      <4> QED BY <4>1, <4>2
    <3> QED BY <3>2, <3>6, <3>7 DEF ControlInv
  <2> QED BY <2>1, <2>2 DEF TameStep
<1>3. CapturesBounded' /\ ArchiveBounded'
  BY <1>2, TameKeepsBounds DEF TameStep, BoundsInv
<1> QED BY <1>1, <1>2, <1>3 DEF BoundsInv

-----------------------------------------------------------------------------
(* _close_market_gaps is tame, whichever task runs it *)

(* The invariant but for the claims. *)
Ready == RecorderTypes /\ BoundsInv /\ ControlInv /\ RecordsInv

(* What holds while recording goes on. *)
LEMMA ReadyFacts ==
  ASSUME Ready, failed = "no"
  PROVE  RecorderTypes /\ TasksOK /\ SchedulerInv /\ LockInv /\ PumpsInv /\ MainInv
  BY DEF Ready, BoundsInv, ControlInv, RecorderTypes

(* A task that moves runs, and recording goes on. *)
LEMMA Runs ==
  ASSUME NEW t \in Tasks, NEW s
  PROVE  /\ At(t, s) => Running(t) /\ act[t].step = s /\ failed = "no"
         /\ Awaiting(t, s) => Running(t) /\ act[t].step = s /\ failed = "no"
         /\ Running(t) => failed = "no"
  BY DEF At, Awaiting, Running, Yielded

(* Steps that leave the captures and their pending events are tame for every market. *)
LEMMA CapturesTame ==
  ASSUME RecorderTypes, UNCHANGED tracked,
         \A m \in Market : pump'[m].pending = pump[m].pending
  PROVE  \A m \in Market : Tame(m)
<1> SUFFICES ASSUME NEW m \in Market PROVE Tame(m)
  OBVIOUS
<1>1. pump[m].pending \in Seq(Pending)
  BY DEF RecorderTypes, CapturesOK, Pumps
<1>2. Len(pump'[m].pending) <= Len(pump[m].pending)
  BY <1>1
<1> QED BY <1>2 DEF Tame, BookStays

(* A pump that is stopped keeps its pending events. *)
LEMMA StopKeepsPending ==
  ASSUME RecorderTypes, NEW n \in Market, NEW s, pump' = [pump EXCEPT ![n].stop = s]
  PROVE  \A m \in Market : pump'[m].pending = pump[m].pending
<1>1. pump \in [Market -> Pumps]
  BY DEF RecorderTypes, CapturesOK
<1>2. \A p \in Pumps : [p EXCEPT !.stop = s].pending = p.pending
  BY DEF Pumps
<1> QED BY <1>1, <1>2

(* A task that neither takes nor leaves a place at the lock goes on. *)
LEMMA PlainMove ==
  ASSUME Ready, NEW t \in Tasks, Running(t), NEW a, Moved(t, a),
         UNCHANGED <<lock, todo, remaining, resumedOpen>>,
         act[t].step \notin {"none", "cancelled", "closing", "draining"},
         ~InLock(act[t]), ~InLock(a),
         a.step \notin {"resumed_ack", "opening", "draining"},
         t # Main => a.market \in {act[t].market, t, Main}
  PROVE  Moves(t, a)
<1>1. PumpsInv /\ RecorderTypes
  BY ReadyFacts, Runs
<1>2. t # Main => act[t].market \in {t, Main}
  BY <1>1 DEF PumpsInv, Tasks
<1>3. ~Holding(a) /\ \A u : ~AtLock(a, u) /\ ~AtLock(act[t], u)
  BY DEF InLock, Holding, AtLock
<1>4. a.step # "gap_ack"
  BY DEF InLock
<1>5. LockMoves(t, a)
  BY <1>3 DEF LockMoves
<1>6. PumpMoves(t, a)
  BY <1>2, <1>3 DEF PumpMoves, ResumeMoves
<1>7. t = Main => MainMoves(a)
  BY <1>3, <1>4 DEF MainMoves
<1> QED BY <1>5, <1>6, <1>7 DEF Moves

(* An error ends the recording, or the reads of a pump. *)
LEMMA RaisesMoves ==
  ASSUME Ready, NEW t \in Tasks, Running(t), NEW why, Raises(t, why),
         why \notin {"no", "refused"},
         UNCHANGED <<todo, remaining, resumedOpen>>,
         act[t].step \notin {"none", "cancelled", "closing", "draining"},
         \/ ~InLock(act[t]) /\ lock' = lock
         \/ Holding(act[t]) /\ lock' = Tail(lock)
         \/ t = Main /\ lock' = lock
  PROVE  /\ failed' # "refused" /\ (Stops \/ \E a : Moves(t, a))
         /\ \A m \in Market : pump'[m].pending = pump[m].pending
<1>1. RecorderTypes /\ SchedulerInv /\ LockInv /\ PumpsInv /\ failed = "no"
  BY ReadyFacts, Runs
<1>2. Holding(act[t]) => lock # <<>>
  BY <1>1, HolderIsFirst
<1>3. CASE t = Main
  <2>1. failed' = why /\ act' = act /\ pump' = pump
    BY <1>3 DEF Raises
  <2> QED BY <1>2, <2>1 DEF Stops
<1>4. CASE t # Main
  <2> DEFINE a == [Idle EXCEPT !.step = "reading"]
  <2>1. /\ pump' = [pump EXCEPT ![t].stop = "fatal"] /\ act' = [act EXCEPT ![t] = a]
        /\ failed' = "no" /\ t \in Market
    BY <1>1, <1>4 DEF Raises, Tasks
  <2>2. a.step = "reading" /\ a.market = Main
    BY DEF Idle
  <2> HIDE DEF a
  <2>3. Moved(t, a)
    BY <2>1 DEF Moved
  <2>4. ~InLock(a) /\ \A u : ~AtLock(a, u)
    BY <2>2 DEF InLock, AtLock
  <2>5. LockMoves(t, a)
    BY <1>4, <2>4 DEF LockMoves, Holding, InLock
  <2>6. PumpMoves(t, a)
    BY <1>4, <2>2, <2>4 DEF PumpMoves, ResumeMoves
  <2>7. Moves(t, a)
    BY <1>4, <2>3, <2>5, <2>6 DEF Moves
  <2> QED BY <2>1, <2>7, <1>1, StopKeepsPending
<1> QED BY <1>3, <1>4

(* A command that is queued or refused by a full queue. *)
LEMMA SubmitsOffers ==
  ASSUME Ready, NEW t \in Tasks, Running(t), NEW c \in Commands, NEW locals,
         Submits(t, c, locals), FoundedAtEnd(c), Bookless(c)
  PROVE  /\ Offers
         /\ \/ /\ Len(queue) < QueueSize /\ Moved(t, locals) /\ failed' = "no"
               /\ pump' = pump
            \/ ~(Len(queue) < QueueSize) /\ Raises(t, "queue full")
<1>1. failed = "no"
  BY Runs
<1>2. CASE Len(queue) < QueueSize
  BY <1>1, <1>2 DEF Submits, Offers, Moved, Queued
<1>3. CASE ~(Len(queue) < QueueSize)
  BY <1>3 DEF Submits, Offers
<1> QED BY <1>2, <1>3

(* The close of a gap relies on nothing. *)
LEMMA CloseIsTame ==
  ASSUME RecorderTypes, NEW t \in Tasks, NEW g \in GapIds
  PROVE  /\ CloseCommand(t, g) \in Commands
         /\ FoundedAtEnd(CloseCommand(t, g)) /\ Bookless(CloseCommand(t, g))
<1>1. CloseCommand(t, g).op = "close"
  BY DEF CloseCommand
<1> QED BY <1>1, CloseIsLawful DEF FoundedAtEnd, Bookless, TakesSequence

-----------------------------------------------------------------------------
LEMMA LockGrantedTame ==
  ASSUME Ready, NEW t \in Tasks, LockGranted(t)
  PROVE  TameStep(t)
<1> USE DEF LockGranted, Rest, resumeVars, archiveVars
<1> DEFINE a == [act[t] EXCEPT !.step = "locked"]
<1>1. Running(t) /\ act[t].step = "lock" /\ failed = "no"
  BY Runs
<1>2. RecorderTypes /\ PumpsInv /\ MainInv /\ LockInv /\ SchedulerInv
  BY <1>1, ReadyFacts
<1>3. act[t] \in Acts
  BY <1>2 DEF RecorderTypes, TasksOK, PlacedActs
<1>4. /\ a.step = "locked" /\ a.use = act[t].use /\ a.market = act[t].market
      /\ a.targets = act[t].targets
  BY <1>3 DEF Acts
<1>5. Moved(t, a)
  BY DEF Moved, Go
<1> HIDE DEF a
<1>6. lock[1] = t
  <2>1. \E i \in DOMAIN lock : lock[i] = t
    BY <1>1, <1>2 DEF LockInv, InLock
  <2> QED BY <1>2, <2>1 DEF SchedulerInv
<1>7. \A u : AtLock(a, u) <=> AtLock(act[t], u)
  BY <1>1, <1>4 DEF AtLock
<1>8. LockMoves(t, a)
  BY <1>1, <1>4, <1>6 DEF LockMoves, InLock
<1>9. PumpMoves(t, a)
  <2>1. t # Main => t \in Market
    BY DEF Tasks
  <2> QED BY <1>1, <1>2, <1>4, <1>7, <2>1 DEF PumpMoves, ResumeMoves, PumpsInv
<1>10. t = Main => MainMoves(a)
  <2>1. AtLock(act[t], "gap") => act[t].market \in Market
    BY <1>1, <1>2 DEF RecorderTypes, TasksOK, PlacedActs, Unplaced, AtLock
  <2> QED BY <1>1, <1>2, <1>4, <1>7, <2>1 DEF MainMoves, MainInv
<1>11. Moves(t, a)
  BY <1>5, <1>8, <1>9, <1>10 DEF Moves
<1>12. \A m \in Market : Tame(m)
  BY <1>2, CapturesTame
<1> QED BY <1>1, <1>11, <1>12 DEF TameStep, ArchiveStands, Offers

LEMMA CloseOwnTame ==
  ASSUME Ready, NEW t \in Tasks, CloseOwn(t)
  PROVE  TameStep(t)
<1> USE DEF Rest, resumeVars, archiveVars
<1> DEFINE m == act[t].market
<1>1. Running(t) /\ act[t].step = "own" /\ failed = "no"
  BY Runs DEF CloseOwn
<1>2. RecorderTypes /\ act[t] \in Acts /\ m \in Market /\ ~InLock(act[t])
  BY <1>1, ReadyFacts DEF RecorderTypes, TasksOK, PlacedActs, Unplaced, InLock
<1>3. UNCHANGED <<todo, remaining, resumedOpen, lock, tracked>> /\ ArchiveStands
  BY DEF CloseOwn, ArchiveStands
<1>4. CASE Go(t, "release") /\ UNCHANGED <<queue, pump, failed>>
  <2> DEFINE a == [act[t] EXCEPT !.step = "release"]
  <2>1. a.step = "release" /\ a.market = act[t].market /\ Moved(t, a)
    BY <1>2, <1>4 DEF Acts, Go, Moved
  <2> HIDE DEF a
  <2>2. ~InLock(a)
    BY <2>1 DEF InLock
  <2>3. Moves(t, a)
    BY <1>1, <1>2, <1>3, <2>1, <2>2, PlainMove
  <2>4. \A n \in Market : Tame(n)
    BY <1>2, <1>3, <1>4, CapturesTame
  <2> QED BY <1>1, <1>3, <1>4, <2>3, <2>4 DEF TameStep, Offers
<1>5. ASSUME NEW g \in tracked[m].gaps,
             Submits(t, CloseCommand(t, g), [act[t] EXCEPT !.step = "own_ack", !.closed = TRUE])
      PROVE  TameStep(t)
  <2> DEFINE a == [act[t] EXCEPT !.step = "own_ack", !.closed = TRUE]
             c == CloseCommand(t, g)
  <2>1. a.step = "own_ack" /\ a.market = act[t].market
    BY <1>2 DEF Acts
  <2>2. g \in GapIds
    BY <1>2 DEF RecorderTypes, CapturesOK, Tracked, GapIds
  <2>3. c \in Commands /\ FoundedAtEnd(c) /\ Bookless(c)
    BY <1>2, <2>2, CloseIsTame
  <2> HIDE DEF a, c
  <2>4. Submits(t, c, a)
    BY <1>5 DEF a, c
  <2>5. /\ Offers
        /\ \/ Moved(t, a) /\ failed' = "no" /\ pump' = pump
           \/ Raises(t, "queue full")
    BY <1>1, <2>3, <2>4, SubmitsOffers
  <2>6. CASE Moved(t, a) /\ failed' = "no" /\ pump' = pump
    <3>1. ~InLock(a)
      BY <2>1 DEF InLock
    <3>2. Moves(t, a)
      BY <1>1, <1>2, <1>3, <2>1, <2>6, <3>1, PlainMove
    <3>3. \A n \in Market : Tame(n)
      BY <1>2, <1>3, <2>6, CapturesTame
    <3> QED BY <1>1, <1>3, <2>5, <2>6, <3>2, <3>3 DEF TameStep
  <2>7. CASE Raises(t, "queue full")
    <3>1. /\ failed' # "refused" /\ (Stops \/ \E b : Moves(t, b))
          /\ \A n \in Market : pump'[n].pending = pump[n].pending
      BY <1>1, <1>2, <1>3, <2>7, RaisesMoves
    <3>2. \A n \in Market : Tame(n)
      BY <1>2, <1>3, <3>1, CapturesTame
    <3> QED BY <1>1, <1>3, <2>5, <3>1, <3>2 DEF TameStep
  <2> QED BY <2>5, <2>6, <2>7
<1> QED BY <1>4, <1>5 DEF CloseOwn

LEMMA OwnClosedTame ==
  ASSUME Ready, NEW t \in Tasks, OwnClosed(t)
  PROVE  TameStep(t)
<1> USE DEF OwnClosed, Rest, resumeVars, archiveVars
<1> DEFINE a == [act[t] EXCEPT !.step = "release"]
<1>1. Running(t) /\ act[t].step = "own_ack" /\ failed = "no"
  BY Runs
<1>2. RecorderTypes /\ act[t] \in Acts /\ act[t].market \in Market /\ ~InLock(act[t])
  BY <1>1, ReadyFacts DEF RecorderTypes, TasksOK, PlacedActs, Unplaced, InLock
<1>3. a.step = "release" /\ a.market = act[t].market /\ Moved(t, a)
  BY <1>2 DEF Acts, Go, Moved
<1> HIDE DEF a
<1>4. ~InLock(a)
  BY <1>3 DEF InLock
<1>5. Moves(t, a)
  BY <1>1, <1>2, <1>3, <1>4, PlainMove
<1>6. ASSUME NEW m \in Market PROVE Tame(m)
  <2>1. tracked[m] \in Tracked /\ tracked'[m] \in {tracked[m], [tracked[m] EXCEPT !.gaps = {}]}
    BY <1>2 DEF RecorderTypes, CapturesOK
  <2>2. pump[m].pending \in Seq(Pending) /\ pump' = pump
    BY <1>2 DEF RecorderTypes, CapturesOK, Pumps
  <2>3. Len(pump'[m].pending) <= Len(pump[m].pending)
    BY <2>2
  <2> QED BY <2>1, <2>3 DEF Tame, BookStays, Tracked
<1> QED BY <1>1, <1>5, <1>6 DEF TameStep, ArchiveStands, Offers

LEMMA ReleaseResumedTame ==
  ASSUME Ready, NEW t \in Tasks, ReleaseResumed(t)
  PROVE  TameStep(t)
<1> USE DEF Rest, resumeVars, archiveVars
<1> DEFINE m == act[t].market
<1>1. Running(t) /\ act[t].step = "release" /\ failed = "no"
  BY Runs DEF ReleaseResumed
<1>2. /\ RecorderTypes /\ PumpsInv /\ act[t] \in Acts /\ m \in Market /\ ~InLock(act[t])
  BY <1>1, ReadyFacts DEF RecorderTypes, TasksOK, PlacedActs, Unplaced, InLock
<1>3. UNCHANGED <<todo, resumedOpen, lock, tracked>> /\ ArchiveStands
  BY DEF ReleaseResumed, ArchiveStands
<1>4. CASE m \notin remaining
  <2> DEFINE a == [act[t] EXCEPT !.step = "select"]
  <2>0. Go(t, "select") /\ UNCHANGED <<remaining, queue, pump, failed>>
    BY <1>4 DEF ReleaseResumed
  <2>1. a.step = "select" /\ a.market = act[t].market /\ Moved(t, a)
    BY <1>2, <2>0 DEF Acts, Go, Moved
  <2> HIDE DEF a
  <2>2. ~InLock(a)
    BY <2>1 DEF InLock
  <2>3. Moves(t, a)
    BY <1>1, <1>2, <1>3, <2>0, <2>1, <2>2, PlainMove
  <2>4. \A n \in Market : Tame(n)
    BY <1>2, <1>3, <2>0, CapturesTame
  <2> QED BY <1>1, <1>3, <2>0, <2>3, <2>4 DEF TameStep, Offers
<1>5. CASE m \in remaining
  <2> DEFINE a == [act[t] EXCEPT !.step = "resumed_ack"]
             c == CloseCommand(t, ResumedGap(m))
  <2>1. a.step = "resumed_ack" /\ a.market = m
    BY <1>2 DEF Acts
  <2>2. ResumedGap(m) \in GapIds
    BY <1>2 DEF GapIds
  <2>3. c \in Commands /\ FoundedAtEnd(c) /\ Bookless(c)
    BY <1>2, <2>2, CloseIsTame
  <2> HIDE DEF a, c
  <2>4. /\ Submits(t, c, a)
        /\ remaining' = IF Len(queue) < QueueSize THEN remaining \ {m} ELSE remaining
    BY <1>5 DEF a, c, ReleaseResumed
  <2>5. /\ Offers
        /\ \/ Len(queue) < QueueSize /\ Moved(t, a) /\ failed' = "no" /\ pump' = pump
           \/ ~(Len(queue) < QueueSize) /\ Raises(t, "queue full")
    BY <1>1, <2>3, <2>4, SubmitsOffers
  <2>6. CASE Len(queue) < QueueSize /\ Moved(t, a) /\ failed' = "no" /\ pump' = pump
    <3>1. ~InLock(a) /\ ~Holding(a) /\ \A u : ~AtLock(a, u) /\ ~AtLock(act[t], u)
      BY <1>1, <2>1 DEF InLock, Holding, AtLock
    <3>2. LockMoves(t, a)
      BY <1>2, <1>3, <3>1 DEF LockMoves
    <3>3. PumpMoves(t, a)
      <4>1. t # Main => m \in {t, Main}
        BY <1>2 DEF PumpsInv, Tasks
      <4> QED BY <1>1, <1>3, <1>5, <2>1, <2>4, <2>6, <3>1, <4>1 DEF PumpMoves, ResumeMoves
    <3>4. t = Main => MainMoves(a)
      BY <1>3, <2>1, <3>1 DEF MainMoves
    <3>5. Moves(t, a)
      BY <1>3, <2>6, <3>2, <3>3, <3>4 DEF Moves
    <3>6. \A n \in Market : Tame(n)
      BY <1>2, <1>3, <2>6, CapturesTame
    <3> QED BY <1>1, <1>3, <2>5, <2>6, <3>5, <3>6 DEF TameStep
  <2>7. CASE ~(Len(queue) < QueueSize) /\ Raises(t, "queue full")
    <3>0. remaining' = remaining
      BY <2>4, <2>7
    <3>1. /\ failed' # "refused" /\ (Stops \/ \E b : Moves(t, b))
          /\ \A n \in Market : pump'[n].pending = pump[n].pending
      BY <1>1, <1>2, <1>3, <2>7, <3>0, RaisesMoves
    <3>2. \A n \in Market : Tame(n)
      BY <1>2, <1>3, <3>1, CapturesTame
    <3> QED BY <1>1, <1>3, <2>5, <3>1, <3>2 DEF TameStep
  <2> QED BY <2>5, <2>6, <2>7
<1> QED BY <1>4, <1>5

LEMMA ResumedClosedTame ==
  ASSUME Ready, NEW t \in Tasks, ResumedClosed(t)
  PROVE  TameStep(t)
<1> USE DEF ResumedClosed, Rest, resumeVars, archiveVars
<1> DEFINE a == [act[t] EXCEPT !.step = "select", !.closed = TRUE]
<1>1. Running(t) /\ act[t].step = "resumed_ack" /\ failed = "no"
  BY Runs
<1>2. RecorderTypes /\ PumpsInv /\ act[t] \in Acts /\ ~InLock(act[t])
  BY <1>1, ReadyFacts DEF RecorderTypes, TasksOK, PlacedActs, InLock
<1>3. a.step = "select" /\ a.market = act[t].market
  BY <1>2 DEF Acts
<1>4. Moved(t, a)
  BY <1>2 DEF RecorderTypes, TasksOK, Moved
<1> HIDE DEF a
<1>5. ~InLock(a) /\ ~Holding(a) /\ \A u : ~AtLock(a, u) /\ ~AtLock(act[t], u)
  BY <1>1, <1>3 DEF InLock, Holding, AtLock
<1>6. LockMoves(t, a)
  BY <1>2, <1>5 DEF LockMoves
<1>7. PumpMoves(t, a)
  <2>1. t # Main => act[t].market \in {t, Main}
    BY <1>2 DEF PumpsInv, Tasks
  <2> QED BY <1>1, <1>3, <1>5, <2>1 DEF PumpMoves, ResumeMoves
<1>8. t = Main => MainMoves(a)
  BY <1>3, <1>5 DEF MainMoves
<1>9. Moves(t, a)
  BY <1>4, <1>6, <1>7, <1>8 DEF Moves
<1>10. \A m \in Market : Tame(m)
  BY <1>2, CapturesTame
<1> QED BY <1>1, <1>9, <1>10 DEF TameStep, ArchiveStands, Offers

LEMMA SelectRecoveredTame ==
  ASSUME Ready, NEW t \in Tasks, SelectRecovered(t)
  PROVE  TameStep(t)
<1> USE DEF Rest, resumeVars, archiveVars
<1> DEFINE m == act[t].market
           l == [act[t] EXCEPT !.targets = {m}]
<1>1. Running(t) /\ act[t].step = "select" /\ failed = "no"
  BY Runs DEF SelectRecovered
<1>2. RecorderTypes /\ PumpsInv /\ act[t] \in Acts /\ m \in Market /\ ~InLock(act[t])
  BY <1>1, ReadyFacts DEF RecorderTypes, TasksOK, PlacedActs, Unplaced, InLock
<1>3. /\ UNCHANGED <<todo, remaining, resumedOpen, tracked, pump, queue, failed>>
      /\ ArchiveStands
  BY DEF SelectRecovered, ArchiveStands
<1>4. l \in Acts /\ l.market = m /\ l.targets = {m}
  BY <1>2 DEF Acts
<1> HIDE DEF l
<1>5. t # Main => m = t
  BY <1>2, MarketsAreTasks DEF PumpsInv, Tasks
<1>6. CASE CanCheckpoint(m) /\ Locks(t, "checkpoint", l)
  <2> DEFINE a == [l EXCEPT !.step = IF lock = <<>> THEN "locked" ELSE "lock", !.use = "checkpoint"]
  <2>1. /\ a.step = (IF lock = <<>> THEN "locked" ELSE "lock") /\ a.use = "checkpoint"
        /\ a.market = m /\ a.targets = {m}
    BY <1>4 DEF Acts
  <2>2. Moved(t, a) /\ lock' = Append(lock, t)
    BY <1>6 DEF Locks, Moved
  <2> HIDE DEF a
  <2>3. a.step \in {"lock", "locked"}
    BY <2>1
  <2>4. LockMoves(t, a)
    BY <1>2, <2>1, <2>2 DEF LockMoves
  <2>5. PumpMoves(t, a)
    BY <1>1, <1>3, <1>5, <1>6, <2>1, <2>3 DEF PumpMoves, ResumeMoves, CanCheckpoint
  <2>6. t = Main => MainMoves(a)
    BY <1>1, <1>3, <2>1, <2>3 DEF MainMoves, AtLock
  <2>7. Moves(t, a)
    BY <1>3, <2>2, <2>4, <2>5, <2>6 DEF Moves
  <2>8. \A n \in Market : Tame(n)
    BY <1>2, <1>3, CapturesTame
  <2> QED BY <1>1, <1>3, <2>7, <2>8 DEF TameStep, Offers
<1>7. CASE Go(t, Returns(t)) /\ UNCHANGED lock
  <2> DEFINE a == [act[t] EXCEPT !.step = Returns(t)]
  <2>1. a.step = Returns(t) /\ a.market = m /\ Moved(t, a)
    BY <1>2, <1>7 DEF Acts, Moved, Go
  <2>2. Returns(t) \in {"next", "loop"}
    BY DEF Returns
  <2> HIDE DEF a
  <2>3. ~InLock(a)
    BY <2>1, <2>2 DEF InLock
  <2>4. Moves(t, a)
    BY <1>1, <1>2, <1>3, <1>7, <2>1, <2>2, <2>3, PlainMove
  <2>5. \A n \in Market : Tame(n)
    BY <1>2, <1>3, CapturesTame
  <2> QED BY <1>1, <1>3, <2>4, <2>5 DEF TameStep, Offers
<1> QED BY <1>6, <1>7 DEF SelectRecovered, l

(* What is checkpointed is the last book recorded, at the number the checkpoint names. *)
LEMMA CheckpointIsFounded ==
  ASSUME Ready, NEW t \in Tasks, Holds(t, "checkpoint"),
         ~\E m \in act[t].targets : tracked[m].capture = 0,
         NEW c, c = [op |-> "checkpoint", by |-> t,
                     books |-> {[market |-> m, gen |-> tracked[m].capture,
                                 rev |-> tracked[m].book, seq |-> LastSequence] :
                                  m \in act[t].targets}]
  PROVE  FoundedAtEnd(c)
<1>1. act[t].step = "locked" /\ act[t].use = "checkpoint" /\ failed = "no"
  BY Runs DEF Holds
<1>2. RecorderTypes /\ PumpsInv /\ CapturesBounded /\ RecordsInv
  BY <1>1, ReadyFacts DEF Ready, BoundsInv
<1>3. act[t].targets \subseteq Market
  BY <1>2, ActFields DEF RecorderTypes, TasksOK, PlacedActs
<1>4. ASSUME NEW m \in act[t].targets
      PROVE  /\ tracked[m].complete /\ tracked[m].capture = tracked[m].gen
             /\ tracked[m].gen \notin tracked[m].lost =>
                  /\ HasBook(End, m, tracked[m].gen, tracked[m].book)
                  /\ HasBase(End, m, tracked[m].gen)
  <2>1. tracked[m].complete
    BY <1>1, <1>2 DEF PumpsInv, AtLock
  <2>2. tracked[m].capture # 0 /\ tracked[m].capture = tracked[m].gen
    BY <1>2, <1>3 DEF CapturesBounded, CaptureBounded
  <2> QED BY <1>2, <1>3, <2>1, <2>2 DEF RecordsInv, Projected, End
<1>5. LastSequence = SequenceAt(End)
  <2>1. PICK n \in Nat : n = Len(queue)
    BY <1>2 DEF RecorderTypes, ArchiveOK
  <2>2. DOMAIN queue = 1..n /\ End - 1 = n
    BY <1>2, <2>1 DEF RecorderTypes, ArchiveOK, End
  <2> QED BY <2>2 DEF LastSequence, Assigned, SequenceAt, Before
<1>6. c.op = "checkpoint"
  OBVIOUS
<1>7. ASSUME NEW b \in c.books, b.gen \notin tracked[b.market].lost
      PROVE  /\ HasBase(End, b.market, b.gen)
             /\ HasBook(End, b.market, b.gen, b.rev)
             /\ b.seq = SequenceAt(End)
  <2>1. PICK m \in act[t].targets :
          b = [market |-> m, gen |-> tracked[m].capture, rev |-> tracked[m].book,
               seq |-> LastSequence]
    BY <1>7
  <2>2. b.market = m /\ b.gen = tracked[m].gen /\ b.rev = tracked[m].book /\ b.seq = LastSequence
    BY <1>4, <2>1
  <2> QED BY <1>4, <1>5, <1>7, <2>2
<1> QED BY <1>6, <1>7 DEF FoundedAtEnd

LEMMA WriteCheckpointsTame ==
  ASSUME Ready, NEW t \in Tasks, WriteCheckpoints(t)
  PROVE  TameStep(t)
<1> USE DEF Rest, resumeVars, archiveVars
<1> DEFINE a == [act[t] EXCEPT !.step = "checkpoint_ack"]
           books == {[market |-> m, gen |-> tracked[m].capture, rev |-> tracked[m].book,
                      seq |-> LastSequence] : m \in act[t].targets}
           c == [op |-> "checkpoint", by |-> t, books |-> books]
<1>1. Running(t) /\ act[t].step = "locked" /\ act[t].use = "checkpoint" /\ failed = "no"
  BY Runs DEF WriteCheckpoints, Holds
<1>2. /\ RecorderTypes /\ PumpsInv /\ act[t] \in Acts
      /\ act[t].targets \subseteq Market /\ Holding(act[t])
  BY <1>1, ReadyFacts, ActFields DEF RecorderTypes, TasksOK, PlacedActs, Holding
<1>3. /\ UNCHANGED <<todo, remaining, resumedOpen, tracked>>
      /\ ArchiveStands
  BY DEF WriteCheckpoints, ArchiveStands
<1>4. ASSUME NEW why, why \notin {"no", "refused"}, Raises(t, why), lock' = Tail(lock),
             queue' = queue
      PROVE  TameStep(t)
  <2>1. /\ failed' # "refused" /\ (Stops \/ \E b : Moves(t, b))
        /\ \A n \in Market : pump'[n].pending = pump[n].pending
    BY <1>1, <1>2, <1>3, <1>4, RaisesMoves
  <2>2. \A n \in Market : Tame(n)
    BY <1>2, <1>3, <2>1, CapturesTame
  <2> QED BY <1>1, <1>3, <1>4, <2>1, <2>2 DEF TameStep, Offers
<1>5. CASE \E m \in act[t].targets : tracked[m].capture = 0
  BY <1>4, <1>5 DEF WriteCheckpoints, Releases
<1>6. CASE ~\E m \in act[t].targets : tracked[m].capture = 0
  <2>1. Submits(t, c, a) /\ IF Len(queue) < QueueSize THEN lock' = lock ELSE lock' = Tail(lock)
    BY <1>6 DEF WriteCheckpoints, Releases
  <2>2. a.step = "checkpoint_ack" /\ a.use = "checkpoint" /\ a.market = act[t].market
    BY <1>1, <1>2 DEF Acts
  <2>3. books \in SUBSET Checkpoints
    <3>1. LastSequence \in Nat
      BY <1>2, AssignedIsNat DEF LastSequence
    <3> QED BY <1>2, <3>1 DEF Checkpoints, CapturesOK, Tracked, RecorderTypes
  <2>4. FoundedAtEnd(c)
    BY <1>6, CheckpointIsFounded DEF WriteCheckpoints
  <2>5. c.op = "checkpoint"
    OBVIOUS
  <2> HIDE DEF a, books
  <2>6. c \in Commands
    BY <2>3, CheckpointIsLawful
  <2> HIDE DEF c
  <2>7. Bookless(c)
    BY <2>5 DEF Bookless, TakesSequence
  <2>8. /\ Offers
        /\ \/ Len(queue) < QueueSize /\ Moved(t, a) /\ failed' = "no" /\ pump' = pump
           \/ ~(Len(queue) < QueueSize) /\ Raises(t, "queue full")
    BY <1>1, <2>1, <2>4, <2>6, <2>7, SubmitsOffers
  <2>9. CASE Len(queue) < QueueSize /\ Moved(t, a) /\ failed' = "no" /\ pump' = pump
    <3>1. lock' = lock
      BY <2>1, <2>9
    <3>2. InLock(a) /\ InLock(act[t]) /\ \A u : ~AtLock(a, u)
      BY <1>1, <2>2 DEF InLock, AtLock
    <3>3. LockMoves(t, a)
      BY <1>2, <3>1, <3>2 DEF LockMoves
    <3>4. PumpMoves(t, a)
      <4>1. t # Main => act[t].market \in {t, Main}
        BY <1>2 DEF PumpsInv, Tasks
      <4> QED BY <1>1, <1>3, <2>2, <3>2, <4>1 DEF PumpMoves, ResumeMoves
    <3>5. t = Main => MainMoves(a)
      BY <1>1, <1>3, <2>2, <3>2 DEF MainMoves, AtLock
    <3>6. Moves(t, a)
      BY <1>3, <2>9, <3>3, <3>4, <3>5 DEF Moves
    <3>7. \A n \in Market : Tame(n)
      BY <1>2, <1>3, <2>9, CapturesTame
    <3> QED BY <1>1, <1>3, <2>8, <2>9, <3>6, <3>7 DEF TameStep
  <2>10. CASE ~(Len(queue) < QueueSize) /\ Raises(t, "queue full")
    <3>1. lock' = Tail(lock) /\ queue' = queue
      BY <2>1, <2>10 DEF Submits
    <3> QED BY <1>4, <2>10, <3>1
  <2> QED BY <2>8, <2>9, <2>10
<1> QED BY <1>5, <1>6

LEMMA CheckpointsWrittenTame ==
  ASSUME Ready, NEW t \in Tasks, CheckpointsWritten(t)
  PROVE  TameStep(t)
<1> USE DEF CheckpointsWritten, Rest, resumeVars, archiveVars
<1> DEFINE a == [Idle EXCEPT !.step = Returns(t)]
<1>1. Running(t) /\ act[t].step = "checkpoint_ack" /\ failed = "no"
  BY Runs
<1>2. RecorderTypes /\ Holding(act[t]) /\ \A u : ~AtLock(act[t], u)
  BY <1>1, ReadyFacts DEF Holding, AtLock
<1>3. a.step = Returns(t) /\ a.market = Main /\ Moved(t, a)
  BY DEF Idle, Moved
<1>4. Returns(t) \in {"next", "loop"}
  BY DEF Returns
<1> HIDE DEF a
<1>5. /\ ~InLock(a) /\ \A u : ~AtLock(a, u)
      /\ a.step \notin {"resumed_ack", "gap_ack", "opening", "draining"}
  BY <1>3, <1>4 DEF InLock, AtLock
<1>6. LockMoves(t, a)
  BY <1>2, <1>5 DEF LockMoves, Releases
<1>7. PumpMoves(t, a)
  BY <1>1, <1>3, <1>5 DEF PumpMoves, ResumeMoves
<1>8. t = Main => MainMoves(a)
  BY <1>2, <1>5 DEF MainMoves
<1>9. Moves(t, a)
  BY <1>3, <1>6, <1>7, <1>8 DEF Moves
<1>10. \A m \in Market : Tame(m)
  BY <1>2, CapturesTame
<1> QED BY <1>1, <1>9, <1>10 DEF TameStep, ArchiveStands, Offers

(* Every step of _close_market_gaps is tame. *)
LEMMA CloseGapsTame ==
  ASSUME Ready, NEW t \in Tasks, CloseGapsStep(t)
  PROVE  TameStep(t)
  BY LockGrantedTame, CloseOwnTame, OwnClosedTame, ReleaseResumedTame, ResumedClosedTame,
     SelectRecoveredTame, WriteCheckpointsTame, CheckpointsWrittenTame DEF CloseGapsStep

-----------------------------------------------------------------------------
(* The pump and the main task, where they open and close no capture, are tame *)

(* The counts, claims and closed gaps of a market are no matter of its book. *)
LEMMA TrackedTame ==
  ASSUME RecorderTypes, NEW n \in Market, NEW x,
         \/ tracked' = tracked
         \/ tracked' = [tracked EXCEPT ![n].observed = x]
         \/ tracked' = [tracked EXCEPT ![n].claimed = x]
         \/ tracked' = [tracked EXCEPT ![n].gaps = {}]
         \/ tracked' = [tracked EXCEPT ![n].seen = handle[n].dropped],
         \A m \in Market : Len(pump'[m].pending) <= Len(pump[m].pending)
  PROVE  \A m \in Market : Tame(m)
<1> SUFFICES ASSUME NEW m \in Market PROVE Tame(m)
  OBVIOUS
<1>1. tracked \in [Market -> Tracked]
  BY DEF RecorderTypes, CapturesOK
<1>2. tracked'[m] \in {tracked[m], [tracked[m] EXCEPT !.observed = x],
                       [tracked[m] EXCEPT !.claimed = x], [tracked[m] EXCEPT !.gaps = {}],
                       [tracked[m] EXCEPT !.seen = handle[m].dropped]}
  BY <1>1
<1>3. tracked[m] \in Tracked
  BY <1>1
<1>4. ASSUME NEW r \in Tracked, NEW s,
             s \in {r, [r EXCEPT !.observed = x], [r EXCEPT !.claimed = x],
                   [r EXCEPT !.gaps = {}], [r EXCEPT !.seen = handle[m].dropped]}
      PROVE  /\ s.gen = r.gen /\ s.complete = r.complete /\ s.book = r.book
             /\ s.capture = r.capture /\ s.lost = r.lost /\ s.gaps \subseteq r.gaps
             /\ s.seen \in {r.seen, handle[m].dropped}
  BY <1>4 DEF Tracked
<1> QED BY <1>2, <1>3, <1>4 DEF Tame, BookStays

(* The same pending events are as many. *)
LEMMA PendingStands ==
  ASSUME RecorderTypes, \A m \in Market : pump'[m].pending = pump[m].pending
  PROVE  \A m \in Market : Len(pump'[m].pending) <= Len(pump[m].pending)
<1> SUFFICES ASSUME NEW m \in Market PROVE Len(pump'[m].pending) <= Len(pump[m].pending)
  OBVIOUS
<1>1. pump[m].pending \in Seq(Pending)
  BY DEF RecorderTypes, CapturesOK, Pumps
<1> QED BY <1>1

(* A task that stays where it is. *)
LEMMA MovesToSelf ==
  ASSUME TasksOK, NEW t \in Tasks, act' = act
  PROVE  Moved(t, act[t])
  BY DEF TasksOK, Moved

(* What a pump does in its loop. *)
LEMMA PumpGoesOn ==
  ASSUME Ready, NEW m \in Market, Running(m), act[m].step \in {"reading", "loop"},
         NEW a, Moved(m, a), a.step \in {"reading", "loop", "own", "none"},
         a.market \in {act[m].market, m, Main},
         UNCHANGED <<lock, todo, remaining, resumedOpen, failed, queue>>, ArchiveStands,
         \A n \in Market : Tame(n)
  PROVE  TameStep(m)
<1>1. m \in Tasks /\ ~InLock(act[m]) /\ ~InLock(a) /\ failed = "no"
  BY MarketsAreTasks, Runs DEF InLock
<1>2. Moves(m, a)
  BY <1>1, PlainMove
<1> QED BY <1>1, <1>2 DEF TameStep, Offers

LEMMA CaptureEndsTame ==
  ASSUME Ready, NEW m \in Market, CaptureEnds(m)
  PROVE  TameStep(m)
<1> USE DEF CaptureEnds, Reads, resumeVars, archiveVars
<1>1. RecorderTypes /\ Running(m) /\ act[m].step = "reading" /\ m \in Tasks
  BY MarketsAreTasks DEF Ready, Yielded, Running
<1>2. Moved(m, act[m])
  BY <1>1, MovesToSelf DEF RecorderTypes
<1>3. \A n \in Market : Tame(n)
  BY <1>1, StopKeepsPending, CapturesTame
<1> QED BY <1>1, <1>2, <1>3, PumpGoesOn DEF ArchiveStands

LEMMA PumpCommittedTame ==
  ASSUME Ready, NEW m \in Market, PumpCommitted(m)
  PROVE  TameStep(m)
<1> USE DEF resumeVars, archiveVars
<1> DEFINE event == Head(pump[m].pending)
           own == [Idle EXCEPT !.step = "own", !.at = event.seq, !.market = m]
           on == [act[m] EXCEPT !.step = "loop"]
<1>1. RecorderTypes /\ Running(m) /\ act[m].step = "reading" /\ m \in Tasks /\ act[m] \in Acts
  BY MarketsAreTasks
     DEF Ready, RecorderTypes, TasksOK, PlacedActs, PumpCommitted, Yielded, Running
<1>2. \A n \in Market : Tame(n)
  <2>1. ASSUME NEW n \in Market PROVE Len(pump'[n].pending) <= Len(pump[n].pending)
    <3>1. pump[n] \in Pumps /\ pump[n].pending \in Seq(Pending)
      BY <1>1 DEF RecorderTypes, CapturesOK, Pumps
    <3>2. pump[m].pending # <<>> /\ pump' = [pump EXCEPT ![m].pending = Tail(@)]
      BY DEF PumpCommitted
    <3>3. pump \in [Market -> Pumps]
      BY <1>1 DEF RecorderTypes, CapturesOK
    <3>4. CASE n # m
      BY <3>1, <3>2, <3>3, <3>4
    <3>5. CASE n = m
      <4>1. pump'[n].pending = Tail(pump[n].pending)
        BY <3>1, <3>2, <3>3, <3>5 DEF Pumps
      <4> QED BY <3>1, <3>2, <3>5, <4>1
    <3> QED BY <3>4, <3>5
  <2>2. \E x : tracked' = [tracked EXCEPT ![m].observed = x]
    BY DEF PumpCommitted
  <2> QED BY <1>1, <2>1, <2>2, TrackedTame
<1>3. \/ act' = [act EXCEPT ![m] = own]
      \/ Go(m, "loop")
  BY DEF PumpCommitted
<1>4. UNCHANGED <<lock, todo, remaining, resumedOpen, failed, queue>> /\ ArchiveStands
  BY DEF PumpCommitted, ArchiveStands
<1>5. CASE act' = [act EXCEPT ![m] = own]
  <2>1. own.step = "own" /\ own.market = m /\ Moved(m, own)
    BY <1>5 DEF Idle, Moved
  <2> HIDE DEF own
  <2> QED BY <1>1, <1>2, <1>4, <2>1, PumpGoesOn
<1>6. CASE Go(m, "loop")
  <2>1. on.step = "loop" /\ on.market = act[m].market /\ Moved(m, on)
    BY <1>1, <1>6 DEF Acts, Moved, Go
  <2> HIDE DEF on
  <2> QED BY <1>1, <1>2, <1>4, <2>1, PumpGoesOn
<1> QED BY <1>3, <1>5, <1>6

LEMMA PumpLoopsTame ==
  ASSUME Ready, NEW m \in Market, PumpLoops(m)
  PROVE  TameStep(m)
<1> USE DEF resumeVars, archiveVars
<1> DEFINE a == [act[m] EXCEPT !.step = "reading"]
<1>1. RecorderTypes /\ m \in Tasks /\ Running(m) /\ act[m].step = "loop" /\ act[m] \in Acts
  BY MarketsAreTasks, Runs DEF Ready, RecorderTypes, TasksOK, PlacedActs, PumpLoops
<1>2. a.step = "reading" /\ a.market = act[m].market /\ Moved(m, a)
  BY <1>1 DEF Acts, Moved, Go, PumpLoops
<1> HIDE DEF a
<1>3. \A n \in Market : pump'[n].pending = pump[n].pending
  <2>1. pump' = [pump EXCEPT ![m].stop = "drop"] \/ pump' = pump
    BY DEF PumpLoops
  <2> QED BY <1>1, <2>1, StopKeepsPending
<1>4. tracked' = tracked \/ tracked' = [tracked EXCEPT ![m].seen = handle[m].dropped]
  BY DEF PumpLoops
<1>5. \A n \in Market : Tame(n)
  BY <1>1, <1>3, <1>4, PendingStands, TrackedTame
<1> QED BY <1>1, <1>2, <1>5, PumpGoesOn DEF PumpLoops, ArchiveStands

LEMMA PumpReturnsTame ==
  ASSUME Ready, NEW m \in Market, PumpReturns(m)
  PROVE  TameStep(m)
<1> USE DEF resumeVars, archiveVars
<1> DEFINE a == [act[m] EXCEPT !.step = "none"]
<1>1. RecorderTypes /\ m \in Tasks /\ Running(m) /\ act[m].step = "reading" /\ act[m] \in Acts
  BY MarketsAreTasks
     DEF Ready, RecorderTypes, TasksOK, PlacedActs, PumpReturns, Yielded, Running
<1>2. a.step = "none" /\ a.market = act[m].market /\ Moved(m, a)
  BY <1>1 DEF Acts, Moved, Go, PumpReturns
<1> HIDE DEF a
<1>3. ASSUME NEW n \in Market PROVE Len(pump'[n].pending) <= Len(pump[n].pending)
  <2>1. pump[n].pending \in Seq(Pending) /\ pump'[n] \in {pump[n], NoPump}
    BY <1>1 DEF RecorderTypes, CapturesOK, Pumps, PumpReturns
  <2> QED BY <2>1 DEF NoPump
<1>4. \A n \in Market : Tame(n)
  BY <1>1, <1>3, TrackedTame DEF PumpReturns
<1> QED BY <1>1, <1>2, <1>4, PumpGoesOn DEF PumpReturns, ArchiveStands

-----------------------------------------------------------------------------
(* The main task goes on, with calls in order; or takes its place at the lock. *)
LEMMA MainGoesOn ==
  ASSUME Ready, Running(Main), act[Main].step \in {"next", "idle"},
         NEW a, Moved(Main, a), a.step \in {"next", "idle"},
         UNCHANGED <<lock, remaining, resumedOpen>>,
         todo' = todo \/ Ordered(todo')
  PROVE  Moves(Main, a)
<1>1. ~InLock(a) /\ ~InLock(act[Main]) /\ \A u : ~AtLock(a, u) /\ ~AtLock(act[Main], u)
  BY DEF InLock, AtLock
<1>2. LockMoves(Main, a)
  BY <1>1 DEF LockMoves, Holding, InLock
<1>3. PumpMoves(Main, a)
  BY <1>1 DEF PumpMoves, ResumeMoves
<1>4. MainMoves(a)
  BY <1>1 DEF MainMoves
<1> QED BY <1>2, <1>3, <1>4 DEF Moves

(* The main task takes a place at the lock. *)
LEMMA MainTakesPlace ==
  ASSUME Ready, Running(Main), act[Main].step = "next",
         NEW locals \in Acts, NEW u \in Uses, Locks(Main, u, locals),
         UNCHANGED <<remaining, resumedOpen>>,
         \/ u # "close" /\ Ordered(todo')
         \/ /\ u = "close" /\ todo # <<>> /\ todo[1].op = "close"
            /\ locals.market = todo[1].market /\ todo' = Tail(todo),
         u = "gap" => /\ locals.market \in Market
                      /\ tracked[locals.market].capture = 0 /\ tracked[locals.market].gaps = {},
         u = "checkpoint" => \A m \in locals.targets : tracked[m].complete
  PROVE  \E a : Moves(Main, a)
<1> DEFINE a == [locals EXCEPT !.step = IF lock = <<>> THEN "locked" ELSE "lock", !.use = u]
<1>1. /\ a.step = (IF lock = <<>> THEN "locked" ELSE "lock") /\ a.use = u
      /\ a.market = locals.market /\ a.targets = locals.targets
  BY DEF Acts
<1>2. Moved(Main, a) /\ lock' = Append(lock, Main)
  BY DEF Locks, Moved
<1> HIDE DEF a
<1>3. a.step \in {"lock", "locked"} /\ \A v : AtLock(a, v) <=> u = v
  BY <1>1 DEF AtLock
<1>4. ~InLock(act[Main]) /\ \A v : ~AtLock(act[Main], v)
  BY DEF InLock, AtLock
<1>5. LockMoves(Main, a)
  BY <1>1, <1>2, <1>4 DEF LockMoves
<1>6. PumpMoves(Main, a)
  BY <1>1, <1>3 DEF PumpMoves, ResumeMoves
<1>7. MainMoves(a)
  BY <1>1, <1>3, <1>4 DEF MainMoves
<1>8. Moves(Main, a)
  BY <1>2, <1>5, <1>6, <1>7 DEF Moves
<1> QED BY <1>8

(* The calls left are in order, whatever a call other than a close puts first. *)
LEMMA DoneIsOrdered ==
  ASSUME Ready, NEW op, NextIs(op), op # "close",
         NEW calls \in Seq(Callable), Ordered(calls), Done(calls)
  PROVE  Ordered(todo')
<1>1. failed = "no" /\ todo # <<>> /\ todo[1].op = op
  BY MarketsAreTasks, Runs DEF NextIs
<1>2. MainInv /\ todo \in Seq(Callable)
  BY <1>1, ReadyFacts DEF TasksOK
<1>3. Ordered(Tail(todo)) /\ Tail(todo) \in Seq(Callable)
  BY <1>1, <1>2, OrderedTail
<1> QED BY <1>3, OrderedConcat DEF Done

LEMMA HandleControlTame ==
  ASSUME Ready, HandleControl
  PROVE  TameStep(Main)
<1> USE DEF resumeVars, archiveVars
<1> DEFINE c == Head(control)
           a == [act[Main] EXCEPT !.step = "next"]
<1>1. /\ RecorderTypes /\ Main \in Tasks /\ Running(Main) /\ act[Main].step = "idle"
      /\ act[Main] \in Acts /\ failed = "no"
  BY MarketsAreTasks, Runs DEF Ready, RecorderTypes, TasksOK, PlacedActs, HandleControl
<1>2. a.step = "next" /\ Moved(Main, a)
  BY <1>1 DEF Acts, Moved, Go, HandleControl
<1> HIDE DEF a
<1>3. c.market \in Market
  <2>1. control \in Seq(Controls) /\ control # <<>>
    BY <1>1 DEF RecorderTypes, TasksOK, HandleControl
  <2>2. c \in Controls
    BY <2>1
  <2> QED BY <2>2 DEF Controls
<1>4. todo' = todo \/ Ordered(todo')
  <2>1. Ordered(Calls("close", <<c.market>>)) /\ Ordered(Restart(c.market))
    BY <1>3, CallsAreOrdered, CallsAreCalls DEF Ops
  <2> QED BY <2>1 DEF HandleControl, AfterResolution
<1>5. Moves(Main, a)
  BY <1>1, <1>2, <1>4, MainGoesOn DEF HandleControl
<1>6. \A m \in Market : Tame(m)
  BY <1>1, CapturesTame DEF HandleControl
<1>7. failed' # "refused"
  BY <1>1 DEF HandleControl
<1> QED BY <1>1, <1>5, <1>6, <1>7 DEF TameStep, ArchiveStands, Offers, HandleControl

LEMMA TickTame ==
  ASSUME Ready, Tick
  PROVE  TameStep(Main)
<1> USE DEF Tick, resumeVars, archiveVars
<1> DEFINE a == [act[Main] EXCEPT !.step = "next"]
<1>1. /\ RecorderTypes /\ Main \in Tasks /\ Running(Main) /\ act[Main].step = "idle"
      /\ act[Main] \in Acts /\ failed = "no"
  BY MarketsAreTasks, Runs DEF Ready, RecorderTypes, TasksOK, PlacedActs
<1>2. a.step = "next" /\ Moved(Main, a)
  BY <1>1 DEF Acts, Moved, Go
<1> HIDE DEF a
<1>3. Ordered(todo')
  <2>1. PICK timer \in {<<>>, Call("checkpoint")} :
          todo' = Calls("detect", InOrder) \o Call("ensure") \o timer
    OBVIOUS
  <2>2. /\ Calls("detect", InOrder) \in Seq(Callable) /\ Ordered(Calls("detect", InOrder))
        /\ Call("ensure") \in Seq(Callable) /\ Ordered(Call("ensure"))
        /\ Call("checkpoint") \in Seq(Callable) /\ Ordered(Call("checkpoint"))
    BY CallsAreCalls, CallsAreOrdered DEF Ops
  <2>3. timer \in Seq(Callable) /\ Ordered(timer)
    <3>1. timer = <<>> \/ timer = Call("checkpoint")
      OBVIOUS
    <3>2. <<>> \in Seq(Callable) /\ Ordered(<<>>)
      BY CallsAreOrdered
    <3> QED BY <2>2, <3>1, <3>2
  <2>4. PICK d, e : d = Calls("detect", InOrder) /\ e = Call("ensure")
    OBVIOUS
  <2>5. d \in Seq(Callable) /\ Ordered(d) /\ e \in Seq(Callable) /\ Ordered(e)
    BY <2>2, <2>4
  <2>6. d \o e \in Seq(Callable) /\ Ordered(d \o e)
    BY <2>5, OrderedConcat
  <2>7. Ordered((d \o e) \o timer)
    BY <2>3, <2>6, OrderedConcat
  <2> QED BY <2>1, <2>4, <2>7
<1>4. Moves(Main, a)
  BY <1>1, <1>2, <1>3, MainGoesOn
<1>5. \A m \in Market : Tame(m)
  BY <1>1, CapturesTame
<1> QED BY <1>1, <1>4, <1>5 DEF TameStep, ArchiveStands, Offers

LEMMA ReconcileTame ==
  ASSUME Ready, NEW m \in Market, Reconcile(m)
  PROVE  TameStep(Main)
<1> USE DEF Reconcile, resumeVars, archiveVars
<1> DEFINE a == [act[Main] EXCEPT !.step = "next"]
<1>1. /\ RecorderTypes /\ Main \in Tasks /\ Running(Main) /\ act[Main].step = "idle"
      /\ act[Main] \in Acts /\ failed = "no"
  BY MarketsAreTasks, Runs DEF Ready, RecorderTypes, TasksOK, PlacedActs
<1>2. a.step = "next" /\ Moved(Main, a)
  BY <1>1 DEF Acts, Moved, Go
<1> HIDE DEF a
<1>3. Ordered(todo')
  <2>1. PICK g, c : g = Calls("gamma", <<m>>) /\ c = Calls("close", <<m>>)
    OBVIOUS
  <2>2. g \in Seq(Callable) /\ Ordered(g) /\ c \in Seq(Callable) /\ Ordered(c)
    BY <2>1, CallsAreCalls, CallsAreOrdered DEF Ops
  <2>3. Ordered(g \o c)
    BY <2>2, OrderedConcat
  <2> QED BY <2>1, <2>3
<1>4. Moves(Main, a)
  BY <1>1, <1>2, <1>3, MainGoesOn
<1>5. \A n \in Market : Tame(n)
  BY <1>1, CapturesTame
<1> QED BY <1>1, <1>4, <1>5 DEF TameStep, ArchiveStands, Offers

LEMMA MainIdlesTame ==
  ASSUME Ready, MainIdles
  PROVE  TameStep(Main)
<1> USE DEF MainIdles, resumeVars, archiveVars
<1> DEFINE a == [act[Main] EXCEPT !.step = "idle"]
<1>1. /\ RecorderTypes /\ Main \in Tasks /\ Running(Main) /\ act[Main].step = "next"
      /\ act[Main] \in Acts /\ failed = "no"
  BY MarketsAreTasks, Runs DEF Ready, RecorderTypes, TasksOK, PlacedActs
<1>2. a.step = "idle" /\ Moved(Main, a)
  BY <1>1 DEF Acts, Moved, Go
<1> HIDE DEF a
<1>3. Moves(Main, a)
  BY <1>1, <1>2, MainGoesOn
<1>4. \A m \in Market : Tame(m)
  BY <1>1, CapturesTame
<1> QED BY <1>1, <1>3, <1>4 DEF TameStep, ArchiveStands, Offers

LEMMA EnsureCapturesTame ==
  ASSUME Ready, EnsureCaptures
  PROVE  TameStep(Main)
<1> USE DEF resumeVars, archiveVars
<1>1. PICK op \in {"ensure", "open"} :
        NextIs(op) /\ Done(IF op = "ensure" THEN Calls("open", InOrder) ELSE <<>>)
  BY DEF EnsureCaptures
<1>2. /\ RecorderTypes /\ Main \in Tasks /\ Running(Main) /\ act[Main].step = "next"
      /\ failed = "no"
  BY <1>1, MarketsAreTasks, Runs DEF Ready, NextIs
<1>3. Ordered(todo')
  <2>1. /\ <<>> \in Seq(Callable) /\ Calls("open", InOrder) \in Seq(Callable)
        /\ Ordered(<<>>) /\ Ordered(Calls("open", InOrder))
    BY CallsAreCalls, CallsAreOrdered DEF Ops
  <2>2. CASE op = "ensure"
    BY <1>1, <2>1, <2>2, DoneIsOrdered
  <2>3. CASE op = "open"
    BY <1>1, <2>1, <2>3, DoneIsOrdered
  <2> QED BY <2>2, <2>3
<1>4. \E a : Moves(Main, a)
  <2>1. CASE act' = act
    <3>1. Moved(Main, act[Main])
      BY <1>2, <2>1, MovesToSelf DEF RecorderTypes
    <3>2. Moves(Main, act[Main])
      BY <1>2, <1>3, <3>1, MainGoesOn DEF EnsureCaptures
    <3> QED BY <3>2
  <2>2. CASE act' # act
    <3> DEFINE a == [Idle EXCEPT !.step = "opening", !.market = Target]
    <3>1. NextIs("open") /\ Uncaptured(Target) /\ Moved(Main, a)
      BY <2>2 DEF EnsureCaptures, Moved
    <3>2. Target \in Market
      BY <1>2, <3>1, NextCall DEF Ops
    <3>3. a.step = "opening" /\ a.market = Target
      BY DEF Idle
    <3> HIDE DEF a
    <3>4. ~InLock(a) /\ ~InLock(act[Main]) /\ \A u : ~AtLock(a, u) /\ ~AtLock(act[Main], u)
      BY <1>2, <3>3 DEF InLock, AtLock
    <3>5. LockMoves(Main, a)
      BY <3>4 DEF LockMoves, Holding, InLock, EnsureCaptures
    <3>6. PumpMoves(Main, a)
      BY <1>2, <3>3, <3>4 DEF PumpMoves, ResumeMoves, EnsureCaptures
    <3>7. MainMoves(a)
      BY <1>3, <3>1, <3>2, <3>3, <3>4 DEF MainMoves, Uncaptured
    <3>8. Moves(Main, a)
      BY <3>1, <3>5, <3>6, <3>7 DEF Moves
    <3> QED BY <3>8
  <2> QED BY <2>1, <2>2
<1>5. \A m \in Market : Tame(m)
  BY <1>2, CapturesTame DEF EnsureCaptures
<1> QED BY <1>2, <1>4, <1>5 DEF TameStep, ArchiveStands, Offers, EnsureCaptures

LEMMA CaptureRefusedTame ==
  ASSUME Ready, CaptureRefused
  PROVE  TameStep(Main)
<1> USE DEF CaptureRefused, resumeVars, archiveVars
<1> DEFINE a == [act[Main] EXCEPT !.step = "next"]
<1>1. /\ RecorderTypes /\ Main \in Tasks /\ Running(Main) /\ act[Main].step = "opening"
      /\ act[Main] \in Acts /\ failed = "no"
  BY MarketsAreTasks, Runs DEF Ready, RecorderTypes, TasksOK, PlacedActs
<1>2. a.step = "next" /\ Moved(Main, a)
  BY <1>1 DEF Acts, Moved, Go
<1> HIDE DEF a
<1>3. ~InLock(a) /\ ~InLock(act[Main]) /\ \A u : ~AtLock(a, u) /\ ~AtLock(act[Main], u)
  BY <1>1, <1>2 DEF InLock, AtLock
<1>4. LockMoves(Main, a)
  BY <1>3 DEF LockMoves, Holding, InLock
<1>5. PumpMoves(Main, a)
  BY <1>1, <1>2, <1>3 DEF PumpMoves, ResumeMoves
<1>6. MainMoves(a)
  BY <1>1, <1>2, <1>3 DEF MainMoves
<1>7. Moves(Main, a)
  BY <1>2, <1>4, <1>5, <1>6 DEF Moves
<1>8. \A m \in Market : Tame(m)
  BY <1>1, CapturesTame
<1> QED BY <1>1, <1>7, <1>8 DEF TameStep, ArchiveStands, Offers

LEMMA DetectDropsTame ==
  ASSUME Ready, DetectDrops
  PROVE  TameStep(Main)
<1> USE DEF resumeVars, archiveVars
<1>1. /\ RecorderTypes /\ Main \in Tasks /\ Running(Main) /\ act[Main].step = "next"
      /\ failed = "no" /\ Target \in Market
  BY MarketsAreTasks, Runs, NextCall DEF Ready, NextIs, DetectDrops, Ops
<1>2. Ordered(todo')
  <2>1. /\ <<>> \in Seq(Callable) /\ Restart(Target) \in Seq(Callable)
        /\ Ordered(<<>>) /\ Ordered(Restart(Target))
    BY <1>1, CallsAreCalls, CallsAreOrdered
  <2>2. Done(<<>>) \/ Done(Restart(Target))
    BY DEF DetectDrops
  <2> QED BY <2>1, <2>2, DoneIsOrdered DEF DetectDrops
<1>3. Moved(Main, act[Main])
  BY <1>1, MovesToSelf DEF RecorderTypes, DetectDrops
<1>4. Moves(Main, act[Main])
  BY <1>1, <1>2, <1>3, MainGoesOn DEF DetectDrops
<1>5. tracked' = tracked \/ tracked' = [tracked EXCEPT ![Target].seen = handle[Target].dropped]
  BY DEF DetectDrops
<1>6. \A m \in Market : Tame(m)
  BY <1>1, <1>5, PendingStands, TrackedTame DEF DetectDrops
<1> QED BY <1>1, <1>4, <1>6 DEF TameStep, ArchiveStands, Offers, DetectDrops

LEMMA OpenGapTame ==
  ASSUME Ready, OpenGap
  PROVE  TameStep(Main)
<1> USE DEF resumeVars, archiveVars
<1>1. PICK op \in {"gap", "regap"} : NextIs(op)
  BY DEF OpenGap
<1>2. /\ RecorderTypes /\ Main \in Tasks /\ Running(Main) /\ act[Main].step = "next"
      /\ failed = "no" /\ Target \in Market
  BY <1>1, MarketsAreTasks, Runs, NextCall DEF Ready, NextIs, Ops
<1>3. MainInv /\ Done(<<>>)
  BY <1>2, ReadyFacts DEF OpenGap
<1>4. Ordered(todo')
  <2>1. <<>> \in Seq(Callable) /\ Ordered(<<>>)
    BY CallsAreOrdered
  <2> QED BY <1>1, <1>3, <2>1, DoneIsOrdered
<1>5. \E a : Moves(Main, a)
  <2>1. CASE UNCHANGED <<lock, act>>
    <3>1. Moved(Main, act[Main])
      BY <1>2, <2>1, MovesToSelf DEF RecorderTypes
    <3>2. Moves(Main, act[Main])
      BY <1>2, <1>4, <2>1, <3>1, MainGoesOn DEF OpenGap
    <3> QED BY <3>2
  <2>2. CASE /\ GapWanted(Head(todo).op, Target)
             /\ Locks(Main, "gap", [Idle EXCEPT !.market = Target, !.at = tracked[Target].observed])
    <3> DEFINE l == [Idle EXCEPT !.market = Target, !.at = tracked[Target].observed]
    <3>1. tracked[Target].observed \in Nat
      BY <1>2 DEF RecorderTypes, CapturesOK, Tracked
    <3>2. l \in Acts /\ l.market = Target
      BY <1>2, <3>1, MarketsAreTasks, IdleActs DEF Acts, Idle
    <3> HIDE DEF l
    <3>3. Locks(Main, "gap", l)
      BY <2>2 DEF l
    <3>4. tracked[Target].gaps = {}
      BY <2>2 DEF GapWanted
    <3>5. tracked[Target].capture = 0
      <4>1. todo # <<>> /\ todo[1].op = op /\ Target = todo[1].market
        BY <1>1 DEF NextIs, Target
      <4>2. Uncapturing(todo[1].market)
        BY <1>3, <4>1 DEF MainInv, Regaps
      <4> QED BY <1>2, <4>1, <4>2 DEF Uncapturing, AtLock
    <3> QED BY <1>2, <1>4, <3>2, <3>3, <3>4, <3>5, MainTakesPlace DEF OpenGap, Uses
  <2> QED BY <2>1, <2>2 DEF OpenGap
<1>6. \A m \in Market : Tame(m)
  BY <1>2, CapturesTame DEF OpenGap
<1> QED BY <1>2, <1>5, <1>6 DEF TameStep, ArchiveStands, Offers, OpenGap

LEMMA CheckpointTimerTame ==
  ASSUME Ready, CheckpointTimer
  PROVE  TameStep(Main)
<1> USE DEF resumeVars, archiveVars
<1> DEFINE targets == {m \in Market : CanCheckpoint(m)}
           l == [Idle EXCEPT !.targets = targets]
<1>1. /\ RecorderTypes /\ Main \in Tasks /\ Running(Main) /\ act[Main].step = "next"
      /\ failed = "no" /\ NextIs("checkpoint") /\ Done(<<>>)
  BY MarketsAreTasks, Runs DEF Ready, NextIs, CheckpointTimer
<1>2. Ordered(todo')
  <2>1. <<>> \in Seq(Callable) /\ Ordered(<<>>)
    BY CallsAreOrdered
  <2> QED BY <1>1, <2>1, DoneIsOrdered
<1>3. \E a : Moves(Main, a)
  <2>1. CASE UNCHANGED <<lock, act>>
    <3>1. Moved(Main, act[Main])
      BY <1>1, <2>1, MovesToSelf DEF RecorderTypes
    <3>2. Moves(Main, act[Main])
      BY <1>1, <1>2, <2>1, <3>1, MainGoesOn DEF CheckpointTimer
    <3> QED BY <3>2
  <2>2. CASE Locks(Main, "checkpoint", l)
    <3>1. targets \in SUBSET Market /\ \A m \in targets : tracked[m].complete
      BY DEF CanCheckpoint
    <3> HIDE DEF targets
    <3>2. l \in Acts /\ l.targets = targets
      BY <3>1, IdleActs DEF Acts, Idle
    <3> HIDE DEF l
    <3> QED BY <1>1, <1>2, <2>2, <3>1, <3>2, MainTakesPlace DEF CheckpointTimer, Uses
  <2> QED BY <2>1, <2>2 DEF CheckpointTimer
<1>4. \A m \in Market : Tame(m)
  BY <1>1, CapturesTame DEF CheckpointTimer
<1> QED BY <1>1, <1>3, <1>4 DEF TameStep, ArchiveStands, Offers, CheckpointTimer

LEMMA GammaLocksTame ==
  ASSUME Ready, GammaLocks
  PROVE  TameStep(Main)
<1> USE DEF GammaLocks, resumeVars, archiveVars
<1> DEFINE l == [Idle EXCEPT !.market = Target]
<1>1. /\ RecorderTypes /\ Main \in Tasks /\ Running(Main) /\ act[Main].step = "next"
      /\ failed = "no" /\ Target \in Market
  BY MarketsAreTasks, Runs, NextCall DEF Ready, NextIs, Ops
<1>2. Ordered(todo')
  <2>1. <<>> \in Seq(Callable) /\ Ordered(<<>>)
    BY CallsAreOrdered
  <2> QED BY <2>1, DoneIsOrdered
<1>3. l \in Acts
  BY <1>1, IdleActs
<1> HIDE DEF l
<1>4. Locks(Main, "gamma", l)
  BY DEF l
<1>5. \E a : Moves(Main, a)
  BY <1>1, <1>2, <1>3, <1>4, MainTakesPlace DEF Uses
<1>6. \A m \in Market : Tame(m)
  BY <1>1, CapturesTame
<1> QED BY <1>1, <1>5, <1>6 DEF TameStep, ArchiveStands, Offers

LEMMA CloseLocksTame ==
  ASSUME Ready, CloseLocks
  PROVE  TameStep(Main)
<1> USE DEF CloseLocks, resumeVars, archiveVars
<1> DEFINE l == [Idle EXCEPT !.market = Target]
<1>1. /\ RecorderTypes /\ Main \in Tasks /\ Running(Main) /\ act[Main].step = "next"
      /\ failed = "no" /\ Target \in Market
  BY MarketsAreTasks, Runs, NextCall DEF Ready, NextIs, Ops
<1>2. /\ todo # <<>> /\ todo[1].op = "close" /\ Target = todo[1].market
      /\ todo' = Tail(todo)
  <2>1. Tail(todo) \in Seq(Callable) /\ todo # <<>>
    BY <1>1 DEF RecorderTypes, TasksOK, NextIs
  <2>2. <<>> \o Tail(todo) = Tail(todo)
    BY <2>1
  <2> QED BY <2>1, <2>2 DEF NextIs, Target, Done
<1>3. l \in Acts /\ l.market = Target
  BY <1>1, IdleActs DEF Idle
<1> HIDE DEF l
<1>4. Locks(Main, "close", l)
  BY DEF l
<1>5. \E a : Moves(Main, a)
  BY <1>1, <1>2, <1>3, <1>4, MainTakesPlace DEF Uses
<1>6. \A m \in Market : Tame(m)
  BY <1>1, CapturesTame
<1> QED BY <1>1, <1>5, <1>6 DEF TameStep, ArchiveStands, Offers

-----------------------------------------------------------------------------
(* The main task holds the lock. *)
LEMMA MainLetsGo ==
  ASSUME Ready, Running(Main), Holding(act[Main]), NEW a, Moved(Main, a),
         a.step \in {"next", "own", "closing"}, lock' = Tail(lock),
         UNCHANGED <<todo, remaining, resumedOpen>>, ~AtLock(act[Main], "close")
  PROVE  Moves(Main, a)
<1>1. ~InLock(a) /\ \A u : ~AtLock(a, u)
  BY DEF InLock, AtLock
<1>2. LockMoves(Main, a)
  BY <1>1 DEF LockMoves
<1>3. PumpMoves(Main, a)
  BY <1>1 DEF PumpMoves, ResumeMoves, Holding
<1>4. MainMoves(a)
  BY <1>1 DEF MainMoves
<1> QED BY <1>2, <1>3, <1>4 DEF Moves

(* It queues a command and waits for it, still holding the lock. *)
LEMMA MainSubmits ==
  ASSUME Ready, Running(Main), act[Main].step = "locked", act[Main].use # "close",
         NEW c \in Commands, FoundedAtEnd(c), Bookless(c),
         NEW a, a.step \in {"gap_ack", "gamma_ack"},
         a.step = "gap_ack" => /\ a.market \in Market
                               /\ tracked[a.market].capture = 0 /\ tracked[a.market].gaps = {},
         Submits(Main, c, a), UNCHANGED <<lock, todo, remaining, resumedOpen>>, ArchiveStands,
         pump' = pump => \A m \in Market : Tame(m)
  PROVE  TameStep(Main)
<1>1. /\ RecorderTypes /\ Main \in Tasks /\ failed = "no" /\ Holding(act[Main])
  BY MarketsAreTasks, Runs DEF Ready, Holding
<1>2. /\ Offers
      /\ \/ Len(queue) < QueueSize /\ Moved(Main, a) /\ failed' = "no" /\ pump' = pump
         \/ ~(Len(queue) < QueueSize) /\ Raises(Main, "queue full")
  BY <1>1, SubmitsOffers
<1>3. CASE Moved(Main, a) /\ failed' = "no" /\ pump' = pump
  <2>1. InLock(a) /\ InLock(act[Main]) /\ ~AtLock(act[Main], "close") /\ \A u : ~AtLock(a, u)
    BY DEF InLock, AtLock
  <2>2. LockMoves(Main, a)
    BY <1>1, <2>1 DEF LockMoves
  <2>3. PumpMoves(Main, a)
    BY <2>1 DEF PumpMoves, ResumeMoves
  <2>4. MainMoves(a)
    BY <2>1 DEF MainMoves
  <2>5. Moves(Main, a)
    BY <1>3, <2>2, <2>3, <2>4 DEF Moves
  <2> QED BY <1>2, <1>3, <2>5 DEF TameStep
<1>4. CASE Raises(Main, "queue full")
  <2>1. pump' = pump
    BY <1>4 DEF Raises
  <2>2. failed' # "refused" /\ (Stops \/ \E b : Moves(Main, b))
    BY <1>1, <1>4, RaisesMoves
  <2> QED BY <1>2, <2>1, <2>2 DEF TameStep
<1> QED BY <1>2, <1>3, <1>4

LEMMA RecordGapTame ==
  ASSUME Ready, RecordGap
  PROVE  TameStep(Main)
<1> USE DEF Rest, resumeVars, archiveVars
<1> DEFINE m == act[Main].market
           e == [kind |-> "gap", market |-> m, gen |-> tracked[m].gen, rev |-> 0]
           c == [op |-> "open", by |-> Main, at |-> act[Main].at, entry |-> e]
           a == [act[Main] EXCEPT !.step = "gap_ack", !.at = Assigned + 1]
<1>1. /\ RecorderTypes /\ Main \in Tasks /\ Running(Main) /\ act[Main].step = "locked"
      /\ act[Main].use = "gap" /\ failed = "no"
  BY MarketsAreTasks, Runs DEF Ready, RecordGap, Holds
<1>2. act[Main] \in Acts /\ m \in Market /\ act[Main].at \in Nat /\ tracked[m] \in Tracked
  BY <1>1, MainHolds
<1>3. tracked[m].capture = 0 /\ tracked[m].gaps = {}
  BY <1>1, ReadyFacts DEF MainInv, AtLock
<1>4. c \in Commands /\ c.op = "open" /\ c.entry.kind = "gap" /\ c.entry.market = m
  <2>1. e \in Entry /\ e.kind = "gap" /\ e.market = m
    BY <1>2 DEF Entry, Tracked
  <2> HIDE DEF e
  <2>2. c \in OpenCommands /\ c.op = "open" /\ c.entry = e
    BY <1>1, <1>2, <2>1 DEF OpenCommands, GapEntry, Senders
  <2> QED BY <2>1, <2>2 DEF Commands
<1>5. a.step = "gap_ack" /\ a.market = m
  BY <1>2 DEF Acts
<1>6. Submits(Main, c, a)
  BY DEF RecordGap
<1> HIDE DEF a, c
<1>7. FoundedAtEnd(c) /\ Bookless(c)
  BY <1>3, <1>4 DEF FoundedAtEnd, Bookless
<1>8. pump' = pump => \A n \in Market : Tame(n)
  BY <1>1, CapturesTame DEF RecordGap
<1> QED BY <1>1, <1>2, <1>3, <1>4, <1>5, <1>6, <1>7, <1>8, MainSubmits
        DEF RecordGap, ArchiveStands

LEMMA RecordGammaTame ==
  ASSUME Ready, RecordGamma
  PROVE  TameStep(Main)
<1> USE DEF Rest, resumeVars, archiveVars
<1> DEFINE m == act[Main].market
<1>1. /\ RecorderTypes /\ Main \in Tasks /\ Running(Main) /\ act[Main].step = "locked"
      /\ act[Main].use = "gamma" /\ failed = "no"
  BY MarketsAreTasks, Runs DEF Ready, RecordGamma, Holds
<1>2. act[Main] \in Acts /\ m \in Market /\ act[Main].at \in Nat /\ tracked[m] \in Tracked
  BY <1>1, MainHolds
<1>3. CASE ~GammaClaims(m)
  <2> DEFINE a == [act[Main] EXCEPT !.step = "next"]
  <2>1. lock' = Tail(lock) /\ Go(Main, "next") /\ UNCHANGED <<tracked, queue, pump, failed>>
    BY <1>3 DEF RecordGamma, Releases
  <2>2. a.step = "next" /\ Moved(Main, a)
    BY <1>2, <2>1 DEF Acts, Moved, Go
  <2> HIDE DEF a
  <2>3. Moves(Main, a)
    BY <1>1, <2>1, <2>2, MainLetsGo DEF RecordGamma, Holding, AtLock
  <2>4. \A n \in Market : Tame(n)
    BY <1>1, <2>1, CapturesTame
  <2> QED BY <1>1, <2>1, <2>3, <2>4 DEF TameStep, ArchiveStands, Offers, RecordGamma
<1>4. CASE GammaClaims(m)
  <2> DEFINE e == [kind |-> "resolution", market |-> m, gen |-> tracked[m].gen,
                   rev |-> tracked[m].book]
             c == [op |-> "event", by |-> Main, entry |-> e]
             a == [act[Main] EXCEPT !.step = "gamma_ack", !.at = Assigned + 1]
  <2>1. /\ tracked' = [tracked EXCEPT ![m].claimed = TRUE]
        /\ Submits(Main, c, a) /\ UNCHANGED lock
    BY <1>4 DEF RecordGamma
  <2>2. c \in Commands /\ c.op = "event" /\ c.entry.kind = "resolution"
    <3>1. e \in Entry /\ e.kind = "resolution"
      BY <1>2 DEF Entry, Tracked
    <3> HIDE DEF e
    <3>2. c \in EventCommands /\ c.op = "event" /\ c.entry = e
      BY <1>1, <3>1 DEF EventCommands, Senders
    <3> QED BY <3>1, <3>2 DEF Commands
  <2>3. a.step = "gamma_ack"
    BY <1>2 DEF Acts
  <2> HIDE DEF a, c
  <2>4. FoundedAtEnd(c) /\ Bookless(c)
    BY <2>2 DEF FoundedAtEnd, Bookless
  <2>5. pump' = pump => \A n \in Market : Tame(n)
    BY <1>1, <1>2, <2>1, PendingStands, TrackedTame
  <2> QED BY <1>1, <2>1, <2>2, <2>3, <2>4, <2>5, MainSubmits DEF RecordGamma, ArchiveStands
<1> QED BY <1>3, <1>4

LEMMA GammaRecordedTame ==
  ASSUME Ready, GammaRecorded
  PROVE  TameStep(Main)
<1> USE DEF GammaRecorded, Rest, resumeVars, archiveVars
<1> DEFINE a == [act[Main] EXCEPT !.step = "own"]
<1>1. /\ RecorderTypes /\ Main \in Tasks /\ Running(Main) /\ act[Main].step = "gamma_ack"
      /\ failed = "no"
  BY MarketsAreTasks, Runs DEF Ready
<1>2. act[Main] \in Acts /\ act[Main].market \in Market
  BY <1>1, MainHolds
<1>3. a.step = "own" /\ Moved(Main, a)
  BY <1>2 DEF Acts, Moved, Go
<1> HIDE DEF a
<1>4. Moves(Main, a)
  BY <1>1, <1>3, MainLetsGo DEF Holding, AtLock, Releases
<1>5. \E x : tracked' = [tracked EXCEPT ![act[Main].market].observed = x]
  OBVIOUS
<1>6. \A m \in Market : Tame(m)
  BY <1>1, <1>2, <1>5, PendingStands, TrackedTame
<1> QED BY <1>1, <1>4, <1>6 DEF TameStep, ArchiveStands, Offers

-----------------------------------------------------------------------------
(* Steps that are not tame: the exchange, and a pump that reads *)

(* Steps that queue nothing and leave the archive. *)
LEMMA QuietIsTold ==
  ASSUME LosesNothing, \A m \in Market : Faithful(m),
         UNCHANGED <<queue, log, checkpoints>>, failed' = "refused" => failed = "refused"
  PROVE  Told
  BY DEF Told, Repeats

(* Steps that touch neither the queue, the archive nor the books. *)
LEMMA SameIsTold ==
  ASSUME UNCHANGED <<tracked, queue, log, checkpoints, failed>>
  PROVE  Told
<1>1. LosesNothing /\ \A m \in Market : Faithful(m)
  BY DEF LosesNothing, Faithful, BookStays
<1> QED BY <1>1, QuietIsTold

(* The archive's bounds stand with it. *)
LEMMA ArchiveBoundStands ==
  ASSUME BoundsInv, UNCHANGED <<queue, gaps, log>>, remaining' \subseteq resumedOpen'
  PROVE  ArchiveBounded'
  BY DEF BoundsInv, ArchiveBounded

(* A handle that is full drops its oldest message and counts it. *)
LEMMA DeliverBounds ==
  ASSUME RecorderTypes, CapturesBounded, NEW m \in Market, NEW msg \in Messages, Deliver(m, msg)
  PROVE  \A n \in Market : /\ Len(handle'[n].msgs) <= HandleCapacity
                           /\ handle[n].dropped <= handle'[n].dropped
                           /\ n # m => handle'[n] = handle[n]
<1> DEFINE h == handle[m]
           msgs == Append(h.msgs, msg)
           g == IF Len(msgs) <= HandleCapacity THEN [h EXCEPT !.msgs = msgs]
                ELSE [msgs |-> Tail(msgs), dropped |-> h.dropped + 1]
<1>1. h \in Handles /\ handle \in [Market -> Handles]
  BY DEF RecorderTypes, CapturesOK
<1>2. h.msgs \in Seq(Messages) /\ h.dropped \in Nat /\ Len(h.msgs) <= HandleCapacity
  BY <1>1 DEF Handles, CapturesBounded, CaptureBounded
<1>3. PICK k \in Nat : k = Len(h.msgs)
  BY <1>2
<1>4. msgs \in Seq(Messages) /\ Len(msgs) = k + 1 /\ Len(Tail(msgs)) = k
  <2>1. msgs \in Seq(Messages) /\ Len(msgs) = k + 1
    BY <1>2, <1>3
  <2> HIDE DEF msgs
  <2>2. msgs # <<>>
    BY <2>1
  <2> QED BY <2>1, <2>2
<1>5. handle' = [handle EXCEPT ![m] = g]
  BY DEF Deliver, msgs
<1> HIDE DEF msgs
<1>6. Len(g.msgs) <= HandleCapacity /\ h.dropped <= g.dropped
  <2>1. CASE Len(msgs) <= HandleCapacity
    <3>1. g.msgs = msgs /\ g.dropped = h.dropped
      BY <1>1, <2>1 DEF Handles
    <3> QED BY <1>2, <2>1, <3>1
  <2>2. CASE ~(Len(msgs) <= HandleCapacity)
    <3>1. g.msgs = Tail(msgs) /\ g.dropped = h.dropped + 1
      BY <2>2
    <3> QED BY <1>2, <1>3, <1>4, <3>1
  <2> QED BY <2>1, <2>2
<1> HIDE DEF g
<1> SUFFICES ASSUME NEW n \in Market
             PROVE  /\ Len(handle'[n].msgs) <= HandleCapacity
                    /\ handle[n].dropped <= handle'[n].dropped
                    /\ n # m => handle'[n] = handle[n]
  OBVIOUS
<1>7. CASE n = m
  BY <1>1, <1>5, <1>6, <1>7
<1>8. CASE n # m
  <2>1. handle'[n] = handle[n] /\ handle[n].dropped \in Nat
    BY <1>1, <1>5, <1>8 DEF Handles
  <2> QED BY <1>8, <2>1 DEF CapturesBounded, CaptureBounded
<1> QED BY <1>7, <1>8

(* The exchange delivers to markets that are captured. *)
LEMMA ExchangeSound ==
  ASSUME RecorderTypes, BoundsInv, ControlInv, NEW m \in Market,
         \/ handle' = handle
         \/ tracked[m].capture # 0 /\ \E msg \in Messages : Deliver(m, msg),
         \A n \in Market : revision'[n] <= MaxRevision[n],
         UNCHANGED <<tracked, pump, act, todo, control, lock, queue, archiveVars,
                     resumeVars, failures, failed>>
  PROVE  BoundsInv' /\ ControlInv' /\ Told
<1> USE DEF archiveVars, resumeVars
<1>1. CapturesStand
  BY DEF CapturesStand, BooksStand
<1>2. SchedulerInv' /\ ControlInv' /\ remaining' \subseteq resumedOpen'
  BY <1>1, ControlStands
<1>3. Told
  BY SameIsTold
<1>4. ArchiveBounded'
  BY <1>2, ArchiveBoundStands
<1>5. ASSUME NEW n \in Market PROVE CaptureBounded(n)'
  <2>1. CaptureBounded(n) /\ tracked[n].seen \in Nat /\ handle[n].dropped \in Nat
    BY DEF BoundsInv, CapturesBounded, RecorderTypes, CapturesOK, Tracked, Handles
  <2>2. CASE handle' = handle
    BY <2>1, <2>2 DEF CaptureBounded
  <2>3. ASSUME tracked[m].capture # 0, NEW msg \in Messages, Deliver(m, msg)
        PROVE  CaptureBounded(n)'
    <3>1. /\ Len(handle'[n].msgs) <= HandleCapacity
          /\ handle[n].dropped <= handle'[n].dropped
          /\ n # m => handle'[n] = handle[n]
      BY <2>3, DeliverBounds DEF BoundsInv
    <3>2. handle'[n].dropped \in Nat
      BY <2>3, DeliverKeeps DEF Handles
    <3>3. tracked[n].seen <= handle'[n].dropped
      BY <2>1, <3>1, <3>2 DEF CaptureBounded
    <3>4. tracked[n].complete \/ handle'[n].msgs # <<>> => tracked[n].gen # 0
      <4>1. CASE n = m
        BY <2>1, <2>3, <4>1 DEF CaptureBounded
      <4>2. CASE n # m
        BY <2>1, <3>1, <4>2 DEF CaptureBounded
      <4> QED BY <4>1, <4>2
    <3> QED BY <2>1, <3>1, <3>3, <3>4 DEF CaptureBounded
  <2> QED BY <2>2, <2>3
<1> QED BY <1>2, <1>3, <1>4, <1>5 DEF BoundsInv, CapturesBounded

(* A delta, or a resolution, is sent to the open captures. *)
LEMMA SendSound ==
  ASSUME Ready, NEW m \in Market, Send(m)
  PROVE  BoundsInv' /\ ControlInv' /\ Told
<1>1. RecorderTypes /\ BoundsInv /\ ControlInv
  BY DEF Ready
<1>2. /\ revision \in [Market -> Nat] /\ \A n \in Market : MaxRevision[n] \in Nat
      /\ \A n \in Market : revision[n] <= MaxRevision[n]
  BY <1>1, RecorderAssumption
     DEF RecorderTypes, CapturesOK, BoundsInv, CapturesBounded, CaptureBounded
<1>3. \A n \in Market : revision'[n] <= MaxRevision[n]
  BY <1>2 DEF Send
<1>4. \/ handle' = handle
      \/ tracked[m].capture # 0 /\ \E msg \in Messages : Deliver(m, msg)
  <2>1. [kind |-> "delta", rev |-> revision[m] + 1] \in Messages
    BY <1>2 DEF Messages
  <2> QED BY <2>1 DEF Send
<1> QED BY <1>1, <1>3, <1>4, ExchangeSound DEF Send

LEMMA SendResolutionSound ==
  ASSUME Ready, NEW m \in Market, SendResolution(m)
  PROVE  BoundsInv' /\ ControlInv' /\ Told
<1>1. RecorderTypes /\ BoundsInv /\ ControlInv
  BY DEF Ready
<1>2. \A n \in Market : revision'[n] <= MaxRevision[n]
  BY <1>1 DEF BoundsInv, CapturesBounded, CaptureBounded, SendResolution
<1>3. tracked[m].capture # 0 /\ \E msg \in Messages : Deliver(m, msg)
  <2>1. [kind |-> "resolution", rev |-> revision[m]] \in Messages
    BY <1>1 DEF Messages, RecorderTypes, CapturesOK
  <2> QED BY <2>1 DEF SendResolution
<1> QED BY <1>1, <1>2, <1>3, ExchangeSound DEF SendResolution

-----------------------------------------------------------------------------
(* What a pump makes of a message: the projector follows what is queued. *)
Projects(m, msg) ==
  /\ tracked'[m].gen = tracked[m].gen /\ tracked'[m].capture = tracked[m].capture
  /\ tracked'[m].gaps = tracked[m].gaps /\ tracked'[m].seen = tracked[m].seen
  /\ tracked[m].lost \subseteq tracked'[m].lost
  /\ tracked'[m].complete <=> tracked[m].complete \/ msg.kind = "base"
  /\ tracked'[m].book = IF msg.kind = "resolution" THEN tracked[m].book ELSE msg.rev

(* What a pump reads is projected. *)
LEMMA EnqueueProjects ==
  ASSUME RecorderTypes, NEW m \in Market, NEW msg \in Messages, EnqueueEvent(m, msg)
  PROVE  /\ Projects(m, msg)
         /\ \A n \in Market \ {m} : tracked'[n] = tracked[n]
         /\ Len(queue) >= QueueSize => tracked[m].gen \in tracked'[m].lost
<1> DEFINE full == Len(queue) >= QueueSize
           r == tracked[m]
           q0 == CASE msg.kind = "resolution" -> [r EXCEPT !.claimed = TRUE]
                   [] msg.kind = "base" -> [r EXCEPT !.complete = TRUE, !.book = msg.rev]
                   [] OTHER -> [r EXCEPT !.book = msg.rev]
           q == IF full THEN [q0 EXCEPT !.lost = q0.lost \cup {q0.gen}] ELSE q0
<1>1. r \in Tracked /\ tracked \in [Market -> Tracked]
  BY DEF RecorderTypes, CapturesOK
<1>2. msg.kind \in {"base", "delta", "resolution"} /\ msg.rev \in Nat
  BY DEF Messages
<1>3. /\ q0 \in Tracked /\ q0.gen = r.gen /\ q0.capture = r.capture /\ q0.gaps = r.gaps
      /\ q0.seen = r.seen /\ q0.lost = r.lost
      /\ q0.complete <=> r.complete \/ msg.kind = "base"
      /\ q0.book = IF msg.kind = "resolution" THEN r.book ELSE msg.rev
  <2>1. CASE msg.kind = "resolution"
    <3>1. q0 = [r EXCEPT !.claimed = TRUE]
      BY <2>1
    <3> HIDE DEF q0, r
    <3> QED BY <1>1, <2>1, <3>1 DEF Tracked
  <2>2. CASE msg.kind = "base"
    <3>1. q0 = [r EXCEPT !.complete = TRUE, !.book = msg.rev]
      BY <2>2
    <3> HIDE DEF q0, r
    <3> QED BY <1>1, <1>2, <2>2, <3>1 DEF Tracked
  <2>3. CASE msg.kind = "delta"
    <3>1. q0 = [r EXCEPT !.book = msg.rev]
      BY <2>3
    <3> HIDE DEF q0, r
    <3> QED BY <1>1, <1>2, <2>3, <3>1 DEF Tracked
  <2> QED BY <1>2, <2>1, <2>2, <2>3
<1>4. tracked' = [tracked EXCEPT ![m] = q]
  BY DEF EnqueueEvent
<1> HIDE DEF q0
<1>5. /\ q.gen = r.gen /\ q.capture = r.capture /\ q.gaps = r.gaps
      /\ q.seen = r.seen /\ r.lost \subseteq q.lost
      /\ q.complete = q0.complete /\ q.book = q0.book
      /\ full => r.gen \in q.lost
  BY <1>3 DEF Tracked
<1> HIDE DEF q
<1>6. tracked'[m] = q /\ \A n \in Market \ {m} : tracked'[n] = tracked[n]
  BY <1>1, <1>4
<1> QED BY <1>3, <1>5, <1>6 DEF Projects

(* What a pump projects it queues, or the generation is lost. *)
LEMMA EnqueueIsTold ==
  ASSUME Ready, NEW m \in Market, NEW msg \in Messages, EnqueueEvent(m, msg), Wanted(m),
         msg.kind = "delta" => tracked[m].complete,
         UNCHANGED <<log, checkpoints, failed>>
  PROVE  Told
<1> DEFINE entry == [kind |-> msg.kind, market |-> m, gen |-> tracked[m].gen, rev |-> msg.rev]
           c == [op |-> "event", by |-> "nobody", entry |-> entry]
<1>1. RecorderTypes /\ RecordsInv /\ CapturesBounded
  BY DEF Ready, BoundsInv
<1>2. /\ Projects(m, msg) /\ \A n \in Market \ {m} : tracked'[n] = tracked[n]
      /\ Len(queue) >= QueueSize => tracked[m].gen \in tracked'[m].lost
  BY <1>1, EnqueueProjects
<1>3. LosesNothing
  BY <1>2 DEF LosesNothing, Projects
<1>4. \A n \in Market \ {m} : Faithful(n)
  BY <1>2 DEF Faithful, BookStays
<1>5. CASE Len(queue) >= QueueSize
  <2>1. queue' = queue
    BY <1>5 DEF EnqueueEvent
  <2>2. Faithful(m)
    BY <1>2, <1>5 DEF Faithful, Projects
  <2> QED BY <1>3, <1>4, <2>1, <2>2, QuietIsTold
<1>6. CASE ~(Len(queue) >= QueueSize)
  <2>1. msg.kind \in {"base", "delta", "resolution"} /\ msg.rev \in Nat /\ tracked[m].gen \in Nat
    BY <1>1 DEF Messages, RecorderTypes, CapturesOK, Tracked
  <2>2. Queued(c)
    BY <1>6 DEF EnqueueEvent, Queued
  <2>3. /\ entry \in Entry /\ entry.kind = msg.kind /\ entry.market = m
        /\ entry.gen = tracked[m].gen /\ entry.rev = msg.rev
    BY <2>1 DEF Entry
  <2> HIDE DEF entry
  <2>4. c.op = "event" /\ c.entry = entry /\ c \in EventCommands
    BY <2>3 DEF EventCommands, Senders
  <2> HIDE DEF c
  <2>5. c \in Commands /\ TakesSequence(c)
    BY <2>4 DEF Commands, TakesSequence
  <2>6. FoundedAtEnd(c)
    <3>1. ASSUME msg.kind = "delta", tracked[m].gen \notin tracked[m].lost
          PROVE  HasBase(End, m, tracked[m].gen)
      <4>1. tracked[m].complete /\ tracked[m].capture # 0
        BY <1>1, <3>1 DEF Wanted, CapturesBounded, CaptureBounded
      <4> QED BY <1>1, <3>1, <4>1 DEF RecordsInv, Projected, End
    <3> QED BY <2>3, <2>4, <3>1 DEF FoundedAtEnd
  <2>7. \A n \in Market : Heard(n, c)
    <3>1. ASSUME NEW n \in Market \ {m} PROVE Heard(n, c)
      BY <1>4, <2>3, <2>4, <3>1 DEF Heard
    <3>2. Heard(m, c)
      <4>1. msg.kind = "resolution" => Faithful(m)
        BY <1>2 DEF Projects, Faithful, BookStays
      <4> QED BY <1>2, <2>1, <2>3, <2>4, <2>5, <4>1 DEF Heard, Projects
    <3> QED BY <3>1, <3>2
  <2> QED BY <1>3, <2>2, <2>5, <2>6, <2>7 DEF Told
<1> QED BY <1>5, <1>6

(* A message read leaves fewer; what is pending stays within its bound. *)
LEMMA ReadKeepsBounds ==
  ASSUME Ready, RecorderTypes', NEW m \in Market, handle[m].msgs # <<>>,
         handle' = [handle EXCEPT ![m].msgs = Tail(@)],
         UNCHANGED <<revision, gaps, log, remaining, resumedOpen>>,
         \A n \in Market \ {m} : tracked'[n] = tracked[n] /\ pump'[n] = pump[n],
         tracked'[m].gen = tracked[m].gen, tracked'[m].capture = tracked[m].capture,
         tracked'[m].gaps = tracked[m].gaps,
         tracked'[m].seen \in {tracked[m].seen, handle[m].dropped},
         Len(pump'[m].pending) <= MaxPending, Len(queue') <= QueueSize
  PROVE  CapturesBounded' /\ ArchiveBounded'
<1>1. RecorderTypes /\ CapturesBounded /\ ArchiveBounded
  BY DEF Ready, BoundsInv
<1>2. handle[m] \in Handles /\ handle \in [Market -> Handles]
  BY <1>1 DEF RecorderTypes, CapturesOK
<1>3. handle'[m] = [handle[m] EXCEPT !.msgs = Tail(handle[m].msgs)]
      /\ \A n \in Market \ {m} : handle'[n] = handle[n]
  BY <1>2
<1>4. handle'[m].dropped = handle[m].dropped /\ handle'[m].msgs = Tail(handle[m].msgs)
  BY <1>2, <1>3 DEF Handles
<1>5. handle[m].msgs \in Seq(Messages) /\ handle[m].dropped \in Nat
  BY <1>2 DEF Handles
<1>6. Len(handle'[m].msgs) <= HandleCapacity
  <2>1. PICK k \in Nat : k = Len(handle[m].msgs)
    BY <1>5
  <2>2. Len(Tail(handle[m].msgs)) = k - 1
    BY <1>5, <2>1
  <2>3. k <= HandleCapacity /\ HandleCapacity \in Nat
    BY <1>1, <2>1, RecorderAssumption DEF CapturesBounded, CaptureBounded
  <2> QED BY <1>4, <2>2, <2>3
<1>7. ASSUME NEW n \in Market PROVE CaptureBounded(n)'
  <2>1. CASE n = m
    <3>1. tracked[m].gen # 0
      BY <1>1 DEF CapturesBounded, CaptureBounded
    <3>2. tracked'[m].seen <= handle[m].dropped
      BY <1>1, <1>5 DEF CapturesBounded, CaptureBounded
    <3> QED BY <1>1, <1>4, <1>6, <2>1, <3>1, <3>2 DEF CapturesBounded, CaptureBounded
  <2>2. CASE n # m
    BY <1>1, <1>3, <2>2 DEF CapturesBounded, CaptureBounded
  <2> QED BY <2>1, <2>2
<1> QED BY <1>1, <1>7 DEF CapturesBounded, ArchiveBounded

(* A pump that reads keeps the invariant. *)
LEMMA PumpReadSound ==
  ASSUME Ready, RecorderTypes', NEW m \in Market, PumpRead(m)
  PROVE  BoundsInv' /\ ControlInv' /\ Told
<1> USE DEF resumeVars, archiveVars
<1> DEFINE msg == Head(handle[m].msgs)
<1>1. RecorderTypes /\ BoundsInv /\ ControlInv /\ CapturesBounded /\ ArchiveBounded
  BY DEF Ready, BoundsInv
<1>2. handle[m].msgs \in Seq(Messages) /\ handle[m].msgs # <<>> /\ msg \in Messages
  <2>1. handle[m].msgs \in Seq(Messages) /\ handle[m].msgs # <<>>
    BY <1>1 DEF RecorderTypes, CapturesOK, Handles, PumpRead
  <2> QED BY <2>1
<1>3. /\ UNCHANGED <<revision, act, todo, control, lock, log, gaps, checkpoints, remaining,
                     resumedOpen, failed>>
      /\ handle' = [handle EXCEPT ![m].msgs = Tail(@)]
      /\ Len(pump[m].pending) < MaxPending
  BY DEF PumpRead, Reads
<1>4. /\ tracked \in [Market -> Tracked] /\ pump \in [Market -> Pumps]
      /\ pump[m].pending \in Seq(Pending) /\ Len(pump[m].pending) \in Nat /\ MaxPending \in Nat
  BY <1>1, RecorderAssumption DEF RecorderTypes, CapturesOK, Pumps
<1> HIDE DEF msg
<1>5. /\ Told /\ CapturesStand
      /\ \A n \in Market \ {m} : tracked'[n] = tracked[n] /\ pump'[n] = pump[n]
      /\ tracked'[m].gen = tracked[m].gen /\ tracked'[m].capture = tracked[m].capture
      /\ tracked'[m].gaps = tracked[m].gaps
      /\ tracked'[m].seen \in {tracked[m].seen, handle[m].dropped}
      /\ Len(pump'[m].pending) <= MaxPending /\ Len(queue') <= QueueSize
  <2>1. CASE \/ pump' = [pump EXCEPT ![m].stop = "failure"] /\ UNCHANGED <<tracked, queue>>
             \/ pump' = [pump EXCEPT ![m].retired = TRUE] /\ UNCHANGED <<tracked, queue>>
    <3>1. pump'[m].pending = pump[m].pending /\ \A n \in Market \ {m} : pump'[n] = pump[n]
      <4>1. pump'[m] \in {[pump[m] EXCEPT !.stop = "failure"], [pump[m] EXCEPT !.retired = TRUE]}
            /\ pump[m] \in Pumps /\ \A n \in Market \ {m} : pump'[n] = pump[n]
        BY <1>4, <2>1
      <4> QED BY <4>1 DEF Pumps
    <3>2. Told
      BY <1>3, <2>1, SameIsTold
    <3>3. CapturesStand
      BY <2>1 DEF CapturesStand, BooksStand
    <3> QED BY <1>1, <1>3, <1>4, <2>1, <3>1, <3>2, <3>3 DEF ArchiveBounded
  <2>2. CASE /\ tracked' = [tracked EXCEPT ![m].seen = handle[m].dropped]
             /\ pump' = [pump EXCEPT ![m].stop = "drop"]
             /\ UNCHANGED queue
    <3>1. pump'[m].pending = pump[m].pending /\ \A n \in Market \ {m} : pump'[n] = pump[n]
      <4>1. pump'[m] = [pump[m] EXCEPT !.stop = "drop"]
            /\ pump[m] \in Pumps /\ \A n \in Market \ {m} : pump'[n] = pump[n]
        BY <1>4, <2>2
      <4> QED BY <4>1 DEF Pumps
    <3>2. /\ tracked'[m].gen = tracked[m].gen /\ tracked'[m].capture = tracked[m].capture
          /\ tracked'[m].gaps = tracked[m].gaps /\ tracked'[m].seen = handle[m].dropped
          /\ tracked'[m].complete = tracked[m].complete /\ tracked'[m].lost = tracked[m].lost
          /\ tracked'[m].book = tracked[m].book
          /\ \A n \in Market \ {m} : tracked'[n] = tracked[n]
      <4>1. tracked'[m] = [tracked[m] EXCEPT !.seen = handle[m].dropped]
            /\ tracked[m] \in Tracked /\ \A n \in Market \ {m} : tracked'[n] = tracked[n]
        BY <1>4, <2>2
      <4> QED BY <4>1 DEF Tracked
    <3>3. LosesNothing /\ \A n \in Market : Faithful(n)
      BY <3>2 DEF LosesNothing, Faithful, BookStays
    <3>4. Told
      BY <1>3, <2>2, <3>3, QuietIsTold
    <3>5. CapturesStand
      BY <3>2 DEF CapturesStand, BooksStand
    <3> QED BY <1>1, <1>3, <1>4, <2>2, <3>1, <3>2, <3>4, <3>5 DEF ArchiveBounded
  <2>3. CASE /\ ~(msg.kind = "delta" /\ ~tracked[m].complete) /\ Wanted(m)
             /\ EnqueueEvent(m, msg)
    <3>1. /\ Projects(m, msg) /\ \A n \in Market \ {m} : tracked'[n] = tracked[n]
      BY <1>1, <1>2, <2>3, EnqueueProjects
    <3>2. Told
      BY <1>2, <1>3, <2>3, EnqueueIsTold
    <3>3. CapturesStand
      BY <3>1 DEF CapturesStand, BooksStand, Projects
    <3>4. /\ \A n \in Market \ {m} : pump'[n] = pump[n]
          /\ Len(pump'[m].pending) <= MaxPending /\ Len(queue') <= QueueSize
      <4>1. CASE Len(queue) >= QueueSize
        <5>1. pump' = [pump EXCEPT ![m].stop = "fatal"] /\ queue' = queue
          BY <2>3, <4>1 DEF EnqueueEvent
        <5>2. pump'[m] = [pump[m] EXCEPT !.stop = "fatal"]
              /\ pump[m] \in Pumps /\ \A n \in Market \ {m} : pump'[n] = pump[n]
          BY <1>4, <5>1
        <5>3. pump'[m].pending = pump[m].pending
          BY <5>2 DEF Pumps
        <5> QED BY <1>1, <1>3, <1>4, <5>1, <5>2, <5>3 DEF ArchiveBounded
      <4>2. CASE ~(Len(queue) >= QueueSize)
        <5>1. /\ \E c : queue' = Append(queue, c)
              /\ \E x, y : pump' = [pump EXCEPT ![m].pending = Append(@, x), ![m].resolved = y]
          BY <2>3, <4>2 DEF EnqueueEvent
        <5>2. PICK x, y : pump' = [pump EXCEPT ![m].pending = Append(@, x), ![m].resolved = y]
          BY <5>1
        <5>3. pump'[m] = [pump[m] EXCEPT !.pending = Append(pump[m].pending, x), !.resolved = y]
              /\ pump[m] \in Pumps /\ \A n \in Market \ {m} : pump'[n] = pump[n]
          BY <1>4, <5>2
        <5>4. pump'[m].pending = Append(pump[m].pending, x)
          BY <5>3 DEF Pumps
        <5>5. Len(pump'[m].pending) = Len(pump[m].pending) + 1
          BY <1>4, <5>4
        <5>6. Len(queue') = Len(queue) + 1 /\ Len(queue) \in Nat /\ QueueSize \in Nat
          BY <1>1, <5>1, RecorderAssumption DEF RecorderTypes, ArchiveOK
        <5> QED BY <1>3, <1>4, <4>2, <5>3, <5>5, <5>6
      <4> QED BY <4>1, <4>2
    <3> QED BY <3>1, <3>2, <3>3, <3>4 DEF Projects
  <2> QED BY <2>1, <2>2, <2>3 DEF PumpRead, msg
<1>6. SchedulerInv' /\ ControlInv' /\ remaining' \subseteq resumedOpen'
  BY <1>1, <1>3, <1>5, ControlStands
<1>7. CapturesBounded' /\ ArchiveBounded'
  BY <1>2, <1>3, <1>5, ReadKeepsBounds
<1> QED BY <1>5, <1>6, <1>7 DEF BoundsInv

-----------------------------------------------------------------------------
(* Steps of the main task on a capture and its pump *)

(* Two tasks move, neither of which has a place at the lock. *)
LEMMA LockIsLetBe ==
  ASSUME SchedulerInv, LockInv, lock' = lock,
         \A u \in Tasks : act'[u].step \in Sync => u = Main,
         \A u \in Tasks : /\ InLock(act'[u]) <=> InLock(act[u])
                          /\ Holding(act'[u]) => Holding(act[u])
  PROVE  SchedulerInv' /\ LockInv'
<1>1. SchedulerInv'
  BY DEF SchedulerInv
<1>2. LockInv'
  BY DEF LockInv
<1> QED BY <1>1, <1>2

(* Between calls, what is left to do is all the main task knows. *)
LEMMA MainBetweenCalls ==
  ASSUME MainInv, act'[Main].step \in {"next", "closing", "draining"}, todo' = todo,
         todo # <<>> /\ Regaps(todo[1]) => tracked'[todo[1].market].capture = 0
  PROVE  MainInv'
<1>1. act'[Main].step \notin {"gap_ack", "opening"} /\ \A u : ~AtLock(act'[Main], u)
  BY DEF AtLock
<1>2. \A i \in 2..Len(todo) :
        Regaps(todo[i]) => todo[i - 1].op = "close" /\ todo[i - 1].market = todo[i].market
  BY DEF MainInv
<1> QED BY <1>1, <1>2 DEF MainInv, Uncapturing

(* The main task opens or closes the capture of a market, and nobody runs. *)
LEMMA MainAtMarket ==
  ASSUME Ready, NEW s \in {"opening", "closing", "draining"}, Awaiting(Main, s)
  PROVE  /\ RecorderTypes /\ TasksOK /\ BoundsInv /\ SchedulerInv /\ LockInv /\ PumpsInv /\ MainInv
         /\ failed = "no" /\ act[Main].step = s /\ act[Main] \in Acts
         /\ act[Main].market \in Market /\ Main \in Tasks /\ Market \subseteq Tasks
         /\ Main \notin Market
         /\ \A u \in Tasks : act[u].step \notin Sync
         /\ act \in [Tasks -> PlacedActs]
<1>1. failed = "no" /\ act[Main].step = s /\ \A u \in Tasks : act[u].step \notin Sync
  BY DEF Awaiting, Yielded
<1>2. RecorderTypes /\ TasksOK /\ BoundsInv /\ SchedulerInv /\ LockInv /\ PumpsInv /\ MainInv
  BY <1>1, ReadyFacts DEF Ready
<1>3. act[Main].market \in Market /\ act[Main] \in Acts
  BY <1>1, <1>2, MarketsAreTasks DEF TasksOK, PlacedActs, Unplaced
<1> QED BY <1>1, <1>2, <1>3, MarketsAreTasks DEF TasksOK

(* The bounds of captures the step does not open. *)
LEMMA CaptureBoundsStand ==
  ASSUME RecorderTypes, CapturesBounded, UNCHANGED <<revision, handle>>, NEW m \in Market,
         tracked'[m].gen = tracked[m].gen, tracked'[m].complete = tracked[m].complete,
         tracked'[m].seen = tracked[m].seen,
         tracked'[m].capture \in {tracked[m].capture, 0},
         \A g, h \in tracked'[m].gaps : g = h,
         pump' = pump \/ \E n \in Market : pump' = [pump EXCEPT ![n] = NoPump]
  PROVE  CaptureBounded(m)'
<1>1. CaptureBounded(m)
  BY DEF CapturesBounded
<1>2. Len(pump'[m].pending) <= MaxPending
  <2>1. MaxPending \in Nat /\ pump[m].pending \in Seq(Pending) /\ pump'[m] \in {pump[m], NoPump}
    BY RecorderAssumption DEF RecorderTypes, CapturesOK, Pumps
  <2> QED BY <1>1, <2>1 DEF CaptureBounded, NoPump
<1> QED BY <1>1, <1>2 DEF CaptureBounded

(* A capture is opened only where none is: nothing relied on the one before. *)
LEMMA CaptureOpensSound ==
  ASSUME Ready, CaptureOpens
  PROVE  BoundsInv' /\ ControlInv' /\ Told
<1> USE DEF resumeVars, archiveVars
<1> DEFINE m == act[Main].market
           r == tracked[m]
           q == [r EXCEPT !.gen = r.gen + 1, !.capture = r.gen + 1, !.complete = FALSE,
                          !.book = 0, !.seen = 0]
           h == [msgs |-> <<[kind |-> "base", rev |-> revision[m]]>>, dropped |-> 0]
           a == [Idle EXCEPT !.step = "reading"]
           b == [Idle EXCEPT !.step = "next"]
<1>1. Awaiting(Main, "opening")
  BY DEF CaptureOpens
<1>2. /\ RecorderTypes /\ TasksOK /\ BoundsInv /\ SchedulerInv /\ LockInv /\ PumpsInv /\ MainInv
      /\ failed = "no" /\ act[Main].step = "opening" /\ m \in Market /\ Main \in Tasks
      /\ Market \subseteq Tasks /\ Main \notin Market
      /\ \A u \in Tasks : act[u].step \notin Sync
      /\ act \in [Tasks -> PlacedActs]
  BY <1>1, MainAtMarket
<1>3. r.capture = 0 /\ act[m].step = "none" /\ (todo # <<>> => ~Regaps(todo[1]))
  <2>1. r.capture = 0 /\ (todo # <<>> => ~Regaps(todo[1]))
    BY <1>2 DEF MainInv
  <2> QED BY <1>2, <2>1 DEF PumpsInv, Closing
<1>4. r \in Tracked /\ r.gen \in Nat /\ tracked \in [Market -> Tracked]
  BY <1>2 DEF RecorderTypes, CapturesOK, Tracked
<1>5. /\ a.step = "reading" /\ a.market = Main /\ b.step = "next" /\ b.market = Main
      /\ act' = [act EXCEPT ![m] = a, ![Main] = b]
  BY DEF CaptureOpens, Idle
<1> HIDE DEF a, b
<1>6. /\ act'[m] = a /\ act'[Main] = b
      /\ \A u \in Tasks \ {m, Main} : act'[u] = act[u]
  BY <1>2, <1>5
<1>7. /\ UNCHANGED <<revision, todo, control, lock, queue, log, gaps, checkpoints, remaining,
                     resumedOpen, failed>>
      /\ pump' = [pump EXCEPT ![m] = NoPump]
  BY DEF CaptureOpens
<1>8. /\ tracked' = [tracked EXCEPT ![m] = q]
      /\ handle' = [handle EXCEPT ![m] = h]
  BY <1>2 DEF CaptureOpens, RecorderTypes, CapturesOK
<1>9. /\ q.gen = r.gen + 1 /\ q.capture = r.gen + 1 /\ ~q.complete /\ q.seen = 0
      /\ q.gaps = r.gaps /\ q.lost = r.lost
  <2> HIDE DEF r
  <2> QED BY <1>4 DEF Tracked
<1> HIDE DEF q
<1>10. /\ tracked'[m] = q /\ \A n \in Market \ {m} : tracked'[n] = tracked[n]
       /\ handle'[m] = h /\ \A n \in Market \ {m} : handle'[n] = handle[n]
  BY <1>2, <1>4, <1>8 DEF RecorderTypes, CapturesOK
<1>11. Len(h.msgs) <= HandleCapacity /\ h.dropped = 0
  <2>1. HandleCapacity \in Nat \ {0}
    BY RecorderAssumption
  <2>2. Len(h.msgs) = 1
    OBVIOUS
  <2> QED BY <2>1, <2>2
<1> HIDE DEF h
<1>12. CapturesBounded'
  <2> SUFFICES ASSUME NEW n \in Market PROVE CaptureBounded(n)'
    BY DEF CapturesBounded
  <2>1. CaptureBounded(n)
    BY <1>2 DEF BoundsInv, CapturesBounded
  <2>2. Len(pump'[n].pending) <= MaxPending
    <3>1. MaxPending \in Nat /\ pump[n].pending \in Seq(Pending) /\ pump'[n] \in {pump[n], NoPump}
      BY <1>2, <1>7, RecorderAssumption DEF RecorderTypes, CapturesOK, Pumps
    <3> QED BY <2>1, <3>1 DEF CaptureBounded, NoPump
  <2>3. CASE n = m
    <3>1. tracked'[m].seen <= handle'[m].dropped
      BY <1>9, <1>10, <1>11
    <3>2. tracked'[m].gen # 0
      BY <1>4, <1>9, <1>10
    <3> QED BY <1>7, <1>9, <1>10, <1>11, <2>1, <2>2, <2>3, <3>1, <3>2 DEF CaptureBounded
  <2>4. CASE n # m
    BY <1>7, <1>10, <2>1, <2>2, <2>4 DEF CaptureBounded
  <2> QED BY <2>3, <2>4
<1>13. ArchiveBounded'
  BY <1>2, <1>7, ArchiveBoundStands DEF BoundsInv, ArchiveBounded
<1>14. SchedulerInv' /\ LockInv'
  <2>1. \A u \in Tasks : act'[u].step \in Sync => u = Main
    BY <1>2, <1>5, <1>6 DEF Sync
  <2>2. \A u \in Tasks : /\ InLock(act'[u]) <=> InLock(act[u])
                         /\ Holding(act'[u]) => Holding(act[u])
    BY <1>2, <1>3, <1>5, <1>6 DEF InLock, Holding
  <2> QED BY <1>2, <1>7, <2>1, <2>2, LockIsLetBe
<1>15. PumpsInv'
  <2>1. \A u \in Tasks : act'[u].step \in {"lock", "locked", "resumed_ack"}
          => u # m /\ u # Main /\ act'[u] = act[u]
    BY <1>5, <1>6
  <2>2. \A n \in Market : act'[n].market \in {n, Main}
    BY <1>2, <1>5, <1>6 DEF PumpsInv
  <2>3. \A n \in Market : AtLock(act'[n], "checkpoint") => act'[n].targets \subseteq {n}
    BY <1>2, <2>1 DEF PumpsInv, AtLock
  <2>4. ASSUME NEW u \in Tasks, AtLock(act'[u], "checkpoint"), NEW n \in act'[u].targets
        PROVE  tracked'[n].complete
    <3>1. u \in Market /\ u # m /\ act'[u] = act[u]
      BY <2>1, <2>4 DEF AtLock, Tasks
    <3>2. n = u /\ tracked[n].complete
      BY <1>2, <2>4, <3>1 DEF PumpsInv
    <3> QED BY <1>10, <3>1, <3>2
  <2>5. /\ \A u \in Tasks : act'[u].step = "resumed_ack"
             => act'[u].market \in resumedOpen' \ remaining'
        /\ \A u, v \in Tasks :
             /\ act'[u].step = "resumed_ack" /\ act'[v].step = "resumed_ack"
             /\ act'[u].market = act'[v].market
             => u = v
    BY <1>2, <1>7, <2>1 DEF PumpsInv
  <2>6. ASSUME NEW n \in Market, tracked'[n].capture = 0 PROVE act'[n].step = "none"
    <3>1. n # m
      BY <1>4, <1>9, <1>10, <2>6
    <3>2. tracked[n].capture = 0 /\ ~Closing(n)
      BY <1>2, <1>10, <2>6, <3>1 DEF Closing
    <3>3. act[n].step = "none"
      BY <1>2, <3>2 DEF PumpsInv
    <3> QED BY <1>2, <1>6, <3>1, <3>3
  <2>7. act'[Main].step # "draining"
    BY <1>5, <1>6
  <2> QED BY <2>2, <2>3, <2>4, <2>5, <2>6, <2>7 DEF PumpsInv
<1>16. MainInv'
  BY <1>2, <1>3, <1>5, <1>6, <1>7, MainBetweenCalls
<1>17. Told
  <2>1. LosesNothing /\ \A n \in Market : Faithful(n)
    BY <1>9, <1>10 DEF LosesNothing, Faithful, BookStays
  <2> QED BY <1>7, <2>1, QuietIsTold
<1> QED BY <1>12, <1>13, <1>14, <1>15, <1>16, <1>17 DEF BoundsInv, ControlInv

(* A gap is opened where there was none. *)
LEMMA GapRecordedSound ==
  ASSUME Ready, GapRecorded
  PROVE  BoundsInv' /\ ControlInv' /\ Told
<1> USE DEF Rest, resumeVars, archiveVars
<1> DEFINE m == act[Main].market
           x == act[Main].at
           a == [act[Main] EXCEPT !.step = "next"]
<1>1. /\ Running(Main) /\ act[Main].step = "gap_ack" /\ failed = "no" /\ Main \in Tasks
  BY MarketsAreTasks, Runs DEF GapRecorded
<1>2. /\ RecorderTypes /\ TasksOK /\ SchedulerInv /\ LockInv /\ PumpsInv /\ MainInv
      /\ CapturesBounded /\ BoundsInv
  BY <1>1, ReadyFacts DEF Ready, BoundsInv
<1>3. act[Main] \in Acts /\ m \in Market /\ tracked[m] \in Tracked
  BY <1>1, <1>2, MainHolds
<1>4. a.step = "next" /\ Moved(Main, a)
  BY <1>3 DEF Acts, Moved, Go, GapRecorded
<1> HIDE DEF a
<1>5. tracked[m].capture = 0 /\ tracked[m].gaps = {}
  BY <1>1, <1>2 DEF MainInv
<1>6. /\ tracked' = [tracked EXCEPT ![m].gaps = @ \cup {x}]
      /\ lock' = Tail(lock)
      /\ UNCHANGED <<revision, handle, todo, control, log, gaps, checkpoints, pump, queue,
                     remaining, resumedOpen, failed>>
  BY DEF GapRecorded, Releases
<1>7. /\ tracked'[m].gen = tracked[m].gen /\ tracked'[m].capture = tracked[m].capture
      /\ tracked'[m].gaps = {x} /\ tracked'[m].seen = tracked[m].seen
      /\ tracked'[m].complete = tracked[m].complete /\ tracked'[m].lost = tracked[m].lost
      /\ tracked'[m].book = tracked[m].book
      /\ \A n \in Market \ {m} : tracked'[n] = tracked[n]
  <2>1. /\ tracked'[m] = [tracked[m] EXCEPT !.gaps = {x}]
        /\ \A n \in Market \ {m} : tracked'[n] = tracked[n]
    BY <1>2, <1>3, <1>5, <1>6 DEF RecorderTypes, CapturesOK
  <2> QED BY <1>3, <2>1 DEF Tracked
<1>8. BooksStand
  BY <1>7 DEF BooksStand
<1>9. LockMoves(Main, a)
  BY <1>1, <1>4, <1>6 DEF LockMoves, InLock, Holding
<1>10. SchedulerInv' /\ LockInv'
  BY <1>1, <1>2, <1>4, <1>9, LockGoes
<1>11. ~AtLock(a, "checkpoint")
  BY <1>4 DEF AtLock
<1>12. PumpMoves(Main, a)
  BY <1>1, <1>4, <1>6, <1>11 DEF PumpMoves, ResumeMoves
<1>13. PumpsInv' /\ remaining' \subseteq resumedOpen'
  BY <1>1, <1>2, <1>4, <1>8, <1>11, <1>12, PumpsGo, MarketsAreTasks DEF BoundsInv, ArchiveBounded
<1>14. MainInv'
  <2>1. act'[Main].step = "next"
    BY <1>1, <1>2, <1>4, MovedActs
  <2>2. todo # <<>> /\ Regaps(todo[1]) => tracked'[todo[1].market].capture = 0
    <3>1. todo # <<>> /\ Regaps(todo[1]) => tracked[todo[1].market].capture = 0
      BY <1>1, <1>2 DEF MainInv, Uncapturing, AtLock
    <3>2. todo # <<>> /\ Regaps(todo[1]) => todo[1].market \in Market
      <4>1. todo # <<>> => todo[1] \in Callable
        BY <1>2 DEF TasksOK
      <4> QED BY <4>1 DEF Callable, MainCalls, MarketCalls, Regaps
    <3> QED BY <1>8, <3>1, <3>2 DEF BooksStand
  <2> QED BY <1>2, <1>6, <2>1, <2>2, MainBetweenCalls
<1>15. Told
  <2>1. LosesNothing /\ \A n \in Market : Faithful(n)
    BY <1>7 DEF LosesNothing, Faithful, BookStays
  <2> QED BY <1>6, <2>1, QuietIsTold
<1>16. CapturesBounded' /\ ArchiveBounded'
  <2>1. \A n \in Market : \A g, h \in tracked[n].gaps : g = h
    BY <1>2 DEF CapturesBounded, CaptureBounded
  <2>2. ASSUME NEW n \in Market PROVE CaptureBounded(n)'
    <3>1. CASE n = m
      BY <1>2, <1>6, <1>7, <3>1, CaptureBoundsStand
    <3>2. CASE n # m
      BY <1>2, <1>6, <1>7, <2>1, <3>2, CaptureBoundsStand
    <3> QED BY <3>1, <3>2
  <2> QED BY <1>2, <1>6, <1>13, <2>2, ArchiveBoundStands DEF CapturesBounded
<1> QED BY <1>10, <1>13, <1>14, <1>15, <1>16 DEF BoundsInv, ControlInv

(* A capture is forgotten while its pump may wait for the lock: it is cancelled next. *)
LEMMA ForgetCaptureSound ==
  ASSUME Ready, ForgetCapture
  PROVE  BoundsInv' /\ ControlInv' /\ Told
<1> USE DEF Rest, resumeVars, archiveVars
<1> DEFINE m == act[Main].market
           a == [act[Main] EXCEPT !.step = "closing"]
<1>1. /\ Running(Main) /\ act[Main].step = "locked" /\ act[Main].use = "close"
      /\ failed = "no" /\ Main \in Tasks /\ Market \subseteq Tasks /\ Main \notin Market
  BY MarketsAreTasks, Runs DEF ForgetCapture, Holds
<1>2. /\ RecorderTypes /\ TasksOK /\ SchedulerInv /\ LockInv /\ PumpsInv /\ MainInv
      /\ CapturesBounded /\ BoundsInv
  BY <1>1, ReadyFacts DEF Ready, BoundsInv
<1>3. act[Main] \in Acts /\ m \in Market /\ tracked[m] \in Tracked
  BY <1>1, <1>2, MainHolds
<1>4. a.step = "closing" /\ a.market = m /\ Moved(Main, a)
  BY <1>3 DEF Acts, Moved, Go, ForgetCapture
<1> HIDE DEF a
<1>5. act'[Main] = a /\ \A u \in Tasks \ {Main} : act'[u] = act[u]
  BY <1>1, <1>2, <1>4, MovedActs
<1>6. /\ tracked' = [tracked EXCEPT ![m].capture = 0]
      /\ lock' = Tail(lock)
      /\ UNCHANGED <<revision, handle, todo, control, log, gaps, checkpoints, pump, queue,
                     remaining, resumedOpen, failed>>
  BY DEF ForgetCapture, Releases
<1>7. /\ tracked'[m].gen = tracked[m].gen /\ tracked'[m].capture = 0
      /\ tracked'[m].gaps = tracked[m].gaps /\ tracked'[m].seen = tracked[m].seen
      /\ tracked'[m].complete = tracked[m].complete /\ tracked'[m].lost = tracked[m].lost
      /\ tracked'[m].book = tracked[m].book
      /\ \A n \in Market \ {m} : tracked'[n] = tracked[n]
  <2>1. /\ tracked'[m] = [tracked[m] EXCEPT !.capture = 0]
        /\ \A n \in Market \ {m} : tracked'[n] = tracked[n]
    BY <1>2, <1>3, <1>6 DEF RecorderTypes, CapturesOK
  <2> QED BY <1>3, <2>1 DEF Tracked
<1>8. LockMoves(Main, a)
  BY <1>1, <1>4, <1>6 DEF LockMoves, InLock, Holding
<1>9. SchedulerInv' /\ LockInv'
  BY <1>1, <1>2, <1>4, <1>8, LockGoes
<1>10. PumpsInv'
  <2>1. \A u \in Tasks : act'[u].step \in {"lock", "locked", "resumed_ack"}
          => u # Main /\ act'[u] = act[u]
    BY <1>4, <1>5
  <2>2. \A n \in Market : act'[n] = act[n]
    BY <1>1, <1>5
  <2>3. \A n \in Market : tracked'[n].complete = tracked[n].complete
    BY <1>7
  <2>4. ASSUME NEW u \in Tasks, AtLock(act'[u], "checkpoint"), NEW n \in act'[u].targets
        PROVE  tracked'[n].complete
    <3>1. act'[u] = act[u] /\ act[u] \in Acts
      BY <1>2, <2>1, <2>4 DEF AtLock, TasksOK, PlacedActs
    <3>2. n \in Market /\ tracked[n].complete
      BY <1>2, <2>4, <3>1, ActFields DEF PumpsInv
    <3> QED BY <2>3, <3>2
  <2>5. ASSUME NEW n \in Market, tracked'[n].capture = 0, ~Closing(n)'
        PROVE  act'[n].step = "none"
    <3>1. n # m
      BY <1>4, <1>5, <2>5 DEF Closing
    <3>2. tracked[n].capture = 0 /\ ~Closing(n)
      BY <1>1, <1>7, <2>5, <3>1 DEF Closing
    <3> QED BY <1>2, <2>2, <3>2 DEF PumpsInv
  <2>6. act'[Main].step # "draining"
    BY <1>4, <1>5
  <2>7. /\ \A n \in Market : act'[n].market \in {n, Main}
        /\ \A n \in Market : AtLock(act'[n], "checkpoint") => act'[n].targets \subseteq {n}
        /\ \A u \in Tasks : act'[u].step = "resumed_ack"
             => act'[u].market \in resumedOpen' \ remaining'
        /\ \A u, v \in Tasks :
             /\ act'[u].step = "resumed_ack" /\ act'[v].step = "resumed_ack"
             /\ act'[u].market = act'[v].market
             => u = v
    BY <1>2, <1>6, <2>1, <2>2 DEF PumpsInv
  <2> QED BY <2>4, <2>5, <2>6, <2>7 DEF PumpsInv
<1>11. MainInv'
  <2>1. ASSUME todo # <<>>, Regaps(todo[1]) PROVE tracked'[todo[1].market].capture = 0
    <3>1. todo[1].market \in Market
      <4>1. todo[1] \in Callable
        BY <1>2, <2>1 DEF TasksOK
      <4> QED BY <2>1, <4>1 DEF Callable, MainCalls, MarketCalls, Regaps
    <3>2. tracked[todo[1].market].capture = 0 \/ todo[1].market = m
      BY <1>2, <2>1 DEF MainInv, Uncapturing
    <3> QED BY <1>7, <3>1, <3>2
  <2> QED BY <1>2, <1>4, <1>5, <1>6, <2>1, MainBetweenCalls
<1>12. Told
  <2>1. LosesNothing /\ \A n \in Market : Faithful(n)
    BY <1>7 DEF LosesNothing, Faithful, BookStays
  <2> QED BY <1>6, <2>1, QuietIsTold
<1>13. CapturesBounded' /\ ArchiveBounded'
  <2>1. \A n \in Market : \A g, h \in tracked[n].gaps : g = h
    BY <1>2 DEF CapturesBounded, CaptureBounded
  <2>2. ASSUME NEW n \in Market PROVE CaptureBounded(n)'
    <3>1. CASE n = m
      BY <1>2, <1>6, <1>7, <2>1, <3>1, CaptureBoundsStand
    <3>2. CASE n # m
      BY <1>2, <1>6, <1>7, <2>1, <3>2, CaptureBoundsStand
    <3> QED BY <3>1, <3>2
  <2>3. remaining' \subseteq resumedOpen'
    BY <1>2, <1>6 DEF BoundsInv, ArchiveBounded
  <2> QED BY <1>2, <1>6, <2>2, <2>3, ArchiveBoundStands DEF CapturesBounded
<1> QED BY <1>9, <1>10, <1>11, <1>12, <1>13 DEF BoundsInv, ControlInv

(* A pump that was cancelled is gone once its events are committed. *)
LEMMA PumpDrainedSound ==
  ASSUME Ready, PumpDrained
  PROVE  BoundsInv' /\ ControlInv' /\ Told
<1> USE DEF Rest, resumeVars, archiveVars
<1> DEFINE m == act[Main].market
           a == [act[Main] EXCEPT !.step = "next"]
<1>1. Awaiting(Main, "draining")
  BY DEF PumpDrained
<1>2. /\ RecorderTypes /\ TasksOK /\ BoundsInv /\ SchedulerInv /\ LockInv /\ PumpsInv /\ MainInv
      /\ failed = "no" /\ act[Main].step = "draining" /\ act[Main] \in Acts
      /\ m \in Market /\ Main \in Tasks
      /\ Market \subseteq Tasks /\ Main \notin Market
      /\ \A u \in Tasks : act[u].step \notin Sync
      /\ act \in [Tasks -> PlacedActs]
  BY <1>1, MainAtMarket
<1>3. act[m].step = "cancelled"
  BY <1>2 DEF PumpsInv
<1>4. a.step = "next" /\ a.market = m
  BY <1>2 DEF Acts
<1>5. act' = [act EXCEPT ![Main] = a, ![m] = Idle]
  BY <1>2 DEF PumpDrained
<1> HIDE DEF a
<1>6. act'[Main] = a /\ act'[m] = Idle /\ \A u \in Tasks \ {m, Main} : act'[u] = act[u]
  BY <1>2, <1>5
<1>7. Idle.step = "none" /\ Idle.market = Main
  BY DEF Idle
<1>8. /\ UNCHANGED <<revision, handle, tracked, todo, control, lock, queue, log, gaps,
                     checkpoints, remaining, resumedOpen, failed>>
      /\ pump' = [pump EXCEPT ![m] = NoPump]
  BY DEF PumpDrained
<1>9. SchedulerInv' /\ LockInv'
  <2>1. \A u \in Tasks : act'[u].step \in Sync => u = Main
    BY <1>2, <1>6, <1>7 DEF Sync
  <2>2. \A u \in Tasks : /\ InLock(act'[u]) <=> InLock(act[u])
                         /\ Holding(act'[u]) => Holding(act[u])
    BY <1>2, <1>3, <1>4, <1>6, <1>7 DEF InLock, Holding
  <2> QED BY <1>2, <1>8, <2>1, <2>2, LockIsLetBe
<1>10. PumpsInv'
  <2>1. \A u \in Tasks : act'[u].step \in {"lock", "locked", "resumed_ack", "draining"}
          => u # Main /\ act'[u] = act[u]
    BY <1>4, <1>6, <1>7
  <2>2. \A n \in Market : act'[n].market \in {n, Main}
    BY <1>2, <1>6, <1>7 DEF PumpsInv
  <2>3. \A n \in Market : AtLock(act'[n], "checkpoint") => act'[n].targets \subseteq {n}
    BY <1>2, <2>1 DEF PumpsInv, AtLock
  <2>4. \A u \in Tasks : AtLock(act'[u], "checkpoint")
          => \A n \in act'[u].targets : tracked'[n].complete
    BY <1>2, <1>8, <2>1 DEF PumpsInv, AtLock
  <2>5. /\ \A u \in Tasks : act'[u].step = "resumed_ack"
             => act'[u].market \in resumedOpen' \ remaining'
        /\ \A u, v \in Tasks :
             /\ act'[u].step = "resumed_ack" /\ act'[v].step = "resumed_ack"
             /\ act'[u].market = act'[v].market
             => u = v
    BY <1>2, <1>8, <2>1 DEF PumpsInv
  <2>6. ASSUME NEW n \in Market, tracked'[n].capture = 0, ~Closing(n)'
        PROVE  act'[n].step = "none"
    <3>1. CASE n = m
      BY <1>6, <1>7, <3>1
    <3>2. CASE n # m
      <4>1. tracked[n].capture = 0 /\ ~Closing(n)
        BY <1>8, <2>6, <3>2 DEF Closing
      <4>2. act[n].step = "none"
        BY <1>2, <4>1 DEF PumpsInv
      <4> QED BY <1>2, <1>6, <3>2, <4>2
    <3> QED BY <3>1, <3>2
  <2> QED BY <1>2, <2>1, <2>2, <2>3, <2>4, <2>5, <2>6 DEF PumpsInv
<1>11. MainInv'
  <2>1. todo # <<>> /\ Regaps(todo[1]) => tracked[todo[1].market].capture = 0
    BY <1>2 DEF MainInv, Uncapturing, AtLock
  <2> QED BY <1>2, <1>4, <1>6, <1>8, <2>1, MainBetweenCalls
<1>12. Told
  BY <1>8, SameIsTold
<1>13. CapturesBounded' /\ ArchiveBounded'
  <2>1. ASSUME NEW n \in Market PROVE CaptureBounded(n)'
    <3>1. \A g, h \in tracked[n].gaps : g = h
      BY <1>2 DEF BoundsInv, CapturesBounded, CaptureBounded
    <3> QED BY <1>2, <1>8, <3>1, CaptureBoundsStand DEF BoundsInv
  <2>2. remaining' \subseteq resumedOpen'
    BY <1>2, <1>8 DEF BoundsInv, ArchiveBounded
  <2> QED BY <1>2, <1>8, <2>1, <2>2, ArchiveBoundStands DEF CapturesBounded
<1> QED BY <1>9, <1>10, <1>11, <1>12, <1>13 DEF BoundsInv, ControlInv

(* A command nobody waits for says the same. *)
LEMMA ReaddressedSays ==
  ASSUME NEW c \in Commands
  PROVE  c.op = "checkpoint" => [c EXCEPT !.by = "nobody"].books = c.books
<1> SUFFICES ASSUME c.op = "checkpoint" PROVE [c EXCEPT !.by = "nobody"].books = c.books
  OBVIOUS
<1>1. c \in CheckpointCommands
  BY DEF Commands, EventCommands, OpenCommands, CloseCommands
<1> QED BY <1>1 DEF CheckpointCommands

(* A cancelled pump gives up its place at the lock, wherever it stood, and the close *)
(* of a resumed gap it was waiting for is undone.                                    *)
LEMMA CancelPumpSound ==
  ASSUME Ready, CancelPump
  PROVE  BoundsInv' /\ ControlInv' /\ Told
<1> USE DEF Rest, resumeVars, archiveVars
<1> DEFINE m == act[Main].market
           a == [act[Main] EXCEPT !.step = IF act[m].step = "none" THEN "next" ELSE "draining"]
           b == IF act[m].step = "none" THEN act[m] ELSE [Idle EXCEPT !.step = "cancelled"]
<1>1. Awaiting(Main, "closing")
  BY DEF CancelPump
<1>2. /\ RecorderTypes /\ TasksOK /\ BoundsInv /\ SchedulerInv /\ LockInv /\ PumpsInv /\ MainInv
      /\ failed = "no" /\ act[Main].step = "closing" /\ act[Main] \in Acts
      /\ m \in Market /\ Main \in Tasks
      /\ Market \subseteq Tasks /\ Main \notin Market
      /\ \A u \in Tasks : act[u].step \notin Sync
      /\ act \in [Tasks -> PlacedActs]
  BY <1>1, MainAtMarket
<1>3. a.step \in {"next", "draining"} /\ a.market = m
      /\ (a.step = "next" <=> act[m].step = "none")
  BY <1>2 DEF Acts
<1>4. b.step = (IF act[m].step = "none" THEN "none" ELSE "cancelled") /\ b.market \in {m, Main}
  BY <1>2 DEF Idle, PumpsInv
<1>5. act' = [act EXCEPT ![Main] = a, ![m] = b]
  BY <1>2 DEF CancelPump
<1> HIDE DEF a, b
<1>6. act'[Main] = a /\ act'[m] = b /\ \A u \in Tasks \ {m, Main} : act'[u] = act[u]
  BY <1>2, <1>5
<1>7. /\ UNCHANGED <<revision, handle, tracked, pump, todo, control, log, gaps,
                     checkpoints, resumedOpen, failed>>
      /\ lock' = RemoveFirst(lock, m)
      /\ remaining' = remaining \cup (IF act[m].step = "resumed_ack" THEN {m} ELSE {})
  BY DEF CancelPump
<1>8. lock' \in Seq(Tasks) /\ IsInjective(lock') /\ GivesUp(lock, m, lock')
  <2>1. lock \in Seq(Tasks) /\ IsInjective(lock) /\ lock' = RemoveFirst(lock, m)
    BY <1>2, <1>7 DEF SchedulerInv
  <2> HIDE DEF m
  <2> QED BY ONLY <2>1, PlaceGivenUp
<1>9. SchedulerInv' /\ LockInv'
  <2>1. \A u \in Tasks : act'[u].step \in Sync => u = Main
    BY <1>2, <1>4, <1>6 DEF Sync
  <2>2. ~InLock(act'[m]) /\ ~InLock(act'[Main]) /\ ~InLock(act[Main]) /\ m # Main
    BY <1>2, <1>3, <1>4, <1>6 DEF InLock
  <2>3. \A u \in Tasks : InLock(act'[u]) <=> u # m /\ InLock(act[u])
    BY <1>6, <2>2
  <2>4. \A u \in Tasks : Holding(act'[u]) => InLock(act'[u])
    BY DEF Holding, InLock
  <2>5. ASSUME NEW u \in Tasks, Holding(act'[u]) PROVE lock'[1] = u
    <3>1. u # m /\ u # Main /\ act'[u] = act[u]
      BY <1>6, <2>2, <2>4, <2>5
    <3>2. lock # <<>> /\ lock[1] = u
      BY <1>2, <2>5, <3>1, HolderIsFirst
    <3> QED BY <1>8, <3>1, <3>2 DEF GivesUp
  <2>6. \A u \in Tasks : InLock(act'[u]) <=> \E i \in DOMAIN lock' : lock'[i] = u
    BY <1>2, <1>8, <2>3 DEF LockInv, GivesUp
  <2> QED BY <1>8, <2>1, <2>5, <2>6 DEF SchedulerInv, LockInv
<1>10. PumpsInv' /\ remaining' \subseteq resumedOpen'
  <2>1. \A u \in Tasks : act'[u].step \in {"lock", "locked", "resumed_ack"}
          => u # Main /\ u # m /\ act'[u] = act[u]
    BY <1>3, <1>4, <1>6
  <2>2. \A n \in Market : act'[n].market \in {n, Main}
    BY <1>2, <1>4, <1>6 DEF PumpsInv
  <2>3. \A n \in Market : AtLock(act'[n], "checkpoint") => act'[n].targets \subseteq {n}
    BY <1>2, <2>1 DEF PumpsInv, AtLock
  <2>4. \A u \in Tasks : AtLock(act'[u], "checkpoint")
          => \A n \in act'[u].targets : tracked'[n].complete
    BY <1>2, <1>7, <2>1 DEF PumpsInv, AtLock
  <2>5. act[m].step = "resumed_ack" => act[m].market = m /\ m \in resumedOpen
    <3>1. act[m].step = "resumed_ack" => act[m].market \in Market
      BY <1>2, MarketsAreTasks DEF PlacedActs, Unplaced
    <3> QED BY <1>2, <3>1 DEF PumpsInv
  <2>6. /\ \A u \in Tasks : act'[u].step = "resumed_ack"
             => act'[u].market \in resumedOpen' \ remaining'
        /\ \A u, v \in Tasks :
             /\ act'[u].step = "resumed_ack" /\ act'[v].step = "resumed_ack"
             /\ act'[u].market = act'[v].market
             => u = v
    <3>1. ASSUME NEW u \in Tasks, act'[u].step = "resumed_ack"
          PROVE  act'[u].market \in resumedOpen' \ remaining'
      <4>1. u # m /\ act'[u] = act[u] /\ act[u].market \in resumedOpen \ remaining
        BY <1>2, <2>1, <3>1 DEF PumpsInv
      <4>2. act[m].step = "resumed_ack" => act[u].market # m
        <5>1. m \in Tasks
          BY <1>2
        <5> QED BY <1>2, <2>5, <3>1, <4>1, <5>1 DEF PumpsInv
      <4> QED BY <1>7, <4>1, <4>2
    <3>2. \A u, v \in Tasks :
             /\ act'[u].step = "resumed_ack" /\ act'[v].step = "resumed_ack"
             /\ act'[u].market = act'[v].market
             => u = v
      BY <1>2, <2>1 DEF PumpsInv
    <3> QED BY <3>1, <3>2
  <2>7. ASSUME NEW n \in Market, tracked'[n].capture = 0, ~Closing(n)'
        PROVE  act'[n].step = "none"
    <3>1. CASE n = m
      <4>1. act'[Main].step # "draining"
        BY <1>3, <1>6, <2>7, <3>1 DEF Closing
      <4> QED BY <1>3, <1>4, <1>6, <3>1, <4>1
    <3>2. CASE n # m
      <4>1. tracked[n].capture = 0 /\ ~Closing(n)
        BY <1>7, <2>7, <3>2 DEF Closing
      <4>2. act[n].step = "none"
        BY <1>2, <4>1 DEF PumpsInv
      <4> QED BY <1>2, <1>6, <3>2, <4>2
    <3> QED BY <3>1, <3>2
  <2>8. act'[Main].step = "draining" => act'[act'[Main].market].step = "cancelled"
    BY <1>3, <1>4, <1>6
  <2>9. remaining' \subseteq resumedOpen'
    BY <1>2, <1>7, <2>5 DEF BoundsInv, ArchiveBounded
  <2> QED BY <2>2, <2>3, <2>4, <2>6, <2>7, <2>8, <2>9 DEF PumpsInv
<1>11. MainInv'
  <2>1. todo # <<>> /\ Regaps(todo[1]) => tracked[todo[1].market].capture = 0
    BY <1>2 DEF MainInv, Uncapturing, AtLock
  <2> QED BY <1>2, <1>3, <1>6, <1>7, <2>1, MainBetweenCalls
<1>12. Repeats /\ Len(queue') = Len(queue)
  <2>1. /\ DOMAIN queue' = DOMAIN queue
        /\ \A i \in DOMAIN queue : /\ queue[i] \in Commands
                                   /\ queue'[i] \in {queue[i], [queue[i] EXCEPT !.by = "nobody"]}
    BY <1>2 DEF CancelPump, RecorderTypes, ArchiveOK
  <2>2. \A i \in DOMAIN queue : /\ queue'[i].op = queue[i].op
                                /\ TakesSequence(queue[i]) => queue'[i].entry = queue[i].entry
                                /\ queue[i].op = "checkpoint" => queue'[i].books = queue[i].books
    BY <2>1, ReaddressedCommand, ReaddressedSays
  <2>3. Len(queue') = Len(queue)
    <3>1. PICK k \in Nat : k = Len(queue)
      BY <1>2 DEF RecorderTypes, ArchiveOK
    <3>2. queue' = [i \in 1..k |-> queue'[i]]
      BY <1>2, <3>1 DEF CancelPump, RecorderTypes, ArchiveOK
    <3> QED BY <3>1, <3>2
  <2> QED BY <2>1, <2>2, <2>3 DEF Repeats
<1>13. Told
  <2>1. LosesNothing /\ \A n \in Market : Faithful(n)
    BY <1>7 DEF LosesNothing, Faithful, BookStays
  <2> QED BY <1>7, <1>12, <2>1 DEF Told
<1>14. CapturesBounded' /\ ArchiveBounded'
  <2>1. ASSUME NEW n \in Market PROVE CaptureBounded(n)'
    BY <1>2, <1>7 DEF BoundsInv, CapturesBounded, CaptureBounded
  <2> QED BY <1>2, <1>7, <1>10, <1>12, <2>1 DEF CapturesBounded, BoundsInv, ArchiveBounded
<1> QED BY <1>9, <1>10, <1>11, <1>13, <1>14 DEF BoundsInv, ControlInv

-----------------------------------------------------------------------------
(* The archive's gaps are events of the archive, as commands are committed. *)
LEMMA CommitBounds ==
  ASSUME RecorderTypes, ArchiveBounded, Commit
  PROVE  ArchiveBounded'
<1> USE DEF archiveVars, resumeVars
<1> DEFINE c == Head(queue)
<1>1. PICK k, n \in Nat : k = Len(log) /\ n = Len(queue)
  BY DEF RecorderTypes, ArchiveOK
<1>2. /\ queue \in Seq(Commands) /\ log \in Seq(Entry) /\ queue # <<>>
      /\ DOMAIN log = 1..k /\ n \in Nat \ {0}
  BY <1>1 DEF RecorderTypes, ArchiveOK, Commit
<1>3. c \in Commands
  BY <1>2
<1>4. UNCHANGED <<remaining, resumedOpen>> /\ failed' = Error(c)
  BY DEF Commit
<1>5. CASE Error(c) # "no"
  BY <1>4, <1>5 DEF Commit, ArchiveBounded
<1>6. CASE Error(c) = "no"
  <2>1. /\ queue' = Tail(queue)
        /\ log' = IF TakesSequence(c) THEN Append(log, c.entry) ELSE log
        /\ gaps' = CASE c.op = "open" ->
                          [i \in DOMAIN gaps \cup {Len(log) + 1} |->
                             IF i \in DOMAIN gaps THEN gaps[i]
                             ELSE [market |-> c.entry.market, start |-> c.at, end |-> 0]]
                     [] c.op = "close" -> [gaps EXCEPT ![c.gap].end = c.at]
                     [] OTHER -> gaps
    BY <1>4, <1>6 DEF Commit
  <2>2. Len(queue') <= QueueSize
    <3>1. Len(queue') = n - 1
      BY <1>1, <1>2, <2>1
    <3>2. n <= QueueSize /\ QueueSize \in Nat
      BY <1>1, RecorderAssumption DEF ArchiveBounded
    <3> QED BY <1>2, <3>1, <3>2
  <2>3. DOMAIN gaps' = IF c.op = "open" THEN DOMAIN gaps \cup {k + 1} ELSE DOMAIN gaps
    <3>1. CASE c.op = "open"
      BY <1>1, <2>1, <3>1
    <3>2. CASE c.op = "close"
      BY <2>1, <3>2
    <3>3. CASE c.op \notin {"open", "close"}
      BY <2>1, <3>3
    <3> QED BY <3>1, <3>2, <3>3
  <2>4. c.op = "open" => c.entry \in Entry /\ c.entry.kind = "gap"
    <3>1. c.op = "open" => c \in OpenCommands
      BY <1>3 DEF Commands, EventCommands, CloseCommands, CheckpointCommands
    <3> QED BY <3>1 DEF OpenCommands, GapEntry
  <2> HIDE DEF c
  <2>5. CASE c.op = "open"
    <3>1. /\ DOMAIN log' = 1..k + 1 /\ \A i \in 1..k : log'[i] = log[i]
          /\ log'[k + 1] = c.entry
      <4>1. log' = Append(log, c.entry)
        BY <2>1, <2>5 DEF TakesSequence
      <4> QED BY <1>1, <1>2, <4>1
    <3>2. DOMAIN gaps \subseteq 1..k /\ \A i \in DOMAIN gaps : log[i].kind = "gap"
      BY <1>2 DEF ArchiveBounded
    <3>3. DOMAIN gaps' \subseteq DOMAIN log'
      BY <2>3, <2>5, <3>1, <3>2
    <3>4. \A i \in DOMAIN gaps' : log'[i].kind = "gap"
      BY <2>3, <2>4, <2>5, <3>1, <3>2
    <3> QED BY <1>4, <2>2, <3>3, <3>4 DEF ArchiveBounded
  <2>6. CASE c.op # "open"
    <3>1. DOMAIN log \subseteq DOMAIN log' /\ \A i \in DOMAIN log : log'[i] = log[i]
      <4>1. CASE TakesSequence(c)
        <5>1. log' = Append(log, c.entry)
          BY <2>1, <4>1
        <5> QED BY <1>1, <1>2, <5>1
      <4>2. CASE ~TakesSequence(c)
        BY <2>1, <4>2
      <4> QED BY <4>1, <4>2
    <3>2. DOMAIN gaps \subseteq DOMAIN log /\ \A i \in DOMAIN gaps : log[i].kind = "gap"
      BY DEF ArchiveBounded
    <3> QED BY <1>4, <2>2, <2>3, <2>6, <3>1, <3>2 DEF ArchiveBounded
  <2> QED BY <2>5, <2>6
<1> QED BY <1>5, <1>6

(* The writer commits or refuses the oldest command: the invariant is kept. *)
LEMMA CommitSound ==
  ASSUME Ready, Commit
  PROVE  BoundsInv' /\ ControlInv' /\ RecordsInv'
<1> USE DEF archiveVars, resumeVars
<1>1. RecorderTypes /\ BoundsInv /\ ControlInv /\ RecordsInv /\ failed = "no"
  BY DEF Ready, Commit, Yielded
<1>2. UNCHANGED <<revision, handle, tracked, pump, act, todo, lock, remaining, resumedOpen>>
  BY DEF Commit
<1>3. CapturesStand
  BY <1>2 DEF CapturesStand, BooksStand
<1>4. SchedulerInv' /\ ControlInv'
  BY <1>1, <1>2, <1>3, ControlStands
<1>5. CapturesBounded'
  BY <1>1, <1>2 DEF BoundsInv, CapturesBounded, CaptureBounded
<1>6. ArchiveBounded'
  BY <1>1, CommitBounds DEF BoundsInv
<1>7. RecordsInv'
  BY <1>1, CommitKeepsRecords
<1> QED BY <1>4, <1>5, <1>6, <1>7 DEF BoundsInv

-----------------------------------------------------------------------------
(* Init and Next *)

(* The recorder starts with an empty queue and the gaps of the session before. *)
LEMMA InitAll == Init => AllInv
<1> SUFFICES ASSUME Init PROVE AllInv
  OBVIOUS
<1>1. RecorderInv /\ RecorderTypes
  BY InitRecorder DEF RecorderInv
<1>2. Main \in Tasks /\ Market \subseteq Tasks /\ Main \notin Market
  BY MarketsAreTasks
<1> DEFINE a == [Idle EXCEPT !.step = "next"]
<1>3. /\ a.step = "next" /\ a.market = Main /\ Idle.step = "none" /\ Idle.market = Main
      /\ act = [t \in Tasks |-> IF t = Main THEN a ELSE Idle]
  BY DEF Init, Idle
<1> HIDE DEF a
<1>4. \A t \in Tasks : act[t].step \in {"next", "none"} /\ act[t].market = Main
  BY <1>3
<1>5. /\ \A t \in Tasks : ~InLock(act[t]) /\ ~Holding(act[t]) /\ \A u : ~AtLock(act[t], u)
      /\ \A t \in Tasks : act[t].step \notin {"resumed_ack", "gap_ack", "opening", "draining"}
  BY <1>4 DEF InLock, Holding, AtLock
<1>6. BoundsInv
  <2>1. ASSUME NEW m \in Market PROVE CaptureBounded(m)
    <3>1. /\ revision[m] = 0 /\ handle[m] = [msgs |-> <<>>, dropped |-> 0] /\ pump[m] = NoPump
          /\ tracked[m].seen = 0 /\ tracked[m].capture = 0 /\ tracked[m].gaps = {}
          /\ ~tracked[m].complete
      BY DEF Init
    <3>2. MaxRevision[m] \in Nat /\ HandleCapacity \in Nat /\ MaxPending \in Nat
      BY RecorderAssumption
    <3>3. handle[m].msgs = <<>> /\ handle[m].dropped = 0 /\ pump[m].pending = <<>>
      BY <3>1 DEF NoPump
    <3> QED BY <3>1, <3>2, <3>3 DEF CaptureBounded
  <2>2. ArchiveBounded
    <3>1. queue = <<>> /\ QueueSize \in Nat /\ remaining = resumedOpen
      BY RecorderAssumption DEF Init
    <3>2. DOMAIN gaps = DOMAIN log /\ \A i \in DOMAIN gaps : log[i].kind = "gap"
      BY DEF Init
    <3> QED BY <3>1, <3>2 DEF ArchiveBounded
  <2>3. SchedulerInv
    <3>1. lock = <<>> /\ lock \in Seq(Tasks) /\ IsInjective(lock)
      BY DEF Init, IsInjective
    <3>2. \A t \in Tasks : act[t].step \in Sync => t = Main
      BY <1>3 DEF Sync
    <3> QED BY <3>1, <3>2 DEF SchedulerInv
  <2> QED BY <2>1, <2>2, <2>3 DEF BoundsInv, CapturesBounded
<1>7. ControlInv
  <2>1. LockInv
    <3>1. DOMAIN lock = {}
      BY DEF Init
    <3> QED BY <1>5, <3>1 DEF LockInv
  <2>2. PumpsInv
    <3>1. \A m \in Market : act[m].step = "none"
      BY <1>2, <1>3
    <3> QED BY <1>2, <1>4, <1>5, <3>1 DEF PumpsInv
  <2>3. MainInv
    <3>1. Len(todo) = 1 /\ todo[1].op = "ensure"
      BY DEF Init
    <3>2. ~Regaps(todo[1]) /\ 2..Len(todo) = {}
      BY <3>1 DEF Regaps
    <3> QED BY <1>2, <1>5, <3>2 DEF MainInv
  <2> QED BY <2>1, <2>2, <2>3 DEF ControlInv
<1>8. RecordsInv
  <2>1. /\ DOMAIN queue = {} /\ checkpoints = {} /\ failed = "no"
        /\ \A m \in Market : ~tracked[m].complete
    BY DEF Init
  <2> QED BY <2>1 DEF RecordsInv, Projected, ArchiveAccepts
<1> QED BY <1>1, <1>6, <1>7, <1>8 DEF AllInv

(* The invariant after a step. *)
Sound == BoundsInv' /\ ControlInv' /\ RecordsInv'

LEMMA ToldIsSound ==
  ASSUME Ready, RecorderTypes', BoundsInv' /\ ControlInv' /\ Told
  PROVE  Sound
  BY ToldKeepsRecords DEF Ready, Sound

LEMMA TameIsSound ==
  ASSUME Ready, RecorderTypes', NEW t \in Tasks, TameStep(t)
  PROVE  Sound
<1>1. RecorderTypes /\ BoundsInv /\ ControlInv
  BY DEF Ready
<1>2. BoundsInv' /\ ControlInv' /\ Told
  BY <1>1, TameStepKeeps
<1> QED BY <1>2, ToldIsSound

LEMMA PumpSound ==
  ASSUME Ready, RecorderTypes', NEW m \in Market, PumpStep(m)
  PROVE  Sound
<1>1. m \in Tasks
  BY MarketsAreTasks
<1>2. CASE PumpRead(m)
  BY <1>2, PumpReadSound, ToldIsSound
<1>3. CASE PumpCommitted(m) \/ PumpLoops(m) \/ PumpReturns(m) \/ CloseGapsStep(m)
  BY <1>1, <1>3, PumpCommittedTame, PumpLoopsTame, PumpReturnsTame, CloseGapsTame, TameIsSound
<1> QED BY <1>2, <1>3 DEF PumpStep

LEMMA MainSound ==
  ASSUME Ready, RecorderTypes', MainStep
  PROVE  Sound
<1>1. Main \in Tasks
  BY MarketsAreTasks
<1>2. CASE GapRecorded \/ ForgetCapture \/ CancelPump \/ PumpDrained
  BY <1>2, GapRecordedSound, ForgetCaptureSound, CancelPumpSound, PumpDrainedSound, ToldIsSound
<1>3. CASE \/ MainIdles \/ EnsureCaptures \/ DetectDrops \/ OpenGap \/ RecordGap
           \/ CheckpointTimer \/ GammaLocks \/ RecordGamma \/ GammaRecorded \/ CloseLocks
           \/ CloseGapsStep(Main)
  BY <1>1, <1>3, MainIdlesTame, EnsureCapturesTame, DetectDropsTame, OpenGapTame, RecordGapTame,
     CheckpointTimerTame, GammaLocksTame, RecordGammaTame, GammaRecordedTame, CloseLocksTame,
     CloseGapsTame, TameIsSound
<1> QED BY <1>2, <1>3 DEF MainStep

LEMMA NextSound ==
  ASSUME Ready, RecorderTypes', [Next]_vars
  PROVE  Sound
<1>1. Main \in Tasks /\ Market \subseteq Tasks
  BY MarketsAreTasks
<1>2. CASE Commit
  BY <1>2, CommitSound DEF Sound
<1>3. ASSUME NEW m \in Market,
             Send(m) \/ SendResolution(m) \/ CaptureEnds(m) \/ PumpStep(m) \/ Reconcile(m)
      PROVE  Sound
  BY <1>1, <1>3, SendSound, SendResolutionSound, CaptureEndsTame, PumpSound, ReconcileTame,
     TameIsSound, ToldIsSound
<1>4. CASE MainStep
  BY <1>4, MainSound
<1>5. CASE HandleControl \/ Tick \/ CaptureOpens \/ CaptureRefused
  BY <1>1, <1>5, HandleControlTame, TickTame, CaptureOpensSound, CaptureRefusedTame,
     TameIsSound, ToldIsSound
<1>6. CASE UNCHANGED vars
  <2>1. /\ UNCHANGED <<revision, handle, tracked, pump, act, todo, lock, queue, log, gaps,
                       checkpoints, remaining, resumedOpen, failed>>
    BY <1>6 DEF vars
  <2>2. RecorderTypes /\ BoundsInv /\ ControlInv
    BY DEF Ready
  <2>3. CapturesStand
    BY <2>1 DEF CapturesStand, BooksStand
  <2>4. SchedulerInv' /\ ControlInv'
    BY <2>1, <2>2, <2>3, ControlStands
  <2>5. CapturesBounded' /\ ArchiveBounded'
    BY <2>1, <2>2 DEF BoundsInv, CapturesBounded, CaptureBounded, ArchiveBounded
  <2>6. Told
    BY <2>1, SameIsTold
  <2> QED BY <2>4, <2>5, <2>6, ToldIsSound DEF BoundsInv
<1> QED BY <1>2, <1>3, <1>4, <1>5, <1>6 DEF Next

(* Every step keeps the invariant. *)
LEMMA NextAll == AllInv /\ [Next]_vars => AllInv'
<1> SUFFICES ASSUME AllInv, [Next]_vars PROVE AllInv'
  OBVIOUS
<1>1. RecorderInv' /\ RecorderTypes'
  BY NextRecorder DEF AllInv, RecorderInv
<1>2. Ready
  BY DEF AllInv, Ready, RecorderInv
<1>3. Sound
  BY <1>1, <1>2, NextSound
<1> QED BY <1>1, <1>3 DEF AllInv, Sound

-----------------------------------------------------------------------------
(* The bounds give the type invariant that the runs check. *)
LEMMA BoundsAreTypes ==
  ASSUME RecorderTypes, BoundsInv
  PROVE  TypeOK
<1>1. ASSUME NEW S, IsFiniteSet(S), \A x, y \in S : x = y PROVE Cardinality(S) <= 1
  <2>1. CASE S = {}
    <3>1. Cardinality(S) = 0
      BY <2>1, FS_EmptySet
    <3> QED BY <3>1
  <2>2. CASE S # {}
    <3>1. PICK x \in S : S = {x}
      BY <1>1, <2>2
    <3>2. Cardinality(S) = 1
      BY <3>1, FS_Singleton
    <3> QED BY <3>2
  <2> QED BY <2>1, <2>2
<1>2. ASSUME NEW S, \A x, y \in S : x = y PROVE IsFiniteSet(S)
  <2>1. CASE S = {}
    BY <2>1, FS_EmptySet
  <2>2. CASE S # {}
    <3>1. PICK x \in S : S = {x}
      BY <1>2, <2>2
    <3> QED BY <3>1, FS_Singleton
  <2> QED BY <2>1, <2>2
<1>3. ASSUME NEW S, \A x, y \in S : x = y PROVE Cardinality(S) <= 1
  BY <1>1, <1>2, <1>3
<1>4. ASSUME NEW m \in Market
      PROVE  /\ revision[m] \in 0..MaxRevision[m]
             /\ Len(handle[m].msgs) <= HandleCapacity
             /\ tracked[m].seen <= handle[m].dropped
             /\ tracked[m].capture \in {0, tracked[m].gen}
             /\ Cardinality(tracked[m].gaps) <= 1
             /\ Len(pump[m].pending) <= MaxPending
  <2>1. CaptureBounded(m)
    BY DEF BoundsInv, CapturesBounded
  <2>2. revision[m] \in Nat /\ MaxRevision[m] \in Nat
    BY RecorderAssumption DEF RecorderTypes, CapturesOK
  <2>3. Cardinality(tracked[m].gaps) <= 1
    BY <1>3, <2>1 DEF CaptureBounded
  <2> QED BY <2>1, <2>2, <2>3 DEF CaptureBounded
<1>5. \A t \in Tasks : act[t].step \in Sync \cup Awaits
  BY ActFields DEF RecorderTypes, TasksOK, PlacedActs
<1>6. Cardinality({t \in Tasks : act[t].step \in Sync}) <= 1
  <2> DEFINE S == {t \in Tasks : act[t].step \in Sync}
  <2>1. \A t, u \in S : t = u
    BY DEF BoundsInv, SchedulerInv
  <2> HIDE DEF S
  <2>2. Cardinality(S) <= 1
    BY <1>3, <2>1
  <2> QED BY <2>2 DEF S
<1>7. IsInjective(lock) /\ Len(queue) <= QueueSize /\ log \in Seq(Entry)
      /\ (\A i \in DOMAIN gaps : log[i].kind = "gap") /\ remaining \subseteq resumedOpen
  BY DEF BoundsInv, SchedulerInv, ArchiveBounded, RecorderTypes, ArchiveOK
<1> QED BY <1>4, <1>5, <1>6, <1>7 DEF TypeOK

(* The last book a replay sees is the one the checkpoint holds. *)
LEMMA ReplayFindsTheBook ==
  ASSUME RecorderTypes, RecordsInv
  PROVE  CheckpointsReplay
<1> SUFFICES ASSUME NEW c \in checkpoints, c.gen \notin tracked[c.market].lost
             PROVE  LET seen == {i \in 1..c.seq : /\ IsBook(log[i]) /\ log[i].market = c.market
                                                  /\ log[i].gen = c.gen}
                    IN seen # {} /\ log[Max(seen)].rev = c.rev
  BY DEF CheckpointsReplay
<1> DEFINE seen == {i \in 1..c.seq : /\ IsBook(log[i]) /\ log[i].market = c.market
                                     /\ log[i].gen = c.gen}
<1>1. Replays(c)
  BY DEF RecordsInv
<1>2. c.seq \in 1..Len(log) /\ log \in Seq(Entry) /\ Len(log) \in Nat /\ DOMAIN log = 1..Len(log)
  BY <1>1 DEF Replays, RecorderTypes, ArchiveOK
<1>3. PICK i \in 1..c.seq : /\ log[i] \in BooksAt(c.market, c.gen, c.rev)
                            /\ \A k \in i + 1..c.seq : log[k] \notin BooksOf(c.market, c.gen)
  BY <1>1 DEF Replays
<1>4. i \in seen /\ log[i].rev = c.rev
  BY <1>3 DEF BooksAt, BooksOf, IsBook
<1>5. ASSUME NEW k \in seen PROVE i >= k
  <2>1. k \in 1..c.seq /\ k \in DOMAIN log /\ log[k] \in Entry
    BY <1>2
  <2>2. log[k] \in BooksOf(c.market, c.gen)
    BY <1>5, <2>1 DEF BooksOf, IsBook
  <2>3. k \notin i + 1..c.seq
    BY <1>3, <2>2
  <2>4. i \in Nat /\ k \in Nat /\ c.seq \in Nat
    BY <1>2, <1>3, <2>1
  <2> QED BY <2>1, <2>3, <2>4
<1>6. \A k \in seen : k \in Nat
  BY <1>2
<1> HIDE DEF seen
<1>7. Max(seen) = i
  <2>1. i \in seen /\ \A k \in seen : i >= k
    BY <1>4, <1>5
  <2>2. \A x \in seen : (\A k \in seen : x >= k) => x = i
    BY <1>6, <2>1
  <2> QED BY <2>1, <2>2 DEF Max
<1> QED BY <1>4, <1>7 DEF seen

(* For any markets, revisions, failures and limits of the queue and the handles, the  *)
(* archive never refuses what the recorder sends, and a checkpoint holds the book that *)
(* replaying its generation gives, unless a full queue refused an event first; at most *)
(* one task runs, no queue or handle passes its limit and a market has one gap at most.*)
(* The record lock, the main task's order of closing and opening, and the projection   *)
(* of a message in the step that queues it make it so.                                 *)
THEOREM RecorderStaysConsistent == Spec => []RecorderConsistent
<1>1. AllInv => RecorderConsistent
  <2> SUFFICES ASSUME AllInv PROVE RecorderConsistent
    OBVIOUS
  <2>1. RecorderTypes /\ BoundsInv /\ RecordsInv
    BY DEF AllInv, RecorderInv
  <2>2. TypeOK /\ CheckpointsReplay
    BY <2>1, BoundsAreTypes, ReplayFindsTheBook
  <2> QED BY <2>1, <2>2 DEF RecordsInv, RecorderConsistent
<1> QED BY <1>1, InitAll, NextAll, PTL DEF Spec

=============================================================================
