----------------------------- MODULE ReplayStart -----------------------------
(***************************************************************************)
(* From the options of a backtest to the state its scheduler starts with:  *)
(* which session, range and markets are replayed, what is read before the  *)
(* range begins, and how far the start moves until the bot's markets have  *)
(* books (ReplaySelectionResolver, SelectionCoverage, prime_to_start,      *)
(* advance_to_replayable_start, ReplayCoverage).                           *)
(*                                                                         *)
(* All of it reads an archive that cannot change, so each of these is a    *)
(* function of the archive and the options.  A replay is a record; what    *)
(* waits for the bot in it is                                              *)
(*                                                                         *)
(*   markers, pending   the order of what waits, and the books that wait   *)
(*   admitted, settled  the markets the bot was given, and those paid out  *)
(*   starts, ends       the gaps that have not begun, and not ended        *)
(*   cursor             the events still to be replayed                    *)
(***************************************************************************)
EXTENDS ReplayState

CONSTANT PlanRefresh   \* the interval at which a bot's plan is read again

Marker(kind, what) == [kind |-> kind, what |-> what]
TokenOrder == SetToSeq(Token)

NextInterval(now) == ((now \div PlanRefresh) + 1) * PlanRefresh

-----------------------------------------------------------------------------
(* PendingReplayEvents: the newest book of a token keeps its place in line *)

\* Mutant: a book that waits is put in line again.
EnqueueBooks_Again(r, tokens) ==
  [r EXCEPT
     !.markers = @ \o SelectSeq([k \in DOMAIN TokenOrder |-> Marker("book", TokenOrder[k])],
                        LAMBDA k : k.what \in tokens),
     !.pending = Over(@, tokens, LAMBDA t : r.st.shown[t])]
EnqueueBooks(r, tokens) ==
  [r EXCEPT
     !.markers = @ \o SelectSeq([k \in DOMAIN TokenOrder |-> Marker("book", TokenOrder[k])],
                        LAMBDA k : k.what \in tokens /\ r.pending[k.what] = NoBook),
     !.pending = Over(@, tokens, LAMBDA t : r.st.shown[t])]
InvalidateBooks(r, tokens) ==
  [r EXCEPT
     !.markers = SelectSeq(@, LAMBDA k : ~(k.kind = "book" /\ k.what \in tokens)),
     !.pending = Over(@, tokens, LAMBDA t : NoBook)]

TokensOfAll(markets) == UNION {TokensOf[m] : m \in markets}

-----------------------------------------------------------------------------
(* ReplayCoverage: the boundaries of the gaps, and what happens at one *)

\* Mutant: a gap begins when it was recorded.
StartOf_Recorded(r, g) == r.db.events[g].at
StartOf(r, g) == GreatestOf({r.from, r.db.events[g].start})
Boundaries(r) == {StartOf(r, g) : g \in r.starts} \cup {r.db.events[g].end : g \in r.ends}

Activated(r, at) ==
  LET due == {g \in r.starts : StartOf(r, g) <= at} IN
  FoldSet(LAMBDA g, acc :
            InvalidateBooks([acc EXCEPT !.st = BeginBlackout(@, r.db, g)],
                            Invalidated(acc.st, r.db, g)),
          [r EXCEPT !.starts = @ \ due], due)
DeactivatedAt(r, at) ==
  LET due == {g \in r.ends : r.db.events[g].end <= at}
      back == Recovering(r.st, at) IN
  IF due = {} THEN r
  ELSE EnqueueBooks([r EXCEPT !.ends = @ \ due, !.st = Released(@, back, at)],
                    TokensOfAll(back \cap r.admitted))

\* _move_to, advance_bootstrap_coverage: every boundary on the way, in order
Moved(r, at) ==
  [FoldLeft(LAMBDA acc, b : DeactivatedAt(Activated(acc, b), b), r,
            SetToSortSeq({b \in Boundaries(r) : b <= at}, <)) EXCEPT !.clock = at]

\* load_replay_coverage: the gaps that concern a market of the selection
WithCoverage(r, sel) ==
  LET markets == MarketsAt(r.db, sel.session, sel.to, sel.markets)
      gaps == {g \in CoverageGaps(r.db, [sel EXCEPT !.markets = Market, !.tokens = Token]) :
                 IsGlobal(r.db.events[g]) \/ r.db.events[g].scope \cap markets # {}} IN
  IF ~sel.allow THEN [r EXCEPT !.from = sel.from, !.starts = {}, !.ends = {}]
  ELSE [r EXCEPT !.from = sel.from, !.starts = gaps,
                 !.ends = {g \in gaps : r.db.events[g].end <= sel.to}]

-----------------------------------------------------------------------------
(* ReplaySelectionResolver *)

SessionEnd(db, s) ==
  IF db.sessions[s].status = "failed"
  THEN LET durable == LastSessionObserved(db, s) IN
       IF durable < db.sessions[s].end THEN durable ELSE db.sessions[s].end
  ELSE db.sessions[s].end

InMarket(sel, m) == [sel EXCEPT !.markets = {m}, !.tokens = TokensOf[m]]

\* checkpoint_pair: one before the start with no gap since, or one at the start
PairBefore(db, sel, m, preGap) ==
  LET pair == NewestPair(db, m, sel.session, sel.from - 1) IN
  IF pair # NoPair
       /\ (preGap \/ ~RejectsKnownGaps(db, [InMarket(sel, m) EXCEPT !.from = pair.at, !.to = sel.from - 1]))
  THEN pair ELSE NoPair
PairAt(db, sel, m) ==
  LET pair == NewestPair(db, m, sel.session, sel.from) IN
  IF pair.at = sel.from THEN pair ELSE NoPair
CheckpointPair(db, sel, m, preGap) ==
  LET before == PairBefore(db, sel, m, preGap) IN
  IF before # NoPair \/ preGap THEN before ELSE PairAt(db, sel, m)
\* The pair at the start is looked for and lies in a gap: the replay is refused.
PairRefused(db, sel, m, preGap) ==
  /\ ~preGap /\ PairBefore(db, sel, m, preGap) = NoPair /\ PairAt(db, sel, m) # NoPair
  /\ RejectsKnownGaps(db, [InMarket(sel, m) EXCEPT !.to = sel.from])
StartsInGap(db, sel, m) ==
  sel.allow /\ RejectsKnownGaps(db, [InMarket(sel, m) EXCEPT !.to = sel.from])

\* Markets of which nothing but metadata and the end was recorded are left out.
DefaultReplayable(db, sel, markets) ==
  {m \in markets :
     \/ HasCompleteBaselinePair(db, sel, m)
     \/ CheckpointPair(db, sel, m, FALSE) # NoPair
     \/ Len(MarketEvents(db, InMarket(sel, m))) > 2}

\* options.from and options.to are 0, options.markets empty, unless they are given.
Requested(db, options) ==
  LET s == db.sessions[options.session]
      sel == [session |-> options.session, allow |-> options.allow, explicit |-> options.from # 0,
              from |-> IF options.from = 0 THEN s.start ELSE options.from,
              to |-> IF options.to = 0 THEN SessionEnd(db, options.session) ELSE options.to,
              markets |-> Market, tokens |-> Token]
      available == MarketsAt(db, sel.session, sel.to, Market)
      markets == CASE options.markets # {} -> options.markets
                   [] options.markets = {} /\ sel.explicit -> available
                   [] OTHER -> DefaultReplayable(db, sel, available) IN
  [sel EXCEPT !.markets = markets, !.tokens = TokensOfAll(markets)]

InSession(db, sel) ==
  db.sessions[sel.session].start <= sel.from /\ sel.from <= sel.to
    /\ sel.to <= SessionEnd(db, sel.session)
Selectable(db, options, sel) ==
  /\ db.sessions[options.session].status # "active"
  /\ InSession(db, sel)
  /\ options.markets = {} /\ ~sel.explicit =>
       \A m \in MarketsAt(db, sel.session, sel.to, Market) :
         HasCompleteBaselinePair(db, sel, m) \/ ~PairRefused(db, sel, m, FALSE)
  /\ sel.markets # {}
  /\ sel.markets \subseteq MarketsAt(db, sel.session, sel.to, Market)
  /\ sel.allow \/ ~RejectsKnownGaps(db, sel)
  /\ MarketEvents(db, sel) # <<>>
Selected(db, sel) ==
  IF sel.explicit THEN sel
  ELSE [sel EXCEPT !.from = db.events[Head(MarketEvents(db, sel))].at]

\* SelectionCoverage: every market needs a full pair in the range or before it.
Bootstrappable(db, sel) ==
  /\ sel.allow \/ ~RejectsKnownGaps(db, sel)
  /\ Readable(db, sel)
  /\ \A m \in MarketsAt(db, sel.session, sel.to, sel.markets) :
       LET inGap == StartsInGap(db, sel, m) IN
       \/ HasCompleteBaselinePair(db, sel, m)
       \/ ~PairRefused(db, sel, m, inGap) /\ CheckpointPair(db, sel, m, inGap) # NoPair

-----------------------------------------------------------------------------
(* prime_to_start: the books just before the range *)

Unprimed(db, sel) ==
  [db |-> db, st |-> EmptyState, clock |-> sel.from, from |-> sel.from, starts |-> {}, ends |-> {},
   markers |-> <<>>, pending |-> [t \in Token |-> NoBook], admitted |-> {}, settled |-> {},
   cursor |-> <<>>]

PrimedMarkets(db, sel) == MarketsAt(db, sel.session, sel.from - 1, sel.markets)
PrimePair(db, sel, m) == CheckpointPair(db, sel, m, StartsInGap(db, sel, m))
\* Mutant: the archive is read from the start of the range.
ScanStart_Late(db, sel) == sel.from
ScanStart(db, sel) ==
  LeastOf({sel.from} \cup
    {LET pair == PrimePair(db, sel, m) IN
     CASE pair # NoPair -> pair.at
       [] pair = NoPair /\ HasCompleteBaselinePair(db, sel, m) -> sel.from
       [] OTHER -> db.sessions[sel.session].start : m \in PrimedMarkets(db, sel)})
\* A market without a pair is scanned from the session's start, which a start that
\* was asked for does not allow.
Primable(db, sel) ==
  \A m \in PrimedMarkets(db, sel) :
    /\ ~PairRefused(db, sel, m, StartsInGap(db, sel, m))
    /\ PrimePair(db, sel, m) = NoPair /\ ~HasCompleteBaselinePair(db, sel, m) =>
         LET before == [InMarket(sel, m) EXCEPT !.from = 0, !.to = sel.from] IN
         /\ sel.allow \/ ~RejectsKnownGaps(db, before)
         /\ sel.explicit => \A i \in Range(MarketEvents(db, before)) : db.events[i].at >= sel.from

CheckpointRows(db, m, pair) ==
  {c \in db.checkpoints : c.market = m /\ c.at = pair.at /\ c.seq = pair.seq}
PrimeMarket(db, sel, m, st) ==
  LET pair == PrimePair(db, sel, m)
      known == AddMetadata(st, db, m, ResolvedAt(db, m, sel.from - 1))
      atStart == pair.at = sel.from
      current == IF atStart
                 THEN AddMetadata(known, db, m,
                        \E i \in 1..pair.seq : db.events[i].market = m /\ IsResolution(db, i))
                 ELSE known IN
  IF pair = NoPair THEN known ELSE Seeded(current, m, CheckpointRows(db, m, pair))

Primed(db, sel) ==
  LET markets == PrimedMarkets(db, sel)
      seq(m) == PrimePair(db, sel, m).seq
      seeded == FoldSet(LAMBDA m, st : PrimeMarket(db, sel, m, st), EmptyState, markets)
      before == SelectSeq(Streamed(db, [sel EXCEPT !.from = ScanStart(db, sel), !.to = sel.from]),
                          LAMBDA i : db.events[i].at < sel.from)
      applied == SelectSeq(before, LAMBDA i :
                   LET e == db.events[i] IN
                   /\ ~(e.market \in markets /\ i <= seq(e.market))
                   /\ e.kind # "metadata"
                   /\ ~(sel.allow /\ IsGap(e))) IN
  [st |-> FoldLeft(LAMBDA st, i : Apply(st, db, i).st, seeded, applied),
   last |-> GreatestOf({0} \cup {seq(m) : m \in markets} \cup Range(before))]

-----------------------------------------------------------------------------
(* advance_to_replayable_start: a bot's markets need books before it starts *)

PlanIsReplayable(st, plan, blackouts) ==
  IF plan # {} THEN \A m \in plan : IsReplayable(st, m, blackouts)
  ELSE \E m \in st.known : IsReplayable(st, m, blackouts)

IsPriming(db, i) ==
  db.events[i].kind = "baseline" \/ (db.events[i].kind = "metadata" /\ ~IsResolution(db, i))

\* One event: the first time the plan is replayable, the books of the same moment
\* are taken with it.
Bootstrap(acc, i, sel, plan) ==
  LET e == acc.r.db.events[i]
      applies(r) == [r EXCEPT !.st = IF IsGap(e) THEN @ ELSE Apply(@, r.db, i).st]
      replayable(r) == PlanIsReplayable(r.st, plan, sel.allow)
      joins == acc.step = "same" /\ e.at = acc.r.clock /\ IsPriming(acc.r.db, i)
      stops == acc.step = "done" \/ (acc.step = "same" /\ ~joins /\ replayable(acc.r))
      moved == applies(Moved(acc.r, e.at)) IN
  CASE joins -> [acc EXCEPT !.r = applies(@), !.last = i]
    [] stops -> [acc EXCEPT !.step = "done"]
    [] OTHER ->
         IF sel.explicit /\ e.at > sel.from
         THEN [acc EXCEPT !.step = "done", !.r.st = Failed(@)]
         ELSE [r |-> moved, last |-> i, step |-> IF replayable(moved) THEN "same" ELSE "next"]

OrFailed(end, sel, plan) ==
  IF PlanIsReplayable(end.r.st, plan, sel.allow) THEN end ELSE [end EXCEPT !.r.st = Failed(@)]
Advanced(r, last, sel, plan) ==
  LET start == [r |-> r, last |-> last, step |-> "next"] IN
  IF PlanIsReplayable(r.st, plan, sel.allow) THEN start
  ELSE OrFailed(FoldLeft(LAMBDA acc, i : Bootstrap(acc, i, sel, plan), start,
                         SelectSeq(Streamed(r.db, sel), LAMBDA i : i > last)),
                sel, plan)

\* BacktestReplay.prepare
FromPrimed(db, sel, plan, primed) ==
  Advanced(Activated(WithCoverage([Unprimed(db, sel) EXCEPT !.st = primed.st], sel), sel.from),
           primed.last, sel, plan)
FromStart(db, sel, start) ==
  LET range == [sel EXCEPT !.from = start.r.clock] IN
  [Activated(WithCoverage(start.r, range), range.from) EXCEPT
     !.cursor = SelectSeq(Streamed(db, range), LAMBDA i : i > start.last)]
Prepared(db, sel, plan) ==
  FromStart(db, sel, FromPrimed(db, sel, plan, Primed(db, sel)))
=============================================================================
