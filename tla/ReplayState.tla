----------------------------- MODULE ReplayState -----------------------------
(***************************************************************************)
(* What a backtest knows of the markets it replays, and what each recorded *)
(* event does to it (ArchiveMarketState with its MarketCatalog,            *)
(* ProjectedBookReplay and CoverageBlackouts), as pure operators on a      *)
(* record:                                                                 *)
(*                                                                         *)
(*   known, resolved   markets with metadata, and those that ended         *)
(*   depth             the projector's book of a token, its generation and *)
(*                     the sequence of its baseline                        *)
(*   shown             the book published to the bot, and when             *)
(*   evidence          markets that had a complete book before             *)
(*   black, open       markets in a blackout, and in one without an end    *)
(*   after, until      what a market's recovery must come after            *)
(*   begun, met        the gaps begun, and those each market met           *)
(*   error             a BacktestError was raised                          *)
(*                                                                         *)
(* The depth of a book is the number of changes the exchange made to it:   *)
(* a baseline sets it, a delta adds one.  Revision 0 is no book.           *)
(***************************************************************************)
EXTENDS ArchiveQueries

NoDepth == [rev |-> 0, gen |-> 0, seq |-> 0]
NoBook == [rev |-> 0, at |-> 0]

EmptyState ==
  [known |-> {}, resolved |-> {}, depth |-> [t \in Token |-> NoDepth],
   shown |-> [t \in Token |-> NoBook], evidence |-> {}, black |-> {}, open |-> {},
   after |-> [m \in Market |-> 0], until |-> [m \in Market |-> 0],
   begun |-> {}, met |-> [m \in Market |-> {}], error |-> FALSE]

Over(f, tokens, g(_)) == [t \in DOMAIN f |-> IF t \in tokens THEN g(t) ELSE f[t]]

Failed(st) == [st EXCEPT !.error = TRUE]

-----------------------------------------------------------------------------
(* Books *)

OneGeneration(st, m) ==
  \E gen \in {st.depth[t].gen : t \in TokensOf[m]} \ {0} :
    \A t \in TokensOf[m] : st.depth[t].gen = gen
HasCompleteBook(st, m) ==
  m \in st.known /\ m \notin st.resolved /\ m \notin st.black /\ OneGeneration(st, m)
IsReplayable(st, m, blackouts) ==
  HasCompleteBook(st, m) \/ (blackouts /\ m \in st.black /\ m \in st.evidence)

\* What the bot gets when it asks for the latest book
Visible(st, m) == m \notin st.resolved /\ m \notin st.black

Publish(st, tokens, at) ==
  [st EXCEPT !.shown = Over(@, tokens, LAMBDA t : [rev |-> st.depth[t].rev, at |-> at])]
Remember(st, m) ==
  IF HasCompleteBook(st, m) THEN [st EXCEPT !.evidence = @ \cup {m}] ELSE st

\* seed_checkpoints, with the rows of one market
Seeded(st, m, rows) ==
  LET row(t) == CHOOSE c \in rows : c.token = t
      at == (CHOOSE c \in rows : TRUE).at IN
  Remember(Publish([st EXCEPT !.depth = Over(@, TokensOf[m],
             LAMBDA t : [rev |-> row(t).book, gen |-> row(t).gen, seq |-> row(t).seq])],
           TokensOf[m], at), m)

\* bootstrap_books of the markets that can be shown
Bootstraps(st, markets) ==
  {t \in UNION {TokensOf[m] : m \in {n \in markets : n \in st.known /\ Visible(st, n)}} :
     st.depth[t].gen # 0}

-----------------------------------------------------------------------------
(* Blackouts *)

BeginCondition(st, db, g, m) ==
  LET gap == db.events[g]
      met == [st EXCEPT !.met[m] = @ \cup {g}] IN
  CASE g \in st.met[m] -> st
    [] g \notin st.met[m] /\ m \in st.resolved -> met
    [] OTHER ->
         [met EXCEPT
            !.black = @ \cup {m},
            !.after[m] = GreatestOf({g, @}),
            !.open = IF gap.end = Forever THEN @ \cup {m} ELSE @,
            !.until[m] = IF gap.end = Forever THEN @ ELSE GreatestOf({gap.end, @}),
            !.depth = Over(@, TokensOf[m], LAMBDA t : NoDepth),
            !.shown = Over(@, TokensOf[m], LAMBDA t : NoBook)]

BlackoutScope(st, gap) == IF IsGlobal(gap) THEN st.known ELSE ResolvedConditions(gap)
BeginBlackout(st, db, g) ==
  IF IsInstantaneous(db.events[g]) \/ g \in st.begun THEN st
  ELSE FoldSet(LAMBDA m, acc : BeginCondition(acc, db, g, m),
               [st EXCEPT !.begun = @ \cup {g}], BlackoutScope(st, db.events[g]))
\* The tokens whose books a gap takes away
Invalidated(st, db, g) ==
  IF g \in st.begun THEN {}
  ELSE UNION {TokensOf[m] : m \in {n \in BlackoutScope(st, db.events[g]) \cap st.known :
                                     g \notin st.met[n] /\ n \notin st.resolved}}

\* A market whose metadata comes after a gap began is blacked out with it.
AddMetadata(st, db, m, resolved) ==
  LET added == [st EXCEPT !.known = @ \cup {m},
                          !.resolved = IF resolved THEN @ \cup {m} ELSE @] IN
  IF resolved THEN added
  ELSE FoldSet(LAMBDA g, acc : BeginCondition(acc, db, g, m), added,
               {g \in st.begun : IsGlobal(db.events[g]) \/ m \in db.events[g].scope})

\* _ready_recovery_books: a full pair of one generation, recorded after the gap
Ready(st, m, at) ==
  /\ m \in st.black /\ m \notin st.open /\ at >= st.until[m]
  /\ \A t \in TokensOf[m] : st.depth[t].seq > st.after[m]
  /\ OneGeneration(st, m)
Recovering(st, at) == {m \in st.black : Ready(st, m, at)}
Released(st, markets, at) ==
  [Publish(st, UNION {TokensOf[m] : m \in markets}, at) EXCEPT
     !.evidence = @ \cup markets, !.black = @ \ markets,
     !.after = Over(@, markets, LAMBDA m : 0), !.until = Over(@, markets, LAMBDA m : 0)]

\* should_ignore_book_event
Ignored(st, db, i) ==
  LET e == db.events[i]
      after == st.after[e.market] IN
  /\ e.market \in st.black
  /\ \/ i <= after
     \/ e.kind = "delta" /\ (st.depth[e.token].seq <= after \/ st.depth[e.token].gen # e.gen)

-----------------------------------------------------------------------------
(* Events: the state after one, and the tokens whose books it published *)

Applies(st, books) == [st |-> st, books |-> books]

\* A book of a market in a blackout stays hidden until the market recovers.
Projected(st, m, t, at) ==
  IF m \in st.black
  THEN LET back == Recovering(st, at) IN
       Applies(Released(st, back, at), UNION {TokensOf[n] : n \in back})
  ELSE Applies(Publish(st, {t}, at), {t})

ApplyBaseline(st, db, i) ==
  LET e == db.events[i]
      set == [st EXCEPT !.depth[e.token] = [rev |-> e.book, gen |-> e.gen, seq |-> i]]
      projected == Projected(set, e.market, e.token, e.at) IN
  IF e.market \in st.black THEN projected
  ELSE Applies(Remember(projected.st, e.market), projected.books)

ApplyDelta(st, db, i) ==
  LET e == db.events[i] IN
  IF st.depth[e.token].gen # e.gen THEN Applies(Failed(st), {})
  ELSE Projected([st EXCEPT !.depth[e.token].rev = @ + 1], e.market, e.token, e.at)

\* An event that its market's baseline does not cover already.
ApplyMarketData(st, db, i) ==
  LET e == db.events[i] IN
  CASE e.market \notin st.known -> Applies(Failed(st), {})
    [] e.market \in st.known /\ e.kind = "resolution" ->
         Applies([st EXCEPT !.resolved = @ \cup {e.market}, !.black = @ \ {e.market}], {})
    [] e.market \in st.known /\ e.kind = "baseline" -> ApplyBaseline(st, db, i)
    [] e.market \in st.known /\ e.kind = "delta" -> ApplyDelta(st, db, i)

Apply(st, db, i) ==
  LET e == db.events[i] IN
  CASE e.kind = "metadata" -> Applies(AddMetadata(st, db, e.market, IsResolution(db, i)), {})
    [] e.kind = "gap" -> Applies(Failed(st), {})
    [] e.kind \in {"baseline", "delta"} /\ Ignored(st, db, i) -> Applies(st, {})
    [] OTHER -> ApplyMarketData(st, db, i)
=============================================================================
