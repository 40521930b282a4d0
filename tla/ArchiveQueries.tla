--------------------------- MODULE ArchiveQueries ---------------------------
(***************************************************************************)
(* The recording archive as its readers see it: what each query of         *)
(* recording/archive returns.  An archive is a record                      *)
(*                                                                         *)
(*    [sessions, events, checkpoints]                                      *)
(*                                                                         *)
(* of the rows of its tables.  events is a sequence: a row's primary key   *)
(* is its position.  A coverage gap's row and its event are one record     *)
(* here, because the code only ever changes both in one transaction.  A    *)
(* gap that is still open ends Forever, which is how the queries read a    *)
(* missing end.  Metadata revisions other than the resolution, ticks and   *)
(* trades are left out, and a delta changes one token.                     *)
(***************************************************************************)
EXTENDS Naturals, FiniteSets, Sequences, SequencesExt

CONSTANTS
  Market,    \* condition identifiers
  TokensOf,  \* TokensOf[m]: the outcome tokens of m
  Forever    \* the end of a gap that is open, later than every observation

ASSUME ArchiveAssumption ==
  /\ TokensOf \in [Market -> SUBSET UNION {TokensOf[m] : m \in Market}]
  /\ \A m \in Market : TokensOf[m] # {}
  /\ \A m, n \in Market : m # n => TokensOf[m] \cap TokensOf[n] = {}
  /\ Forever \in Nat

Token == UNION {TokensOf[m] : m \in Market}
NoMarket == "no market"
NoToken == "no token"

AnySession == 0

\* What a reader asks for: observation times, a session, markets and tokens.
Everything == [from |-> 0, to |-> Forever, session |-> AnySession,
               markets |-> Market, tokens |-> Token]

LeastOf(S) == CHOOSE x \in S : \A y \in S : x <= y
GreatestOf(S) == CHOOSE x \in S : \A y \in S : y <= x

-----------------------------------------------------------------------------
(* Gap scopes: a gap that names no market concerns every market *)

IsGlobal(gap) == gap.scope = {}
ResolvedTokens(gap) ==
  IF IsGlobal(gap) THEN Token ELSE UNION {TokensOf[m] : m \in gap.scope}
ResolvedConditions(gap) == IF IsGlobal(gap) THEN Market ELSE gap.scope
Affects(gap, markets, tokens) ==
  \/ IsGlobal(gap)
  \/ gap.scope \cap markets # {} /\ ResolvedTokens(gap) \cap tokens # {}

IsGap(e) == e.kind = "gap"
IsInstantaneous(gap) == gap.end = gap.start
EventTokens(e) == IF e.kind \in {"baseline", "delta"} THEN {e.token} ELSE TokensOf[e.market]

\* coverage_gaps: the gaps with an extent that meet the selection
CoverageGaps(db, sel) ==
  {i \in DOMAIN db.events :
     LET g == db.events[i] IN
     /\ IsGap(g) /\ g.end > g.start
     /\ g.end > sel.from /\ g.start <= sel.to
     /\ sel.session \in {AnySession, g.session}
     /\ Affects(g, sel.markets, sel.tokens)}
OpenGaps(db) == {i \in CoverageGaps(db, Everything) : db.events[i].end = Forever}

-----------------------------------------------------------------------------
(* Events: the rows a selection reads, and the checks on the way *)

Positions(db) == [i \in DOMAIN db.events |-> i]

IsQueried(db, sel, i) ==
  LET e == db.events[i] IN
  /\ sel.from <= e.at /\ e.at <= sel.to
  /\ sel.session \in {AnySession, e.session}
  /\ \/ IsGap(e)
     \/ e.market \in sel.markets /\ EventTokens(e) \cap sel.tokens # {}
EventQuery(db, sel) == SelectSeq(Positions(db), LAMBDA i : IsQueried(db, sel, i))

\* stream_events drops the gaps that do not concern the selection.
IsStreamed(db, sel, i) ==
  /\ IsQueried(db, sel, i)
  /\ IsGap(db.events[i]) => /\ ~IsInstantaneous(db.events[i])
                            /\ Affects(db.events[i], sel.markets, sel.tokens)
Streamed(db, sel) == SelectSeq(Positions(db), LAMBDA i : IsStreamed(db, sel, i))

HasMetadataBefore(db, m, i) ==
  \E j \in 1..i - 1 : db.events[j].kind = "metadata" /\ db.events[j].market = m

\* The baseline a delta of token t rests on when the stream has not shown one:
\* the newest earlier one of its generation, unless a gap came in between.
HasStoredBaseline(db, i) ==
  LET e == db.events[i]
      found == {j \in 1..i - 1 :
                  LET b == db.events[j] IN
                  /\ b.kind = "baseline" /\ b.token = e.token
                  /\ b.gen = e.gen /\ b.session = e.session} IN
  /\ found # {}
  /\ \A j \in GreatestOf(found) + 1..i - 1 :
       IsGap(db.events[j]) => ~Affects(db.events[j], {e.market}, {e.token})

BaselineKey(e) == <<e.session, e.gen, e.token>>

\* Mutant: only the baselines that were read count.
Verify_Selection(db, acc, i) ==
  LET e == db.events[i] IN
  CASE e.kind = "metadata" -> acc
    [] IsGap(e) ->
         [acc EXCEPT !.verified = {k \in @ : k[3] \notin ResolvedTokens(e)}]
    [] e.kind = "baseline" -> [acc EXCEPT !.verified = @ \cup {BaselineKey(e)}]
    [] e.kind = "delta" -> [acc EXCEPT !.ok = @ /\ BaselineKey(e) \in acc.verified]
    [] OTHER -> acc
\* _validate_stored_event_dependencies, over the baselines verified so far
VerifyMarketData(db, acc, i) ==
  LET e == db.events[i] IN
  IF ~HasMetadataBefore(db, e.market, i) THEN [acc EXCEPT !.ok = FALSE]
  ELSE CASE e.kind = "baseline" -> [acc EXCEPT !.verified = @ \cup {BaselineKey(e)}]
         [] e.kind = "delta" ->
              [ok |-> acc.ok /\ (BaselineKey(e) \in acc.verified \/ HasStoredBaseline(db, i)),
               verified |-> acc.verified \cup {BaselineKey(e)}]
         [] OTHER -> acc
Verify(db, acc, i) ==
  LET e == db.events[i] IN
  CASE e.kind = "metadata" -> acc
    [] IsGap(e) ->
         [acc EXCEPT !.verified = {k \in @ : k[3] \notin ResolvedTokens(e)}]
    [] OTHER -> VerifyMarketData(db, acc, i)

Readable(db, sel) ==
  FoldLeft(LAMBDA acc, i : IF IsStreamed(db, sel, i) THEN Verify(db, acc, i) ELSE acc,
           [ok |-> TRUE, verified |-> {}], Positions(db)).ok

RejectsKnownGaps(db, sel) == CoverageGaps(db, sel) # {}

\* event_bounds, event_count: gaps are no market data.  An empty sequence is None.
MarketEvents(db, sel) == SelectSeq(EventQuery(db, sel), LAMBDA i : ~IsGap(db.events[i]))

-----------------------------------------------------------------------------
(* Markets: the latest metadata at a time, with the resolution known by then *)

MetadataBy(db, m, at) ==
  {i \in DOMAIN db.events :
     db.events[i].kind = "metadata" /\ db.events[i].market = m /\ db.events[i].at <= at}
MarketsAt(db, session, at, markets) ==
  {m \in markets :
     /\ MetadataBy(db, m, at) # {}
     /\ \E i \in DOMAIN db.events : db.events[i].session = session /\ db.events[i].market = m}

\* A market's first metadata is of the open market, a revision tells of its end.
IsResolution(db, i) ==
  \/ db.events[i].kind = "resolution"
  \/ db.events[i].kind = "metadata" /\ HasMetadataBefore(db, db.events[i].market, i)
ResolvedAt(db, m, at) ==
  \E i \in DOMAIN db.events :
    db.events[i].market = m /\ db.events[i].at <= at /\ IsResolution(db, i)

-----------------------------------------------------------------------------
(* Where a replay can take up the books of a market: a generation with a    *)
(* baseline of every token, or a checkpoint of every token at one boundary  *)

Complete(m, rows) ==
  \E gen \in {r.gen : r \in rows} :
    \A t \in TokensOf[m] : \E r \in rows : r.token = t /\ r.gen = gen
BaselinesIn(db, sel) ==
  {db.events[i] : i \in {j \in DOMAIN db.events :
     LET e == db.events[j] IN
     e.kind = "baseline" /\ sel.from <= e.at /\ e.at <= sel.to /\ e.session = sel.session}}
HasCompleteBaselinePair(db, sel, m) ==
  Complete(m, {b \in BaselinesIn(db, sel) : b.market = m})

NoPair == [at |-> 0, seq |-> 0]
PairRows(db, m, session, at) ==
  {c \in db.checkpoints : c.market = m /\ c.session = session /\ c.at <= at}
Later(p, q) == p.at > q.at \/ (p.at = q.at /\ p.seq >= q.seq)
\* _checkpoint_pair_before, which does not look for gaps by itself
NewestPair(db, m, session, at) ==
  LET rows == PairRows(db, m, session, at)
      pairs == {p \in {[at |-> c.at, seq |-> c.seq] : c \in rows} :
                  Complete(m, {c \in rows : c.at = p.at /\ c.seq = p.seq})} IN
  IF MetadataBy(db, m, at) = {} \/ pairs = {} THEN NoPair
  ELSE CHOOSE p \in pairs : \A q \in pairs : Later(p, q)

-----------------------------------------------------------------------------
(* Sessions and the archive's end *)

LatestSession(db) == Last(db.sessions)
LastSequence(db) == Len(db.events)
ObservedTimes(db) == {db.events[i].at : i \in DOMAIN db.events}
                       \cup {c.at : c \in db.checkpoints}
\* 0 stands for None: the code tests both with "or".
LastObserved(db) == IF ObservedTimes(db) = {} THEN 0 ELSE GreatestOf(ObservedTimes(db))
SessionTimes(db, s) ==
  {db.events[i].at : i \in {j \in DOMAIN db.events : db.events[j].session = s}}
    \cup {c.at : c \in {d \in db.checkpoints : d.session = s}}
LastSessionObserved(db, s) ==
  IF SessionTimes(db, s) = {} THEN 0 ELSE GreatestOf(SessionTimes(db, s))
=============================================================================
