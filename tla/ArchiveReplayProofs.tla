------------------------ MODULE ArchiveReplayProofs ------------------------
(***************************************************************************)
(* Proofs about a recording and its backtest, for any markets, tokens,     *)
(* bounds and windows.                                                     *)
(***************************************************************************)
EXTENDS ArchiveReplay, FiniteSetTheorems, SequenceTheorems, WellFoundedInduction, TLAPS

-----------------------------------------------------------------------------
(* Induction and folds *)

LEMMA NatSetInduction ==
  ASSUME NEW S, 0 \in S, \A n \in Nat : n \in S => n + 1 \in S
  PROVE  Nat \subseteq S
<1> DEFINE T == {n \in Nat : n \notin S}
<1> SUFFICES ASSUME T # {} PROVE FALSE
  OBVIOUS
<1>1. PICK m \in T : \A k \in T : <<k, m>> \notin OpToRel(<, Nat)
  BY WFMin, NatLessThanWellFounded
<1>2. m # 0 /\ m - 1 \in Nat /\ m - 1 < m
  OBVIOUS
<1>3. m - 1 \notin T
  BY <1>1, <1>2 DEF OpToRel
<1>4. (m - 1) + 1 \in S
  BY <1>2, <1>3
<1> QED BY <1>2, <1>4

LEMMA MaxUpTo ==
  ASSUME NEW k \in Nat, NEW s, s \subseteq 1..k + 1, k + 1 \in s
  PROVE  Max(s) = k + 1
<1>1. \A y \in s : k + 1 >= y
  OBVIOUS
<1>2. \A x \in s : (\A y \in s : x >= y) => x = k + 1
  OBVIOUS
<1> QED BY <1>1, <1>2 DEF Max

LEMMA MaxIn ==
  ASSUME NEW n \in Nat, NEW s, s \subseteq 1..n, s # {}
  PROVE  Max(s) \in s /\ \A y \in s : Max(s) >= y
<1> DEFINE T == {k \in Nat : \A y \in s : y <= k}
<1>1. n \in T
  OBVIOUS
<1>2. PICK m \in T : \A k \in T : <<k, m>> \notin OpToRel(<, Nat)
  BY <1>1, WFMin, NatLessThanWellFounded
<1>3. m \in s
  <2> SUFFICES ASSUME m \notin s PROVE FALSE
    OBVIOUS
  <2>1. m # 0
    <3>1. PICK y \in s : y \in 1..n
      OBVIOUS
    <3>2. y <= m /\ y >= 1
      BY <3>1
    <3> QED BY <3>1, <3>2
  <2>2. m - 1 \in T /\ m - 1 < m /\ m - 1 \in Nat /\ m \in Nat
    BY <2>1
  <2> QED BY <1>2, <2>2 DEF OpToRel
<1>4. \A y \in s : m >= y
  OBVIOUS
<1> QED BY <1>3, <1>4 DEF Max

Iterations(A, n, F, base) ==
  {it \in [SUBSET (1..n) -> A] :
     \A s \in SUBSET (1..n) :
       it[s] = IF s = {} THEN base ELSE F[Max(s)][it[s \ {Max(s)}]]}

LEMMA Iterated ==
  ASSUME NEW A, NEW n \in Nat, NEW F \in [1..n -> [A -> A]], NEW base \in A
  PROVE  \E it : it \in Iterations(A, n, F, base)
<1> DEFINE Good(k, it) ==
             /\ it \in [SUBSET (1..k) -> A]
             /\ \A s \in SUBSET (1..k) :
                  it[s] = IF s = {} THEN base ELSE F[Max(s)][it[s \ {Max(s)}]]
           S == {k \in Nat : k <= n => \E it : Good(k, it)}
<1> HIDE DEF Good
<1>0. \A k \in Nat : k \in S <=> (k <= n => \E it : Good(k, it))
  OBVIOUS
<1> HIDE DEF S
<1>1. 0 \in S
  <2>1. \A s \in SUBSET (1..0) : s = {}
    OBVIOUS
  <2> DEFINE it0 == [s \in SUBSET (1..0) |-> base]
  <2>3. it0 \in [SUBSET (1..0) -> A]
    OBVIOUS
  <2>4. \A s \in SUBSET (1..0) : it0[s] = base
    OBVIOUS
  <2> HIDE DEF it0
  <2>2. Good(0, it0)
    BY <2>1, <2>3, <2>4 DEF Good
  <2> QED BY <2>2, <1>0
<1>2. ASSUME NEW k \in Nat, k \in S PROVE k + 1 \in S
  <2> SUFFICES ASSUME k + 1 <= n PROVE \E it : Good(k + 1, it)
    BY <1>0
  <2>1. PICK it : Good(k, it)
    BY <1>0, <1>2
  <2> DEFINE longer == [s \in SUBSET (1..k + 1) |->
                        IF k + 1 \in s THEN F[k + 1][it[s \ {k + 1}]] ELSE it[s]]
  <2>2. \A s \in SUBSET (1..k + 1) :
          /\ s \ {k + 1} \in SUBSET (1..k)
          /\ k + 1 \notin s => s \in SUBSET (1..k)
    OBVIOUS
  <2>3. longer \in [SUBSET (1..k + 1) -> A]
    <3>1. k + 1 \in 1..n /\ F[k + 1] \in [A -> A]
      OBVIOUS
    <3> QED BY <2>1, <2>2, <3>1 DEF Good
  <2> HIDE DEF longer
  <2>5. \A s \in SUBSET (1..k + 1) :
          longer[s] = IF k + 1 \in s THEN F[k + 1][it[s \ {k + 1}]] ELSE it[s]
    BY DEF longer
  <2>4. ASSUME NEW s \in SUBSET (1..k + 1)
        PROVE  longer[s] = IF s = {} THEN base ELSE F[Max(s)][longer[s \ {Max(s)}]]
    <3>1. CASE k + 1 \in s
      <4>1. Max(s) = k + 1
        BY <3>1, MaxUpTo
      <4>2. longer[s \ {k + 1}] = it[s \ {k + 1}]
        BY <2>2, <2>5
      <4> QED BY <3>1, <4>1, <4>2, <2>5
    <3>2. CASE k + 1 \notin s
      <4>1. s \in SUBSET (1..k) /\ s \ {Max(s)} \in SUBSET (1..k)
        BY <3>2, <2>2
      <4>2. longer[s] = it[s] /\ longer[s \ {Max(s)}] = it[s \ {Max(s)}]
        BY <3>2, <4>1, <2>5
      <4> QED BY <2>1, <4>1, <4>2 DEF Good
    <3> QED BY <3>1, <3>2
  <2> QED BY <2>3, <2>4 DEF Good
<1>3. n \in S
  BY <1>1, <1>2, NatSetInduction
<1>4. PICK it : Good(n, it)
  BY <1>0, <1>3
<1> QED BY <1>4 DEF Good, Iterations

(* The prefixes that a fold goes through are nested intervals. *)
LEMMA UpTo ==
  ASSUME NEW n \in Nat, NEW k \in Nat, k < n
  PROVE  /\ 1..k + 1 \in SUBSET (1..n) /\ 1..k + 1 # {}
         /\ Max(1..k + 1) = k + 1
         /\ (1..k + 1) \ {Max(1..k + 1)} = 1..k
<1>1. k + 1 \in 1..k + 1
  OBVIOUS
<1>2. Max(1..k + 1) = k + 1
  BY <1>1, MaxUpTo
<1>3. 1..k + 1 \subseteq 1..n
  OBVIOUS
<1>4. (1..k + 1) \ {k + 1} = 1..k
  OBVIOUS
<1> QED BY <1>1, <1>2, <1>3, <1>4

(* What is computed up to each position. *)
Steps(A, n, F, base) ==
  {v \in [0..n -> A] : v[0] = base /\ \A k \in 1..n : v[k] = F[k][v[k - 1]]}

PrefixValues(n, c) == [k \in 0..n |-> c[1..k]]

LEMMA StepsOf ==
  ASSUME NEW A, NEW n \in Nat, NEW F \in [1..n -> [A -> A]], NEW base \in A,
         NEW c, c[{}] = base,
         \A k \in Nat : k < n /\ c[1..k] \in A => c[1..k + 1] = F[k + 1][c[1..k]]
  PROVE  PrefixValues(n, c) \in Steps(A, n, F, base)
<1> DEFINE S == {k \in Nat : k <= n => c[1..k] \in A}
           v == PrefixValues(n, c)
<1>1. \A k \in Nat : k \in S <=> (k <= n => c[1..k] \in A)
  OBVIOUS
<1> HIDE DEF S
<1>2. 1..0 = {}
  OBVIOUS
<1>3. 0 \in S
  BY <1>1, <1>2
<1>4. ASSUME NEW k \in Nat, k \in S PROVE k + 1 \in S
  <2> SUFFICES ASSUME k + 1 <= n PROVE c[1..k + 1] \in A
    BY <1>1
  <2>1. c[1..k] \in A /\ k < n
    BY <1>1, <1>4
  <2>2. F[k + 1] \in [A -> A]
    OBVIOUS
  <2> QED BY <2>1, <2>2
<1>5. \A k \in 0..n : c[1..k] \in A
  <2>1. Nat \subseteq S
    BY <1>3, <1>4, NatSetInduction
  <2>2. \A k \in 0..n : k \in Nat /\ k <= n
    OBVIOUS
  <2> QED BY <1>1, <2>1, <2>2
<1>6. v \in [0..n -> A] /\ v[0] = base /\ \A k \in 0..n : v[k] = c[1..k]
  BY <1>2, <1>5 DEF PrefixValues
<1> HIDE DEF v
<1>7. ASSUME NEW k \in 1..n PROVE v[k] = F[k][v[k - 1]]
  <2>1. k - 1 \in Nat /\ k - 1 < n /\ (k - 1) + 1 = k /\ k - 1 \in 0..n
    OBVIOUS
  <2>2. c[1..(k - 1) + 1] = F[(k - 1) + 1][c[1..k - 1]]
    BY <2>1, <1>5
  <2> QED BY <1>6, <2>1, <2>2
<1> QED BY <1>6, <1>7 DEF Steps, v

LEMMA GreatestIs ==
  ASSUME NEW S, S \subseteq Nat, NEW x \in S, \A y \in S : y <= x
  PROVE  GreatestOf(S) = x
<1>1. \A z \in S : (\A y \in S : y <= z) => z = x
  OBVIOUS
<1> QED BY <1>1 DEF GreatestOf

LEMMA GreatestExists ==
  ASSUME NEW n \in Nat, NEW S, S \subseteq 0..n, S # {}
  PROVE  GreatestOf(S) \in S /\ \A y \in S : y <= GreatestOf(S)
<1> DEFINE T == {k \in Nat : \A y \in S : y <= k}
<1>1. n \in T
  OBVIOUS
<1>2. PICK m \in T : \A k \in T : <<k, m>> \notin OpToRel(<, Nat)
  BY <1>1, WFMin, NatLessThanWellFounded
<1>3. m \in S
  <2> SUFFICES ASSUME m \notin S PROVE FALSE
    OBVIOUS
  <2>1. PICK y \in S : y \in 0..n
    OBVIOUS
  <2>2. y <= m /\ y # m /\ y \in Nat
    BY <2>1
  <2>3. m - 1 \in T /\ m - 1 < m /\ m - 1 \in Nat /\ m \in Nat
    BY <2>2
  <2> QED BY <1>2, <2>3 DEF OpToRel
<1>4. S \subseteq Nat
  OBVIOUS
<1>5. GreatestOf(S) = m
  BY <1>3, <1>4, GreatestIs
<1> QED BY <1>3, <1>5

LEMMA GreaterOfTwo ==
  ASSUME NEW a \in Nat, NEW b \in Nat
  PROVE  /\ GreatestOf({a, b}) \in {a, b}
         /\ a <= GreatestOf({a, b}) /\ b <= GreatestOf({a, b})
<1>1. CASE a <= b
  <2>1. GreatestOf({a, b}) = b
    BY <1>1, GreatestIs
  <2> QED BY <1>1, <2>1
<1>2. CASE b <= a
  <2>1. GreatestOf({a, b}) = a
    BY <1>2, GreatestIs
  <2> QED BY <1>2, <2>1
<1> QED BY <1>1, <1>2


-----------------------------------------------------------------------------
(* Rows *)

Rows == [session : Nat, gen : Nat, at : 0..MaxTime,
         kind : {"metadata", "baseline", "delta", "resolution", "gap"},
         market : Market \cup {NoMarket}, token : Token \cup {NoToken},
         start : Nat, end : Nat, scope : SUBSET Market, book : Nat]
SessionRows == [start : 0..MaxTime, end : Nat,
                status : {"active", "incomplete", "complete", "failed"}]
CheckpointRecords == [seq : Nat, session : Nat, gen : Nat, at : 0..MaxTime,
                      market : Market, token : Token, book : Nat]
Archives == [sessions : Seq(SessionRows), events : Seq(Rows),
             checkpoints : SUBSET CheckpointRecords]
Keys == Nat \X (Token \cup {NoToken})
Memories == [session : Nat, next : Nat, last : 0..MaxTime, baselines : SUBSET Keys,
             hasGap : BOOLEAN, resumeFrom : Nat]

\* A row that is no gap is of a market whose metadata came before.
MetadataFirst(d) ==
  \A i \in DOMAIN d.events :
    d.events[i].kind \notin {"gap", "metadata"} => HasMetadataBefore(d, d.events[i].market, i)
\* A delta rests on a baseline of its generation, with no gap in between.
BaselinesFirst(d) ==
  \A i \in DOMAIN d.events : d.events[i].kind = "delta" => HasStoredBaseline(d, i)

\* Row j is the baseline that the archive remembers of generation and token k.
Holds(d, s, k, j) ==
  LET b == d.events[j] IN
  /\ b.kind = "baseline" /\ b.session = s /\ b.gen = k[1] /\ b.token = k[2]
  /\ \A i \in j + 1..Len(d.events) : IsGap(d.events[i]) => k[2] \notin ResolvedTokens(d.events[i])
\* What the archive remembers of its session can be read from it.
Remembers(d, s, baselines) ==
  \A k \in baselines : \E j \in DOMAIN d.events : Holds(d, s, k, j)

RowsInv(d) == d \in Archives /\ MetadataFirst(d) /\ BaselinesFirst(d)

RecordingInv ==
  /\ RowsInv(db)
  /\ memory \in Memories
  /\ time \in 1..MaxTime
  /\ exchange \in [Token -> Nat]
  /\ db.sessions # <<>>
  /\ memory.session = Len(db.sessions)
  /\ memory.next = Len(db.events) + 1
  /\ Remembers(db, memory.session, memory.baselines)

LEMMA RowTypes ==
  ASSUME NEW e \in Rows
  PROVE  /\ e.session \in Nat /\ e.gen \in Nat /\ e.at \in 0..MaxTime /\ e.at \in Nat
         /\ e.kind \in {"metadata", "baseline", "delta", "resolution", "gap"}
         /\ e.market \in Market \cup {NoMarket} /\ e.token \in Token \cup {NoToken}
         /\ e.start \in Nat /\ e.end \in Nat /\ e.scope \subseteq Market /\ e.book \in Nat
         /\ <<e.gen, e.token>> \in Keys
<1>1. e.at \in Nat
  BY ReplayAssumption DEF Rows
<1> QED BY <1>1 DEF Rows, Keys

LEMMA ArchiveTypes ==
  ASSUME NEW d \in Archives
  PROVE  /\ d.sessions \in Seq(SessionRows) /\ d.events \in Seq(Rows)
         /\ d.checkpoints \subseteq CheckpointRecords
         /\ d = [sessions |-> d.sessions, events |-> d.events, checkpoints |-> d.checkpoints]
         /\ DOMAIN d.events = 1..Len(d.events) /\ Len(d.events) \in Nat
         /\ DOMAIN d.sessions = 1..Len(d.sessions) /\ Len(d.sessions) \in Nat
         /\ \A i \in DOMAIN d.events : d.events[i] \in Rows
         /\ \A i \in DOMAIN d.sessions : d.sessions[i] \in SessionRows
<1>1. /\ d.sessions \in Seq(SessionRows) /\ d.events \in Seq(Rows)
      /\ d.checkpoints \subseteq CheckpointRecords
      /\ d = [sessions |-> d.sessions, events |-> d.events, checkpoints |-> d.checkpoints]
  BY DEF Archives
<1> QED BY <1>1

\* What the dependencies of the rows are read from is the same.
Alike(d, d2) ==
  /\ Len(d2.events) = Len(d.events)
  /\ \A i \in DOMAIN d.events :
       /\ d2.events[i].kind = d.events[i].kind /\ d2.events[i].market = d.events[i].market
       /\ d2.events[i].token = d.events[i].token /\ d2.events[i].gen = d.events[i].gen
       /\ d2.events[i].session = d.events[i].session /\ d2.events[i].scope = d.events[i].scope
       /\ d2.events[i].at = d.events[i].at

LEMMA AlikeGaps ==
  ASSUME NEW g, NEW h, g.kind = h.kind, g.scope = h.scope
  PROVE  /\ IsGap(g) = IsGap(h) /\ ResolvedTokens(g) = ResolvedTokens(h)
         /\ \A ms, ts : Affects(g, ms, ts) = Affects(h, ms, ts)
BY DEF IsGap, ResolvedTokens, Affects, IsGlobal

\* The dependencies of a row lie before it.
Before(d, d2, i) ==
  /\ DOMAIN d.events = 1..Len(d.events) /\ DOMAIN d2.events = 1..Len(d2.events)
  /\ Len(d.events) \in Nat /\ Len(d2.events) \in Nat
  /\ i \in DOMAIN d.events /\ i \in DOMAIN d2.events
  /\ \A j \in 1..i :
       /\ d2.events[j].kind = d.events[j].kind /\ d2.events[j].market = d.events[j].market
       /\ d2.events[j].token = d.events[j].token /\ d2.events[j].gen = d.events[j].gen
       /\ d2.events[j].session = d.events[j].session /\ d2.events[j].scope = d.events[j].scope

LEMMA SameDependencies ==
  ASSUME NEW d, NEW d2, NEW i, Before(d, d2, i)
  PROVE  /\ \A m : HasMetadataBefore(d, m, i) <=> HasMetadataBefore(d2, m, i)
         /\ HasStoredBaseline(d, i) <=> HasStoredBaseline(d2, i)
<1>1. i \in Nat /\ i - 1 \in Int /\ \A j \in 1..i - 1 : j \in 1..i
  BY DEF Before
<1>2. \A m : HasMetadataBefore(d, m, i) <=> HasMetadataBefore(d2, m, i)
  BY <1>1 DEF Before, HasMetadataBefore
<1> DEFINE e == d.events[i]
           e2 == d2.events[i]
           found == {j \in 1..i - 1 : LET b == d.events[j] IN
                       /\ b.kind = "baseline" /\ b.token = e.token
                       /\ b.gen = e.gen /\ b.session = e.session}
           found2 == {j \in 1..i - 1 : LET b == d2.events[j] IN
                       /\ b.kind = "baseline" /\ b.token = e2.token
                       /\ b.gen = e2.gen /\ b.session = e2.session}
<1>3. e2.token = e.token /\ e2.gen = e.gen /\ e2.session = e.session /\ e2.market = e.market
  BY <1>1 DEF Before
<1>4. found2 = found
  BY <1>1, <1>3 DEF Before
<1> DEFINE clear == \A j \in GreatestOf(found) + 1..i - 1 :
                      IsGap(d.events[j]) => ~Affects(d.events[j], {e.market}, {e.token})
           clear2 == \A j \in GreatestOf(found) + 1..i - 1 :
                      IsGap(d2.events[j]) => ~Affects(d2.events[j], {e.market}, {e.token})
<1>5. HasStoredBaseline(d, i) <=> found # {} /\ clear
  BY DEF HasStoredBaseline
<1>6. HasStoredBaseline(d2, i) <=> found # {} /\ clear2
  BY <1>3, <1>4 DEF HasStoredBaseline
<1>7. ASSUME found # {} PROVE clear <=> clear2
  <2>1. GreatestOf(found) \in found
    <3>1. found \subseteq 0..i
      BY <1>1
    <3> QED BY <1>1, <1>7, <3>1, GreatestExists
  <2>4. GreatestOf(found) \in 1..i - 1
    BY <2>1
  <2>2. \A j \in GreatestOf(found) + 1..i - 1 : j \in 1..i
    <3> DEFINE n == GreatestOf(found)
    <3> HIDE DEF n
    <3>1. n \in 1..i - 1
      BY <2>4 DEF n
    <3>2. \A j \in n + 1..i - 1 : j \in 1..i
      BY <1>1, <3>1
    <3> QED BY <3>2 DEF n
  <2> HIDE DEF found, found2
  <2>3. \A j \in 1..i : /\ IsGap(d.events[j]) = IsGap(d2.events[j])
                        /\ \A ms, ts : Affects(d.events[j], ms, ts) = Affects(d2.events[j], ms, ts)
    BY AlikeGaps DEF Before
  <2> QED BY <2>2, <2>3
<1> QED BY <1>2, <1>5, <1>6, <1>7

LEMMA AlikeKeeps ==
  ASSUME NEW d \in Archives, NEW d2 \in Archives, Alike(d, d2)
  PROVE  /\ RowsInv(d) => RowsInv(d2)
         /\ KnownMarkets(d2) = KnownMarkets(d)
         /\ \A s, B : Remembers(d, s, B) => Remembers(d2, s, B)
<1>1. DOMAIN d2.events = DOMAIN d.events /\ DOMAIN d.events = 1..Len(d.events)
      /\ Len(d.events) \in Nat /\ Len(d2.events) = Len(d.events)
  BY ArchiveTypes DEF Alike
<1>2. \A i \in DOMAIN d.events : Before(d, d2, i)
  BY <1>1 DEF Before, Alike
<1>3. KnownMarkets(d2) = KnownMarkets(d)
  BY <1>1 DEF KnownMarkets, MarketsWith, Alike
<1>4. ASSUME RowsInv(d) PROVE RowsInv(d2)
  BY <1>1, <1>2, <1>4, SameDependencies DEF RowsInv, MetadataFirst, BaselinesFirst, Alike
<1>5. ASSUME NEW s, NEW B, Remembers(d, s, B) PROVE Remembers(d2, s, B)
  <2> SUFFICES ASSUME NEW k \in B PROVE \E j \in DOMAIN d2.events : Holds(d2, s, k, j)
    BY DEF Remembers
  <2>1. PICK j \in DOMAIN d.events : Holds(d, s, k, j)
    BY <1>5 DEF Remembers
  <2>2. \A i \in j + 1..Len(d.events) :
          i \in DOMAIN d.events
          /\ IsGap(d.events[i]) = IsGap(d2.events[i])
          /\ ResolvedTokens(d.events[i]) = ResolvedTokens(d2.events[i])
    BY <1>1, AlikeGaps DEF Alike
  <2>3. Holds(d2, s, k, j)
    BY <1>1, <2>1, <2>2 DEF Holds, Alike
  <2> QED BY <1>1, <2>3
<1> QED BY <1>3, <1>4, <1>5

-----------------------------------------------------------------------------
(* Appending a row *)

LEMMA WrittenIs ==
  ASSUME NEW d \in Archives, NEW rows \in Seq(Rows)
  PROVE  /\ Written(d, rows) \in Archives
         /\ Written(d, rows).events = d.events \o rows
         /\ Written(d, rows).sessions = d.sessions
         /\ Written(d, rows).checkpoints = d.checkpoints
<1>1. Written(d, rows).events = d.events \o rows
  BY DEF Written, Archives
<1>2. Written(d, rows).sessions = d.sessions /\ Written(d, rows).checkpoints = d.checkpoints
  BY DEF Written, Archives
<1>3. d.events \o rows \in Seq(Rows)
  BY ArchiveTypes
<1>4. Written(d, rows) \in Archives
  BY <1>3 DEF Written, Archives
<1> QED BY <1>1, <1>2, <1>4

LEMMA WrittenOne ==
  ASSUME NEW d \in Archives, NEW e \in Rows
  PROVE  /\ Written(d, <<e>>) \in Archives
         /\ Len(Written(d, <<e>>).events) = Len(d.events) + 1
         /\ DOMAIN Written(d, <<e>>).events = 1..Len(d.events) + 1
         /\ \A i \in 1..Len(d.events) : Written(d, <<e>>).events[i] = d.events[i]
         /\ Written(d, <<e>>).events[Len(d.events) + 1] = e
         /\ Written(d, <<e>>).sessions = d.sessions
         /\ Written(d, <<e>>).checkpoints = d.checkpoints
<1>1. <<e>> \in Seq(Rows) /\ Len(<<e>>) = 1 /\ <<e>>[1] = e
  OBVIOUS
<1>2. d.events \in Seq(Rows) /\ Len(d.events) \in Nat
  BY ArchiveTypes
<1>3. Written(d, <<e>>).events = d.events \o <<e>>
  BY <1>1, WrittenIs
<1> HIDE DEF Written
<1>4. Written(d, <<e>>) \in Archives /\ Written(d, <<e>>).sessions = d.sessions
      /\ Written(d, <<e>>).checkpoints = d.checkpoints
  BY <1>1, WrittenIs
<1>5. /\ Len(d.events \o <<e>>) = Len(d.events) + 1
      /\ DOMAIN (d.events \o <<e>>) = 1..Len(d.events) + 1
      /\ \A i \in 1..Len(d.events) : (d.events \o <<e>>)[i] = d.events[i]
      /\ (d.events \o <<e>>)[Len(d.events) + 1] = e
  BY <1>1, <1>2
<1> QED BY <1>3, <1>4, <1>5

LEMMA WrittenTwo ==
  ASSUME NEW d \in Archives, NEW e \in Rows, NEW f \in Rows
  PROVE  Written(d, <<e, f>>) = Written(Written(d, <<e>>), <<f>>)
<1> DEFINE ss == d.sessions
           ev == d.events
           cs == d.checkpoints
<1>1. ev \in Seq(Rows) /\ d = [sessions |-> ss, events |-> ev, checkpoints |-> cs]
  BY ArchiveTypes
<1> HIDE DEF ss, ev, cs
<1>2. ev \o <<e, f>> = (ev \o <<e>>) \o <<f>>
  <2> DEFINE a == ev \o <<e, f>>
             b == (ev \o <<e>>) \o <<f>>
             n == Len(ev)
  <2>1. n \in Nat /\ Len(ev \o <<e>>) = n + 1 /\ ev \o <<e>> \in Seq(Rows)
    BY <1>1
  <2>2. a \in Seq(Rows) /\ Len(a) = n + 2
    BY <1>1
  <2>3. b \in Seq(Rows) /\ Len(b) = n + 2
    BY <2>1
  <2>4. \A i \in 1..n + 2 : i \in 1..n \/ i = n + 1 \/ i = n + 2
    BY <2>1
  <2>5. (\A i \in 1..n : a[i] = ev[i]) /\ a[n + 1] = e /\ a[n + 2] = f
    BY <1>1
  <2>6. (\A i \in 1..n : b[i] = ev[i]) /\ b[n + 1] = e /\ b[n + 2] = f
    BY <1>1
  <2> HIDE DEF a, b
  <2>7. \A i \in 1..n + 2 : a[i] = b[i]
    BY <2>4, <2>5, <2>6
  <2>8. a = b
    BY <2>2, <2>3, <2>7, SeqEqual
  <2> QED BY <2>8 DEF a, b
<1> DEFINE x == ev \o <<e>>
           y == x \o <<f>>
           z == ev \o <<e, f>>
           d1 == Written(d, <<e>>)
<1>3. d1 = [sessions |-> ss, events |-> x, checkpoints |-> cs]
  <2>1. d1 = [d EXCEPT !.events = x]
    BY <1>1 DEF Written
  <2> HIDE DEF x, d1
  <2> QED BY <1>1, <2>1
<1>4. Written(d1, <<f>>) = [sessions |-> ss, events |-> y, checkpoints |-> cs]
  <2> HIDE DEF d1
  <2>1. Written(d1, <<f>>) = [d1 EXCEPT !.events = y]
    BY <1>3 DEF Written
  <2> HIDE DEF x, y
  <2> QED BY <1>3, <2>1
<1>5. Written(d, <<e, f>>) = [sessions |-> ss, events |-> z, checkpoints |-> cs]
  <2>1. Written(d, <<e, f>>) = [d EXCEPT !.events = z]
    BY <1>1 DEF Written
  <2> HIDE DEF z
  <2> QED BY <1>1, <2>1
<1>6. y = z
  BY <1>2
<1> HIDE DEF y, z
<1> QED BY <1>4, <1>5, <1>6

\* The dependencies that append_events looks for in what the archive knows
RestsOn(e, known, baselines) ==
  /\ e.kind \notin {"gap", "metadata"} => e.market \in known
  /\ e.kind = "delta" => <<e.gen, e.token>> \in baselines

LEMMA DependentRests ==
  ASSUME NEW e, NEW seen, Dependent(e, seen)
  PROVE  RestsOn(e, seen.markets, seen.baselines)
<1>1. CASE e.kind \in {"gap", "metadata"}
  BY <1>1 DEF RestsOn
<1>2. CASE e.kind = "delta"
  BY <1>2 DEF Dependent, RestsOn
<1>3. CASE e.kind \notin {"gap", "metadata", "delta"}
  BY <1>3 DEF Dependent, RestsOn
<1> QED BY <1>1, <1>2, <1>3

LEMMA RememberedOne ==
  ASSUME NEW d \in Archives, NEW e \in Rows, NEW B, Remembers(d, e.session, B)
  PROVE  Remembers(Written(d, <<e>>), e.session, BaselinesAfter(e, B))
<1> DEFINE n == Len(d.events)
           d2 == Written(d, <<e>>)
<1>1. /\ n \in Nat /\ DOMAIN d.events = 1..n /\ DOMAIN d2.events = 1..n + 1
      /\ Len(d2.events) = n + 1
      /\ \A i \in 1..n : d2.events[i] = d.events[i]
      /\ d2.events[n + 1] = e
  BY ArchiveTypes, WrittenOne
<1> HIDE DEF n, d2
<1>2. ASSUME NEW k \in B, IsGap(e) => k[2] \notin ResolvedTokens(e)
      PROVE  \E j \in DOMAIN d2.events : Holds(d2, e.session, k, j)
  <2>1. PICK j \in 1..n : Holds(d, e.session, k, j)
    BY <1>1 DEF Remembers
  <2>2. \A i \in j + 1..n + 1 : i = n + 1 \/ i \in j + 1..n
    BY <1>1
  <2>3. \A i \in j + 1..n : i \in 1..n
    BY <1>1
  <2>4. Holds(d2, e.session, k, j)
    BY <1>1, <1>2, <2>1, <2>2, <2>3 DEF Holds, n
  <2> QED BY <1>1, <2>4
<1>3. ASSUME NEW k, e.kind = "baseline", k = <<e.gen, e.token>>
      PROVE  \E j \in DOMAIN d2.events : Holds(d2, e.session, k, j)
  <2>1. (n + 1) + 1..n + 1 = {} /\ n + 1 \in DOMAIN d2.events
    BY <1>1
  <2>2. k[1] = e.gen /\ k[2] = e.token
    BY <1>3
  <2>3. Holds(d2, e.session, k, n + 1)
    BY <1>1, <1>3, <2>1, <2>2 DEF Holds
  <2> QED BY <2>1, <2>3
<1>4. ASSUME NEW k \in BaselinesAfter(e, B)
      PROVE  \E j \in DOMAIN d2.events : Holds(d2, e.session, k, j)
  <2>1. CASE e.kind = "baseline"
    BY <1>2, <1>3, <1>4, <2>1 DEF BaselinesAfter, IsGap
  <2>2. CASE e.kind = "gap"
    <3>1. k \in B /\ k[2] \notin ResolvedTokens(e)
      BY <1>4, <2>2 DEF BaselinesAfter
    <3> QED BY <1>2, <3>1
  <2>3. CASE e.kind \notin {"baseline", "gap"}
    <3>1. k \in B /\ ~IsGap(e)
      BY <1>4, <2>3 DEF BaselinesAfter, IsGap
    <3> QED BY <1>2, <3>1
  <2> QED BY <2>1, <2>2, <2>3
<1> QED BY <1>4 DEF Remembers, d2

LEMMA KnownOne ==
  ASSUME NEW d \in Archives, NEW e \in Rows
  PROVE  KnownMarkets(Written(d, <<e>>))
           = IF e.kind = "metadata" THEN KnownMarkets(d) \cup {e.market} ELSE KnownMarkets(d)
<1> DEFINE n == Len(d.events)
           d2 == Written(d, <<e>>)
<1>1. /\ n \in Nat /\ DOMAIN d.events = 1..n /\ DOMAIN d2.events = 1..n + 1
      /\ \A i \in 1..n : d2.events[i] = d.events[i]
      /\ d2.events[n + 1] = e
  BY ArchiveTypes, WrittenOne
<1> HIDE DEF n, d2
<1>2. \A i : i \in 1..n + 1 <=> i \in 1..n \/ i = n + 1
  BY <1>1
<1> SUFFICES KnownMarkets(d2)
               = IF e.kind = "metadata" THEN KnownMarkets(d) \cup {e.market} ELSE KnownMarkets(d)
  BY DEF d2
<1>3. \A m : m \in KnownMarkets(d2) <=> \E i \in 1..n + 1 : d2.events[i].kind = "metadata"
                                                         /\ d2.events[i].market = m
  BY <1>1 DEF KnownMarkets, MarketsWith
<1>4. \A m : m \in KnownMarkets(d) <=> \E i \in 1..n : d.events[i].kind = "metadata"
                                                    /\ d.events[i].market = m
  BY <1>1 DEF KnownMarkets, MarketsWith
<1>5. \A m : m \in KnownMarkets(d2) <=> \/ m \in KnownMarkets(d)
                                        \/ e.kind = "metadata" /\ e.market = m
  BY <1>1, <1>2, <1>3, <1>4
<1> QED BY <1>5

LEMMA RowsOne ==
  ASSUME NEW d, RowsInv(d), NEW e \in Rows, NEW B, Remembers(d, e.session, B),
         RestsOn(e, KnownMarkets(d), B), e.kind = "delta" => e.token \in Token
  PROVE  RowsInv(Written(d, <<e>>))
<1> DEFINE n == Len(d.events)
           d2 == Written(d, <<e>>)
<1>0. d \in Archives
  BY DEF RowsInv
<1>1. /\ d2 \in Archives
      /\ n \in Nat /\ DOMAIN d.events = 1..n /\ DOMAIN d2.events = 1..n + 1
      /\ Len(d2.events) = n + 1
      /\ \A i \in 1..n : d2.events[i] = d.events[i]
      /\ d2.events[n + 1] = e
  BY <1>0, ArchiveTypes, WrittenOne
<1>2. Len(d.events) = n
  OBVIOUS
<1> HIDE DEF n, d2
<1>3. ASSUME NEW i \in 1..n PROVE Before(d, d2, i)
  <2>1. i \in 1..n + 1 /\ \A j \in 1..i : j \in 1..n
    BY <1>1
  <2> QED BY <1>1, <1>2, <2>1 DEF Before
<1>4. MetadataFirst(d2)
  <2> SUFFICES ASSUME NEW i \in 1..n + 1, d2.events[i].kind \notin {"gap", "metadata"}
               PROVE  HasMetadataBefore(d2, d2.events[i].market, i)
    BY <1>1 DEF MetadataFirst
  <2>1. CASE i \in 1..n
    <3>1. HasMetadataBefore(d, d.events[i].market, i)
      BY <1>1, <2>1 DEF RowsInv, MetadataFirst
    <3> QED BY <1>1, <1>3, <2>1, <3>1, SameDependencies
  <2>2. CASE i = n + 1
    <3>1. e.market \in KnownMarkets(d)
      BY <1>1, <2>2 DEF RestsOn
    <3>2. PICK j \in 1..n : d.events[j].kind = "metadata" /\ d.events[j].market = e.market
      BY <1>1, <3>1 DEF KnownMarkets, MarketsWith
    <3>3. j \in 1..i - 1
      BY <1>1, <2>2
    <3> QED BY <1>1, <2>2, <3>2, <3>3 DEF HasMetadataBefore
  <2> QED BY <1>1, <2>1, <2>2
<1>5. BaselinesFirst(d2)
  <2> SUFFICES ASSUME NEW i \in 1..n + 1, d2.events[i].kind = "delta"
               PROVE  HasStoredBaseline(d2, i)
    BY <1>1 DEF BaselinesFirst
  <2>1. CASE i \in 1..n
    <3>1. HasStoredBaseline(d, i)
      BY <1>1, <2>1 DEF RowsInv, BaselinesFirst
    <3> QED BY <1>3, <2>1, <3>1, SameDependencies
  <2>2. CASE i = n + 1
    <3> DEFINE k == <<e.gen, e.token>>
               found == {j \in 1..i - 1 :
                           LET b == d2.events[j] IN
                           /\ b.kind = "baseline" /\ b.token = e.token
                           /\ b.gen = e.gen /\ b.session = e.session}
    <3>1. k \in B /\ e.token \in Token
      BY <1>1, <2>2 DEF RestsOn
    <3>2. PICK j \in 1..n : Holds(d, e.session, k, j)
      BY <1>1, <3>1 DEF Remembers
    <3>3. i - 1 = n /\ k[1] = e.gen /\ k[2] = e.token
      BY <1>1, <2>2
    <3>4. j \in found
      BY <1>1, <3>2, <3>3 DEF Holds
    <3>5. GreatestOf(found) \in found /\ j <= GreatestOf(found) /\ GreatestOf(found) \in 1..n
      <4>1. found \subseteq 0..n /\ found # {}
        <5>1. found \subseteq 1..n
          BY <3>3
        <5>2. n \in Nat
          BY <1>1
        <5> HIDE DEF found, n
        <5> QED BY <3>4, <5>1, <5>2
      <4>2. GreatestOf(found) \in found /\ \A y \in found : y <= GreatestOf(found)
        BY <1>1, <4>1, GreatestExists
      <4> QED BY <3>3, <3>4, <4>2
    <3> DEFINE g == GreatestOf(found)
    <3>6. d2.events[i] = e
      BY <1>1, <2>2
    <3>7. HasStoredBaseline(d2, i) <=>
            /\ found # {}
            /\ \A h \in g + 1..i - 1 :
                 IsGap(d2.events[h]) => ~Affects(d2.events[h], {e.market}, {e.token})
      BY <3>6 DEF HasStoredBaseline
    <3> HIDE DEF g, found
    <3>8. ASSUME NEW h \in g + 1..i - 1, IsGap(d2.events[h])
          PROVE  ~Affects(d2.events[h], {e.market}, {e.token})
      <4>1. h \in j + 1..n /\ h \in 1..n
        BY <1>1, <3>3, <3>5, <3>8 DEF g
      <4>2. e.token \notin ResolvedTokens(d2.events[h])
        BY <1>1, <1>2, <3>2, <3>3, <3>8, <4>1 DEF Holds
      <4>3. ~IsGlobal(d2.events[h])
        BY <3>1, <4>2 DEF ResolvedTokens
      <4> QED BY <4>2, <4>3 DEF Affects
    <3> QED BY <3>4, <3>7, <3>8
  <2> QED BY <1>1, <2>1, <2>2
<1> QED BY <1>1, <1>4, <1>5 DEF RowsInv, d2

-----------------------------------------------------------------------------
(* What the archive's check of one row, or of two, says *)

MaybeMarkets == Market \cup {NoMarket}
Verdict == [ok : BOOLEAN, session : Nat, last : 0..MaxTime, markets : SUBSET MaybeMarkets,
            baselines : SUBSET Keys, hasGap : BOOLEAN]

LEMMA DependentBoolean ==
  ASSUME NEW e, NEW seen
  PROVE  Dependent(e, seen) \in BOOLEAN
<1>1. CASE e.kind \in {"gap", "metadata"}
  BY <1>1 DEF Dependent
<1>2. CASE e.kind = "delta"
  BY <1>2 DEF Dependent
<1>3. CASE e.kind \notin {"gap", "metadata", "delta"}
  <2>1. Dependent(e, seen) = (e.market \in seen.markets)
    BY <1>3 DEF Dependent
  <2> QED BY <2>1
<1> QED BY <1>1, <1>2, <1>3

LEMMA SeesTypes ==
  ASSUME NEW seen \in Verdict, NEW e \in Rows
  PROVE  /\ Sees(seen, e) \in Verdict
         /\ Sees(seen, e).session = seen.session /\ Sees(seen, e).last = e.at
         /\ Sees(seen, e).markets
              = IF e.kind = "metadata" THEN seen.markets \cup {e.market} ELSE seen.markets
         /\ Sees(seen, e).baselines = BaselinesAfter(e, seen.baselines)
         /\ Sees(seen, e).ok => /\ seen.ok /\ e.session = seen.session /\ e.at >= seen.last
                                /\ RestsOn(e, seen.markets, seen.baselines)
<1>1. /\ seen.ok \in BOOLEAN /\ seen.session \in Nat /\ seen.last \in 0..MaxTime
      /\ seen.markets \in SUBSET MaybeMarkets /\ seen.baselines \in SUBSET Keys
      /\ seen.hasGap \in BOOLEAN
  BY DEF Verdict
<1> DEFINE ok == seen.ok /\ e.session = seen.session /\ e.at >= seen.last /\ Dependent(e, seen)
           markets == IF e.kind = "metadata" THEN seen.markets \cup {e.market} ELSE seen.markets
           baselines == BaselinesAfter(e, seen.baselines)
           hasGap == seen.hasGap \/ IsGap(e)
<1> DEFINE new == Sees(seen, e)
<1>2. /\ DOMAIN new = {"ok", "session", "last", "markets", "baselines", "hasGap"}
      /\ new = [f \in DOMAIN new |-> new[f]]
  BY DEF Verdict, Sees
<1>3. /\ new.session = seen.session /\ new.last = e.at
      /\ new.markets = markets /\ new.baselines = baselines
  BY DEF Verdict, Sees
<1>10. new.ok = ok
  BY DEF Verdict, Sees
<1>11. new.hasGap = hasGap
  BY DEF Verdict, Sees
<1>4. ok \in BOOLEAN /\ hasGap \in BOOLEAN
  BY <1>1, DependentBoolean DEF IsGap
<1>5. markets \in SUBSET MaybeMarkets
  BY <1>1, RowTypes DEF MaybeMarkets
<1>6. baselines \in SUBSET Keys
  BY <1>1, RowTypes DEF BaselinesAfter
<1>7. e.at \in 0..MaxTime
  BY RowTypes
<1>8. Sees(seen, e) \in Verdict
  <2>1. /\ new.ok \in BOOLEAN /\ new.session \in Nat /\ new.last \in 0..MaxTime
        /\ new.markets \in SUBSET MaybeMarkets /\ new.baselines \in SUBSET Keys
        /\ new.hasGap \in BOOLEAN
    <3> HIDE DEF ok, markets, baselines, hasGap, new
    <3> QED BY <1>1, <1>3, <1>4, <1>5, <1>6, <1>7, <1>10, <1>11
  <2> HIDE DEF new
  <2>2. new \in Verdict
    BY <1>2, <2>1 DEF Verdict
  <2> QED BY <2>2 DEF new
<1>9. ok => RestsOn(e, seen.markets, seen.baselines)
  BY DependentRests
<1> QED BY <1>3, <1>8, <1>9, <1>10

Unread(d, mem, first) ==
  [ok |-> first = mem.next, session |-> mem.session, last |-> mem.last,
   markets |-> KnownMarkets(d), baselines |-> mem.baselines, hasGap |-> mem.hasGap]

Verdicts(d, mem, first, events) ==
  {v \in [0..Len(events) -> Verdict] :
     /\ v[0] = Unread(d, mem, first)
     /\ v[Len(events)] = Checked(d, mem, first, events)
     /\ \A k \in 1..Len(events) : v[k] = Sees(v[k - 1], events[k])}

LEMMA CheckedSteps ==
  ASSUME NEW d, KnownMarkets(d) \subseteq MaybeMarkets, NEW mem \in Memories, NEW first \in Nat,
         NEW events \in Seq(Rows)
  PROVE  \E v : v \in Verdicts(d, mem, first, events)
<1> DEFINE n == Len(events)
           base == Unread(d, mem, first)
           F == [k \in 1..n |-> [x \in Verdict |-> Sees(x, events[k])]]
           Step(it) == [s \in SUBSET DOMAIN events |->
                          IF s = {} THEN base ELSE Sees(it[s \ {Max(s)}], events[Max(s)])]
           iter == CHOOSE it : it = Step(it)
<1>1. n \in Nat /\ DOMAIN events = 1..n
  OBVIOUS
<1>2. base \in Verdict
  BY DEF Verdict, Memories, Unread
<1>3. F \in [1..n -> [Verdict -> Verdict]]
  <2>1. \A k \in 1..n, x \in Verdict : Sees(x, events[k]) \in Verdict
    <3> TAKE k \in 1..n, x \in Verdict
    <3>1. events[k] \in Rows
      BY <1>1
    <3> QED BY <3>1, SeesTypes
  <2> QED BY <2>1
<1>4. \A k \in 1..n, x \in Verdict : F[k][x] = Sees(x, events[k])
  OBVIOUS
<1>5. Checked(d, mem, first, events) = iter[DOMAIN events]
  BY DEF Checked, FoldLeft, MapThenFoldSet, Unread
<1> HIDE DEF n, F, base
<1>6. \E it : it = Step(it)
  <2>1. PICK it : it \in Iterations(Verdict, n, F, base)
    BY <1>1, <1>2, <1>3, Iterated
  <2>2. /\ it \in [SUBSET (1..n) -> Verdict]
        /\ \A s \in SUBSET (1..n) :
             it[s] = IF s = {} THEN base ELSE F[Max(s)][it[s \ {Max(s)}]]
    BY <2>1 DEF Iterations
  <2>3. \A s \in SUBSET (1..n) : s # {} =>
          F[Max(s)][it[s \ {Max(s)}]] = Sees(it[s \ {Max(s)}], events[Max(s)])
    BY <1>1, <1>4, <2>2, MaxIn
  <2>4. it = Step(it)
    BY <1>1, <2>2, <2>3
  <2> QED BY <2>4
<1>7. iter = Step(iter)
  BY <1>6, Zenon
<1> HIDE DEF iter
<1>8. /\ iter[{}] = base
      /\ \A s \in SUBSET (1..n) : s # {} =>
           iter[s] = Sees(iter[s \ {Max(s)}], events[Max(s)])
  BY <1>1, <1>7
<1>9. ASSUME NEW k \in Nat, k < n, iter[1..k] \in Verdict
      PROVE  iter[1..k + 1] = F[k + 1][iter[1..k]]
  <2>1. iter[1..k + 1] = Sees(iter[1..k], events[k + 1])
    <3>1. /\ 1..k + 1 \in SUBSET (1..n) /\ 1..k + 1 # {}
          /\ Max(1..k + 1) = k + 1 /\ (1..k + 1) \ {Max(1..k + 1)} = 1..k
      BY <1>1, <1>9, UpTo
    <3> QED BY <1>8, <3>1
  <2>2. k + 1 \in 1..n
    BY <1>1, <1>9
  <2> QED BY <2>1, <2>2, <1>4, <1>9
<1> DEFINE v == PrefixValues(n, iter)
<1>10. v \in Steps(Verdict, n, F, base)
  <2>2. \A k \in Nat : k < n /\ iter[1..k] \in Verdict => iter[1..k + 1] = F[k + 1][iter[1..k]]
    BY <1>9
  <2>3. n \in Nat /\ iter[{}] = base
    BY <1>1, <1>8
  <2> QED BY <1>2, <1>3, <2>2, <2>3, StepsOf
<1>11. v \in [0..n -> Verdict] /\ v[0] = base /\ \A k \in 1..n : v[k] = F[k][v[k - 1]]
  BY <1>10 DEF Steps
<1>12. \A k \in 1..n : v[k] = Sees(v[k - 1], events[k])
  <2>1. \A k \in 1..n : k - 1 \in 0..n
    BY <1>1
  <2> QED BY <1>4, <1>11, <2>1
<1>13. v[n] = iter[DOMAIN events]
  BY <1>1 DEF PrefixValues
<1> HIDE DEF v
<1> QED BY <1>5, <1>11, <1>12, <1>13 DEF n, base, Verdicts

LEMMA KnownTypes ==
  ASSUME NEW d \in Archives
  PROVE  KnownMarkets(d) \subseteq MaybeMarkets
BY ArchiveTypes, RowTypes DEF KnownMarkets, MarketsWith, MaybeMarkets

LEMMA CheckedOne ==
  ASSUME NEW d \in Archives, NEW mem \in Memories, NEW first \in Nat, NEW e \in Rows
  PROVE  Unread(d, mem, first) \in Verdict
         /\ Checked(d, mem, first, <<e>>) = Sees(Unread(d, mem, first), e)
<1> DEFINE events == <<e>>
<1>1. events \in Seq(Rows) /\ Len(events) = 1 /\ events[1] = e
  OBVIOUS
<1>2. KnownMarkets(d) \subseteq MaybeMarkets
  BY KnownTypes
<1> HIDE DEF events
<1>3. PICK v : v \in Verdicts(d, mem, first, events)
  BY <1>1, <1>2, CheckedSteps
<1>4. /\ v[0] = Unread(d, mem, first) /\ v[0] \in Verdict
      /\ v[1] = Checked(d, mem, first, events)
      /\ v[1] = Sees(v[0], e)
  BY <1>1, <1>3 DEF Verdicts
<1> QED BY <1>4 DEF events

LEMMA CheckedTwo ==
  ASSUME NEW d \in Archives, NEW mem \in Memories, NEW first \in Nat,
         NEW e \in Rows, NEW f \in Rows
  PROVE  Checked(d, mem, first, <<e, f>>) = Sees(Sees(Unread(d, mem, first), e), f)
<1> DEFINE events == <<e, f>>
<1>1. events \in Seq(Rows) /\ Len(events) = 2 /\ events[1] = e /\ events[2] = f
  OBVIOUS
<1>2. KnownMarkets(d) \subseteq MaybeMarkets
  BY KnownTypes
<1> HIDE DEF events
<1>3. PICK v : v \in Verdicts(d, mem, first, events)
  BY <1>1, <1>2, CheckedSteps
<1>4. /\ v[0] = Unread(d, mem, first)
      /\ v[2] = Checked(d, mem, first, events)
      /\ v[1] = Sees(v[0], e)
      /\ v[2] = Sees(v[1], f)
  BY <1>1, <1>3 DEF Verdicts
<1> QED BY <1>4 DEF events

-----------------------------------------------------------------------------
(* The recorder keeps its archive readable *)

LEMMA MemoryAfterIs ==
  ASSUME NEW mem \in Memories, NEW seen \in Verdict, NEW count \in Nat
  PROVE  /\ MemoryAfter(mem, seen, count) \in Memories
         /\ MemoryAfter(mem, seen, count).session = mem.session
         /\ MemoryAfter(mem, seen, count).baselines = seen.baselines
         /\ MemoryAfter(mem, seen, count).last = seen.last
         /\ MemoryAfter(mem, seen, count).next = mem.next + count
<1> DEFINE new == MemoryAfter(mem, seen, count)
<1>1. /\ DOMAIN new = {"session", "next", "last", "baselines", "hasGap", "resumeFrom"}
      /\ new = [f \in DOMAIN new |-> new[f]]
  BY DEF Memories, MemoryAfter
<1>2. /\ new.session = mem.session /\ new.baselines = seen.baselines /\ new.last = seen.last
      /\ new.next = mem.next + count /\ new.hasGap = seen.hasGap
      /\ new.resumeFrom = mem.resumeFrom
  BY DEF Memories, MemoryAfter
<1>3. /\ mem.session \in Nat /\ mem.next \in Nat /\ mem.resumeFrom \in Nat
      /\ seen.baselines \in SUBSET Keys /\ seen.last \in 0..MaxTime /\ seen.hasGap \in BOOLEAN
  BY DEF Memories, Verdict
<1> HIDE DEF new
<1>4. new \in Memories
  BY <1>1, <1>2, <1>3 DEF Memories
<1> QED BY <1>2, <1>4 DEF new

LEMMA UnreadIs ==
  ASSUME NEW d, NEW mem, NEW first
  PROVE  /\ Unread(d, mem, first).session = mem.session
         /\ Unread(d, mem, first).last = mem.last
         /\ Unread(d, mem, first).markets = KnownMarkets(d)
         /\ Unread(d, mem, first).baselines = mem.baselines
BY DEF Unread

LEMMA WritesOne ==
  ASSUME RecordingInv, NEW d \in Archives, Alike(db, d), d.sessions = db.sessions,
         NEW e \in Rows, e.kind = "delta" => e.token \in Token,
         Writes(<<e>>), db' = Written(d, <<e>>),
         exchange' \in [Token -> Nat], UNCHANGED time
  PROVE  RecordingInv'
<1> DEFINE start == Unread(db, memory, memory.next)
           seen == Sees(start, e)
<1>1. db \in Archives /\ RowsInv(db) /\ memory \in Memories /\ memory.next \in Nat
  BY DEF RecordingInv, RowsInv, Memories
<1>2. /\ start \in Verdict /\ Checked(db, memory, memory.next, <<e>>) = seen
  BY <1>1, CheckedOne
<1>3. /\ start.session = memory.session /\ start.markets = KnownMarkets(db)
      /\ start.baselines = memory.baselines
  BY UnreadIs
<1> HIDE DEF start
<1>4. Len(<<e>>) = 1
  OBVIOUS
<1>5. seen.ok /\ memory' = MemoryAfter(memory, seen, 1)
  BY <1>2, <1>4 DEF Writes
<1>6. /\ seen \in Verdict /\ seen.baselines = BaselinesAfter(e, memory.baselines)
      /\ e.session = memory.session /\ RestsOn(e, KnownMarkets(db), memory.baselines)
  <2>1. /\ seen \in Verdict /\ seen.baselines = BaselinesAfter(e, start.baselines)
        /\ seen.ok => e.session = start.session /\ RestsOn(e, start.markets, start.baselines)
    BY <1>2, SeesTypes
  <2> HIDE DEF seen
  <2> QED BY <2>1, <1>3, <1>5
<1> HIDE DEF seen
<1>7. /\ memory' \in Memories /\ memory'.session = memory.session
      /\ memory'.baselines = BaselinesAfter(e, memory.baselines)
      /\ memory'.next = memory.next + 1
  <2> DEFINE new == MemoryAfter(memory, seen, 1)
  <2>1. /\ new \in Memories /\ new.session = memory.session
        /\ new.baselines = seen.baselines /\ new.next = memory.next + 1
    BY <1>1, <1>6, MemoryAfterIs
  <2>2. memory' = new
    BY <1>5
  <2> HIDE DEF new
  <2> QED BY <1>6, <2>1, <2>2
<1>8. /\ RowsInv(d) /\ KnownMarkets(d) = KnownMarkets(db)
      /\ Remembers(d, memory.session, memory.baselines)
  BY <1>1, AlikeKeeps DEF RecordingInv
<1>9. RowsInv(db') /\ Remembers(db', memory.session, memory'.baselines)
  BY <1>6, <1>7, <1>8, RowsOne, RememberedOne
<1>10. db'.sessions = db.sessions /\ Len(db'.events) = Len(db.events) + 1
  BY WrittenOne DEF Alike
<1>11. memory'.next = Len(db'.events) + 1
  BY <1>1, <1>7, <1>10, ArchiveTypes DEF RecordingInv
<1> QED BY <1>7, <1>9, <1>10, <1>11 DEF RecordingInv

LEMMA WritesTwo ==
  ASSUME RecordingInv, NEW d \in Archives, Alike(db, d), d.sessions = db.sessions,
         NEW e \in Rows, NEW f \in Rows, e.kind # "delta", f.kind # "delta",
         Writes(<<e, f>>), db' = Written(d, <<e, f>>),
         exchange' \in [Token -> Nat], UNCHANGED time
  PROVE  RecordingInv'
<1> DEFINE start == Unread(db, memory, memory.next)
           half == Sees(start, e)
           seen == Sees(half, f)
           d1 == Written(d, <<e>>)
           B1 == BaselinesAfter(e, memory.baselines)
<1>1. db \in Archives /\ RowsInv(db) /\ memory \in Memories /\ memory.next \in Nat
  BY DEF RecordingInv, RowsInv, Memories
<1>2. /\ start \in Verdict /\ Checked(db, memory, memory.next, <<e, f>>) = seen
  BY <1>1, CheckedOne, CheckedTwo
<1>3. /\ start.session = memory.session /\ start.markets = KnownMarkets(db)
      /\ start.baselines = memory.baselines
  BY UnreadIs
<1> HIDE DEF start
<1>4. Len(<<e, f>>) = 2
  OBVIOUS
<1>5. seen.ok /\ memory' = MemoryAfter(memory, seen, 2)
  BY <1>2, <1>4 DEF Writes
<1>6. /\ half \in Verdict /\ half.session = memory.session
      /\ half.markets = IF e.kind = "metadata" THEN KnownMarkets(db) \cup {e.market}
                        ELSE KnownMarkets(db)
      /\ half.baselines = B1
      /\ half.ok => e.session = memory.session /\ RestsOn(e, KnownMarkets(db), memory.baselines)
  BY <1>2, <1>3, SeesTypes
<1> HIDE DEF half
<1>7. /\ seen \in Verdict /\ seen.baselines = BaselinesAfter(f, B1)
      /\ half.ok /\ f.session = memory.session /\ RestsOn(f, half.markets, B1)
  <2>1. /\ seen \in Verdict /\ seen.baselines = BaselinesAfter(f, half.baselines)
        /\ seen.ok => /\ half.ok /\ f.session = half.session
                      /\ RestsOn(f, half.markets, half.baselines)
    BY <1>6, SeesTypes
  <2> HIDE DEF seen, B1
  <2> QED BY <2>1, <1>5, <1>6
<1> HIDE DEF seen
<1>8. /\ memory' \in Memories /\ memory'.session = memory.session
      /\ memory'.baselines = BaselinesAfter(f, B1)
      /\ memory'.next = memory.next + 2
  <2> DEFINE new == MemoryAfter(memory, seen, 2)
  <2>1. /\ new \in Memories /\ new.session = memory.session
        /\ new.baselines = seen.baselines /\ new.next = memory.next + 2
    BY <1>1, <1>7, MemoryAfterIs
  <2>2. memory' = new
    BY <1>5
  <2> HIDE DEF new
  <2> QED BY <1>7, <2>1, <2>2
<1>9. /\ RowsInv(d) /\ KnownMarkets(d) = KnownMarkets(db)
      /\ Remembers(d, memory.session, memory.baselines)
  BY <1>1, AlikeKeeps DEF RecordingInv
<1>10. /\ d1 \in Archives /\ RowsInv(d1) /\ Remembers(d1, memory.session, B1)
       /\ KnownMarkets(d1) = half.markets
       /\ d1.sessions = db.sessions /\ Len(d1.events) = Len(db.events) + 1
  <2>1. d1 \in Archives /\ Len(d1.events) = Len(db.events) + 1 /\ d1.sessions = db.sessions
    BY WrittenOne DEF Alike
  <2>2. e.session = memory.session /\ RestsOn(e, KnownMarkets(d), memory.baselines)
    BY <1>6, <1>7, <1>9
  <2>3. Remembers(d1, memory.session, B1)
    BY <1>9, <2>2, RememberedOne
  <2>4. RowsInv(d1)
    BY <1>9, <2>2, RowsOne
  <2>5. KnownMarkets(d1) = half.markets
    BY <1>6, <1>9, KnownOne
  <2> QED BY <2>1, <2>3, <2>4, <2>5
<1>11. db' = Written(d1, <<f>>)
  BY WrittenTwo
<1> HIDE DEF d1, B1
<1>12. RowsInv(db') /\ Remembers(db', memory.session, memory'.baselines)
       /\ db'.sessions = db.sessions /\ Len(db'.events) = Len(d1.events) + 1
  <2>1. f.session = memory.session /\ RestsOn(f, KnownMarkets(d1), B1)
    BY <1>7, <1>10
  <2>2. RowsInv(db')
    BY <1>10, <1>11, <2>1, RowsOne
  <2>3. Remembers(db', memory.session, BaselinesAfter(f, B1))
    BY <1>10, <1>11, <2>1, RememberedOne
  <2>4. db'.sessions = d1.sessions /\ Len(db'.events) = Len(d1.events) + 1
    <3>1. /\ Written(d1, <<f>>).sessions = d1.sessions
          /\ Len(Written(d1, <<f>>).events) = Len(d1.events) + 1
      BY <1>10, WrittenOne
    <3> QED BY <1>11, <3>1
  <2> QED BY <1>8, <1>10, <2>2, <2>3, <2>4
<1>13. memory'.next = Len(db'.events) + 1
  BY <1>1, <1>8, <1>10, <1>12, ArchiveTypes DEF RecordingInv
<1> QED BY <1>8, <1>12, <1>13 DEF RecordingInv

-----------------------------------------------------------------------------
(* The recorder's actions *)

LEMMA Bounds ==
  /\ MaxTime \in Nat /\ Forever \in Nat
  /\ \A m \in Market : TokensOf[m] \subseteq Token
  /\ IsFiniteSet(0..MaxTime)
<1>1. MaxTime \in Nat /\ Forever \in Nat
  BY ReplayAssumption, ArchiveAssumption
<1>2. \A m \in Market : TokensOf[m] \subseteq Token
  BY DEF Token
<1>3. IsFiniteSet(0..MaxTime)
  BY <1>1, FS_Interval
<1> QED BY <1>1, <1>2, <1>3

LEMMA InvTypes ==
  ASSUME RecordingInv
  PROVE  /\ db \in Archives /\ memory \in Memories /\ time \in 1..MaxTime
         /\ time \in Nat /\ time \in 0..MaxTime
         /\ exchange \in [Token -> Nat] /\ memory.session \in Nat
         /\ memory.session \in DOMAIN db.sessions
         /\ Alike(db, db)
<1>1. db \in Archives /\ memory \in Memories /\ time \in 1..MaxTime
      /\ exchange \in [Token -> Nat]
  BY DEF RecordingInv, RowsInv
<1>2. memory.session \in Nat /\ memory.session = Len(db.sessions) /\ Len(db.sessions) # 0
  BY <1>1, ArchiveTypes DEF RecordingInv, Memories
<1>3. memory.session \in DOMAIN db.sessions
  BY <1>1, <1>2, ArchiveTypes
<1> QED BY <1>1, <1>2, <1>3, Bounds DEF Alike

LEMMA RowIs ==
  ASSUME RecordingInv, NEW kind \in {"metadata", "baseline", "delta", "resolution", "gap"},
         NEW gen \in Nat, NEW m \in Market \cup {NoMarket}, NEW t \in Token \cup {NoToken},
         NEW book \in Nat
  PROVE  /\ Row(kind, gen, m, t, book) \in Rows
         /\ Row(kind, gen, m, t, book).kind = kind
         /\ Row(kind, gen, m, t, book).token = t
BY InvTypes DEF Row, Rows

LEMMA GapRowIs ==
  ASSUME RecordingInv, NEW gen \in Nat
  PROVE  /\ Row("gap", gen, NoMarket, NoToken, 0) \in Rows
         /\ Row("gap", gen, NoMarket, NoToken, 0).kind = "gap"
BY InvTypes DEF Row, Rows

LEMMA GenerationIs ==
  ASSUME RecordingInv, NEW m
  PROVE  Generation(m) \in Nat
<1>1. DOMAIN db.events = 1..Len(db.events) /\ Len(db.events) \in Nat
  BY InvTypes, ArchiveTypes
<1>2. IsFiniteSet(1..Len(db.events))
  BY <1>1, FS_Interval
<1>3. Concerning(m) \subseteq 1..Len(db.events)
  BY <1>1 DEF Concerning
<1>4. IsFiniteSet(Concerning(m))
  BY <1>2, <1>3, FS_Subset
<1>5. Cardinality(Concerning(m)) \in Nat
  BY <1>4, FS_CardinalityType
<1> QED BY <1>5 DEF Generation

LEMMA ClosedGapsIs ==
  ASSUME RecordingInv, NEW m
  PROVE  /\ ClosedGaps(db, m, time) \in Archives
         /\ Alike(db, ClosedGaps(db, m, time))
         /\ ClosedGaps(db, m, time).sessions = db.sessions
<1> DEFINE d == ClosedGaps(db, m, time)
           closed == [i \in DOMAIN db.events |->
                        IF i \in OpenGapsOf(m) THEN [db.events[i] EXCEPT !.end = time]
                        ELSE db.events[i]]
           n == Len(db.events)
<1>1. db \in Archives /\ time \in Nat
  BY InvTypes
<1>2. /\ n \in Nat /\ DOMAIN db.events = 1..n
      /\ \A i \in 1..n : db.events[i] \in Rows
  BY <1>1, ArchiveTypes
<1>3. d.events = closed
  BY <1>1 DEF ClosedGaps, Archives
<1>4. d.sessions = db.sessions
  BY <1>1 DEF ClosedGaps, Archives
<1>5. \A i \in 1..n :
        /\ [db.events[i] EXCEPT !.end = time] \in Rows
        /\ [db.events[i] EXCEPT !.end = time].kind = db.events[i].kind
        /\ [db.events[i] EXCEPT !.end = time].market = db.events[i].market
        /\ [db.events[i] EXCEPT !.end = time].token = db.events[i].token
        /\ [db.events[i] EXCEPT !.end = time].gen = db.events[i].gen
        /\ [db.events[i] EXCEPT !.end = time].session = db.events[i].session
        /\ [db.events[i] EXCEPT !.end = time].scope = db.events[i].scope
        /\ [db.events[i] EXCEPT !.end = time].at = db.events[i].at
  <2> TAKE i \in 1..n
  <2> DEFINE row == db.events[i]
  <2>1. row \in Rows
    BY <1>2
  <2> HIDE DEF row
  <2> SUFFICES /\ [row EXCEPT !.end = time] \in Rows
               /\ [row EXCEPT !.end = time].kind = row.kind
               /\ [row EXCEPT !.end = time].market = row.market
               /\ [row EXCEPT !.end = time].token = row.token
               /\ [row EXCEPT !.end = time].gen = row.gen
               /\ [row EXCEPT !.end = time].session = row.session
               /\ [row EXCEPT !.end = time].scope = row.scope
               /\ [row EXCEPT !.end = time].at = row.at
    BY DEF row
  <2> QED BY <1>1, <2>1 DEF Rows
<1>6. closed \in Seq(Rows) /\ Len(closed) = n
  <2>1. closed \in [1..n -> Rows]
    BY <1>2, <1>5
  <2> HIDE DEF closed
  <2> QED BY <1>2, <2>1
<1>7. d \in Archives
  <2> HIDE DEF closed
  <2>1. d = [db EXCEPT !.events = closed]
    BY DEF ClosedGaps, closed
  <2> QED BY <1>1, <1>6, <2>1 DEF Archives
<1>8. Alike(db, d)
  <2>1. \A i \in 1..n :
          /\ closed[i].kind = db.events[i].kind /\ closed[i].market = db.events[i].market
          /\ closed[i].token = db.events[i].token /\ closed[i].gen = db.events[i].gen
          /\ closed[i].session = db.events[i].session /\ closed[i].scope = db.events[i].scope
          /\ closed[i].at = db.events[i].at
    BY <1>2, <1>5
  <2> HIDE DEF closed, d
  <2> QED BY <1>2, <1>3, <1>6, <2>1 DEF Alike
<1> QED BY <1>4, <1>7, <1>8

LEMMA RecordMetadataKeeps ==
  ASSUME RecordingInv, NEW m \in Market, RecordMetadata(m)
  PROVE  RecordingInv'
<1> DEFINE e == Row("metadata", 0, m, NoToken, 0)
<1>1. e \in Rows /\ e.kind = "metadata"
  BY RowIs
<1>2. Writes(<<e>>) /\ db' = Written(db, <<e>>) /\ UNCHANGED <<time, exchange>>
  BY DEF RecordMetadata, Records
<1> HIDE DEF e
<1> QED BY <1>1, <1>2, InvTypes, WritesOne

LEMMA RecordBaselineKeeps ==
  ASSUME RecordingInv, NEW m \in Market, NEW t \in TokensOf[m], RecordBaseline(m, t)
  PROVE  RecordingInv'
<1> DEFINE e == Row("baseline", Generation(m), m, t, exchange[t])
           d == IF TokensOf[m] = Baselined(m) \cup {t} THEN ClosedGaps(db, m, time) ELSE db
<1>1. t \in Token /\ exchange[t] \in Nat
  BY InvTypes, Bounds
<1>2. e \in Rows /\ e.kind = "baseline"
  BY <1>1, RowIs, GenerationIs
<1>3. Writes(<<e>>) /\ db' = Written(d, <<e>>) /\ UNCHANGED <<time, exchange>>
  BY DEF RecordBaseline, Records
<1>4. d \in Archives /\ Alike(db, d) /\ d.sessions = db.sessions
  BY InvTypes, ClosedGapsIs
<1> HIDE DEF e, d
<1> QED BY <1>2, <1>3, <1>4, InvTypes, WritesOne

LEMMA RecordDeltaKeeps ==
  ASSUME RecordingInv, NEW m \in Market, NEW t \in TokensOf[m], RecordDelta(m, t)
  PROVE  RecordingInv'
<1> DEFINE e == Row("delta", Generation(m), m, t, exchange[t] + 1)
<1>1. t \in Token /\ exchange[t] + 1 \in Nat
  BY InvTypes, Bounds
<1>2. e \in Rows /\ e.token \in Token
  BY <1>1, RowIs, GenerationIs
<1>3. /\ Writes(<<e>>) /\ db' = Written(db, <<e>>) /\ UNCHANGED time
      /\ exchange' = [exchange EXCEPT ![t] = @ + 1]
  BY DEF RecordDelta, Records
<1>4. exchange' \in [Token -> Nat]
  BY <1>1, <1>3, InvTypes
<1> HIDE DEF e
<1> QED BY <1>2, <1>3, <1>4, InvTypes, WritesOne

LEMMA LastOfIs ==
  ASSUME RecordingInv, NEW m \in KnownMarkets(db)
  PROVE  LastOf(m) \in Nat
<1> DEFINE times == {db.events[i].at : i \in {j \in DOMAIN db.events : db.events[j].market = m}}
<1>1. times \subseteq 0..MaxTime
  BY InvTypes, ArchiveTypes, RowTypes
<1>2. times # {}
  BY DEF KnownMarkets, MarketsWith
<1>3. GreatestOf(times) \in times
  BY <1>1, <1>2, Bounds, GreatestExists
<1> QED BY <1>1, <1>3, Bounds DEF LastOf

LEMMA RecordGapKeeps ==
  ASSUME RecordingInv, NEW m \in Market, RecordGap(m)
  PROVE  RecordingInv'
<1> DEFINE base == Row("gap", Generation(m), NoMarket, NoToken, 0)
           e == [base EXCEPT !.start = LastOf(m), !.end = Forever, !.scope = {m}]
<1>1. base \in Rows /\ base.kind = "gap"
  <2>1. Generation(m) \in Nat
    BY GenerationIs
  <2> QED BY <2>1, GapRowIs
<1>2. LastOf(m) \in Nat
  BY LastOfIs DEF RecordGap
<1>3. e \in Rows /\ e.kind = "gap"
  <2> HIDE DEF base
  <2> QED BY <1>1, <1>2, Bounds DEF Rows
<1>4. /\ Writes(<<e>>) /\ db' = Written(db, <<e>>) /\ UNCHANGED time
      /\ exchange' = Over(exchange, TokensOf[m], LAMBDA t : exchange[t] + 1)
  BY DEF RecordGap, Records
<1>5. exchange' \in [Token -> Nat]
  BY <1>4, InvTypes DEF Over
<1> HIDE DEF e
<1> QED BY <1>3, <1>4, <1>5, InvTypes, WritesOne

LEMMA RecordResolutionKeeps ==
  ASSUME RecordingInv, NEW m \in Market, RecordResolution(m)
  PROVE  RecordingInv'
<1> DEFINE a == Row("metadata", 0, m, NoToken, 0)
           b == Row("resolution", 0, m, NoToken, 0)
           c == Row("resolution", Generation(m), m, NoToken, 0)
           d == ClosedGaps(db, m, time)
<1>1. /\ a \in Rows /\ a.kind = "metadata" /\ b \in Rows /\ b.kind = "resolution"
      /\ c \in Rows /\ c.kind = "resolution"
  <2>1. a \in Rows /\ a.kind = "metadata"
    BY RowIs
  <2>2. b \in Rows /\ b.kind = "resolution"
    BY RowIs
  <2>3. c \in Rows /\ c.kind = "resolution"
    BY RowIs, GenerationIs
  <2> QED BY <2>1, <2>2, <2>3
<1>2. UNCHANGED <<time, exchange>>
  BY DEF RecordResolution, Records
<1>3. \/ Writes(<<a, b>>) /\ db' = Written(d, <<a, b>>)
      \/ Writes(<<c>>) /\ db' = Written(d, <<c>>)
  BY DEF RecordResolution
<1>4. d \in Archives /\ Alike(db, d) /\ d.sessions = db.sessions
  BY ClosedGapsIs
<1> HIDE DEF a, b, c, d
<1>5. exchange' \in [Token -> Nat]
  BY <1>2, InvTypes
<1>6. CASE Writes(<<a, b>>) /\ db' = Written(d, <<a, b>>)
  BY <1>1, <1>2, <1>4, <1>5, <1>6, WritesTwo
<1>7. CASE Writes(<<c>>) /\ db' = Written(d, <<c>>)
  BY <1>1, <1>2, <1>4, <1>5, <1>7, WritesOne
<1> QED BY <1>3, <1>6, <1>7

LEMMA RecordCheckpointKeeps ==
  ASSUME RecordingInv, NEW m \in Market, RecordCheckpoint(m)
  PROVE  RecordingInv'
<1> DEFINE rows == {[seq |-> memory.next - 1, session |-> memory.session, gen |-> Generation(m),
                     at |-> time, market |-> m, token |-> t, book |-> exchange[t]] :
                      t \in TokensOf[m]}
<1>1. /\ db' = [db EXCEPT !.checkpoints = @ \cup rows]
      /\ memory' = [memory EXCEPT !.last = time]
      /\ UNCHANGED <<time, exchange>>
      /\ Baselined(m) = TokensOf[m]
      /\ CheckpointsAllowed(db, memory, rows)
  BY DEF RecordCheckpoint, Records
<1>2. memory.next - 1 \in Nat
  BY InvTypes, ArchiveTypes DEF RecordingInv
<1>3. rows \subseteq CheckpointRecords
  <2> SUFFICES ASSUME NEW t \in TokensOf[m]
               PROVE  [seq |-> memory.next - 1, session |-> memory.session,
                       gen |-> Generation(m), at |-> time, market |-> m, token |-> t,
                       book |-> exchange[t]] \in CheckpointRecords
    OBVIOUS
  <2>1. t \in Token /\ exchange[t] \in Nat
    BY InvTypes, Bounds
  <2> QED BY <1>2, <2>1, InvTypes, GenerationIs DEF CheckpointRecords
<1> HIDE DEF rows
<1>4. db' \in Archives /\ db'.events = db.events /\ db'.sessions = db.sessions
  BY <1>1, <1>3, InvTypes DEF Archives
<1>5. memory' \in Memories /\ memory'.session = memory.session
      /\ memory'.baselines = memory.baselines /\ memory'.next = memory.next
  BY <1>1, InvTypes DEF Memories
<1>6. Alike(db, db')
  BY <1>4, InvTypes DEF Alike
<1>7. RowsInv(db') /\ Remembers(db', memory.session, memory.baselines)
  BY <1>4, <1>6, InvTypes, AlikeKeeps DEF RecordingInv
<1> QED BY <1>1, <1>4, <1>5, <1>7 DEF RecordingInv

LEMMA TickKeeps ==
  ASSUME RecordingInv, Tick
  PROVE  RecordingInv'
<1>1. UNCHANGED <<db, memory, exchange>> /\ time' = time + 1 /\ time < MaxTime
  BY DEF Tick
<1>2. time' \in 1..MaxTime
  BY <1>1, InvTypes, Bounds
<1> QED BY <1>1, <1>2 DEF RecordingInv

LEMMA CloseSessionKeeps ==
  ASSUME RecordingInv, NEW clean \in BOOLEAN, CloseSession(clean)
  PROVE  RecordingInv'
<1> DEFINE s == memory.session
           boundary == Boundary(db, memory)
           end == IF clean THEN GreatestOf({boundary, time}) ELSE boundary
           status == IF clean THEN CleanStatus(memory) ELSE "failed"
           session == Ended(db.sessions[s], end, status)
           sessions == [db.sessions EXCEPT ![s] = session]
<1>1. db' = [db EXCEPT !.sessions = sessions] /\ UNCHANGED <<memory, time, exchange>>
  BY InvTypes DEF CloseSession, Closed, Archives
<1>2. db.sessions[s] \in SessionRows /\ db.sessions \in Seq(SessionRows)
      /\ db.sessions[s].start \in Nat /\ memory.last \in Nat
  <2>1. db.sessions[s] \in SessionRows /\ db.sessions \in Seq(SessionRows)
    BY InvTypes, ArchiveTypes
  <2>2. db.sessions[s].start \in 0..MaxTime /\ memory.last \in 0..MaxTime
    BY <2>1, InvTypes DEF SessionRows, Memories
  <2> QED BY <2>1, <2>2, Bounds
<1>3. boundary \in Nat
  BY <1>2, GreaterOfTwo DEF Boundary
<1>4. end \in Nat
  BY <1>3, InvTypes, GreaterOfTwo
<1>5. status \in {"active", "incomplete", "complete", "failed"}
  BY DEF CleanStatus
<1>6. session \in SessionRows
  <2> HIDE DEF end, status
  <2> QED BY <1>2, <1>4, <1>5 DEF Ended, SessionRows
<1>7. sessions \in Seq(SessionRows) /\ Len(sessions) = Len(db.sessions)
  <2> HIDE DEF session
  <2>1. s \in 1..Len(db.sessions)
    BY InvTypes, ArchiveTypes
  <2> QED BY <1>2, <1>6, <2>1, ExceptSeq
<1> HIDE DEF sessions
<1>8. /\ db' \in Archives /\ db'.sessions = sessions /\ db'.events = db.events
  BY <1>1, <1>7, InvTypes DEF Archives
<1>9. Alike(db, db')
  BY <1>8, InvTypes DEF Alike
<1>10. RowsInv(db') /\ Remembers(db', memory.session, memory.baselines)
  BY <1>8, <1>9, InvTypes, AlikeKeeps DEF RecordingInv
<1>11. db'.sessions # <<>> /\ memory.session = Len(db'.sessions)
  BY <1>7, <1>8, InvTypes, ArchiveTypes DEF RecordingInv
<1> QED BY <1>1, <1>10, <1>11 DEF RecordingInv

LEMMA ObservedIs ==
  ASSUME NEW d \in Archives
  PROVE  LastObserved(d) \in 0..MaxTime
<1>1. ObservedTimes(d) \subseteq 0..MaxTime
  BY ArchiveTypes, RowTypes DEF ObservedTimes, CheckpointRecords
<1>2. CASE ObservedTimes(d) = {}
  BY <1>2, Bounds DEF LastObserved
<1>3. CASE ObservedTimes(d) # {}
  BY <1>1, <1>3, Bounds, GreatestExists DEF LastObserved
<1> QED BY <1>2, <1>3

LEMMA LatestIs ==
  ASSUME NEW d \in Archives, d.sessions # <<>>
  PROVE  LatestSession(d) \in SessionRows /\ ResumeFrom(d) \in Nat
<1>1. /\ d.sessions \in Seq(SessionRows) /\ Len(d.sessions) \in DOMAIN d.sessions
  BY ArchiveTypes
<1>2. LatestSession(d) \in SessionRows
  BY <1>1, ArchiveTypes DEF LatestSession, Last
<1>3. LastObserved(d) \in Nat
  BY ObservedIs, Bounds
<1>4. LatestSession(d).start \in Nat /\ LatestSession(d).end \in Nat
  BY <1>2, Bounds DEF SessionRows
<1> QED BY <1>2, <1>3, <1>4 DEF ResumeFrom

LEMMA WithSessionIs ==
  ASSUME NEW d \in Archives, NEW start \in 0..MaxTime
  PROVE  /\ WithSession(d, start) \in Archives
         /\ WithSession(d, start).events = d.events
         /\ Len(WithSession(d, start).sessions) = Len(d.sessions) + 1
<1> DEFINE prior == PriorSessions(d)
           sessions == Append(prior, Opened(start))
<1>1. d.sessions \in Seq(SessionRows) /\ Len(d.sessions) \in Nat
  BY ArchiveTypes
<1>2. prior \in Seq(SessionRows) /\ Len(prior) = Len(d.sessions)
  <2>1. CASE d.sessions # <<>> /\ Active(LatestSession(d))
    <3>1. Interrupted(d) \in SessionRows
      <4>1. LatestSession(d) \in SessionRows /\ ResumeFrom(d) \in Nat
        BY <2>1, LatestIs
      <4> QED BY <4>1 DEF Interrupted, Ended, SessionRows
    <3>2. Len(d.sessions) \in 1..Len(d.sessions)
      BY <1>1, <2>1
    <3> QED BY <1>1, <2>1, <3>1, <3>2, ExceptSeq DEF PriorSessions
  <2>2. CASE ~(d.sessions # <<>> /\ Active(LatestSession(d)))
    BY <1>1, <2>2 DEF PriorSessions
  <2> QED BY <2>1, <2>2
<1>3. Opened(start) \in SessionRows
  BY Bounds DEF Opened, SessionRows
<1> HIDE DEF prior
<1>4. sessions \in Seq(SessionRows) /\ Len(sessions) = Len(d.sessions) + 1
  BY <1>1, <1>2, <1>3
<1> HIDE DEF sessions
<1>5. WithSession(d, start) = [d EXCEPT !.sessions = sessions]
  BY DEF WithSession, sessions, prior
<1> QED BY <1>4, <1>5 DEF Archives

LEMMA ResumeSessionKeeps ==
  ASSUME RecordingInv, ResumeSession
  PROVE  RecordingInv'
<1> DEFINE opened == WithSession(db, time)
           base == Row("gap", 0, NoMarket, NoToken, 0)
           e == [base EXCEPT !.session = Len(opened.sessions), !.start = ResumeFrom(db),
                             !.end = time]
<1>1. /\ db' = Written(opened, <<e>>)
      /\ memory' = [MemoryOf(db) EXCEPT !.next = @ + 1, !.last = time, !.hasGap = TRUE]
      /\ exchange' = [t \in Token |-> exchange[t] + 1]
      /\ UNCHANGED time
  BY DEF ResumeSession
<1>2. /\ opened \in Archives /\ opened.events = db.events
      /\ Len(opened.sessions) = Len(db.sessions) + 1
  BY InvTypes, WithSessionIs
<1>3. Len(db.sessions) \in Nat /\ Len(db.events) \in Nat
  BY InvTypes, ArchiveTypes
<1>4. ResumeFrom(db) \in Nat
  BY InvTypes, LatestIs DEF RecordingInv
<1> HIDE DEF opened
<1>5. e \in Rows /\ e.kind = "gap" /\ e.session = Len(db.sessions) + 1
  <2>1. base \in Rows /\ base.kind = "gap"
    BY RowIs
  <2> DEFINE n == Len(opened.sessions)
             from == ResumeFrom(db)
  <2>2. n \in Nat /\ n = Len(db.sessions) + 1 /\ from \in Nat /\ time \in Nat
    BY <1>2, <1>3, <1>4, InvTypes
  <2>3. e = [base EXCEPT !.session = n, !.start = from, !.end = time]
    OBVIOUS
  <2> HIDE DEF base, n, from, e
  <2> QED BY <2>1, <2>2, <2>3 DEF Rows
<1> HIDE DEF e
<1>6. /\ memory' \in Memories /\ memory'.session = Len(db.sessions) + 1
      /\ memory'.baselines = {} /\ memory'.next = (Len(db.events) + 1) + 1
  <2> DEFINE resumed == IF db.sessions = <<>> THEN 0 ELSE ResumeFrom(db)
             mem == [session |-> Len(db.sessions) + 1, next |-> Len(db.events) + 1,
                     last |-> LastObserved(db), baselines |-> {}, hasGap |-> FALSE,
                     resumeFrom |-> resumed]
  <2>1. MemoryOf(db) = mem
    BY DEF MemoryOf, LastSequence
  <2>2. resumed \in Nat /\ Len(db.sessions) + 1 \in Nat /\ Len(db.events) + 1 \in Nat
        /\ LastObserved(db) \in 0..MaxTime
    BY <1>3, <1>4, InvTypes, ObservedIs
  <2>3. /\ mem \in Memories /\ mem.session = Len(db.sessions) + 1
        /\ mem.next = Len(db.events) + 1 /\ mem.baselines = {}
    <3> HIDE DEF resumed
    <3> QED BY <2>2 DEF Memories
  <2>4. memory' = [mem EXCEPT !.next = @ + 1, !.last = time, !.hasGap = TRUE]
    BY <1>1, <2>1
  <2> HIDE DEF mem
  <2>5. mem.next + 1 \in Nat /\ time \in 0..MaxTime
    BY <2>2, <2>3, InvTypes
  <2>6. /\ memory' \in Memories /\ memory'.session = mem.session
        /\ memory'.baselines = mem.baselines /\ memory'.next = mem.next + 1
    <3> DEFINE next == mem.next + 1
    <3>1. memory' = [mem EXCEPT !.next = next, !.last = time, !.hasGap = TRUE]
      BY <2>3, <2>4 DEF Memories
    <3>2. next \in Nat
      BY <2>5
    <3> HIDE DEF next
    <3>3. [mem EXCEPT !.next = next, !.last = time, !.hasGap = TRUE] \in Memories
      BY <2>3, <2>5, <3>2 DEF Memories
    <3>4. /\ memory'.session = mem.session /\ memory'.baselines = mem.baselines
          /\ memory'.next = next
      BY <2>3, <3>1 DEF Memories
    <3> QED BY <3>1, <3>3, <3>4 DEF next
  <2> QED BY <2>3, <2>6
<1>7. Alike(db, opened)
  BY <1>2, InvTypes DEF Alike
<1>8. RowsInv(opened)
  BY <1>2, <1>7, InvTypes, AlikeKeeps DEF RecordingInv
<1>9. Remembers(opened, e.session, {}) /\ RestsOn(e, KnownMarkets(opened), {})
  BY <1>5 DEF Remembers, RestsOn
<1>10. /\ RowsInv(db') /\ Remembers(db', e.session, BaselinesAfter(e, {}))
       /\ db'.sessions = opened.sessions /\ Len(db'.events) = Len(db.events) + 1
  <2>1. db' = Written(opened, <<e>>)
    BY <1>1
  <2>2. RowsInv(db')
    BY <1>5, <1>8, <1>9, <2>1, RowsOne
  <2>3. Remembers(db', e.session, BaselinesAfter(e, {}))
    BY <1>2, <1>5, <1>9, <2>1, RememberedOne
  <2>4. db'.sessions = opened.sessions /\ Len(db'.events) = Len(opened.events) + 1
    BY <1>2, <1>5, <2>1, WrittenOne
  <2> QED BY <1>2, <2>2, <2>3, <2>4
<1>11. Remembers(db', memory'.session, memory'.baselines)
  BY <1>6 DEF Remembers
<1>12. db'.sessions # <<>> /\ memory'.session = Len(db'.sessions)
       /\ memory'.next = Len(db'.events) + 1
  BY <1>2, <1>3, <1>6, <1>10
<1>13. exchange' \in [Token -> Nat]
  BY <1>1, InvTypes
<1> QED BY <1>1, <1>6, <1>10, <1>11, <1>12, <1>13 DEF RecordingInv

LEMMA InitIsRecorded == Init => RecordingInv
<1> SUFFICES ASSUME Init PROVE RecordingInv
  OBVIOUS
<1>1. EmptyArchive \in Archives
  BY DEF EmptyArchive, Archives
<1>2. 1 \in 1..MaxTime /\ 1 \in 0..MaxTime
  BY ReplayAssumption
<1>3. /\ db \in Archives /\ db.events = <<>> /\ Len(db.sessions) = 1
  <2>1. EmptyArchive.events = <<>> /\ Len(EmptyArchive.sessions) = 0
    BY DEF EmptyArchive
  <2>2. db = WithSession(EmptyArchive, 1)
    BY DEF Init
  <2> DEFINE empty == EmptyArchive
  <2>3. /\ WithSession(empty, 1) \in Archives
        /\ WithSession(empty, 1).events = empty.events
        /\ Len(WithSession(empty, 1).sessions) = Len(empty.sessions) + 1
    BY <1>1, <1>2, WithSessionIs
  <2> QED BY <2>1, <2>2, <2>3
<1>4. memory = [session |-> 1, next |-> 1, last |-> 0, baselines |-> {}, hasGap |-> FALSE,
                resumeFrom |-> 0]
  <2>1. ObservedTimes(EmptyArchive) = {}
    BY DEF ObservedTimes, EmptyArchive
  <2>2. LastObserved(EmptyArchive) = 0
    BY <2>1 DEF LastObserved
  <2>3. Len(EmptyArchive.sessions) = 0 /\ Len(EmptyArchive.events) = 0
        /\ EmptyArchive.sessions = <<>>
    BY DEF EmptyArchive
  <2> QED BY <2>2, <2>3 DEF Init, MemoryOf, LastSequence
<1>5. memory \in Memories
  BY <1>4, Bounds DEF Memories
<1>6. RowsInv(db)
  BY <1>3 DEF RowsInv, MetadataFirst, BaselinesFirst
<1>7. Remembers(db, memory.session, memory.baselines)
  BY <1>4 DEF Remembers
<1>8. db.sessions # <<>> /\ memory.session = Len(db.sessions)
  BY <1>3, <1>4
<1>9. memory.next = Len(db.events) + 1
  BY <1>3, <1>4
<1>10. exchange \in [Token -> Nat]
  BY DEF Init
<1> QED BY <1>2, <1>5, <1>6, <1>7, <1>8, <1>9, <1>10 DEF RecordingInv, Init

LEMMA RecordingSteps ==
  ASSUME RecordingInv, [Next]_vars
  PROVE  RecordingInv'
<1>1. CASE UNCHANGED recording
  BY <1>1 DEF RecordingInv, recording
<1>2. CASE Recorder
  <2>1. ASSUME NEW m \in Market, RecordMetadata(m) PROVE RecordingInv'
    BY <2>1, RecordMetadataKeeps
  <2>2. ASSUME NEW m \in Market, RecordGap(m) PROVE RecordingInv'
    BY <2>2, RecordGapKeeps
  <2>3. ASSUME NEW m \in Market, RecordResolution(m) PROVE RecordingInv'
    BY <2>3, RecordResolutionKeeps
  <2>4. ASSUME NEW m \in Market, RecordCheckpoint(m) PROVE RecordingInv'
    BY <2>4, RecordCheckpointKeeps
  <2>5. ASSUME NEW m \in Market, NEW t \in TokensOf[m], RecordBaseline(m, t)
        PROVE  RecordingInv'
    BY <2>5, RecordBaselineKeeps
  <2>6. ASSUME NEW m \in Market, NEW t \in TokensOf[m], RecordDelta(m, t)
        PROVE  RecordingInv'
    BY <2>6, RecordDeltaKeeps
  <2>7. ASSUME NEW clean \in BOOLEAN, CloseSession(clean) PROVE RecordingInv'
    BY <2>7, CloseSessionKeeps
  <2> QED
    BY <1>2, <2>1, <2>2, <2>3, <2>4, <2>5, <2>6, <2>7, TickKeeps, ResumeSessionKeeps
    DEF Recorder
<1>3. StartBacktest \/ Scheduler \/ UNCHANGED vars => UNCHANGED recording
  BY DEF StartBacktest, Scheduler, RefreshDue, ReplayEvent, Finish, FastForward, DispatchBook,
         Settle, CallbackReturns, CallbackSleeps, SleepOverEvent, SleepOverRefresh, WakeUp,
         vars, recording
<1> QED BY <1>1, <1>2, <1>3 DEF Next

(* Of every archive, at every moment: rows and their dependencies. *)
THEOREM RecordingInvariant == Spec => []RecordingInv
<1>1. Init => RecordingInv
  BY InitIsRecorded
<1>2. RecordingInv /\ [Next]_vars => RecordingInv'
  BY RecordingSteps
<1> QED BY <1>1, <1>2, PTL DEF Spec

-----------------------------------------------------------------------------
(* What a reader verifies *)

Verified == [ok : {TRUE}, verified : SUBSET (Nat \X Nat \X (Token \cup {NoToken}))]

LEMMA VerifyAccepts ==
  ASSUME NEW d, RowsInv(d), NEW i \in DOMAIN d.events, NEW acc \in Verified
  PROVE  Verify(d, acc, i) \in Verified
<1> DEFINE e == d.events[i]
           K == Nat \X Nat \X (Token \cup {NoToken})
           V == acc.verified
<1>1. e \in Rows
  BY ArchiveTypes DEF RowsInv
<1>2. BaselineKey(e) \in K
  BY <1>1, RowTypes DEF BaselineKey
<1>3. acc.ok = TRUE /\ V \in SUBSET K /\ acc = [ok |-> TRUE, verified |-> V]
  BY DEF Verified
<1>4. e.kind \notin {"gap", "metadata"} => HasMetadataBefore(d, e.market, i)
  BY DEF RowsInv, MetadataFirst
<1>5. e.kind = "delta" => HasStoredBaseline(d, i)
  BY DEF RowsInv, BaselinesFirst
<1>6. Verified = [ok : {TRUE}, verified : SUBSET K]
  BY DEF Verified
<1> HIDE DEF K
<1>7. CASE e.kind = "metadata"
  <2>1. Verify(d, acc, i) = acc
    BY <1>7 DEF Verify, IsGap
  <2> QED BY <2>1
<1>8. CASE e.kind = "gap"
  <2> DEFINE left == {k \in acc.verified : k[3] \notin ResolvedTokens(e)}
  <2>1. Verify(d, acc, i) = [acc EXCEPT !.verified = left]
    BY <1>8 DEF Verify, IsGap
  <2>2. left \in SUBSET K
    BY <1>3
  <2> HIDE DEF left
  <2> QED BY <1>3, <1>6, <2>1, <2>2
<1>9. ASSUME e.kind \notin {"metadata", "gap"}
      PROVE  Verify(d, acc, i) = VerifyMarketData(d, acc, i)
             /\ HasMetadataBefore(d, e.market, i)
  BY <1>4, <1>9 DEF Verify, IsGap
<1>10. CASE e.kind = "resolution"
  <2>1. VerifyMarketData(d, acc, i) = acc
    BY <1>9, <1>10 DEF VerifyMarketData
  <2> QED BY <1>9, <1>10, <2>1
<1>11. CASE e.kind = "baseline"
  <2> DEFINE more == acc.verified \cup {BaselineKey(e)}
  <2>1. VerifyMarketData(d, acc, i) = [acc EXCEPT !.verified = more]
    BY <1>9, <1>11 DEF VerifyMarketData
  <2>2. more \in SUBSET K
    BY <1>2, <1>3
  <2> HIDE DEF more
  <2> QED BY <1>3, <1>6, <1>9, <1>11, <2>1, <2>2
<1>12. CASE e.kind = "delta"
  <2> DEFINE more == acc.verified \cup {BaselineKey(e)}
  <2>1. VerifyMarketData(d, acc, i) = [ok |-> TRUE, verified |-> more]
    BY <1>3, <1>5, <1>9, <1>12 DEF VerifyMarketData
  <2>2. more \in SUBSET K
    BY <1>2, <1>3
  <2> HIDE DEF more
  <2>3. Verify(d, acc, i) = [ok |-> TRUE, verified |-> more]
    BY <1>9, <1>12, <2>1
  <2> QED BY <1>6, <2>2, <2>3
<1> QED BY <1>1, <1>7, <1>8, <1>10, <1>11, <1>12, RowTypes

LEMMA RowsAreReadable ==
  ASSUME NEW d, RowsInv(d), NEW selection
  PROVE  Readable(d, selection)
<1> DEFINE n == Len(d.events)
           rows == Positions(d)
           base == [ok |-> TRUE, verified |-> {}]
           step(acc, i) == IF IsStreamed(d, selection, i) THEN Verify(d, acc, i) ELSE acc
           F == [k \in 1..n |-> [x \in Verified |-> step(x, k)]]
           Step(it) == [s \in SUBSET DOMAIN rows |->
                          IF s = {} THEN base ELSE step(it[s \ {Max(s)}], rows[Max(s)])]
           iter == CHOOSE it : it = Step(it)
<1>1. n \in Nat /\ DOMAIN d.events = 1..n
  BY ArchiveTypes DEF RowsInv
<1>2. DOMAIN rows = 1..n /\ \A i \in 1..n : rows[i] = i
  BY <1>1 DEF Positions
<1>3. base \in Verified
  BY DEF Verified
<1>4. \A k \in 1..n, x \in Verified : step(x, k) \in Verified
  BY <1>1, VerifyAccepts
<1>5. Readable(d, selection) = iter[DOMAIN rows].ok
  BY DEF Readable, FoldLeft, MapThenFoldSet
<1> HIDE DEF n, base, step, rows
<1>6. F \in [1..n -> [Verified -> Verified]]
  BY <1>4
<1>7. \A k \in 1..n, x \in Verified : F[k][x] = step(x, k)
  OBVIOUS
<1> HIDE DEF F
<1>8. PICK it : it \in Iterations(Verified, n, F, base)
  BY <1>1, <1>3, <1>6, Iterated
<1>9. /\ it \in [SUBSET (1..n) -> Verified]
      /\ \A s \in SUBSET (1..n) :
           it[s] = IF s = {} THEN base ELSE F[Max(s)][it[s \ {Max(s)}]]
  BY <1>8 DEF Iterations
<1>10. \A s \in SUBSET (1..n) : s # {} =>
         F[Max(s)][it[s \ {Max(s)}]] = step(it[s \ {Max(s)}], rows[Max(s)])
  <2> TAKE s \in SUBSET (1..n)
  <2> HAVE s # {}
  <2> DEFINE k == Max(s)
             x == it[s \ {Max(s)}]
  <2>1. k \in 1..n
    BY <1>1, MaxIn
  <2>2. x \in Verified
    BY <1>9
  <2>3. rows[k] = k
    BY <1>2, <2>1
  <2> HIDE DEF k, x
  <2>4. F[k][x] = step(x, k)
    BY <1>7, <2>1, <2>2
  <2>5. F[k][x] = step(x, rows[k])
    BY <2>3, <2>4
  <2> QED BY <2>5 DEF k, x
<1>11. it = Step(it)
  BY <1>2, <1>9, <1>10
<1>12. iter = Step(iter)
  BY <1>11, Zenon
<1> HIDE DEF iter
<1>13. /\ iter[{}] = base
       /\ \A s \in SUBSET (1..n) : s # {} =>
            iter[s] = step(iter[s \ {Max(s)}], rows[Max(s)])
  BY <1>2, <1>12
<1>14. ASSUME NEW k \in Nat, k < n, iter[1..k] \in Verified
       PROVE  iter[1..k + 1] = F[k + 1][iter[1..k]]
  <2>1. /\ 1..k + 1 \in SUBSET (1..n) /\ 1..k + 1 # {}
        /\ Max(1..k + 1) = k + 1 /\ (1..k + 1) \ {Max(1..k + 1)} = 1..k
    BY <1>1, <1>14, UpTo
  <2>2. k + 1 \in 1..n
    BY <1>1, <1>14
  <2>3. iter[1..k + 1] = step(iter[1..k], k + 1)
    BY <1>2, <1>13, <2>1, <2>2
  <2> DEFINE x == iter[1..k]
             h == k + 1
  <2>4. x \in Verified /\ h \in 1..n
    BY <1>14, <2>2
  <2> HIDE DEF x, h
  <2>5. F[h][x] = step(x, h)
    BY <1>7, <2>4
  <2> QED BY <2>3, <2>5 DEF x, h
<1>15. PrefixValues(n, iter) \in Steps(Verified, n, F, base)
  <2>1. \A k \in Nat : k < n /\ iter[1..k] \in Verified
          => iter[1..k + 1] = F[k + 1][iter[1..k]]
    BY <1>14
  <2> QED BY <1>1, <1>3, <1>6, <1>13, <2>1, StepsOf
<1>16. iter[DOMAIN rows] \in Verified
  <2>1. n \in 0..n
    BY <1>1
  <2>2. PrefixValues(n, iter)[n] \in Verified
    BY <1>15, <2>1 DEF Steps
  <2> QED BY <1>2, <2>1, <2>2 DEF PrefixValues
<1> QED BY <1>5, <1>16 DEF Verified

(* What the archive accepts, a reader accepts: no selection of what was recorded *)
(* begins with a delta that a reader refuses for want of its baseline.           *)
THEOREM RecordingsCanBeRead == Spec => []AcceptedIsReadable
<1>1. RecordingInv => AcceptedIsReadable
  BY RowsAreReadable DEF RecordingInv, AcceptedIsReadable
<1> QED BY <1>1, RecordingInvariant, PTL
=============================================================================
