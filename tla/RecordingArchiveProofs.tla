----------------------- MODULE RecordingArchiveProofs -----------------------
(* Proofs about the recorder's writer and its archive, for any markets, queue,  *)
(* batch and bounds.  The folds of the model are taken apart first: what they   *)
(* are after each element is a function of its position.                        *)
EXTENDS RecordingArchive, WellFoundedInduction, TLAPS

-----------------------------------------------------------------------------
(* Induction and folds *)

LEMMA NatSetInduction ==
  ASSUME NEW S, 0 \in S, \A n \in Nat : n \in S => n + 1 \in S
  PROVE  Nat \subseteq S
<1> DEFINE T == {n \in Nat : n \notin S}
<1> SUFFICES ASSUME T # {} PROVE FALSE
  OBVIOUS
<1>1. PICK m \in T : \A k \in T : <<k, m>> \notin OpToRel(<, Nat)
  BY WFMin, NatLessThanWellFounded
<1>2. m # 0 /\ m - 1 \in Nat /\ m - 1 < m
  OBVIOUS
<1>3. m - 1 \notin T
  BY <1>1, <1>2 DEF OpToRel
<1>4. (m - 1) + 1 \in S
  BY <1>2, <1>3
<1> QED BY <1>2, <1>4

LEMMA MaxUpTo ==
  ASSUME NEW k \in Nat, NEW s, s \subseteq 1..k + 1, k + 1 \in s
  PROVE  Max(s) = k + 1
<1>1. \A y \in s : k + 1 >= y
  OBVIOUS
<1>2. \A x \in s : (\A y \in s : x >= y) => x = k + 1
  OBVIOUS
<1> QED BY <1>1, <1>2 DEF Max

LEMMA MaxOf ==
  ASSUME NEW n \in Nat, NEW s, s \subseteq 1..n, s # {}
  PROVE  Max(s) \in s /\ \A y \in s : Max(s) >= y
<1> DEFINE T == {k \in Nat : \A y \in s : y <= k}
<1>1. n \in T
  OBVIOUS
<1>2. PICK m \in T : \A k \in T : <<k, m>> \notin OpToRel(<, Nat)
  BY <1>1, WFMin, NatLessThanWellFounded
<1>3. m \in s
  <2> SUFFICES ASSUME m \notin s PROVE FALSE
    OBVIOUS
  <2>1. m # 0
    <3>1. PICK y \in s : y \in 1..n
      OBVIOUS
    <3>2. y <= m /\ y >= 1
      BY <3>1
    <3> QED BY <3>1, <3>2
  <2>2. m - 1 \in T /\ m - 1 < m /\ m - 1 \in Nat /\ m \in Nat
    BY <2>1
  <2> QED BY <1>2, <2>2 DEF OpToRel
<1>4. \A y \in s : m >= y
  OBVIOUS
<1> QED BY <1>3, <1>4 DEF Max

Iterations(A, n, F, base) ==
  {it \in [SUBSET (1..n) -> A] :
     \A s \in SUBSET (1..n) :
       it[s] = IF s = {} THEN base ELSE F[Max(s)][it[s \ {Max(s)}]]}

LEMMA Iterated ==
  ASSUME NEW A, NEW n \in Nat, NEW F \in [1..n -> [A -> A]], NEW base \in A
  PROVE  \E it : it \in Iterations(A, n, F, base)
<1> DEFINE Good(k, it) ==
             /\ it \in [SUBSET (1..k) -> A]
             /\ \A s \in SUBSET (1..k) :
                  it[s] = IF s = {} THEN base ELSE F[Max(s)][it[s \ {Max(s)}]]
           S == {k \in Nat : k <= n => \E it : Good(k, it)}
<1> HIDE DEF Good
<1>0. \A k \in Nat : k \in S <=> (k <= n => \E it : Good(k, it))
  OBVIOUS
<1> HIDE DEF S
<1>1. 0 \in S
  <2>1. \A s \in SUBSET (1..0) : s = {}
    OBVIOUS
  <2> DEFINE it0 == [s \in SUBSET (1..0) |-> base]
  <2>3. it0 \in [SUBSET (1..0) -> A]
    OBVIOUS
  <2>4. \A s \in SUBSET (1..0) : it0[s] = base
    OBVIOUS
  <2> HIDE DEF it0
  <2>2. Good(0, it0)
    BY <2>1, <2>3, <2>4 DEF Good
  <2> QED BY <2>2, <1>0
<1>2. ASSUME NEW k \in Nat, k \in S PROVE k + 1 \in S
  <2> SUFFICES ASSUME k + 1 <= n PROVE \E it : Good(k + 1, it)
    BY <1>0
  <2>1. PICK it : Good(k, it)
    BY <1>0, <1>2
  <2> DEFINE longer == [s \in SUBSET (1..k + 1) |->
                        IF k + 1 \in s THEN F[k + 1][it[s \ {k + 1}]] ELSE it[s]]
  <2>2. \A s \in SUBSET (1..k + 1) :
          /\ s \ {k + 1} \in SUBSET (1..k)
          /\ k + 1 \notin s => s \in SUBSET (1..k)
    OBVIOUS
  <2>3. longer \in [SUBSET (1..k + 1) -> A]
    <3>1. k + 1 \in 1..n /\ F[k + 1] \in [A -> A]
      OBVIOUS
    <3> QED BY <2>1, <2>2, <3>1 DEF Good
  <2> HIDE DEF longer
  <2>5. \A s \in SUBSET (1..k + 1) :
          longer[s] = IF k + 1 \in s THEN F[k + 1][it[s \ {k + 1}]] ELSE it[s]
    BY DEF longer
  <2>4. ASSUME NEW s \in SUBSET (1..k + 1)
        PROVE  longer[s] = IF s = {} THEN base ELSE F[Max(s)][longer[s \ {Max(s)}]]
    <3>1. CASE k + 1 \in s
      <4>1. Max(s) = k + 1
        BY <3>1, MaxUpTo
      <4>2. longer[s \ {k + 1}] = it[s \ {k + 1}]
        BY <2>2, <2>5
      <4> QED BY <3>1, <4>1, <4>2, <2>5
    <3>2. CASE k + 1 \notin s
      <4>1. s \in SUBSET (1..k) /\ s \ {Max(s)} \in SUBSET (1..k)
        BY <3>2, <2>2
      <4>2. longer[s] = it[s] /\ longer[s \ {Max(s)}] = it[s \ {Max(s)}]
        BY <3>2, <4>1, <2>5
      <4> QED BY <2>1, <4>1, <4>2 DEF Good
    <3> QED BY <3>1, <3>2
  <2> QED BY <2>3, <2>4 DEF Good
<1>3. n \in S
  BY <1>1, <1>2, NatSetInduction
<1>4. PICK it : Good(n, it)
  BY <1>0, <1>3
<1> QED BY <1>4 DEF Good, Iterations

(* The prefixes that a fold goes through are nested intervals. *)
LEMMA UpTo ==
  ASSUME NEW n \in Nat, NEW k \in Nat, k < n
  PROVE  /\ 1..k + 1 \in SUBSET (1..n) /\ 1..k + 1 # {}
         /\ Max(1..k + 1) = k + 1
         /\ (1..k + 1) \ {Max(1..k + 1)} = 1..k
<1>1. k + 1 \in 1..k + 1
  OBVIOUS
<1>2. Max(1..k + 1) = k + 1
  BY <1>1, MaxUpTo
<1>3. 1..k + 1 \subseteq 1..n
  OBVIOUS
<1>4. (1..k + 1) \ {k + 1} = 1..k
  OBVIOUS
<1> QED BY <1>1, <1>2, <1>3, <1>4

(* What is computed up to each position. *)
Steps(A, n, F, base) ==
  {v \in [0..n -> A] : v[0] = base /\ \A k \in 1..n : v[k] = F[k][v[k - 1]]}

PrefixValues(n, c) == [k \in 0..n |-> c[1..k]]

LEMMA StepsOf ==
  ASSUME NEW A, NEW n \in Nat, NEW F \in [1..n -> [A -> A]], NEW base \in A,
         NEW c, c[{}] = base,
         \A k \in Nat : k < n /\ c[1..k] \in A => c[1..k + 1] = F[k + 1][c[1..k]]
  PROVE  PrefixValues(n, c) \in Steps(A, n, F, base)
<1> DEFINE S == {k \in Nat : k <= n => c[1..k] \in A}
           v == PrefixValues(n, c)
<1>1. \A k \in Nat : k \in S <=> (k <= n => c[1..k] \in A)
  OBVIOUS
<1> HIDE DEF S
<1>2. 1..0 = {}
  OBVIOUS
<1>3. 0 \in S
  BY <1>1, <1>2
<1>4. ASSUME NEW k \in Nat, k \in S PROVE k + 1 \in S
  <2> SUFFICES ASSUME k + 1 <= n PROVE c[1..k + 1] \in A
    BY <1>1
  <2>1. c[1..k] \in A /\ k < n
    BY <1>1, <1>4
  <2>2. F[k + 1] \in [A -> A]
    OBVIOUS
  <2> QED BY <2>1, <2>2
<1>5. \A k \in 0..n : c[1..k] \in A
  <2>1. Nat \subseteq S
    BY <1>3, <1>4, NatSetInduction
  <2>2. \A k \in 0..n : k \in Nat /\ k <= n
    OBVIOUS
  <2> QED BY <1>1, <2>1, <2>2
<1>6. v \in [0..n -> A] /\ v[0] = base /\ \A k \in 0..n : v[k] = c[1..k]
  BY <1>2, <1>5 DEF PrefixValues
<1> HIDE DEF v
<1>7. ASSUME NEW k \in 1..n PROVE v[k] = F[k][v[k - 1]]
  <2>1. k - 1 \in Nat /\ k - 1 < n /\ (k - 1) + 1 = k /\ k - 1 \in 0..n
    OBVIOUS
  <2>2. c[1..(k - 1) + 1] = F[(k - 1) + 1][c[1..k - 1]]
    BY <2>1, <1>5
  <2> QED BY <1>6, <2>1, <2>2
<1> QED BY <1>6, <1>7 DEF Steps, v

-----------------------------------------------------------------------------
(* What the folds of the model compute *)

Generations == Generation \cup {0}
Markets == Market \cup {NoMarket}
Tokens == Token \cup {NoToken}

CheckpointRow == [seq : Nat, session : Nat, gen : Generations, at : 1..MaxTime,
                  market : Market, token : Token]

Command == [op : {"none", "events", "open", "close", "checkpoint", "stop"}, first : Nat,
            events : Seq(Row), gap : Nat, rows : SUBSET CheckpointRow, at : 0..MaxTime,
            clean : BOOLEAN]

LEMMA EventCountSteps ==
  ASSUME NEW cmds \in Seq(Command)
  PROVE  \E v \in [0..Len(cmds) -> Nat] :
           /\ v[0] = 0 /\ v[Len(cmds)] = EventCount(cmds)
           /\ \A k \in 1..Len(cmds) : v[k] = v[k - 1] + Len(cmds[k].events)
<1> DEFINE n == Len(cmds)
           F == [k \in 1..n |-> [x \in Nat |-> x + Len(cmds[k].events)]]
           Step(it) == [s \in SUBSET DOMAIN cmds |->
                          IF s = {} THEN 0 ELSE it[s \ {Max(s)}] + Len(cmds[Max(s)].events)]
           iter == CHOOSE it : it = Step(it)
<1>1. n \in Nat /\ DOMAIN cmds = 1..n
  OBVIOUS
<1>2. \A k \in 1..n : Len(cmds[k].events) \in Nat
  BY DEF Command
<1>3. F \in [1..n -> [Nat -> Nat]]
  BY <1>2
<1>4. \A k \in 1..n, x \in Nat : F[k][x] = x + Len(cmds[k].events)
  OBVIOUS
<1>5. EventCount(cmds) = iter[DOMAIN cmds]
  BY DEF EventCount, FoldLeft, MapThenFoldSet
<1> HIDE DEF n, F
<1>6. \E it : it = Step(it)
  <2>1. PICK it : it \in Iterations(Nat, n, F, 0)
    <3>1. 0 \in Nat
      OBVIOUS
    <3> QED BY <1>1, <1>3, <3>1, Iterated
  <2>2. /\ it \in [SUBSET (1..n) -> Nat]
        /\ \A s \in SUBSET (1..n) :
             it[s] = IF s = {} THEN 0 ELSE F[Max(s)][it[s \ {Max(s)}]]
    BY <2>1 DEF Iterations
  <2>3. \A s \in SUBSET (1..n) : s # {} =>
          F[Max(s)][it[s \ {Max(s)}]] = it[s \ {Max(s)}] + Len(cmds[Max(s)].events)
    BY <1>1, <1>4, <2>2, MaxOf
  <2>4. it = Step(it)
    BY <1>1, <2>2, <2>3
  <2> QED BY <2>4
<1>7. iter = Step(iter)
  BY <1>6, Zenon
<1> HIDE DEF iter
<1>8. /\ iter[{}] = 0
      /\ \A s \in SUBSET (1..n) : s # {} =>
           iter[s] = iter[s \ {Max(s)}] + Len(cmds[Max(s)].events)
  BY <1>1, <1>7
<1>9. ASSUME NEW k \in Nat, k < n, iter[1..k] \in Nat
      PROVE  iter[1..k + 1] = F[k + 1][iter[1..k]]
  <2>1. iter[1..k + 1] = iter[1..k] + Len(cmds[k + 1].events)
    <3>1. /\ 1..k + 1 \in SUBSET (1..n) /\ 1..k + 1 # {}
          /\ Max(1..k + 1) = k + 1 /\ (1..k + 1) \ {Max(1..k + 1)} = 1..k
      BY <1>1, <1>9, UpTo
    <3> QED BY <1>8, <3>1
  <2>2. k + 1 \in 1..n
    BY <1>1, <1>9
  <2> QED BY <2>1, <2>2, <1>4, <1>9
<1> DEFINE v == PrefixValues(n, iter)
<1>10. v \in Steps(Nat, n, F, 0)
  <2>1. 0 \in Nat
    OBVIOUS
  <2>2. \A k \in Nat : k < n /\ iter[1..k] \in Nat => iter[1..k + 1] = F[k + 1][iter[1..k]]
    BY <1>9
  <2>3. n \in Nat /\ iter[{}] = 0
    BY <1>1, <1>8
  <2> QED BY <1>3, <2>1, <2>2, <2>3, StepsOf
<1>11. v \in [0..n -> Nat] /\ v[0] = 0 /\ \A k \in 1..n : v[k] = F[k][v[k - 1]]
  BY <1>10 DEF Steps
<1>12. \A k \in 1..n : v[k] = v[k - 1] + Len(cmds[k].events)
  <2>1. \A k \in 1..n : k - 1 \in 0..n
    BY <1>1
  <2> QED BY <1>4, <1>11, <2>1
<1>13. v[n] = iter[DOMAIN cmds]
  BY <1>1 DEF PrefixValues
<1> HIDE DEF v
<1> QED BY <1>5, <1>11, <1>12, <1>13 DEF n

LEMMA EventsOfSteps ==
  ASSUME NEW cmds \in Seq(Command)
  PROVE  \E v \in [0..Len(cmds) -> Seq(Row)] :
           /\ v[0] = <<>> /\ v[Len(cmds)] = EventsOf(cmds)
           /\ \A k \in 1..Len(cmds) : v[k] = v[k - 1] \o cmds[k].events
<1> DEFINE n == Len(cmds)
           F == [k \in 1..n |-> [x \in Seq(Row) |-> x \o cmds[k].events]]
           Step(it) == [s \in SUBSET DOMAIN cmds |->
                          IF s = {} THEN <<>> ELSE it[s \ {Max(s)}] \o cmds[Max(s)].events]
           iter == CHOOSE it : it = Step(it)
<1>1. n \in Nat /\ DOMAIN cmds = 1..n
  OBVIOUS
<1>2. \A k \in 1..n : cmds[k].events \in Seq(Row)
  <2>1. \A c \in Command : c.events \in Seq(Row)
    BY DEF Command
  <2>2. \A k \in 1..n : cmds[k] \in Command
    OBVIOUS
  <2> QED BY <2>1, <2>2
<1>3. F \in [1..n -> [Seq(Row) -> Seq(Row)]]
  BY <1>2
<1>4. \A k \in 1..n, x \in Seq(Row) : F[k][x] = x \o cmds[k].events
  OBVIOUS
<1>5. EventsOf(cmds) = iter[DOMAIN cmds]
  BY DEF EventsOf, FoldLeft, MapThenFoldSet
<1> HIDE DEF n, F
<1>6. \E it : it = Step(it)
  <2>1. PICK it : it \in Iterations(Seq(Row), n, F, <<>>)
    <3>1. <<>> \in Seq(Row)
      OBVIOUS
    <3> QED BY <1>1, <1>3, <3>1, Iterated
  <2>2. /\ it \in [SUBSET (1..n) -> Seq(Row)]
        /\ \A s \in SUBSET (1..n) :
             it[s] = IF s = {} THEN <<>> ELSE F[Max(s)][it[s \ {Max(s)}]]
    BY <2>1 DEF Iterations
  <2>3. \A s \in SUBSET (1..n) : s # {} =>
          F[Max(s)][it[s \ {Max(s)}]] = it[s \ {Max(s)}] \o cmds[Max(s)].events
    BY <1>1, <1>4, <2>2, MaxOf
  <2>4. it = Step(it)
    BY <1>1, <2>2, <2>3
  <2> QED BY <2>4
<1>7. iter = Step(iter)
  BY <1>6, Zenon
<1> HIDE DEF iter
<1>8. /\ iter[{}] = <<>>
      /\ \A s \in SUBSET (1..n) : s # {} =>
           iter[s] = iter[s \ {Max(s)}] \o cmds[Max(s)].events
  BY <1>1, <1>7
<1>9. ASSUME NEW k \in Nat, k < n, iter[1..k] \in Seq(Row)
      PROVE  iter[1..k + 1] = F[k + 1][iter[1..k]]
  <2>1. iter[1..k + 1] = iter[1..k] \o cmds[k + 1].events
    <3>1. /\ 1..k + 1 \in SUBSET (1..n) /\ 1..k + 1 # {}
          /\ Max(1..k + 1) = k + 1 /\ (1..k + 1) \ {Max(1..k + 1)} = 1..k
      BY <1>1, <1>9, UpTo
    <3> QED BY <1>8, <3>1
  <2>2. k + 1 \in 1..n
    BY <1>1, <1>9
  <2> QED BY <2>1, <2>2, <1>4, <1>9
<1> DEFINE v == PrefixValues(n, iter)
<1>10. v \in Steps(Seq(Row), n, F, <<>>)
  <2>1. <<>> \in Seq(Row)
    OBVIOUS
  <2>2. \A k \in Nat : k < n /\ iter[1..k] \in Seq(Row) => iter[1..k + 1] = F[k + 1][iter[1..k]]
    BY <1>9
  <2>3. n \in Nat /\ iter[{}] = <<>>
    BY <1>1, <1>8
  <2> QED BY <1>3, <2>1, <2>2, <2>3, StepsOf
<1>11. v \in [0..n -> Seq(Row)] /\ v[0] = <<>> /\ \A k \in 1..n : v[k] = F[k][v[k - 1]]
  BY <1>10 DEF Steps
<1>12. \A k \in 1..n : v[k] = v[k - 1] \o cmds[k].events
  <2>1. \A k \in 1..n : k - 1 \in 0..n
    BY <1>1
  <2> QED BY <1>4, <1>11, <2>1
<1>13. v[n] = iter[DOMAIN cmds]
  BY <1>1 DEF PrefixValues
<1> HIDE DEF v
<1> QED BY <1>5, <1>11, <1>12, <1>13 DEF n


LEMMA EventCountNat ==
  ASSUME NEW cmds \in Seq(Command)
  PROVE  EventCount(cmds) \in Nat
<1>1. PICK v \in [0..Len(cmds) -> Nat] : v[Len(cmds)] = EventCount(cmds)
  BY EventCountSteps
<1>2. Len(cmds) \in 0..Len(cmds)
  OBVIOUS
<1> QED BY <1>1, <1>2

(* A numbering of the commands adds up to the count of their events. *)
LEMMA EventCountIs ==
  ASSUME NEW cmds \in Seq(Command), NEW r \in [0..Len(cmds) -> Nat],
         \A k \in 1..Len(cmds) : r[k] = r[k - 1] + Len(cmds[k].events)
  PROVE  r[Len(cmds)] = r[0] + EventCount(cmds)
<1> DEFINE n == Len(cmds)
<1>1. PICK v \in [0..n -> Nat] :
        /\ v[0] = 0 /\ v[n] = EventCount(cmds)
        /\ \A k \in 1..n : v[k] = v[k - 1] + Len(cmds[k].events)
  BY EventCountSteps
<1> DEFINE S == {k \in Nat : k <= n => r[k] = r[0] + v[k]}
<1>2. \A k \in Nat : k \in S <=> (k <= n => r[k] = r[0] + v[k])
  OBVIOUS
<1> HIDE DEF S
<1>3. n \in Nat /\ 0 \in 0..n /\ n \in 0..n
  OBVIOUS
<1>4. 0 \in S
  BY <1>1, <1>2, <1>3
<1>5. ASSUME NEW k \in Nat, k \in S PROVE k + 1 \in S
  <2> SUFFICES ASSUME k + 1 <= n PROVE r[k + 1] = r[0] + v[k + 1]
    BY <1>2
  <2>1. r[k] = r[0] + v[k] /\ k + 1 \in 1..n /\ (k + 1) - 1 = k /\ k \in 0..n
    BY <1>2, <1>3, <1>5
  <2>2. v[k + 1] = v[k] + Len(cmds[k + 1].events) /\ r[k + 1] = r[k] + Len(cmds[k + 1].events)
    <3>1. v[k + 1] = v[(k + 1) - 1] + Len(cmds[k + 1].events)
      BY <1>1, <2>1
    <3>2. r[k + 1] = r[(k + 1) - 1] + Len(cmds[k + 1].events)
      BY <2>1
    <3> QED BY <3>1, <3>2, <2>1
  <2>3. v[k] \in Nat /\ r[0] \in Nat /\ Len(cmds[k + 1].events) \in Nat
    <3>1. cmds[k + 1] \in Command
      BY <2>1
    <3>2. cmds[k + 1].events \in Seq(Row)
      BY <3>1 DEF Command
    <3> QED BY <1>1, <1>3, <2>1, <3>2
  <2> QED BY <2>1, <2>2, <2>3
<1>6. n \in S
  BY <1>3, <1>4, <1>5, NatSetInduction
<1> QED BY <1>1, <1>2, <1>3, <1>6

(* The events of a batch are those of its commands, as many as they have. *)
LEMMA EventsOfTypes ==
  ASSUME NEW cmds \in Seq(Command), NEW P, P \subseteq Row,
         \A k \in 1..Len(cmds) : cmds[k].events \in Seq(P)
  PROVE  EventsOf(cmds) \in Seq(P) /\ Len(EventsOf(cmds)) = EventCount(cmds)
<1> DEFINE n == Len(cmds)
<1>1. PICK v \in [0..n -> Seq(Row)] :
        /\ v[0] = <<>> /\ v[n] = EventsOf(cmds)
        /\ \A k \in 1..n : v[k] = v[k - 1] \o cmds[k].events
  BY EventsOfSteps
<1> DEFINE r == [k \in 0..n |-> Len(v[k])]
           S == {k \in Nat : k <= n => v[k] \in Seq(P)}
<1>2. \A k \in Nat : k \in S <=> (k <= n => v[k] \in Seq(P))
  OBVIOUS
<1> HIDE DEF S
<1>3. n \in Nat /\ 0 \in 0..n /\ n \in 0..n
  OBVIOUS
<1>4. 0 \in S
  BY <1>1, <1>2
<1>5. ASSUME NEW k \in Nat, k \in S PROVE k + 1 \in S
  <2> SUFFICES ASSUME k + 1 <= n PROVE v[k + 1] \in Seq(P)
    BY <1>2
  <2>1. v[k] \in Seq(P) /\ k + 1 \in 1..n /\ (k + 1) - 1 = k
    BY <1>2, <1>3, <1>5
  <2>2. v[k + 1] = v[(k + 1) - 1] \o cmds[k + 1].events
    BY <1>1, <2>1
  <2> QED BY <2>1, <2>2
<1>6. n \in S
  BY <1>3, <1>4, <1>5, NatSetInduction
<1>7. r \in [0..n -> Nat] /\ r[0] = 0 /\ r[n] = Len(EventsOf(cmds))
  BY <1>1, <1>3
<1>8. ASSUME NEW k \in 1..n PROVE r[k] = r[k - 1] + Len(cmds[k].events)
  <2>1. k \in 0..n /\ k - 1 \in 0..n
    BY <1>3
  <2>2. v[k - 1] \in Seq(Row) /\ cmds[k].events \in Seq(P) /\ v[k] = v[k - 1] \o cmds[k].events
    BY <1>1, <2>1
  <2>3. Len(v[k]) = Len(v[k - 1]) + Len(cmds[k].events)
    BY <2>2
  <2> QED BY <2>1, <2>3
<1> HIDE DEF r
<1>9. r[n] = r[0] + EventCount(cmds)
  BY <1>7, <1>8, EventCountIs
<1>10. EventCount(cmds) \in Nat
  BY EventCountNat
<1> QED BY <1>1, <1>2, <1>3, <1>6, <1>7, <1>9, <1>10

LEMMA CommandEvents ==
  ASSUME NEW c \in Command
  PROVE  c.events \in Seq(Row) /\ Len(c.events) \in Nat
BY DEF Command

LEMMA SingleCommand ==
  ASSUME NEW c \in Command
  PROVE  EventsOf(<<c>>) = c.events /\ EventCount(<<c>>) = Len(c.events)
<1> DEFINE cmds == <<c>>
<1>1. cmds \in Seq(Command) /\ Len(cmds) = 1 /\ cmds[1] = c
  OBVIOUS
<1> HIDE DEF cmds
<1>2. PICK v \in [0..Len(cmds) -> Seq(Row)] :
        /\ v[0] = <<>> /\ v[Len(cmds)] = EventsOf(cmds)
        /\ \A k \in 1..Len(cmds) : v[k] = v[k - 1] \o cmds[k].events
  BY <1>1, EventsOfSteps
<1>3. v[1] = v[1 - 1] \o c.events /\ 1 - 1 = 0
  BY <1>1, <1>2
<1>4. <<>> \o c.events = c.events
  BY CommandEvents
<1>5. EventsOf(cmds) = c.events
  BY <1>1, <1>2, <1>3, <1>4
<1>6. \A k \in 1..Len(cmds) : cmds[k].events \in Seq(Row)
  BY <1>1, CommandEvents
<1>7. Len(EventsOf(cmds)) = EventCount(cmds)
  BY <1>1, <1>6, EventsOfTypes
<1> QED BY <1>5, <1>7 DEF cmds


-----------------------------------------------------------------------------
(* What the archive's check of a batch says of its events *)

Baselines == Generations \X Tokens

Verdict == [ok : BOOLEAN, session : Nat, last : Nat, markets : SUBSET Markets,
            baselines : SUBSET Baselines, hasGap : BOOLEAN]

Memory == [session : Nat, next : Nat, last : Nat, baselines : SUBSET Baselines,
           hasGap : BOOLEAN, resumeFrom : Nat]

LEMMA RowTypes ==
  ASSUME NEW e \in Row
  PROVE  /\ e.session \in 1..MaxSessions /\ e.at \in 1..MaxTime /\ e.session \in Nat /\ e.at \in Nat
         /\ e.gen \in Generations /\ e.token \in Tokens /\ e.market \in Markets
         /\ e.kind \in {"metadata", "baseline", "delta", "resolution", "gap"}
         /\ e.start \in 0..MaxTime /\ e.end \in 0..Forever
<1>1. MaxSessions \in Nat /\ MaxTime \in Nat
  BY WriterAssumption
<1> QED BY <1>1 DEF Row, Generations, Tokens, Markets

LEMMA DependentBoolean ==
  ASSUME NEW e, NEW seen
  PROVE  Dependent(e, seen) \in BOOLEAN
<1>1. CASE e.kind \in {"gap", "metadata"}
  BY <1>1 DEF Dependent
<1>2. CASE e.kind = "delta"
  BY <1>2 DEF Dependent
<1>3. CASE e.kind \notin {"gap", "metadata", "delta"}
  <2>1. Dependent(e, seen) = (e.market \in seen.markets)
    BY <1>3 DEF Dependent
  <2> QED BY <2>1
<1> QED BY <1>1, <1>2, <1>3

LEMMA SeesTypes ==
  ASSUME NEW seen \in Verdict, NEW e \in Row
  PROVE  /\ Sees(seen, e) \in Verdict
         /\ Sees(seen, e).session = seen.session /\ Sees(seen, e).last = e.at
         /\ Sees(seen, e).ok => seen.ok /\ e.session = seen.session /\ e.at >= seen.last
<1>1. /\ seen.ok \in BOOLEAN /\ seen.session \in Nat /\ seen.last \in Nat
      /\ seen.markets \in SUBSET Markets /\ seen.baselines \in SUBSET Baselines
      /\ seen.hasGap \in BOOLEAN
  BY DEF Verdict
<1> DEFINE ok == seen.ok /\ e.session = seen.session /\ e.at >= seen.last /\ Dependent(e, seen)
           markets == IF e.kind = "metadata" THEN seen.markets \cup {e.market} ELSE seen.markets
           baselines == BaselinesAfter(e, seen.baselines)
           hasGap == seen.hasGap \/ IsGap(e)
<1> DEFINE new == Sees(seen, e)
<1>2. /\ DOMAIN new = {"ok", "session", "last", "markets", "baselines", "hasGap"}
      /\ new = [f \in DOMAIN new |-> new[f]]
  BY DEF Verdict, Sees
<1>3. /\ new.session = seen.session /\ new.last = e.at
      /\ new.markets = markets /\ new.baselines = baselines
  BY DEF Verdict, Sees
<1>10. new.ok = ok
  BY DEF Verdict, Sees
<1>11. new.hasGap = hasGap
  BY DEF Verdict, Sees
<1>4. ok \in BOOLEAN /\ hasGap \in BOOLEAN
  BY <1>1, DependentBoolean DEF IsGap
<1>5. markets \in SUBSET Markets
  BY <1>1, RowTypes
<1>6. baselines \in SUBSET Baselines
  <2>1. <<e.gen, e.token>> \in Baselines
    BY RowTypes DEF Baselines
  <2> QED BY <1>1, <2>1 DEF BaselinesAfter
<1>7. e.at \in Nat
  BY RowTypes
<1>8. Sees(seen, e) \in Verdict
  <2>1. /\ new.ok \in BOOLEAN /\ new.session \in Nat /\ new.last \in Nat
        /\ new.markets \in SUBSET Markets /\ new.baselines \in SUBSET Baselines
        /\ new.hasGap \in BOOLEAN
    <3> HIDE DEF ok, markets, baselines, hasGap, new
    <3> QED BY <1>1, <1>3, <1>4, <1>5, <1>6, <1>7, <1>10, <1>11
  <2> HIDE DEF new
  <2>2. new \in Verdict
    BY <1>2, <2>1 DEF Verdict
  <2> QED BY <2>2 DEF new
<1> QED BY <1>3, <1>8, <1>10

Unread(d, mem, first) ==
  [ok |-> first = mem.next, session |-> mem.session, last |-> mem.last,
   markets |-> KnownMarkets(d), baselines |-> mem.baselines, hasGap |-> mem.hasGap]

Verdicts(d, mem, first, events) ==
  {v \in [0..Len(events) -> Verdict] :
     /\ v[0] = Unread(d, mem, first)
     /\ v[Len(events)] = Checked(d, mem, first, events)
     /\ \A k \in 1..Len(events) : v[k] = Sees(v[k - 1], events[k])}

LEMMA CheckedSteps ==
  ASSUME NEW d, KnownMarkets(d) \subseteq Markets, NEW mem \in Memory, NEW first \in Nat,
         NEW events \in Seq(Row)
  PROVE  \E v : v \in Verdicts(d, mem, first, events)
<1> DEFINE n == Len(events)
           base == Unread(d, mem, first)
           F == [k \in 1..n |-> [x \in Verdict |-> Sees(x, events[k])]]
           Step(it) == [s \in SUBSET DOMAIN events |->
                          IF s = {} THEN base ELSE Sees(it[s \ {Max(s)}], events[Max(s)])]
           iter == CHOOSE it : it = Step(it)
<1>1. n \in Nat /\ DOMAIN events = 1..n
  OBVIOUS
<1>2. base \in Verdict
  BY DEF Verdict, Memory, Unread
<1>3. F \in [1..n -> [Verdict -> Verdict]]
  <2>1. \A k \in 1..n, x \in Verdict : Sees(x, events[k]) \in Verdict
    BY SeesTypes
  <2> QED BY <2>1
<1>4. \A k \in 1..n, x \in Verdict : F[k][x] = Sees(x, events[k])
  OBVIOUS
<1>5. Checked(d, mem, first, events) = iter[DOMAIN events]
  BY DEF Checked, FoldLeft, MapThenFoldSet, Unread
<1> HIDE DEF n, F, base
<1>6. \E it : it = Step(it)
  <2>1. PICK it : it \in Iterations(Verdict, n, F, base)
    BY <1>1, <1>2, <1>3, Iterated
  <2>2. /\ it \in [SUBSET (1..n) -> Verdict]
        /\ \A s \in SUBSET (1..n) :
             it[s] = IF s = {} THEN base ELSE F[Max(s)][it[s \ {Max(s)}]]
    BY <2>1 DEF Iterations
  <2>3. \A s \in SUBSET (1..n) : s # {} =>
          F[Max(s)][it[s \ {Max(s)}]] = Sees(it[s \ {Max(s)}], events[Max(s)])
    BY <1>1, <1>4, <2>2, MaxOf
  <2>4. it = Step(it)
    BY <1>1, <2>2, <2>3
  <2> QED BY <2>4
<1>7. iter = Step(iter)
  BY <1>6, Zenon
<1> HIDE DEF iter
<1>8. /\ iter[{}] = base
      /\ \A s \in SUBSET (1..n) : s # {} =>
           iter[s] = Sees(iter[s \ {Max(s)}], events[Max(s)])
  BY <1>1, <1>7
<1>9. ASSUME NEW k \in Nat, k < n, iter[1..k] \in Verdict
      PROVE  iter[1..k + 1] = F[k + 1][iter[1..k]]
  <2>1. iter[1..k + 1] = Sees(iter[1..k], events[k + 1])
    <3>1. /\ 1..k + 1 \in SUBSET (1..n) /\ 1..k + 1 # {}
          /\ Max(1..k + 1) = k + 1 /\ (1..k + 1) \ {Max(1..k + 1)} = 1..k
      BY <1>1, <1>9, UpTo
    <3> QED BY <1>8, <3>1
  <2>2. k + 1 \in 1..n
    BY <1>1, <1>9
  <2> QED BY <2>1, <2>2, <1>4, <1>9
<1> DEFINE v == PrefixValues(n, iter)
<1>10. v \in Steps(Verdict, n, F, base)
  <2>2. \A k \in Nat : k < n /\ iter[1..k] \in Verdict => iter[1..k + 1] = F[k + 1][iter[1..k]]
    BY <1>9
  <2>3. n \in Nat /\ iter[{}] = base
    BY <1>1, <1>8
  <2> QED BY <1>2, <1>3, <2>2, <2>3, StepsOf
<1>11. v \in [0..n -> Verdict] /\ v[0] = base /\ \A k \in 1..n : v[k] = F[k][v[k - 1]]
  BY <1>10 DEF Steps
<1>12. \A k \in 1..n : v[k] = Sees(v[k - 1], events[k])
  <2>1. \A k \in 1..n : k - 1 \in 0..n
    BY <1>1
  <2> QED BY <1>4, <1>11, <2>1
<1>13. v[n] = iter[DOMAIN events]
  BY <1>1 DEF PrefixValues
<1> HIDE DEF v
<1> QED BY <1>5, <1>11, <1>12, <1>13 DEF n, base, Verdicts

(* The archive accepts these events. *)
Judged(d, mem, first, events, seen) ==
  /\ KnownMarkets(d) \subseteq Markets /\ mem \in Memory /\ first \in Nat /\ events \in Seq(Row)
  /\ seen = Checked(d, mem, first, events) /\ seen.ok

(* Accepted events are of the session, in the order of their times, none earlier *)
(* than what the archive held; the last of them is what it remembers.            *)
LEMMA CheckedSays ==
  ASSUME NEW d, NEW mem, NEW first, NEW events, NEW seen, Judged(d, mem, first, events, seen)
  PROVE  /\ seen \in Verdict
         /\ first = mem.next
         /\ \A i \in 1..Len(events) : events[i].session = mem.session /\ events[i].at >= mem.last
                                        /\ events[i].at <= seen.last
         /\ seen.last >= mem.last
         /\ events # <<>> => seen.last = events[Len(events)].at
<1> DEFINE n == Len(events)
<1>9. /\ KnownMarkets(d) \subseteq Markets /\ mem \in Memory /\ first \in Nat
      /\ events \in Seq(Row) /\ seen = Checked(d, mem, first, events) /\ seen.ok
  BY DEF Judged
<1>1. PICK v \in [0..n -> Verdict] :
        /\ v[0] = Unread(d, mem, first)
        /\ v[n] = Checked(d, mem, first, events)
        /\ \A k \in 1..n : v[k] = Sees(v[k - 1], events[k])
  BY <1>9, CheckedSteps DEF Verdicts
<1> DEFINE Good(k) ==
             /\ v[k].session = mem.session
             /\ v[k].ok =>
                  /\ first = mem.next
                  /\ \A i \in 1..k : events[i].session = mem.session /\ events[i].at >= mem.last
                                       /\ events[i].at <= v[k].last
                  /\ v[k].last >= mem.last
           S == {k \in Nat : k <= n => Good(k)}
<1>2. \A k \in Nat : k \in S <=> (k <= n => Good(k))
  OBVIOUS
<1> HIDE DEF S
<1>3. n \in Nat /\ 0 \in 0..n /\ n \in 0..n /\ mem.last \in Nat
  BY <1>9 DEF Memory
<1>4. 0 \in S
  <2>1. 1..0 = {}
    OBVIOUS
  <2>2. v[0].session = mem.session /\ v[0].last = mem.last
    BY <1>1 DEF Unread
  <2>4. v[0].ok => first = mem.next
    <3>1. CASE first = mem.next
      BY <3>1
    <3>2. CASE first # mem.next
      <4>1. Unread(d, mem, first).ok = FALSE
        BY <3>2 DEF Unread
      <4> QED BY <1>1, <4>1
    <3> QED BY <3>1, <3>2
  <2>3. Good(0)
    BY <1>3, <2>1, <2>2, <2>4
  <2> QED BY <1>2, <2>3
<1>5. ASSUME NEW k \in Nat, k \in S PROVE k + 1 \in S
  <2> SUFFICES ASSUME k + 1 <= n PROVE Good(k + 1)
    BY <1>2
  <2>1. Good(k) /\ k + 1 \in 1..n /\ (k + 1) - 1 = k /\ k \in 0..n
    BY <1>2, <1>3, <1>5
  <2>2. v[k + 1] = Sees(v[k], events[k + 1])
    BY <1>1, <2>1
  <2>3. v[k] \in Verdict /\ events[k + 1] \in Row
    BY <1>1, <1>9, <2>1
  <2>4. /\ v[k + 1].session = v[k].session /\ v[k + 1].last = events[k + 1].at
        /\ v[k + 1].ok => /\ v[k].ok /\ events[k + 1].session = v[k].session
                          /\ events[k + 1].at >= v[k].last
    BY <2>2, <2>3, SeesTypes
  <2>5. v[k].last \in Nat /\ \A i \in 1..n : events[i].at \in Nat
    BY <1>9, <2>3, RowTypes DEF Verdict
  <2>6. \A i \in 1..k + 1 : i \in 1..k \/ i = k + 1
    OBVIOUS
  <2>7. ASSUME v[k + 1].ok
        PROVE  \A i \in 1..k + 1 : events[i].session = mem.session /\ events[i].at >= mem.last
                                     /\ events[i].at <= v[k + 1].last
    <3> TAKE i \in 1..k + 1
    <3>1. events[i].at \in Nat
      BY <1>3, <2>1, <2>5
    <3> QED BY <2>1, <2>4, <2>5, <2>6, <2>7, <1>3, <3>1
  <2>8. v[k + 1].ok => v[k + 1].last >= mem.last /\ first = mem.next
    BY <2>1, <2>4, <2>5, <1>3
  <2> QED BY <2>1, <2>4, <2>7, <2>8
<1>6. n \in S
  BY <1>3, <1>4, <1>5, NatSetInduction
<1>7. ASSUME events # <<>> PROVE v[n].last = events[n].at
  <2>1. n \in 1..n /\ n - 1 \in 0..n
    BY <1>3, <1>7, <1>9
  <2>2. v[n - 1] \in Verdict /\ events[n] \in Row /\ v[n] = Sees(v[n - 1], events[n])
    BY <1>1, <1>9, <2>1
  <2> QED BY <2>2, SeesTypes
<1>8. Good(n) /\ v[n] \in Verdict
  BY <1>1, <1>2, <1>3, <1>6
<1> QED BY <1>1, <1>7, <1>8, <1>9



-----------------------------------------------------------------------------
(* The greatest and the least of a set of numbers *)

LEMMA GreatestIs ==
  ASSUME NEW S, S \subseteq Nat, NEW x \in S, \A y \in S : y <= x
  PROVE  GreatestOf(S) = x
<1>1. \A z \in S : (\A y \in S : y <= z) => z = x
  OBVIOUS
<1> QED BY <1>1 DEF GreatestOf

LEMMA GreatestExists ==
  ASSUME NEW n \in Nat, NEW S, S \subseteq 0..n, S # {}
  PROVE  GreatestOf(S) \in S /\ \A y \in S : y <= GreatestOf(S)
<1> DEFINE T == {k \in Nat : \A y \in S : y <= k}
<1>1. n \in T
  OBVIOUS
<1>2. PICK m \in T : \A k \in T : <<k, m>> \notin OpToRel(<, Nat)
  BY <1>1, WFMin, NatLessThanWellFounded
<1>3. m \in S
  <2> SUFFICES ASSUME m \notin S PROVE FALSE
    OBVIOUS
  <2>1. PICK y \in S : y \in 0..n
    OBVIOUS
  <2>2. y <= m /\ y # m /\ y \in Nat
    BY <2>1
  <2>3. m - 1 \in T /\ m - 1 < m /\ m - 1 \in Nat /\ m \in Nat
    BY <2>2
  <2> QED BY <1>2, <2>3 DEF OpToRel
<1>4. S \subseteq Nat
  OBVIOUS
<1>5. GreatestOf(S) = m
  BY <1>3, <1>4, GreatestIs
<1> QED BY <1>3, <1>5

LEMMA LeastIs ==
  ASSUME NEW S, S \subseteq Nat, NEW x \in S, \A y \in S : x <= y
  PROVE  LeastOf(S) = x
<1>1. \A z \in S : (\A y \in S : z <= y) => z = x
  OBVIOUS
<1> QED BY <1>1 DEF LeastOf

LEMMA LeastExists ==
  ASSUME NEW S, S \subseteq Nat, S # {}
  PROVE  LeastOf(S) \in S /\ \A y \in S : LeastOf(S) <= y
<1>1. PICK m \in S : \A k \in S : <<k, m>> \notin OpToRel(<, Nat)
  BY WFMin, NatLessThanWellFounded
<1>2. ASSUME NEW y \in S PROVE m <= y
  <2>1. y \in Nat /\ m \in Nat
    BY <1>1
  <2>2. ~(y < m)
    BY <1>1, <2>1 DEF OpToRel
  <2> QED BY <2>1, <2>2
<1> QED BY <1>2, LeastIs

(* An archive of rows as the model types them *)
Session == [start : 1..MaxTime, end : Nat,
            status : {"active", "incomplete", "complete", "failed"}]
Archive == [sessions : Seq(Session), events : Seq(Row), checkpoints : SUBSET CheckpointRow]

LEMMA ArchiveTypes ==
  ASSUME NEW d \in Archive
  PROVE  /\ d.sessions \in Seq(Session) /\ d.events \in Seq(Row)
         /\ d.checkpoints \subseteq CheckpointRow
         /\ \A i \in DOMAIN d.events : d.events[i] \in Row
         /\ \A s \in DOMAIN d.sessions : d.sessions[s] \in Session
         /\ Len(d.events) \in Nat /\ Len(d.sessions) \in Nat
         /\ DOMAIN d.events = 1..Len(d.events) /\ DOMAIN d.sessions = 1..Len(d.sessions)
BY DEF Archive

LEMMA CheckpointTypes ==
  ASSUME NEW c \in CheckpointRow
  PROVE  c.at \in 1..MaxTime /\ c.session \in Nat /\ c.seq \in Nat /\ c.at \in Nat
BY WriterAssumption DEF CheckpointRow

LEMMA SessionTypes ==
  ASSUME NEW s \in Session
  PROVE  /\ s.start \in 1..MaxTime /\ s.start \in Nat /\ s.end \in Nat
         /\ s.status \in {"active", "incomplete", "complete", "failed"}
BY WriterAssumption DEF Session

LEMMA TimesTypes ==
  ASSUME NEW d \in Archive
  PROVE  /\ ObservedTimes(d) \subseteq 1..MaxTime /\ ObservedTimes(d) \subseteq Nat
         /\ \A s : SessionTimes(d, s) \subseteq ObservedTimes(d)
<1>1. ObservedTimes(d) \subseteq 1..MaxTime
  BY ArchiveTypes, RowTypes, CheckpointTypes DEF ObservedTimes
<1>2. \A s : SessionTimes(d, s) \subseteq ObservedTimes(d)
  BY DEF ObservedTimes, SessionTimes
<1> QED BY <1>1, <1>2, WriterAssumption

LEMMA LastObservedSays ==
  ASSUME NEW d \in Archive
  PROVE  /\ LastObserved(d) \in 0..MaxTime /\ LastObserved(d) \in Nat
         /\ \A t \in ObservedTimes(d) : t <= LastObserved(d)
         /\ LastObserved(d) # 0 => LastObserved(d) \in ObservedTimes(d)
         /\ LastObserved(d) = 0 => ObservedTimes(d) = {}
<1>1. ObservedTimes(d) \subseteq 1..MaxTime /\ MaxTime \in Nat
  BY TimesTypes, WriterAssumption
<1>2. CASE ObservedTimes(d) = {}
  BY <1>1, <1>2 DEF LastObserved
<1>3. CASE ObservedTimes(d) # {}
  <2>1. ObservedTimes(d) \subseteq 0..MaxTime
    BY <1>1
  <2>2. /\ GreatestOf(ObservedTimes(d)) \in ObservedTimes(d)
        /\ \A y \in ObservedTimes(d) : y <= GreatestOf(ObservedTimes(d))
    BY <1>1, <1>3, <2>1, GreatestExists
  <2> QED BY <1>1, <1>3, <2>2 DEF LastObserved
<1> QED BY <1>2, <1>3

LEMMA LastObservedIs ==
  ASSUME NEW d \in Archive, NEW x \in ObservedTimes(d), \A t \in ObservedTimes(d) : t <= x
  PROVE  LastObserved(d) = x
BY TimesTypes, GreatestIs DEF LastObserved

LEMMA LastSessionObservedSays ==
  ASSUME NEW d \in Archive, NEW s
  PROVE  /\ LastSessionObserved(d, s) \in 0..MaxTime
         /\ \A t \in SessionTimes(d, s) : t <= LastSessionObserved(d, s)
<1>1. SessionTimes(d, s) \subseteq 0..MaxTime /\ MaxTime \in Nat
  BY TimesTypes, WriterAssumption
<1>2. CASE SessionTimes(d, s) = {}
  BY <1>1, <1>2 DEF LastSessionObserved
<1>3. CASE SessionTimes(d, s) # {}
  BY <1>1, <1>3, GreatestExists DEF LastSessionObserved
<1> QED BY <1>2, <1>3

LEMMA GreaterOfTwo ==
  ASSUME NEW a \in Nat, NEW b \in Nat
  PROVE  /\ GreatestOf({a, b}) \in {a, b}
         /\ a <= GreatestOf({a, b}) /\ b <= GreatestOf({a, b})
<1>1. CASE a <= b
  <2>1. GreatestOf({a, b}) = b
    BY <1>1, GreatestIs
  <2> QED BY <1>1, <2>1
<1>2. CASE b <= a
  <2>1. GreatestOf({a, b}) = a
    BY <1>2, GreatestIs
  <2> QED BY <1>2, <2>1
<1> QED BY <1>1, <1>2


-----------------------------------------------------------------------------
(* Sequences of commands, and their numberings *)

(* What callers put in the queue: events come with the commands that record them. *)
Asked == {c \in Command :
            /\ c.op # "none"
            /\ c.op \in {"events", "open"} <=> c.events # <<>>
            /\ c.op = "checkpoint" => c.rows # {}}

LEMMA AskedTypes ==
  ASSUME NEW c \in Asked
  PROVE  /\ c \in Command /\ c.op \in {"events", "open", "close", "checkpoint", "stop"}
         /\ c.events \in Seq(Row) /\ Len(c.events) \in Nat /\ c.first \in Nat
         /\ c.rows \subseteq CheckpointRow /\ c.at \in 0..MaxTime /\ c.clean \in BOOLEAN
         /\ c.gap \in Nat
         /\ c.op \in {"events", "open"} <=> c.events # <<>>
         /\ c.op = "checkpoint" => c.rows # {}
BY DEF Asked, Command

LEMMA AskedAreCommands ==
  Seq(Asked) \subseteq Seq(Command)
BY DEF Asked

LEMMA NoCommandType ==
  NoCommand \in Command /\ NoCommand.events = <<>> /\ NoCommand.op = "none"
BY WriterAssumption DEF NoCommand, Command

LEMMA SameSequence ==
  ASSUME NEW S, NEW a \in Seq(S), NEW b \in Seq(S), Len(a) = Len(b),
         \A i \in 1..Len(a) : a[i] = b[i]
  PROVE  a = b
OBVIOUS

Numberings(cmds, from, to) ==
  {r \in [0..Len(cmds) -> Nat] :
     /\ r[0] = from /\ r[Len(cmds)] = to
     /\ \A k \in 1..Len(cmds) :
          /\ r[k] = r[k - 1] + Len(cmds[k].events)
          /\ cmds[k].events # <<>> => cmds[k].first = r[k - 1]}

LEMMA NumberNone ==
  ASSUME NEW n \in Nat
  PROVE  Numberings(<<>>, n, n) # {}
<1> DEFINE r == [k \in 0..0 |-> n]
<1>1. Len(<<>>) = 0 /\ 1..0 = {}
  OBVIOUS
<1>2. r \in [0..0 -> Nat] /\ r[0] = n
  OBVIOUS
<1> HIDE DEF r
<1>3. r \in Numberings(<<>>, n, n)
  BY <1>1, <1>2 DEF Numberings
<1> QED BY <1>3

LEMMA NumberAnother ==
  ASSUME NEW cmds \in Seq(Command), NEW from \in Nat, NEW to \in Nat, NEW c \in Command,
         Numberings(cmds, from, to) # {}, c.events # <<>> => c.first = to
  PROVE  Numberings(Append(cmds, c), from, to + Len(c.events)) # {}
<1> DEFINE n == Len(cmds)
           more == Append(cmds, c)
<1>1. PICK r : r \in Numberings(cmds, from, to)
  OBVIOUS
<1>2. /\ n \in Nat /\ Len(more) = n + 1 /\ more[n + 1] = c
      /\ \A k \in 1..n : more[k] = cmds[k]
  OBVIOUS
<1>3. Len(c.events) \in Nat
  BY CommandEvents
<1> DEFINE s == [k \in 0..n + 1 |-> IF k = n + 1 THEN to + Len(c.events) ELSE r[k]]
<1>4. r \in [0..n -> Nat] /\ r[0] = from /\ r[n] = to
  BY <1>1 DEF Numberings
<1>5. /\ s \in [0..n + 1 -> Nat] /\ s[0] = from /\ s[n + 1] = to + Len(c.events)
      /\ \A k \in 0..n : s[k] = r[k]
  BY <1>2, <1>3, <1>4
<1> HIDE DEF s, more
<1>6. ASSUME NEW k \in 1..n + 1
      PROVE  /\ s[k] = s[k - 1] + Len(more[k].events)
             /\ more[k].events # <<>> => more[k].first = s[k - 1]
  <2>1. CASE k = n + 1
    <3>1. k - 1 = n /\ s[k - 1] = to
      BY <1>2, <1>4, <1>5, <2>1
    <3> QED BY <1>2, <1>5, <2>1, <3>1
  <2>2. CASE k # n + 1
    <3>1. k \in 1..n /\ k \in 0..n /\ k - 1 \in 0..n
      BY <1>2, <2>2
    <3>2. r[k] = r[k - 1] + Len(cmds[k].events) /\ (cmds[k].events # <<>> => cmds[k].first = r[k - 1])
      BY <1>1, <3>1 DEF Numberings
    <3> QED BY <1>2, <1>5, <3>1, <3>2
  <2> QED BY <2>1, <2>2
<1>7. s \in Numberings(more, from, to + Len(c.events))
  BY <1>2, <1>5, <1>6 DEF Numberings
<1> QED BY <1>7 DEF more

(* Positions only grow, and what a command numbers lies between its own. *)
LEMMA NumberingGrows ==
  ASSUME NEW cmds \in Seq(Command), NEW from \in Nat, NEW to \in Nat,
         NEW r \in Numberings(cmds, from, to)
  PROVE  \A j, k \in 0..Len(cmds) : j <= k => r[j] <= r[k]
<1> DEFINE n == Len(cmds)
           S == {k \in Nat : k <= n => \A j \in 0..k : r[j] <= r[k]}
<1>1. \A k \in Nat : k \in S <=> (k <= n => \A j \in 0..k : r[j] <= r[k])
  OBVIOUS
<1> HIDE DEF S
<1>2. n \in Nat /\ r \in [0..n -> Nat]
  BY DEF Numberings
<1>3. 0 \in S
  BY <1>1, <1>2
<1>4. ASSUME NEW k \in Nat, k \in S PROVE k + 1 \in S
  <2> SUFFICES ASSUME k + 1 <= n, NEW j \in 0..k + 1 PROVE r[j] <= r[k + 1]
    BY <1>1
  <2>1. k \in 0..n /\ k + 1 \in 1..n /\ k + 1 \in 0..n /\ (k + 1) - 1 = k
    BY <1>2
  <2>2. r[k + 1] = r[(k + 1) - 1] + Len(cmds[k + 1].events)
    BY <2>1 DEF Numberings
  <2>3. Len(cmds[k + 1].events) \in Nat
    BY <2>1, CommandEvents
  <2>4. r[k] \in Nat /\ r[k] <= r[k + 1]
    BY <1>2, <2>1, <2>2, <2>3
  <2>5. CASE j = k + 1
    BY <1>2, <2>1, <2>5
  <2>6. CASE j # k + 1
    <3>1. j \in 0..k /\ r[j] <= r[k]
      BY <1>1, <1>4, <2>1, <2>6
    <3> QED BY <1>2, <2>1, <2>4, <3>1
  <2> QED BY <2>5, <2>6
<1>5. Nat \subseteq S
  BY <1>3, <1>4, NatSetInduction
<1> QED BY <1>1, <1>2, <1>5

LEMMA NumberingStep ==
  ASSUME NEW cmds \in Seq(Command), NEW from \in Nat, NEW to \in Nat,
         NEW r \in Numberings(cmds, from, to), NEW k \in 1..Len(cmds)
  PROVE  /\ k - 1 \in 0..Len(cmds) /\ k \in 0..Len(cmds)
         /\ r[k - 1] \in Nat /\ r[k] \in Nat /\ from <= r[k - 1] /\ r[k] <= to
         /\ r[k] = r[k - 1] + Len(cmds[k].events)
         /\ cmds[k].events # <<>> => cmds[k].first = r[k - 1]
<1>1. Len(cmds) \in Nat /\ r \in [0..Len(cmds) -> Nat] /\ r[0] = from /\ r[Len(cmds)] = to
  BY DEF Numberings
<1>2. k - 1 \in 0..Len(cmds) /\ k \in 0..Len(cmds) /\ 0 \in 0..Len(cmds)
        /\ Len(cmds) \in 0..Len(cmds) /\ 0 <= k - 1 /\ k <= Len(cmds)
  BY <1>1
<1>3. from <= r[k - 1] /\ r[k] <= to
  BY <1>1, <1>2, NumberingGrows
<1> QED BY <1>1, <1>2, <1>3 DEF Numberings

(* The commands up to one, and those after it, have numberings of their own. *)
LEMMA NumberFirst ==
  ASSUME NEW cmds \in Seq(Command), NEW from \in Nat, NEW to \in Nat,
         NEW r \in Numberings(cmds, from, to), NEW k \in 0..Len(cmds)
  PROVE  r[k] = from + EventCount(SubSeq(cmds, 1, k))
<1> DEFINE a == SubSeq(cmds, 1, k)
           s == [j \in 0..k |-> r[j]]
<1>1. /\ a \in Seq(Command) /\ Len(a) = k /\ \A j \in 1..k : a[j] = cmds[j]
      /\ k \in Nat /\ k <= Len(cmds)
  OBVIOUS
<1>2. r \in [0..Len(cmds) -> Nat] /\ r[0] = from
  BY DEF Numberings
<1>3. s \in [0..k -> Nat] /\ \A j \in 0..k : s[j] = r[j]
  BY <1>1, <1>2
<1> HIDE DEF s, a
<1>4. ASSUME NEW j \in 1..k PROVE s[j] = s[j - 1] + Len(a[j].events)
  <2>1. j \in 1..Len(cmds) /\ j \in 0..k /\ j - 1 \in 0..k
    BY <1>1
  <2>2. r[j] = r[j - 1] + Len(cmds[j].events)
    BY <2>1, NumberingStep
  <2> QED BY <1>1, <1>3, <2>1, <2>2
<1>5. s[k] = s[0] + EventCount(a)
  BY <1>1, <1>3, <1>4, EventCountIs
<1> QED BY <1>1, <1>2, <1>3, <1>5 DEF a

LEMMA NumberRest ==
  ASSUME NEW a \in Seq(Command), NEW b \in Seq(Command), NEW from \in Nat, NEW to \in Nat,
         Numberings(a \o b, from, to) # {}
  PROVE  Numberings(b, from + EventCount(a), to) # {}
<1> DEFINE cmds == a \o b
<1>1. /\ cmds \in Seq(Command) /\ Len(cmds) = Len(a) + Len(b)
      /\ Len(a) \in Nat /\ Len(b) \in Nat
      /\ \A j \in 1..Len(b) : cmds[Len(a) + j] = b[j]
      /\ SubSeq(cmds, 1, Len(a)) = a
  <2>1. SubSeq(cmds, 1, Len(a)) = a
    <3>1. \A j \in 1..Len(a) : cmds[j] = a[j]
      OBVIOUS
    <3>2. SubSeq(cmds, 1, Len(a)) \in Seq(Command) /\ Len(SubSeq(cmds, 1, Len(a))) = Len(a)
            /\ \A j \in 1..Len(a) : SubSeq(cmds, 1, Len(a))[j] = cmds[j]
      OBVIOUS
    <3> QED BY <3>1, <3>2, SameSequence
  <2> QED BY <2>1
<1> HIDE DEF cmds
<1>2. PICK r : r \in Numberings(cmds, from, to)
  BY DEF cmds
<1>3. r \in [0..Len(cmds) -> Nat] /\ r[Len(cmds)] = to
  BY <1>2 DEF Numberings
<1> DEFINE s == [j \in 0..Len(b) |-> r[Len(a) + j]]
<1>4. /\ s \in [0..Len(b) -> Nat] /\ s[0] = r[Len(a)] /\ s[Len(b)] = to
      /\ \A j \in 0..Len(b) : s[j] = r[Len(a) + j]
  BY <1>1, <1>3
<1> HIDE DEF s
<1>5. ASSUME NEW j \in 1..Len(b)
      PROVE  /\ s[j] = s[j - 1] + Len(b[j].events)
             /\ b[j].events # <<>> => b[j].first = s[j - 1]
  <2>1. Len(a) + j \in 1..Len(cmds) /\ j \in 0..Len(b) /\ j - 1 \in 0..Len(b)
          /\ (Len(a) + j) - 1 = Len(a) + (j - 1)
    BY <1>1
  <2>2. cmds[Len(a) + j] = b[j]
    BY <1>1
  <2>3. /\ r[Len(a) + j] = r[(Len(a) + j) - 1] + Len(cmds[Len(a) + j].events)
        /\ cmds[Len(a) + j].events # <<>> => cmds[Len(a) + j].first = r[(Len(a) + j) - 1]
    BY <1>1, <1>2, <2>1, NumberingStep
  <2> QED BY <1>4, <2>1, <2>2, <2>3
<1>6. Len(a) \in 0..Len(cmds)
  BY <1>1
<1>7. r[Len(a)] = from + EventCount(a)
  <2>1. r[Len(a)] = from + EventCount(SubSeq(cmds, 1, Len(a)))
    BY <1>1, <1>2, <1>6, NumberFirst
  <2> QED BY <1>1, <2>1
<1>8. s \in Numberings(b, from + EventCount(a), to)
  BY <1>4, <1>5, <1>7 DEF Numberings
<1> QED BY <1>8


LEMMA ConcatAppend ==
  ASSUME NEW S, NEW a \in Seq(S), NEW b \in Seq(S), NEW c \in S
  PROVE  a \o Append(b, c) = Append(a \o b, c)
OBVIOUS

LEMMA SubSeqCommands ==
  ASSUME NEW S, NEW q \in Seq(S), NEW k \in 0..Len(q)
  PROVE  /\ SubSeq(q, 1, k) \in Seq(S) /\ Len(SubSeq(q, 1, k)) = k
         /\ \A i \in 1..k : SubSeq(q, 1, k)[i] = q[i]
OBVIOUS

(* _write_event_batch gathers events only, and stops at the latest where the queue ends. *)
LEMMA GatheredSays ==
  ASSUME queue \in Seq(Asked), queue # <<>>, IsEvents(Head(queue))
  PROVE  /\ Gathered \in 1..Len(queue)
         /\ \A i \in 1..Gathered : IsEvents(queue[i])
<1> DEFINE Enough(n) ==
             \/ n = Len(queue)
             \/ EventCount(SubSeq(queue, 1, n)) >= BatchSize
             \/ ~IsEvents(queue[n + 1])
           S == {n \in 1..Len(queue) : Enough(n)}
<1> HIDE DEF Enough
<1>1. Len(queue) \in 1..Len(queue) /\ Len(queue) \in Nat /\ BatchSize \in Nat
  BY WriterAssumption
<1>2. Len(queue) \in S /\ S \subseteq Nat
  BY <1>1 DEF Enough
<1> DEFINE n == LeastOf(S)
<1>3. n \in S /\ \A k \in S : n <= k
  BY <1>2, LeastExists
<1> HIDE DEF n
<1>4. n \in 1..Len(queue) /\ n \in Nat /\ \A k \in 1..n - 1 : k \in 1..Len(queue) /\ ~Enough(k)
  BY <1>3
<1>5. \A k \in 1..n - 1 : EventCount(SubSeq(queue, 1, k)) < BatchSize /\ IsEvents(queue[k + 1])
  <2> TAKE k \in 1..n - 1
  <2>1. k \in 0..Len(queue) /\ ~Enough(k)
    BY <1>1, <1>4
  <2>2. SubSeq(queue, 1, k) \in Seq(Asked)
    BY <2>1, SubSeqCommands
  <2>3. EventCount(SubSeq(queue, 1, k)) \in Nat
    BY <2>2, EventCountNat, AskedAreCommands
  <2> QED BY <1>1, <2>1, <2>3 DEF Enough
<1>6. \A i \in 1..n : IsEvents(queue[i])
  <2> TAKE i \in 1..n
  <2>1. CASE i = 1
    BY <2>1
  <2>2. CASE i # 1
    <3>1. i - 1 \in 1..n - 1 /\ (i - 1) + 1 = i
      BY <1>4, <2>2
    <3> QED BY <1>5, <3>1
  <2> QED BY <2>1, <2>2
<1> DEFINE Right(m) ==
             /\ \A i \in 1..m : IsEvents(queue[i])
             /\ \A k \in 1..m - 1 : EventCount(SubSeq(queue, 1, k)) < BatchSize
             /\ Enough(m)
<1>7. Right(n)
  BY <1>3, <1>5, <1>6
<1>8. Gathered = CHOOSE m \in 1..Len(queue) : Right(m)
  BY DEF Gathered, Enough
<1> HIDE DEF Right
<1>9. Gathered \in 1..Len(queue) /\ Right(Gathered)
  BY <1>4, <1>7, <1>8
<1> QED BY <1>9 DEF Right

-----------------------------------------------------------------------------
(* The invariant, part by part *)

Types ==
  /\ db \in Archive
  /\ clock \in 1..MaxTime
  /\ recorder \in {"down", "resumed", "bridging", "recording", "putting", "stopping", "joining"}
  /\ memory \in Memory
  /\ next \in Nat \ {0}
  /\ queue \in Seq(Asked) /\ Len(queue) <= QueueSize
  /\ work \in [step : {"idle", "writing", "written", "rejected", "closing", "ended"},
               cmds : Seq(Asked), then : Asked \cup {NoCommand}]
  /\ failure \in BOOLEAN
  /\ refused \subseteq Nat \X Nat

Alive == recorder # "down"
Busy == work.step \in {"writing", "written", "rejected"}
Stopping == recorder \in {"stopping", "joining"}

(* A processor has commands in hand only while it works on them: one command, or a *)
(* batch of events with what ended it.  The stop is the last command there is, and *)
(* a failure leaves nothing in the queue but a stop that was put afterwards.       *)
Control ==
  /\ Busy <=> work.cmds # <<>>
  /\ ~Busy => work.then = NoCommand
  /\ Busy => \/ Len(work.cmds) = 1 /\ work.then = NoCommand
             \/ \A i \in DOMAIN work.cmds : IsEvents(work.cmds[i])
  /\ recorder \in {"down", "resumed"} => queue = <<>> /\ work.step = "idle" /\ ~failure
  /\ failure => work.step \in {"closing", "ended"}
  /\ work.step = "closing" => failure
  /\ recorder = "joining" => failure
  /\ failure /\ recorder # "joining" => queue = <<>>
  /\ work.step = "ended" /\ ~failure => recorder = "stopping" /\ queue = <<>>
  /\ \A i \in DOMAIN queue : queue[i].op = "stop" => i = Len(queue) /\ Stopping
  /\ work.then.op = "stop" => queue = <<>> /\ Stopping
  /\ Busy /\ Head(work.cmds).op = "stop" => queue = <<>> /\ Stopping

(* The commands that wait, one after the other, have the numbers in between. *)
Numbering ==
  Alive =>
    /\ memory.next = Len(db.events) + 1
    /\ memory.last = LastObserved(db)
    /\ ~failure => Numberings(Pending, memory.next, next) # {}

LogOf(d) == {<<d.events[i].session, i>> : i \in DOMAIN d.events}

(* What was answered, or is about to be, is told apart by its session and number. *)
Answers ==
  /\ done \subseteq LogOf(db)
  /\ refused \cap LogOf(db) = {}
  /\ Alive /\ work.step = "written" => Ids(work.cmds) \subseteq LogOf(db)
  /\ \A x \in refused : x[1] <= Len(db.sessions)
  /\ Alive /\ ~failure => \A x \in refused : x[1] < memory.session

SessionsOf(d) ==
  /\ Len(d.sessions) <= MaxSessions
  /\ \A i \in DOMAIN d.events : d.events[i].session <= Len(d.sessions)
  /\ \A c \in d.checkpoints : c.session \in 1..Len(d.sessions)
  /\ \A s \in DOMAIN d.sessions :
       /\ Active(d.sessions[s]) => s = Len(d.sessions) /\ d.sessions[s].end = Forever
       /\ ~Active(d.sessions[s]) => d.sessions[s].end <= MaxTime
       /\ Allowed(d.sessions[s])
       /\ \A t \in SessionTimes(d, s) : d.sessions[s].start <= t /\ t <= d.sessions[s].end
  /\ \A s \in 2..Len(d.sessions) : d.sessions[s - 1].end <= d.sessions[s].start

BridgeGap(d, g, s) ==
  IsGap(g) /\ IsGlobal(g) /\ g.start = d.sessions[s - 1].end /\ g.end = g.at
HasEventsIn(d, s) == \E i \in DOMAIN d.events : d.events[i].session = s
BridgesOf(d) ==
  \A s \in 2..Len(d.sessions), i \in DOMAIN d.events :
    /\ d.events[i].session = s
    /\ \A j \in DOMAIN d.events : d.events[j].session = s => i <= j
    => BridgeGap(d, d.events[i], s)

Newest(d) == d.sessions[Len(d.sessions)]

(* While the recorder lives its session is the newest, and open until its stop or  *)
(* its failure has been written.                                                  *)
Living ==
  Alive =>
    /\ memory.session = Len(db.sessions) /\ memory.session # 0
    /\ work.step # "ended" /\ ~(work.step = "written" /\ Head(work.cmds).op = "stop")
         => Active(Newest(db))
    /\ Newest(db).start <= clock
    /\ \A t \in ObservedTimes(db) : t <= clock
    /\ recorder \in {"resumed", "bridging"} => Len(db.sessions) > 1
    /\ Len(db.sessions) > 1 =>
         /\ memory.resumeFrom = db.sessions[Len(db.sessions) - 1].end
         /\ memory.resumeFrom <= MaxTime
         /\ recorder \notin {"resumed", "bridging"} => HasEventsIn(db, Len(db.sessions))

(* What waits was observed in that session, and a resumed one has nothing to       *)
(* record before the gap it was away for.                                         *)
Fits(c, d, now) ==
  /\ \A j \in DOMAIN c.events : Newest(d).start <= c.events[j].at /\ c.events[j].at <= now
  /\ \A r \in c.rows : Newest(d).start <= r.at /\ r.at <= now
Bridging(c, d) == Len(c.events) = 1 /\ BridgeGap(d, c.events[1], Len(d.sessions))
Waiting ==
  Alive => \A i \in DOMAIN Pending :
             /\ Fits(Pending[i], db, clock)
             /\ Len(db.sessions) > 1 /\ ~HasEventsIn(db, Len(db.sessions))
                  => Bridging(Pending[i], db)

IInv ==
  /\ Types /\ Control /\ Numbering /\ Answers
  /\ SessionsOf(db) /\ BridgesOf(db) /\ Living /\ Waiting

LEMMA WorkTypes ==
  ASSUME Types
  PROVE  /\ work.step \in {"idle", "writing", "written", "rejected", "closing", "ended"}
         /\ work.cmds \in Seq(Asked) /\ work.then \in Asked \cup {NoCommand}
         /\ work = [step |-> work.step, cmds |-> work.cmds, then |-> work.then]
BY DEF Types

LEMMA PendingTypes ==
  ASSUME Types
  PROVE  Pending \in Seq(Asked) /\ Pending \in Seq(Command)
<1>1. queue \in Seq(Asked) /\ work.cmds \in Seq(Asked)
  BY WorkTypes DEF Types
<1>2. work.then.op # "none" => <<work.then>> \in Seq(Asked)
  BY WorkTypes, NoCommandType
<1>3. Pending \in Seq(Asked)
  BY <1>1, <1>2 DEF Pending
<1> QED BY <1>3, AskedAreCommands


-----------------------------------------------------------------------------
(* A caller puts a command in the queue *)

Put(c) ==
  /\ Len(queue) < QueueSize
  /\ queue' = Append(queue, c)
  /\ next' = next + Len(c.events)
  /\ UNCHANGED <<db, clock, memory, work, failure, done, refused>>

(* What makes a command fit to be put, and the recorder that puts it *)
Proper(c, now) ==
  /\ c \in Asked
  /\ c.events # <<>> => c.first = next
  /\ Fits(c, db, now)
  /\ Len(db.sessions) > 1 /\ ~HasEventsIn(db, Len(db.sessions)) => Bridging(c, db)

Puts(c) ==
  \/ recorder = "resumed" /\ recorder' = "bridging" /\ ~failure /\ c.op # "stop"
  \/ recorder = "recording" /\ recorder' = "recording" /\ ~failure /\ c.op # "stop"
  \/ recorder = "putting" /\ recorder' = IF failure THEN "joining" ELSE "stopping"

LEMMA PutKeeps ==
  ASSUME IInv, NEW c, Proper(c, clock), Put(c), Puts(c)
  PROVE  IInv'
<1>1. c \in Asked /\ c \in Command
  BY AskedTypes DEF Proper
<1>2. queue \in Seq(Asked) /\ Pending \in Seq(Asked) /\ Pending \in Seq(Command)
  BY PendingTypes DEF IInv, Types
<1>3. /\ queue' = Append(queue, c) /\ next' = next + Len(c.events) /\ Len(queue) < QueueSize
      /\ db' = db /\ clock' = clock /\ memory' = memory /\ work' = work /\ failure' = failure
      /\ done' = done /\ refused' = refused
  BY DEF Put
<1>4. /\ queue' \in Seq(Asked) /\ Len(queue') = Len(queue) + 1 /\ queue'[Len(queue) + 1] = c
      /\ \A i \in 1..Len(queue) : queue'[i] = queue[i]
  BY <1>1, <1>2, <1>3
<1>5. /\ Alive /\ Alive' /\ ~Stopping
      /\ recorder' \in {"bridging", "recording", "stopping", "joining"}
      /\ recorder' = "joining" <=> failure
      /\ c.op = "stop" => Stopping'
  BY DEF Puts, Alive, Stopping, IInv, Types
<1>6. Types'
  <2>1. next \in Nat /\ Len(c.events) \in Nat /\ QueueSize \in Nat /\ Len(queue) \in Nat
    BY <1>1, <1>2, AskedTypes, WriterAssumption DEF IInv, Types
  <2>2. next' \in Nat \ {0} /\ Len(queue') <= QueueSize
    BY <2>1, <1>3, <1>4 DEF IInv, Types
  <2> QED BY <1>3, <1>4, <1>5, <2>2 DEF IInv, Types
<1>7. Control'
  <2>1. \A i \in DOMAIN queue : queue[i].op # "stop"
    BY <1>5 DEF IInv, Control
  <2>2. work.then.op # "stop" /\ ~(Busy /\ Head(work.cmds).op = "stop")
    BY <1>5 DEF IInv, Control
  <2>3. Busy' = Busy
    BY <1>3 DEF Busy
  <2>4. \A i \in DOMAIN queue' : queue'[i].op = "stop" => i = Len(queue') /\ Stopping'
    <3> TAKE i \in DOMAIN queue'
    <3>1. i \in 1..Len(queue) \/ i = Len(queue) + 1
      BY <1>4, <1>2
    <3> QED BY <1>2, <1>4, <1>5, <2>1, <3>1
  <2>5. ~(work.step = "ended" /\ ~failure)
    BY <1>5 DEF IInv, Control, Stopping
  <2> QED BY <1>3, <1>5, <2>2, <2>3, <2>4, <2>5 DEF IInv, Control
<1>8. Pending' = Append(Pending, c)
  <2>1. queue' = Append(queue, c) /\ work' = work
    BY <1>3
  <2> DEFINE a == (IF work.step \in {"writing", "rejected"} THEN work.cmds ELSE <<>>)
                    \o (IF work.then.op = "none" THEN <<>> ELSE <<work.then>>)
  <2>2. a \in Seq(Asked)
    <3>1. work.cmds \in Seq(Asked) /\ (work.then.op # "none" => <<work.then>> \in Seq(Asked))
      BY WorkTypes, NoCommandType DEF IInv
    <3> QED BY <3>1
  <2>3. Pending = a \o queue /\ Pending' = a \o queue'
    BY <2>1 DEF Pending
  <2> HIDE DEF a
  <2> QED BY <1>1, <1>2, <2>1, <2>2, <2>3, ConcatAppend
<1>9. Numbering'
  <2> SUFFICES ASSUME ~failure
               PROVE  Numberings(Pending', memory.next, next') # {}
    BY <1>3, <1>5 DEF IInv, Numbering
  <2>1. Numberings(Pending, memory.next, next) # {}
    BY <1>5 DEF IInv, Numbering
  <2>2. memory.next \in Nat /\ next \in Nat /\ (c.events # <<>> => c.first = next)
    BY DEF IInv, Types, Memory, Proper
  <2> QED BY <1>1, <1>2, <1>3, <1>8, <2>1, <2>2, NumberAnother
<1>10. Answers'
  BY <1>3, <1>5 DEF IInv, Answers, Ids
<1>11. SessionsOf(db') /\ BridgesOf(db')
  BY <1>3 DEF IInv
<1>12. Living'
  <2>1. work.step # "ended" \/ failure
    BY <1>5 DEF IInv, Control, Stopping
  <2>2. recorder' = "bridging" => recorder \in {"resumed", "bridging"}
    BY DEF Puts
  <2>3. recorder' # "bridging" => recorder \notin {"resumed", "bridging"}
    BY <1>5 DEF Puts
  <2>4. recorder' # "resumed"
    BY <1>5
  <2> QED BY <1>3, <1>5, <2>2, <2>3, <2>4 DEF IInv, Living
<1>13. Waiting'
  <2> SUFFICES ASSUME NEW i \in DOMAIN Pending'
               PROVE  /\ Fits(Pending'[i], db, clock)
                      /\ Len(db.sessions) > 1 /\ ~HasEventsIn(db, Len(db.sessions))
                           => Bridging(Pending'[i], db)
    BY <1>3, <1>5 DEF Waiting
  <2>1. CASE i \in DOMAIN Pending
    <3>1. Pending'[i] = Pending[i]
      BY <1>1, <1>2, <1>8, <2>1
    <3> QED BY <1>5, <2>1, <3>1 DEF IInv, Waiting
  <2>2. CASE i \notin DOMAIN Pending
    <3>1. Pending'[i] = c
      BY <1>1, <1>2, <1>8, <2>2
    <3> QED BY <3>1 DEF Proper
  <2> QED BY <2>1, <2>2
<1> QED BY <1>6, <1>7, <1>9, <1>10, <1>11, <1>12, <1>13 DEF IInv


-----------------------------------------------------------------------------
(* What the callers put *)

LEMMA LivingSession ==
  ASSUME IInv, Alive
  PROVE  /\ memory.session = Len(db.sessions) /\ memory.session \in 1..MaxSessions
         /\ memory.session \in DOMAIN db.sessions
         /\ clock \in 1..MaxTime /\ clock \in Nat /\ Newest(db).start <= clock
         /\ Newest(db) \in Session
<1>1. db \in Archive /\ clock \in 1..MaxTime /\ memory \in Memory
  BY DEF IInv, Types
<1>2. /\ memory.session = Len(db.sessions) /\ memory.session # 0
      /\ Newest(db).start <= clock /\ Len(db.sessions) <= MaxSessions
  BY DEF IInv, Living, SessionsOf
<1>3. Len(db.sessions) \in Nat /\ DOMAIN db.sessions = 1..Len(db.sessions)
  BY <1>1, ArchiveTypes
<1>4. MaxSessions \in Nat /\ MaxTime \in Nat
  BY WriterAssumption
<1>5. memory.session \in 1..MaxSessions /\ memory.session \in DOMAIN db.sessions
  BY <1>2, <1>3, <1>4
<1>6. Newest(db) \in Session
  BY <1>1, <1>2, <1>5, ArchiveTypes DEF Newest
<1> QED BY <1>1, <1>2, <1>4, <1>5, <1>6

LEMMA EventTypes ==
  ASSUME IInv, Alive, NEW kind \in {"metadata", "baseline", "delta", "resolution", "gap"},
         NEW gen \in Generations, NEW m \in Markets, NEW t \in Tokens
  PROVE  Event(kind, gen, m, t) \in Row /\ Event(kind, gen, m, t).at = clock
<1>1. memory.session \in 1..MaxSessions /\ clock \in 1..MaxTime
  BY LivingSession
<1>2. 0 \in 0..MaxTime /\ 0 \in 0..Forever
  BY WriterAssumption, ArchiveAssumption
<1> QED BY <1>1, <1>2 DEF Event, Row, Generations, Markets, Tokens

LEMMA GapTypes ==
  ASSUME IInv, Alive, NEW start \in 0..MaxTime, NEW end \in 0..Forever,
         NEW scope \in SUBSET Market
  PROVE  /\ GapEvent(start, end, scope) \in Row
         /\ GapEvent(start, end, scope).at = clock
         /\ GapEvent(start, end, scope).kind = "gap"
         /\ GapEvent(start, end, scope).start = start
         /\ GapEvent(start, end, scope).end = end
         /\ GapEvent(start, end, scope).scope = scope
<1>1. memory.session \in 1..MaxSessions /\ clock \in 1..MaxTime
  BY LivingSession
<1> QED BY <1>1 DEF GapEvent, Event, Row

Fields == {"op", "first", "events", "gap", "rows", "at", "clean"}
IsRecord(c) == DOMAIN c = Fields /\ c = [f \in Fields |-> c[f]]

LEMMA CommandIs ==
  ASSUME NEW c, IsRecord(c),
         c.op \in {"none", "events", "open", "close", "checkpoint", "stop"},
         c.first \in Nat, c.events \in Seq(Row), c.gap \in Nat,
         c.rows \subseteq CheckpointRow, c.at \in 0..MaxTime, c.clean \in BOOLEAN
  PROVE  c \in Command
BY DEF Command, IsRecord, Fields

LEMMA ZeroTypes ==
  0 \in 0..MaxTime /\ <<>> \in Seq(Row) /\ {} \in SUBSET CheckpointRow /\ 0 \in Nat
BY WriterAssumption

Recorded(op, events) == [NoCommand EXCEPT !.op = op, !.first = next, !.events = events]

LEMMA RecordCommand ==
  ASSUME IInv, Alive, NEW op \in {"events", "open"}, NEW events \in Seq(Row), events # <<>>,
         \A j \in DOMAIN events : events[j].at = clock, NEW c, c = Recorded(op, events)
  PROVE  /\ c \in Asked /\ c.op = op /\ c.events = events /\ c.first = next /\ c.rows = {}
         /\ Fits(c, db, clock)
<1>1. /\ c.op = op /\ c.events = events /\ c.first = next /\ c.rows = {}
  BY DEF NoCommand, Recorded
<1>2. next \in Nat
  BY DEF IInv, Types
<1>3. c \in Command
  <2>1. IsRecord(c) /\ c.gap = 0 /\ c.at = 0 /\ c.clean = FALSE
    BY DEF NoCommand, IsRecord, Fields, Recorded
  <2> QED BY <1>1, <1>2, <2>1, ZeroTypes, CommandIs
<1>4. c \in Asked
  BY <1>1, <1>3 DEF Asked
<1>5. Newest(db).start <= clock /\ clock <= clock
  BY LivingSession
<1> QED BY <1>1, <1>4, <1>5 DEF Fits

LEMMA RecordsKeeps ==
  ASSUME IInv, recorder = "recording", recorder' = recorder,
         NEW op \in {"events", "open"}, NEW events \in Seq(Row), events # <<>>,
         \A j \in DOMAIN events : events[j].at = clock, Records(op, events)
  PROVE  IInv'
<1> DEFINE c == Recorded(op, events)
<1>1. Alive
  BY DEF Alive
<1>0. c = Recorded(op, events) /\ Enqueue(c)
  BY DEF Records, Recorded
<1> HIDE DEF c
<1>2. /\ c \in Asked /\ c.op = op /\ c.events = events /\ c.first = next
      /\ Fits(c, db, clock)
  BY <1>0, <1>1, RecordCommand
<1>3. Put(c)
  BY <1>0, <1>2 DEF Records, CanSubmit, Enqueue, Put, answers
<1>4. ~failure
  BY DEF Records, CanSubmit
<1>5. Len(db.sessions) > 1 => HasEventsIn(db, Len(db.sessions))
  BY <1>1 DEF IInv, Living
<1>6. Proper(c, clock) /\ Puts(c)
  BY <1>2, <1>4, <1>5 DEF Proper, Puts
<1> QED BY <1>3, <1>6, PutKeeps

LEMMA MarketsKnown ==
  ASSUME NEW d \in Archive, NEW kind
  PROVE  MarketsWith(d, kind) \subseteq Markets
BY ArchiveTypes, RowTypes DEF MarketsWith

LEMMA TokensAre ==
  ASSUME NEW m \in Market
  PROVE  TokensOf[m] \subseteq Token /\ TokensOf[m] # {}
BY ArchiveAssumption DEF Token

LEMMA RecordMarketKeeps ==
  ASSUME IInv, RecordMarket
  PROVE  IInv'
<1>1. recorder = "recording" /\ recorder' = recorder /\ Alive
  BY DEF RecordMarket, Recording, Alive
<1>2. ASSUME NEW e \in Row, e.at = clock, Records("events", <<e>>) PROVE IInv'
  <2>1. <<e>> \in Seq(Row) /\ <<e>> # <<>> /\ \A j \in DOMAIN <<e>> : <<e>>[j].at = clock
    BY <1>2
  <2> QED BY <1>1, <1>2, <2>1, RecordsKeeps
<1>3. CASE \E m \in Market \ KnownMarkets(db) :
             Records("events", <<Event("metadata", 0, m, NoToken)>>)
  <2>1. PICK m \in Market : Records("events", <<Event("metadata", 0, m, NoToken)>>)
    BY <1>3
  <2>2. 0 \in Generations /\ m \in Markets /\ NoToken \in Tokens
    BY DEF Generations, Markets, Tokens
  <2>3. Event("metadata", 0, m, NoToken) \in Row /\ Event("metadata", 0, m, NoToken).at = clock
    BY <1>1, <2>2, EventTypes
  <2> QED BY <1>2, <2>1, <2>3
<1>4. CASE \E m \in Market, gen \in Generation, kind \in {"baseline", "delta"} :
             \E t \in TokensOf[m] : Records("events", <<Event(kind, gen, m, t)>>)
  <2>1. PICK m \in Market, gen \in Generation, kind \in {"baseline", "delta"} :
          \E t \in TokensOf[m] : Records("events", <<Event(kind, gen, m, t)>>)
    BY <1>4
  <2>2. PICK t \in TokensOf[m] : Records("events", <<Event(kind, gen, m, t)>>)
    BY <2>1
  <2>3. gen \in Generations /\ m \in Markets /\ t \in Tokens
    BY TokensAre DEF Generations, Markets, Tokens
  <2>4. Event(kind, gen, m, t) \in Row /\ Event(kind, gen, m, t).at = clock
    BY <1>1, <2>3, EventTypes
  <2> QED BY <1>2, <2>2, <2>4
<1> QED BY <1>3, <1>4 DEF RecordMarket

LEMMA RecordResolutionKeeps ==
  ASSUME IInv, RecordResolution
  PROVE  IInv'
<1>1. recorder = "recording" /\ recorder' = recorder /\ Alive /\ db \in Archive
  BY DEF RecordResolution, Recording, Alive, IInv, Types
<1>2. PICK m \in KnownMarkets(db) :
        Records("events", <<Event("metadata", 0, m, NoToken),
                            Event("resolution", 0, m, NoToken)>>)
  BY DEF RecordResolution
<1>3. 0 \in Generations /\ m \in Markets /\ NoToken \in Tokens
  BY <1>1, <1>2, MarketsKnown DEF Generations, Tokens, KnownMarkets
<1> DEFINE e == Event("metadata", 0, m, NoToken)
           f == Event("resolution", 0, m, NoToken)
<1>4. e \in Row /\ e.at = clock /\ f \in Row /\ f.at = clock
  BY <1>1, <1>3, EventTypes
<1> HIDE DEF e, f
<1>5. /\ <<e, f>> \in Seq(Row) /\ <<e, f>> # <<>>
      /\ \A j \in DOMAIN <<e, f>> : <<e, f>>[j].at = clock
  BY <1>4
<1>6. Records("events", <<e, f>>)
  BY <1>2 DEF e, f
<1> QED BY <1>1, <1>5, <1>6, RecordsKeeps

LEMMA OpenGapKeeps ==
  ASSUME IInv, OpenGap
  PROVE  IInv'
<1>1. recorder = "recording" /\ recorder' = recorder /\ Alive
  BY DEF OpenGap, Recording, Alive
<1>2. PICK m \in Market : Records("open", <<GapEvent(clock, Forever, {m})>>)
  BY DEF OpenGap
<1> DEFINE g == GapEvent(clock, Forever, {m})
<1>3. clock \in 0..MaxTime /\ Forever \in 0..Forever
  BY <1>1, LivingSession, ArchiveAssumption
<1>4. g \in Row /\ g.at = clock
  BY <1>1, <1>3, GapTypes
<1> HIDE DEF g
<1>5. <<g>> \in Seq(Row) /\ <<g>> # <<>> /\ \A j \in DOMAIN <<g>> : <<g>>[j].at = clock
  BY <1>4
<1>6. Records("open", <<g>>)
  BY <1>2 DEF g
<1> QED BY <1>1, <1>5, <1>6, RecordsKeeps

LEMMA BridgeKeeps ==
  ASSUME IInv, Bridge
  PROVE  IInv'
<1>1. recorder = "resumed" /\ recorder' = "bridging" /\ Alive
  BY DEF Bridge, Alive
<1> DEFINE g == GapEvent(memory.resumeFrom, clock, {})
           c == Recorded("open", <<g>>)
<1>2. /\ Len(db.sessions) > 1 /\ memory.resumeFrom \in 0..MaxTime
      /\ memory.resumeFrom = db.sessions[Len(db.sessions) - 1].end
  BY <1>1, WriterAssumption DEF IInv, Living, Types, Memory
<1>3. clock \in 0..Forever
  BY <1>1, LivingSession, ArchiveAssumption, WriterAssumption
<1>4. /\ g \in Row /\ g.at = clock /\ g.kind = "gap" /\ g.start = memory.resumeFrom
      /\ g.end = clock /\ g.scope = {}
  BY <1>1, <1>2, <1>3, GapTypes
<1>5. Records("open", <<g>>)
  BY DEF Bridge
<1> HIDE DEF g
<1>6. <<g>> \in Seq(Row) /\ <<g>> # <<>> /\ \A j \in DOMAIN <<g>> : <<g>>[j].at = clock
  BY <1>4
<1>0. c = Recorded("open", <<g>>) /\ Enqueue(c)
  BY <1>5 DEF Records, Recorded
<1> HIDE DEF c
<1>7. c \in Asked /\ c.op = "open" /\ c.events = <<g>> /\ c.first = next /\ Fits(c, db, clock)
  BY <1>0, <1>1, <1>6, RecordCommand
<1>8. Put(c) /\ ~failure
  BY <1>0, <1>5, <1>7 DEF Records, CanSubmit, Enqueue, Put, answers
<1>9. Bridging(c, db)
  BY <1>2, <1>4, <1>7 DEF Bridging, BridgeGap, IsGap, IsGlobal
<1>10. Proper(c, clock) /\ Puts(c)
  BY <1>1, <1>7, <1>8, <1>9 DEF Proper, Puts
<1> QED BY <1>8, <1>10, PutKeeps

(* A command without events *)
LEMMA PlainKeeps ==
  ASSUME IInv, NEW c \in Command, c.events = <<>>, c.op \in {"close", "checkpoint", "stop"},
         c.op = "checkpoint" => c.rows # {}, \A r \in c.rows : r.at = clock,
         recorder \in {"recording", "putting"}, Put(c), Puts(c)
  PROVE  IInv'
<1>1. c \in Asked
  BY DEF Asked
<1>2. Alive /\ Newest(db).start <= clock /\ clock <= clock
  BY LivingSession DEF Alive
<1>3. Len(db.sessions) > 1 => HasEventsIn(db, Len(db.sessions))
  BY <1>2 DEF IInv, Living
<1>4. Proper(c, clock)
  BY <1>1, <1>2, <1>3 DEF Proper, Fits
<1> QED BY <1>4, PutKeeps

LEMMA CloseGapKeeps ==
  ASSUME IInv, CloseGap
  PROVE  IInv'
<1>1. PICK i \in OpenGaps(db) : Enqueue([NoCommand EXCEPT !.op = "close", !.gap = i, !.at = clock])
  BY DEF CloseGap
<1> DEFINE c == [NoCommand EXCEPT !.op = "close", !.gap = i, !.at = clock]
<1>2. i \in Nat
  BY <1>1, ArchiveTypes DEF OpenGaps, CoverageGaps, IInv, Types
<1>3. clock \in 0..MaxTime
  BY DEF IInv, Types
<1>4. c \in Command /\ c.events = <<>> /\ c.op = "close" /\ c.rows = {}
  <2>1. /\ IsRecord(c) /\ c.op = "close" /\ c.first = 0 /\ c.events = <<>>
        /\ c.gap = i /\ c.rows = {} /\ c.at = clock /\ c.clean = FALSE
    BY DEF NoCommand, IsRecord, Fields
  <2> HIDE DEF c
  <2> QED BY <1>2, <1>3, <2>1, ZeroTypes, CommandIs
<1> HIDE DEF c
<1>5. next \in Nat /\ Len(<<>>) = 0
  BY DEF IInv, Types
<1>6. Put(c) /\ Puts(c) /\ recorder = "recording"
  BY <1>1, <1>4, <1>5 DEF CloseGap, CanSubmit, Enqueue, Put, Puts, answers, c
<1> QED BY <1>4, <1>6, PlainKeeps

LEMMA CheckpointKeeps ==
  ASSUME IInv, Checkpoint
  PROVE  IInv'
<1>1. PICK m \in Market, gen \in Generation :
        Enqueue([NoCommand EXCEPT !.op = "checkpoint",
          !.rows = {[seq |-> next - 1, session |-> memory.session, gen |-> gen, at |-> clock,
                     market |-> m, token |-> t] : t \in TokensOf[m]}])
  BY DEF Checkpoint
<1> DEFINE rows == {[seq |-> next - 1, session |-> memory.session, gen |-> gen, at |-> clock,
                     market |-> m, token |-> t] : t \in TokensOf[m]}
           c == [NoCommand EXCEPT !.op = "checkpoint", !.rows = rows]
<1>2. next - 1 \in Nat /\ memory.session \in Nat /\ clock \in 1..MaxTime /\ next \in Nat
  BY DEF IInv, Types, Memory
<1>3. rows # {} /\ (\A r \in rows : r.at = clock) /\ rows \subseteq CheckpointRow
  <2>1. TokensOf[m] # {} /\ TokensOf[m] \subseteq Token
    BY TokensAre
  <2>2. ASSUME NEW t \in TokensOf[m]
        PROVE  [seq |-> next - 1, session |-> memory.session, gen |-> gen, at |-> clock,
                market |-> m, token |-> t] \in CheckpointRow
    <3>1. gen \in Generations /\ t \in Token /\ m \in Market
      BY <2>1 DEF Generations
    <3> QED BY <1>2, <3>1 DEF CheckpointRow
  <2>3. rows \subseteq CheckpointRow
    BY <2>2
  <2>4. \A r \in rows : r.at = clock
    OBVIOUS
  <2>5. PICK t \in TokensOf[m] : TRUE
    BY <2>1
  <2>6. [seq |-> next - 1, session |-> memory.session, gen |-> gen, at |-> clock,
         market |-> m, token |-> t] \in rows
    BY <2>5
  <2> QED BY <2>3, <2>4, <2>6
<1>4. Enqueue(c)
  BY <1>1
<1> HIDE DEF rows
<1>5. c \in Command /\ c.events = <<>> /\ c.op = "checkpoint" /\ c.rows = rows
  <2>1. /\ IsRecord(c) /\ c.op = "checkpoint" /\ c.first = 0 /\ c.events = <<>>
        /\ c.gap = 0 /\ c.rows = rows /\ c.at = 0 /\ c.clean = FALSE
    BY DEF NoCommand, IsRecord, Fields
  <2> HIDE DEF c
  <2> QED BY <1>3, <2>1, ZeroTypes, CommandIs
<1> HIDE DEF c
<1>6. Put(c) /\ Puts(c) /\ recorder = "recording"
  BY <1>2, <1>4, <1>5 DEF Checkpoint, CanSubmit, Enqueue, Put, Puts, answers
<1> QED BY <1>3, <1>5, <1>6, PlainKeeps

LEMMA PutStopKeeps ==
  ASSUME IInv, NEW clean \in BOOLEAN, PutStop(clean)
  PROVE  IInv'
<1> DEFINE c == [NoCommand EXCEPT !.op = "stop", !.clean = clean]
<1>1. Enqueue(c)
  BY DEF PutStop
<1>2. c \in Command /\ c.events = <<>> /\ c.op = "stop" /\ c.rows = {}
  <2>1. /\ IsRecord(c) /\ c.op = "stop" /\ c.first = 0 /\ c.events = <<>>
        /\ c.gap = 0 /\ c.rows = {} /\ c.at = 0 /\ c.clean = clean
    BY DEF NoCommand, IsRecord, Fields
  <2> HIDE DEF c
  <2> QED BY <2>1, ZeroTypes, CommandIs
<1> HIDE DEF c
<1>3. next \in Nat /\ Len(<<>>) = 0
  BY DEF IInv, Types
<1>4. Put(c) /\ Puts(c) /\ recorder = "putting"
  BY <1>1, <1>2, <1>3 DEF PutStop, Enqueue, Put, Puts, answers
<1> QED BY <1>2, <1>4, PlainKeeps


-----------------------------------------------------------------------------
(* Steps that leave the archive alone *)

LEMMA TickKeeps ==
  ASSUME IInv, Tick
  PROVE  IInv'
<1>1. /\ clock' = clock + 1 /\ clock < MaxTime /\ Alive
      /\ db' = db /\ recorder' = recorder /\ memory' = memory /\ next' = next /\ queue' = queue
      /\ work' = work /\ failure' = failure /\ done' = done /\ refused' = refused
  BY DEF Tick, answers, Alive
<1>2. clock \in 1..MaxTime /\ clock \in Nat /\ MaxTime \in Nat /\ db \in Archive
        /\ Newest(db).start \in Nat /\ Newest(db).start <= clock
  BY <1>1, LivingSession, SessionTypes, WriterAssumption DEF IInv, Types
<1>3. Types'
  BY <1>1, <1>2 DEF IInv, Types
<1>4. Control'
  BY <1>1 DEF IInv, Control, Busy, Stopping
<1>5. Pending' = Pending
  BY <1>1 DEF Pending
<1>6. Numbering'
  BY <1>1, <1>5 DEF IInv, Numbering, Alive
<1>7. Answers'
  BY <1>1 DEF IInv, Answers, Ids, Alive
<1>8. SessionsOf(db') /\ BridgesOf(db')
  BY <1>1 DEF IInv
<1>9. Living'
  <2>1. \A t \in ObservedTimes(db) : t \in Nat /\ t <= clock
    BY <1>1, <1>2, TimesTypes DEF IInv, Living
  <2>2. \A t \in ObservedTimes(db) : t <= clock + 1
    BY <1>2, <2>1
  <2>3. Newest(db).start <= clock + 1
    BY <1>2
  <2> QED BY <1>1, <2>2, <2>3 DEF IInv, Living, Alive
<1>10. ASSUME NEW i \in DOMAIN Pending PROVE Fits(Pending[i], db, clock + 1)
  <2>1. Pending[i] \in Asked /\ Fits(Pending[i], db, clock)
    BY <1>1, PendingTypes DEF IInv, Waiting
  <2>2. \A j \in DOMAIN Pending[i].events : Pending[i].events[j].at \in Nat
    BY <2>1, AskedTypes, RowTypes
  <2>3. \A r \in Pending[i].rows : r.at \in Nat
    BY <2>1, AskedTypes, CheckpointTypes
  <2> QED BY <1>2, <2>1, <2>2, <2>3 DEF Fits
<1>11. Waiting'
  BY <1>1, <1>5, <1>10 DEF IInv, Waiting, Alive
<1> QED BY <1>3, <1>4, <1>6, <1>7, <1>8, <1>9, <1>11 DEF IInv

(* Only what the recorder's main task does changes. *)
LEMMA RecorderKeeps ==
  ASSUME IInv, recorder \in {"bridging", "recording"}, recorder' \in {"recording", "putting", "joining"},
         recorder' = "joining" => failure,
         Len(db.sessions) > 1 => HasEventsIn(db, Len(db.sessions)),
         UNCHANGED <<db, clock, memory, next, queue, work, failure, answers>>
  PROVE  IInv'
<1>1. /\ clock' = clock /\ Alive /\ Alive' /\ ~Stopping
      /\ db' = db /\ memory' = memory /\ next' = next /\ queue' = queue
      /\ work' = work /\ failure' = failure /\ done' = done /\ refused' = refused
  BY DEF answers, Alive, Stopping
<1>2. Types'
  BY <1>1 DEF IInv, Types
<1>3. Control'
  <2>1. \A i \in DOMAIN queue : queue[i].op # "stop"
    BY <1>1 DEF IInv, Control
  <2>2. work.then.op # "stop" /\ ~(Busy /\ Head(work.cmds).op = "stop")
    BY <1>1 DEF IInv, Control
  <2>3. Busy' = Busy
    BY <1>1 DEF Busy
  <2>4. (failure => queue = <<>>) /\ ~(work.step = "ended" /\ ~failure)
    BY DEF IInv, Control
  <2>5. recorder' \notin {"down", "resumed"}
    OBVIOUS
  <2>6. /\ Busy <=> work.cmds # <<>>
        /\ ~Busy => work.then = NoCommand
        /\ Busy => \/ Len(work.cmds) = 1 /\ work.then = NoCommand
                   \/ \A i \in DOMAIN work.cmds : IsEvents(work.cmds[i])
        /\ failure => work.step \in {"closing", "ended"}
        /\ work.step = "closing" => failure
    BY DEF IInv, Control
  <2> QED BY <1>1, <2>1, <2>2, <2>3, <2>4, <2>5, <2>6 DEF Control
<1>5. Pending' = Pending
  BY <1>1 DEF Pending
<1>6. Numbering'
  BY <1>1, <1>5 DEF IInv, Numbering
<1>7. Answers'
  BY <1>1 DEF IInv, Answers, Ids
<1>8. SessionsOf(db') /\ BridgesOf(db')
  BY <1>1 DEF IInv
<1>9. Living'
  BY <1>1 DEF IInv, Living
<1>10. Waiting'
  BY <1>1, <1>5 DEF IInv, Waiting
<1> QED BY <1>2, <1>3, <1>6, <1>7, <1>8, <1>9, <1>10 DEF IInv

LEMMA BridgedKeeps ==
  ASSUME IInv, Bridged
  PROVE  IInv'
<1>1. Alive /\ <<memory.session, memory.next - 1>> \in LogOf(db)
  BY DEF Bridged, IInv, Answers, Alive
<1>2. PICK i \in DOMAIN db.events : <<memory.session, memory.next - 1>> = <<db.events[i].session, i>>
  BY <1>1 DEF LogOf
<1>3. HasEventsIn(db, Len(db.sessions))
  BY <1>1, <1>2, LivingSession DEF HasEventsIn
<1> QED BY <1>3, RecorderKeeps DEF Bridged

LEMMA StopKeeps ==
  ASSUME IInv, Stop
  PROVE  IInv'
<1>1. Len(db.sessions) > 1 => HasEventsIn(db, Len(db.sessions))
  BY DEF Stop, IInv, Living, Alive
<1> QED BY <1>1, RecorderKeeps DEF Stop

LEMMA ExitsKeeps ==
  ASSUME IInv, Exits
  PROVE  IInv'
<1>1. /\ recorder' = "down" /\ memory' = Forgotten /\ next' = 1 /\ queue' = <<>> /\ work' = Idle
      /\ failure' = FALSE /\ db' = db /\ clock' = clock /\ done' = done /\ refused' = refused
  BY DEF Exits, answers
<1>2. Forgotten \in Memory
  BY DEF Forgotten, Memory
<1>3. /\ Idle.step = "idle" /\ Idle.cmds = <<>> /\ Idle.then = NoCommand
      /\ Idle \in [step : {"idle", "writing", "written", "rejected", "closing", "ended"},
                   cmds : Seq(Asked), then : Asked \cup {NoCommand}]
  BY DEF Idle
<1>4. <<>> \in Seq(Asked) /\ Len(<<>>) <= QueueSize
  BY WriterAssumption
<1>5. Types'
  <2>4. memory' \in Memory
    BY <1>1, <1>2
  <2>5. next' \in Nat \ {0}
    BY <1>1
  <2>1. failure' \in BOOLEAN
    BY <1>1
  <2>2. queue' \in Seq(Asked) /\ Len(queue') <= QueueSize
    BY <1>1, <1>4
  <2>3. work' \in [step : {"idle", "writing", "written", "rejected", "closing", "ended"},
                   cmds : Seq(Asked), then : Asked \cup {NoCommand}]
    BY <1>1, <1>3
  <2> QED BY <1>1, <2>1, <2>2, <2>3, <2>4, <2>5 DEF IInv, Types
<1>6. Control'
  BY <1>1, <1>3, NoCommandType DEF Control, Busy, Stopping
<1>7. Numbering' /\ Living' /\ Waiting'
  BY <1>1 DEF Numbering, Living, Waiting, Alive
<1>8. Answers'
  BY <1>1 DEF IInv, Answers, Alive
<1>9. SessionsOf(db') /\ BridgesOf(db')
  BY <1>1 DEF IInv
<1> QED BY <1>5, <1>6, <1>7, <1>8, <1>9 DEF IInv


-----------------------------------------------------------------------------
(* The processor takes commands, and answers *)

LEMMA SplitAt ==
  ASSUME NEW S, NEW q \in Seq(S), NEW n \in 1..Len(q)
  PROVE  /\ SubSeq(q, n + 1, Len(q)) \in Seq(S)
         /\ SubSeq(q, 1, n) \o SubSeq(q, n + 1, Len(q)) = q
<1>1. /\ SubSeq(q, 1, n) \in Seq(S) /\ Len(SubSeq(q, 1, n)) = n
      /\ \A i \in 1..n : SubSeq(q, 1, n)[i] = q[i]
  BY SubSeqCommands
<1>2. /\ SubSeq(q, n + 1, Len(q)) \in Seq(S) /\ Len(SubSeq(q, n + 1, Len(q))) = Len(q) - n
      /\ \A i \in 1..Len(q) - n : SubSeq(q, n + 1, Len(q))[i] = q[n + i]
  OBVIOUS
<1> DEFINE a == SubSeq(q, 1, n)
           b == SubSeq(q, n + 1, Len(q))
<1> HIDE DEF a, b
<1>3. a \o b \in Seq(S) /\ Len(a \o b) = Len(q)
  BY <1>1, <1>2 DEF a, b
<1>4. ASSUME NEW i \in 1..Len(q) PROVE (a \o b)[i] = q[i]
  <2>1. CASE i <= n
    BY <1>1, <1>2, <2>1 DEF a, b
  <2>2. CASE i > n
    <3>1. i - n \in 1..Len(q) - n /\ n + (i - n) = i
      BY <2>2
    <3>2. (a \o b)[i] = b[i - n]
      BY <1>1, <1>2, <2>2 DEF a, b
    <3>3. b[i - n] = q[n + (i - n)]
      BY <1>2, <3>1 DEF b
    <3>4. q[n + (i - n)] = q[i]
      BY <3>1
    <3> QED BY <3>2, <3>3, <3>4
  <2>3. i <= n \/ i > n
    OBVIOUS
  <2> QED BY <2>1, <2>2, <2>3, Zenon
<1>5. a \o b = q
  BY <1>3, <1>4, SameSequence
<1> QED BY <1>2, <1>5 DEF a, b

LEMMA SplitAround ==
  ASSUME NEW S, NEW q \in Seq(S), NEW n \in 1..Len(q), n < Len(q)
  PROVE  /\ SubSeq(q, n + 2, Len(q)) \in Seq(S)
         /\ (SubSeq(q, 1, n) \o <<q[n + 1]>>) \o SubSeq(q, n + 2, Len(q)) = q
<1>1. n + 1 \in 1..Len(q) /\ (n + 1) + 1 = n + 2 /\ q[n + 1] \in S
  OBVIOUS
<1>2. /\ SubSeq(q, n + 2, Len(q)) \in Seq(S)
      /\ SubSeq(q, 1, n + 1) \o SubSeq(q, n + 2, Len(q)) = q
  BY <1>1, SplitAt
<1>3. SubSeq(q, 1, n + 1) = SubSeq(q, 1, n) \o <<q[n + 1]>>
  <2>1. /\ SubSeq(q, 1, n) \in Seq(S) /\ Len(SubSeq(q, 1, n)) = n
        /\ \A i \in 1..n : SubSeq(q, 1, n)[i] = q[i]
    BY SubSeqCommands
  <2>2. /\ SubSeq(q, 1, n + 1) \in Seq(S) /\ Len(SubSeq(q, 1, n + 1)) = n + 1
        /\ \A i \in 1..n + 1 : SubSeq(q, 1, n + 1)[i] = q[i]
    BY <1>1, SubSeqCommands
  <2> DEFINE a == SubSeq(q, 1, n)
             c == SubSeq(q, 1, n + 1)
  <2> HIDE DEF a, c
  <2>3. a \o <<q[n + 1]>> \in Seq(S) /\ Len(a \o <<q[n + 1]>>) = n + 1
    BY <1>1, <2>1 DEF a
  <2>4. ASSUME NEW i \in 1..n + 1 PROVE (a \o <<q[n + 1]>>)[i] = q[i]
    <3>1. CASE i = n + 1
      BY <1>1, <2>1, <3>1 DEF a
    <3>2. CASE i # n + 1
      BY <1>1, <2>1, <3>2 DEF a
    <3> QED BY <3>1, <3>2
  <2>5. c = a \o <<q[n + 1]>>
    BY <2>2, <2>3, <2>4, SameSequence DEF c
  <2> QED BY <2>5 DEF a, c
<1> QED BY <1>2, <1>3

ThenOf(w) == IF w.then.op = "none" THEN <<>> ELSE <<w.then>>

LEMMA TakeSays ==
  ASSUME Types, Take
  PROVE  /\ work'.step = "writing" /\ work'.cmds \in Seq(Asked) /\ work'.cmds # <<>>
         /\ work'.then \in Asked \cup {NoCommand}
         /\ work' = [step |-> "writing", cmds |-> work'.cmds, then |-> work'.then]
         /\ queue' \in Seq(Asked)
         /\ (work'.cmds \o ThenOf(work')) \o queue' = queue
         /\ \/ Len(work'.cmds) = 1 /\ work'.then = NoCommand
            \/ \A i \in DOMAIN work'.cmds : IsEvents(work'.cmds[i])
<1>1. queue \in Seq(Asked) /\ queue # <<>>
  BY DEF Types, Take
<1>2. CASE ~IsEvents(Head(queue))
  <2>1. work' = [step |-> "writing", cmds |-> <<Head(queue)>>, then |-> NoCommand]
          /\ queue' = Tail(queue)
    BY <1>2 DEF Take
  <2>2. ThenOf(work') = <<>>
    BY <2>1, NoCommandType DEF ThenOf
  <2>3. Head(queue) \in Asked /\ Tail(queue) \in Seq(Asked)
    BY <1>1
  <2>4. (<<Head(queue)>> \o <<>>) \o Tail(queue) = queue
    BY <1>1
  <2>5. /\ work'.step = "writing" /\ work'.cmds = <<Head(queue)>> /\ work'.then = NoCommand
        /\ work' = [step |-> "writing", cmds |-> work'.cmds, then |-> work'.then]
    BY <2>1
  <2>6. <<Head(queue)>> \in Seq(Asked) /\ Len(<<Head(queue)>>) = 1 /\ <<Head(queue)>> # <<>>
    BY <2>3
  <2> QED BY <2>1, <2>2, <2>3, <2>4, <2>5, <2>6
<1>3. CASE IsEvents(Head(queue))
  <2> DEFINE n == Gathered
             takesNext == n < Len(queue) /\ EventCount(SubSeq(queue, 1, n)) < BatchSize
  <2>1. n \in 1..Len(queue) /\ \A i \in 1..n : IsEvents(queue[i])
    BY <1>1, <1>3, GatheredSays
  <2>2. /\ work' = [step |-> "writing", cmds |-> SubSeq(queue, 1, n),
                    then |-> IF takesNext THEN queue[n + 1] ELSE NoCommand]
        /\ queue' = SubSeq(queue, IF takesNext THEN n + 2 ELSE n + 1, Len(queue))
    BY <1>3 DEF Take
  <2> HIDE DEF n, takesNext
  <2>3. n \in 0..Len(queue) /\ n \in Nat /\ Len(queue) \in Nat
    BY <1>1, <2>1
  <2>4. /\ SubSeq(queue, 1, n) \in Seq(Asked) /\ Len(SubSeq(queue, 1, n)) = n
        /\ \A i \in 1..n : SubSeq(queue, 1, n)[i] = queue[i]
    BY <1>1, <2>3, SubSeqCommands
  <2> DEFINE a == SubSeq(queue, 1, n)
  <2> HIDE DEF a
  <2>5. a \in Seq(Asked) /\ a # <<>> /\ \A i \in DOMAIN a : IsEvents(a[i])
    <3>1. a \in Seq(Asked) /\ Len(a) = n /\ n >= 1
      BY <2>1, <2>4 DEF a
    <3>2. DOMAIN a = 1..n
      BY <3>1
    <3> QED BY <2>1, <2>4, <3>1, <3>2 DEF a
  <2>6. CASE takesNext
    <3>1. work' = [step |-> "writing", cmds |-> a, then |-> queue[n + 1]]
            /\ queue' = SubSeq(queue, n + 2, Len(queue))
      BY <2>2, <2>6 DEF a
    <3>2. n < Len(queue)
      BY <2>6 DEF takesNext
    <3>3. queue[n + 1] \in Asked /\ queue[n + 1].op # "none"
      <4>1. n + 1 \in 1..Len(queue)
        BY <2>1, <2>3, <3>2
      <4>2. queue[n + 1] \in Asked
        BY <1>1, <4>1
      <4> QED BY <4>2, AskedTypes
    <3>4. ThenOf(work') = <<queue[n + 1]>>
      BY <3>1, <3>3 DEF ThenOf
    <3>5. queue' \in Seq(Asked) /\ (a \o <<queue[n + 1]>>) \o queue' = queue
      BY <1>1, <2>1, <3>1, <3>2, SplitAround DEF a
    <3> QED BY <2>5, <3>1, <3>3, <3>4, <3>5
  <2>7. CASE ~takesNext
    <3>1. work' = [step |-> "writing", cmds |-> a, then |-> NoCommand]
            /\ queue' = SubSeq(queue, n + 1, Len(queue))
      BY <2>2, <2>7 DEF a
    <3>2. ThenOf(work') = <<>>
      BY <3>1, NoCommandType DEF ThenOf
    <3>3. queue' \in Seq(Asked) /\ a \o queue' = queue
      BY <1>1, <2>1, <3>1, SplitAt DEF a
    <3>4. a \o <<>> = a
      BY <2>5
    <3> QED BY <2>5, <3>1, <3>2, <3>3, <3>4
  <2> QED BY <2>6, <2>7
<1> QED BY <1>2, <1>3


LEMMA SuffixOf ==
  ASSUME NEW S, NEW a \in Seq(S), NEW b \in Seq(S), NEW i \in DOMAIN b
  PROVE  /\ Len(a) + i \in DOMAIN (a \o b) /\ (a \o b)[Len(a) + i] = b[i]
         /\ Len(a) + i = Len(a \o b) => i = Len(b)
OBVIOUS

LEMMA PrefixOf ==
  ASSUME NEW S, NEW a \in Seq(S), NEW b \in Seq(S), NEW i \in DOMAIN a
  PROVE  /\ i \in DOMAIN (a \o b) /\ (a \o b)[i] = a[i]
         /\ i = Len(a \o b) => i = Len(a) /\ b = <<>>
OBVIOUS

LEMMA ElementOf ==
  ASSUME NEW S, NEW a \in Seq(S), NEW b \in Seq(S), NEW i \in DOMAIN (a \o b)
  PROVE  \/ \E j \in DOMAIN a : (a \o b)[i] = a[j]
         \/ \E j \in DOMAIN b : (a \o b)[i] = b[j]
<1>1. /\ i \in 1..Len(a) + Len(b) /\ Len(a) \in Nat /\ Len(b) \in Nat
      /\ DOMAIN a = 1..Len(a) /\ DOMAIN b = 1..Len(b)
  OBVIOUS
<1>2. CASE i <= Len(a)
  <2>1. i \in DOMAIN a /\ (a \o b)[i] = a[i]
    BY <1>1, <1>2
  <2> QED BY <2>1
<1>3. CASE i > Len(a)
  <2>1. i - Len(a) \in DOMAIN b /\ (a \o b)[i] = b[i - Len(a)]
    BY <1>1, <1>3
  <2> QED BY <2>1
<1>4. i <= Len(a) \/ i > Len(a)
  BY <1>1
<1> QED BY <1>2, <1>3, <1>4, Zenon

LEMMA ThenTypes ==
  ASSUME NEW w, w.then \in Asked \cup {NoCommand}
  PROVE  /\ ThenOf(w) \in Seq(Asked)
         /\ w.then = NoCommand => ThenOf(w) = <<>>
         /\ w.then # NoCommand => ThenOf(w) = <<w.then>>
BY NoCommandType, AskedTypes DEF ThenOf

LEMMA PendingIs ==
  Pending = ((IF work.step \in {"writing", "rejected"} THEN work.cmds ELSE <<>>)
               \o ThenOf(work)) \o queue
BY DEF Pending, ThenOf

LEMMA TakeKeeps ==
  ASSUME IInv, Take
  PROVE  IInv'
<1>1. /\ db' = db /\ clock' = clock /\ recorder' = recorder /\ memory' = memory /\ next' = next
      /\ failure' = failure /\ done' = done /\ refused' = refused
      /\ work.step = "idle" /\ queue # <<>>
  BY DEF Take, answers
<1>2. Types /\ queue \in Seq(Asked)
  BY DEF IInv, Types
<1> DEFINE cmds == work'.cmds
           then == ThenOf(work')
<1>3. /\ work'.step = "writing" /\ cmds \in Seq(Asked) /\ cmds # <<>>
      /\ work'.then \in Asked \cup {NoCommand} /\ queue' \in Seq(Asked)
      /\ work' = [step |-> "writing", cmds |-> work'.cmds, then |-> work'.then]
      /\ (cmds \o then) \o queue' = queue
      /\ \/ Len(cmds) = 1 /\ work'.then = NoCommand
         \/ \A i \in DOMAIN cmds : IsEvents(cmds[i])
  BY <1>2, TakeSays
<1>4. /\ then \in Seq(Asked) /\ (work'.then = NoCommand => then = <<>>)
      /\ work'.then # NoCommand => then = <<work'.then>>
  BY <1>3, ThenTypes
<1> HIDE DEF cmds, then
<1>5. /\ cmds \o then \in Seq(Asked) /\ Len(cmds) \in Nat /\ Len(cmds) > 0
      /\ Len(queue') <= Len(queue)
  BY <1>2, <1>3, <1>4
<1>6. Types'
  <2>1. work' \in [step : {"idle", "writing", "written", "rejected", "closing", "ended"},
                   cmds : Seq(Asked), then : Asked \cup {NoCommand}]
    <3>1. work'.cmds \in Seq(Asked)
      BY <1>3 DEF cmds
    <3> QED BY <1>3, <3>1
  <2>2. Len(queue') <= QueueSize
    BY <1>2, <1>3, <1>5, WriterAssumption DEF Types
  <2> QED BY <1>1, <1>2, <1>3, <2>1, <2>2 DEF Types
<1>7. recorder \notin {"down", "resumed"} /\ ~failure /\ ~Busy /\ work.then = NoCommand /\ Busy'
  BY <1>1, <1>3 DEF IInv, Control, Busy
<1>8. \A i \in DOMAIN queue : queue[i].op = "stop" => i = Len(queue) /\ Stopping
  BY DEF IInv, Control
<1>9. Control'
  <2>1. \A i \in DOMAIN queue' : queue'[i].op = "stop" => i = Len(queue') /\ Stopping
    <3> TAKE i \in DOMAIN queue'
    <3>1. /\ Len(cmds \o then) + i \in DOMAIN queue /\ queue[Len(cmds \o then) + i] = queue'[i]
          /\ Len(cmds \o then) + i = Len(queue) => i = Len(queue')
      BY <1>3, <1>5, SuffixOf
    <3> QED BY <1>8, <3>1
  <2>2. work'.then.op = "stop" => queue' = <<>> /\ Stopping
    <3> SUFFICES ASSUME work'.then.op = "stop" PROVE queue' = <<>> /\ Stopping
      OBVIOUS
    <3>1. then = <<work'.then>>
      BY <1>4, NoCommandType
    <3> DEFINE k == Len(cmds) + 1
    <3>2. 1 \in DOMAIN then /\ then[1] = work'.then
      BY <3>1
    <3>3. k \in DOMAIN (cmds \o then) /\ (cmds \o then)[k] = work'.then
      BY <1>3, <1>4, <3>2, SuffixOf
    <3> HIDE DEF k
    <3>4. /\ k \in DOMAIN queue /\ queue[k] = work'.then
          /\ k = Len(queue) => queue' = <<>>
      BY <1>3, <1>5, <3>3, PrefixOf
    <3> QED BY <1>8, <3>4
  <2>3. Head(cmds).op = "stop" => queue' = <<>> /\ Stopping
    <3> SUFFICES ASSUME Head(cmds).op = "stop" PROVE queue' = <<>> /\ Stopping
      OBVIOUS
    <3>1. 1 \in DOMAIN cmds /\ Head(cmds) = cmds[1]
      BY <1>3
    <3>2. 1 \in DOMAIN (cmds \o then) /\ (cmds \o then)[1] = cmds[1]
      BY <1>3, <1>4, <3>1, PrefixOf
    <3>3. /\ 1 \in DOMAIN queue /\ queue[1] = cmds[1]
          /\ 1 = Len(queue) => queue' = <<>>
      BY <1>3, <1>5, <3>2, PrefixOf
    <3> QED BY <1>8, <3>1, <3>3
  <2>4. Stopping' = Stopping
    BY <1>1 DEF Stopping
  <2>5. work'.cmds # <<>> /\ (Head(work'.cmds).op = "stop" => queue' = <<>> /\ Stopping)
    BY <1>3, <2>3 DEF cmds
  <2>6. \/ Len(work'.cmds) = 1 /\ work'.then = NoCommand
        \/ \A i \in DOMAIN work'.cmds : IsEvents(work'.cmds[i])
    BY <1>3 DEF cmds
  <2>7. recorder # "joining"
    BY <1>7 DEF IInv, Control
  <2> QED BY <1>1, <1>3, <1>7, <2>1, <2>2, <2>4, <2>5, <2>6, <2>7 DEF Control
<1>10. Pending' = Pending
  <2>1. ThenOf(work) = <<>>
    BY <1>7, NoCommandType DEF ThenOf
  <2>2. Pending = (<<>> \o <<>>) \o queue
    BY <1>1, <2>1, PendingIs
  <2>3. (<<>> \o <<>>) \o queue = queue
    BY <1>2
  <2>4. Pending' = (work'.cmds \o ThenOf(work')) \o queue'
    BY <1>3 DEF Pending, ThenOf
  <2> QED BY <1>3, <2>2, <2>3, <2>4 DEF cmds, then
<1>11. Numbering'
  BY <1>1, <1>10 DEF IInv, Numbering, Alive
<1>12. Answers'
  BY <1>1, <1>3 DEF IInv, Answers, Alive
<1>13. SessionsOf(db') /\ BridgesOf(db')
  BY <1>1 DEF IInv
<1>14. Living'
  BY <1>1, <1>3 DEF IInv, Living, Alive
<1>15. Waiting'
  BY <1>1, <1>10 DEF IInv, Waiting, Alive
<1> QED BY <1>6, <1>9, <1>11, <1>12, <1>13, <1>14, <1>15 DEF IInv


LEMMA BusyMeans ==
  ASSUME IInv, Busy
  PROVE  /\ Alive /\ recorder \notin {"down", "resumed"} /\ ~failure /\ recorder # "joining"
         /\ work.cmds # <<>> /\ Head(work.cmds) \in Asked /\ work.cmds \in Seq(Asked)
         /\ Head(work.cmds) = work.cmds[1] /\ 1 \in DOMAIN work.cmds
         /\ Head(work.cmds).op # "events"
              => Len(work.cmds) = 1 /\ work.cmds = <<Head(work.cmds)>> /\ work.then = NoCommand
         /\ Head(work.cmds).op = "events" => \A i \in DOMAIN work.cmds : IsEvents(work.cmds[i])
<1>1. Types /\ Control
  BY DEF IInv
<1>2. /\ recorder \notin {"down", "resumed"} /\ ~failure /\ recorder # "joining"
      /\ work.cmds # <<>>
      /\ \/ Len(work.cmds) = 1 /\ work.then = NoCommand
         \/ \A i \in DOMAIN work.cmds : IsEvents(work.cmds[i])
  BY <1>1 DEF Control, Busy
<1>3. work.cmds \in Seq(Asked)
  BY <1>1, WorkTypes
<1>4. Head(work.cmds) \in Asked /\ Head(work.cmds) = work.cmds[1] /\ 1 \in DOMAIN work.cmds
  BY <1>2, <1>3
<1>5. Len(work.cmds) = 1 => /\ work.cmds = <<Head(work.cmds)>>
                            /\ \A i \in DOMAIN work.cmds : work.cmds[i] = Head(work.cmds)
  BY <1>2, <1>3
<1>6. (\A i \in DOMAIN work.cmds : IsEvents(work.cmds[i])) => Head(work.cmds).op = "events"
  BY <1>4 DEF IsEvents
<1>7. Head(work.cmds).op = "events" /\ Len(work.cmds) = 1
        => \A i \in DOMAIN work.cmds : IsEvents(work.cmds[i])
  BY <1>5 DEF IsEvents
<1> QED BY <1>2, <1>3, <1>4, <1>5, <1>6, <1>7 DEF Alive

LEMMA WriteFailsKeeps ==
  ASSUME IInv, WriteFails
  PROVE  IInv'
<1>1. /\ db' = db /\ clock' = clock /\ recorder' = recorder /\ memory' = memory /\ next' = next
      /\ queue' = queue /\ failure' = failure /\ done' = done /\ refused' = refused
      /\ work.step = "writing" /\ work' = [work EXCEPT !.step = "rejected"]
  BY DEF WriteFails, answers
<1>2. Types
  BY DEF IInv
<1>3. /\ work'.step = "rejected" /\ work'.cmds = work.cmds /\ work'.then = work.then
      /\ work' \in [step : {"idle", "writing", "written", "rejected", "closing", "ended"},
                    cmds : Seq(Asked), then : Asked \cup {NoCommand}]
  BY <1>1, <1>2 DEF Types
<1>4. Types'
  BY <1>1, <1>2, <1>3 DEF Types
<1>5. Busy /\ Busy' /\ Stopping' = Stopping /\ Alive' = Alive
  BY <1>1, <1>3 DEF Busy, Stopping, Alive
<1>6. Control'
  BY <1>1, <1>3, <1>5 DEF IInv, Control
<1>7. Pending' = Pending
  BY <1>1, <1>3 DEF Pending
<1>8. Numbering'
  BY <1>1, <1>5, <1>7 DEF IInv, Numbering
<1>9. Answers'
  BY <1>1, <1>3, <1>5 DEF IInv, Answers
<1>10. SessionsOf(db') /\ BridgesOf(db')
  BY <1>1 DEF IInv
<1>11. Living'
  BY <1>1, <1>3, <1>5 DEF IInv, Living
<1>12. Waiting'
  BY <1>1, <1>5, <1>7 DEF IInv, Waiting
<1> QED BY <1>4, <1>6, <1>8, <1>9, <1>10, <1>11, <1>12 DEF IInv

LEMMA AnswerKeeps ==
  ASSUME IInv, Answer
  PROVE  IInv'
<1>1. /\ db' = db /\ clock' = clock /\ recorder' = recorder /\ memory' = memory /\ next' = next
      /\ queue' = queue /\ failure' = failure /\ refused' = refused
      /\ work.step = "written" /\ done' = done \cup Ids(work.cmds)
  BY DEF Answer
<1>2. Types /\ queue \in Seq(Asked)
  BY DEF IInv, Types
<1>3. Busy /\ Stopping' = Stopping /\ Alive' = Alive /\ Alive
  BY <1>1, BusyMeans DEF Busy, Stopping, Alive
<1>4. /\ ~failure /\ recorder \notin {"down", "resumed", "joining"}
      /\ Head(work.cmds).op # "events" => work.then = NoCommand
      /\ work.then \in Asked \cup {NoCommand} /\ NoCommand.op = "none"
  BY <1>2, <1>3, BusyMeans, WorkTypes, NoCommandType
<1>5. Pending = (<<>> \o ThenOf(work)) \o queue
  BY <1>1, PendingIs
<1>6. /\ \A i \in DOMAIN queue : queue[i].op = "stop" => i = Len(queue) /\ Stopping
      /\ work.then.op = "stop" => queue = <<>> /\ Stopping
      /\ Head(work.cmds).op = "stop" => queue = <<>> /\ Stopping
  BY <1>3 DEF IInv, Control
<1>7. /\ work'.step \in {"idle", "writing", "ended"} /\ work'.then = NoCommand
      /\ work'.cmds \in Seq(Asked)
      /\ work' = [step |-> work'.step, cmds |-> work'.cmds, then |-> NoCommand]
      /\ work'.step = "writing" => /\ work.then # NoCommand /\ work'.cmds = <<work.then>>
                                   /\ Head(work.cmds).op # "stop"
      /\ work'.step # "writing" => work.then = NoCommand /\ work'.cmds = <<>>
      /\ work'.step = "ended" <=> Head(work.cmds).op = "stop"
  <2>1. CASE Head(work.cmds).op = "stop"
    <3>1. work.then = NoCommand /\ work.then.op = "none"
      BY <1>4, <2>1
    <3>2. work' = [Idle EXCEPT !.step = "ended"]
      BY <2>1, <3>1 DEF Answer
    <3> QED BY <2>1, <3>1, <3>2 DEF Idle
  <2>2. CASE Head(work.cmds).op # "stop" /\ work.then.op # "none"
    <3>1. work' = [step |-> "writing", cmds |-> <<work.then>>, then |-> NoCommand]
      BY <2>2 DEF Answer
    <3>2. work.then # NoCommand /\ <<work.then>> \in Seq(Asked)
      BY <1>4, <2>2
    <3> QED BY <2>2, <3>1, <3>2
  <2>3. CASE Head(work.cmds).op # "stop" /\ work.then.op = "none"
    <3>1. work' = Idle
      BY <2>3 DEF Answer
    <3>2. work.then = NoCommand
      BY <1>4, <2>3, AskedTypes
    <3> QED BY <2>3, <3>1, <3>2 DEF Idle
  <2> QED BY <2>1, <2>2, <2>3
<1>8. Types'
  <2>1. work' \in [step : {"idle", "writing", "written", "rejected", "closing", "ended"},
                   cmds : Seq(Asked), then : Asked \cup {NoCommand}]
    BY <1>7
  <2> QED BY <1>1, <1>2, <2>1 DEF Types
<1>9. Control'
  <2>1. Busy' <=> work'.step = "writing"
    BY <1>7 DEF Busy
  <2>2. work'.step = "writing" =>
          work'.cmds # <<>> /\ Len(work'.cmds) = 1 /\ Head(work'.cmds) = work.then
    <3>1. work'.step = "writing" => work'.cmds = <<work.then>>
      BY <1>7
    <3>2. <<work.then>> # <<>> /\ Len(<<work.then>>) = 1 /\ Head(<<work.then>>) = work.then
      OBVIOUS
    <3> QED BY <3>1, <3>2, Zenon
  <2>3. work'.step = "ended" => recorder = "stopping" /\ queue = <<>>
    BY <1>4, <1>6, <1>7 DEF Stopping
  <2>4. work'.then.op # "stop"
    BY <1>4, <1>7
  <2> QED BY <1>1, <1>3, <1>4, <1>6, <1>7, <2>1, <2>2, <2>3, <2>4 DEF Control
<1>10. Pending' = Pending
  <2>1. ThenOf(work') = <<>>
    BY <1>4, <1>7 DEF ThenOf
  <2>2. CASE work'.step = "writing"
    <3>1. ThenOf(work) = <<work.then>> /\ ThenOf(work) \in Seq(Asked)
      BY <1>4, <1>7, <2>2, ThenTypes
    <3>2. Pending' = (ThenOf(work) \o <<>>) \o queue
      BY <1>1, <1>7, <2>1, <2>2, <3>1 DEF Pending, ThenOf
    <3> QED BY <1>5, <3>1, <3>2
  <2>3. CASE work'.step # "writing"
    <3>1. ThenOf(work) = <<>>
      BY <1>4, <1>7, <2>3 DEF ThenOf
    <3>2. work'.step \notin {"writing", "rejected"}
      BY <1>7, <2>3
    <3>3. Pending' = (<<>> \o <<>>) \o queue
      BY <1>1, <2>1, <3>2 DEF Pending, ThenOf
    <3> QED BY <1>5, <3>1, <3>3
  <2> QED BY <2>2, <2>3
<1>11. Numbering'
  BY <1>1, <1>3, <1>10 DEF IInv, Numbering
<1>12. Answers'
  <2>1. Ids(work.cmds) \subseteq LogOf(db)
    BY <1>1, <1>3 DEF IInv, Answers
  <2>2. work'.step # "written"
    BY <1>7
  <2> QED BY <1>1, <1>3, <2>1, <2>2 DEF IInv, Answers
<1>13. SessionsOf(db') /\ BridgesOf(db')
  BY <1>1 DEF IInv
<1>14. Living'
  <2>1. work'.step # "ended" => Active(Newest(db))
    BY <1>1, <1>3, <1>7 DEF IInv, Living
  <2> QED BY <1>1, <1>3, <2>1 DEF IInv, Living
<1>15. Waiting'
  BY <1>1, <1>3, <1>10 DEF IInv, Waiting
<1> QED BY <1>8, <1>9, <1>11, <1>12, <1>13, <1>14, <1>15 DEF IInv

LEMMA IdsAre ==
  ASSUME NEW cmds, NEW x
  PROVE  x \in Ids(cmds) <=>
           \E i \in DOMAIN cmds : \E k \in cmds[i].first..cmds[i].first + Len(cmds[i].events) - 1 :
             x = <<memory.session, k>>
BY DEF Ids

(* What waits is not in the archive yet. *)
LEMMA WaitingIsNew ==
  ASSUME IInv, Alive, ~failure, NEW i \in DOMAIN Pending,
         NEW k \in Pending[i].first..Pending[i].first + Len(Pending[i].events) - 1
  PROVE  k \in Nat /\ k > Len(db.events)
<1>1. Pending \in Seq(Command) /\ Pending \in Seq(Asked) /\ Pending[i] \in Asked
  BY PendingTypes DEF IInv
<1>2. Pending[i].first \in Nat /\ Len(Pending[i].events) \in Nat /\ Pending[i].events \in Seq(Row)
  BY <1>1, AskedTypes
<1>3. Pending[i].events # <<>>
  BY <1>2
<1>4. memory.next = Len(db.events) + 1 /\ Numberings(Pending, memory.next, next) # {}
  BY DEF IInv, Numbering
<1>5. PICK r : r \in Numberings(Pending, memory.next, next)
  BY <1>4
<1>6. memory.next \in Nat /\ next \in Nat /\ i \in 1..Len(Pending) /\ Len(db.events) \in Nat
  BY <1>1, ArchiveTypes DEF IInv, Types, Memory
<1>7. Pending[i].first = r[i - 1] /\ memory.next <= r[i - 1] /\ r[i - 1] \in Nat
  BY <1>1, <1>3, <1>5, <1>6, NumberingStep
<1> QED BY <1>2, <1>4, <1>6, <1>7

LEMMA AnswerErrorKeeps ==
  ASSUME IInv, AnswerError
  PROVE  IInv'
<1>1. /\ db' = db /\ clock' = clock /\ recorder' = recorder /\ memory' = memory /\ next' = next
      /\ queue' = <<>> /\ failure' = TRUE /\ done' = done
      /\ refused' = refused \cup Ids(work.cmds \o <<work.then>> \o queue)
      /\ work.step = "rejected"
      /\ work' = [Idle EXCEPT !.step = IF Head(work.cmds).op = "stop" THEN "ended" ELSE "closing"]
  BY DEF AnswerError
<1>2. Types /\ queue \in Seq(Asked)
  BY DEF IInv, Types
<1>3. Busy /\ Stopping' = Stopping /\ Alive' = Alive /\ Alive
  BY <1>1, BusyMeans DEF Busy, Stopping, Alive
<1>4. /\ ~failure /\ recorder \notin {"down", "resumed", "joining"}
      /\ work.then \in Asked \cup {NoCommand} /\ work.cmds \in Seq(Asked)
      /\ NoCommand.op = "none" /\ NoCommand.events = <<>>
  BY <1>2, <1>3, BusyMeans, WorkTypes, NoCommandType
<1>5. /\ work'.step \in {"closing", "ended"} /\ work'.cmds = <<>> /\ work'.then = NoCommand
      /\ work' \in [step : {"idle", "writing", "written", "rejected", "closing", "ended"},
                    cmds : Seq(Asked), then : Asked \cup {NoCommand}]
  <2> DEFINE step == IF Head(work.cmds).op = "stop" THEN "ended" ELSE "closing"
  <2>1. step \in {"closing", "ended"} /\ work' = [Idle EXCEPT !.step = step]
    BY <1>1
  <2> HIDE DEF step
  <2>2. work' = [step |-> step, cmds |-> <<>>, then |-> NoCommand]
    BY <2>1 DEF Idle
  <2>3. <<>> \in Seq(Asked) /\ NoCommand \in Asked \cup {NoCommand}
    OBVIOUS
  <2>4. work'.step = step /\ work'.cmds = <<>> /\ work'.then = NoCommand
    BY <2>2
  <2>5. step \in {"idle", "writing", "written", "rejected", "closing", "ended"}
    BY <2>1
  <2>6. work' \in [step : {"idle", "writing", "written", "rejected", "closing", "ended"},
                    cmds : Seq(Asked), then : Asked \cup {NoCommand}]
    BY <2>2, <2>3, <2>5
  <2>7. work'.step \in {"closing", "ended"}
    BY <2>1, <2>4
  <2> QED BY <2>4, <2>6, <2>7
<1>6. memory.session = Len(db.sessions) /\ memory.session \in Nat /\ Len(db.events) \in Nat
  BY <1>2, <1>3, LivingSession, ArchiveTypes DEF Types, Memory
<1>7. ASSUME NEW x \in Ids(work.cmds \o <<work.then>> \o queue)
      PROVE  x \in Nat \X Nat /\ x[1] = memory.session /\ x[2] > Len(db.events) /\ x[2] \in Nat
  <2> DEFINE all == work.cmds \o <<work.then>> \o queue
  <2>1. PICK i \in DOMAIN all : \E k \in all[i].first..all[i].first + Len(all[i].events) - 1 :
             x = <<memory.session, k>>
    BY <1>7, IdsAre
  <2>2. PICK k \in all[i].first..all[i].first + Len(all[i].events) - 1 : x = <<memory.session, k>>
    BY <2>1
  <2>3. all[i] # NoCommand
    <3>1. NoCommand.first = 0 /\ Len(NoCommand.events) = 0
      BY DEF NoCommand
    <3> QED BY <2>2, <3>1
  <2>4. Pending = (work.cmds \o ThenOf(work)) \o queue
    BY <1>1, PendingIs
  <2>5. \E j \in DOMAIN Pending : Pending[j] = all[i]
    <3> DEFINE S == Asked \cup {NoCommand}
               a == work.cmds
               b == <<work.then>>
               t == ThenOf(work)
    <3>1. a \in Seq(S) /\ b \in Seq(S) /\ queue \in Seq(S) /\ a \o b \in Seq(S)
      BY <1>2, <1>4
    <3>2. a \in Seq(Asked) /\ t \in Seq(Asked) /\ a \o t \in Seq(Asked)
      BY <1>4, ThenTypes
    <3>3. Pending = (a \o t) \o queue /\ all = (a \o b) \o queue /\ i \in DOMAIN all
      BY <2>1, <2>4
    <3>4. DOMAIN b = {1} /\ b[1] = work.then
      OBVIOUS
    <3>5. work.then # NoCommand => t = b
      BY <1>4, ThenTypes
    <3> HIDE DEF S, a, b, t, all
    <3>6. \/ \E j \in DOMAIN (a \o b) : all[i] = (a \o b)[j]
          \/ \E j \in DOMAIN queue : all[i] = queue[j]
      BY <3>1, <3>3, ElementOf
    <3>7. CASE \E j \in DOMAIN queue : all[i] = queue[j]
      <4>1. PICK j \in DOMAIN queue : all[i] = queue[j]
        BY <3>7
      <4>2. /\ Len(a \o t) + j \in DOMAIN ((a \o t) \o queue)
            /\ ((a \o t) \o queue)[Len(a \o t) + j] = queue[j]
        BY <1>2, <3>2, <4>1, SuffixOf
      <4> QED BY <3>3, <4>1, <4>2
    <3>8. CASE \E j \in DOMAIN (a \o b) : all[i] = (a \o b)[j]
      <4>1. PICK j \in DOMAIN (a \o b) : all[i] = (a \o b)[j]
        BY <3>8
      <4>2. \/ \E l \in DOMAIN a : (a \o b)[j] = a[l]
            \/ \E l \in DOMAIN b : (a \o b)[j] = b[l]
        BY <3>1, <4>1, ElementOf
      <4>3. CASE \E l \in DOMAIN a : (a \o b)[j] = a[l]
        <5>1. PICK l \in DOMAIN a : (a \o b)[j] = a[l]
          BY <4>3
        <5>2. l \in DOMAIN (a \o t) /\ (a \o t)[l] = a[l]
          BY <3>2, <5>1, PrefixOf
        <5>3. l \in DOMAIN ((a \o t) \o queue) /\ ((a \o t) \o queue)[l] = (a \o t)[l]
          BY <1>2, <3>2, <5>2, PrefixOf
        <5> QED BY <3>3, <4>1, <5>1, <5>2, <5>3
      <4>4. CASE \E l \in DOMAIN b : (a \o b)[j] = b[l]
        <5>1. all[i] = work.then /\ t = b
          BY <2>3, <3>4, <3>5, <4>1, <4>4
        <5>2. j \in DOMAIN (a \o t) /\ (a \o t)[j] = all[i]
          BY <4>1, <5>1
        <5>3. j \in DOMAIN ((a \o t) \o queue) /\ ((a \o t) \o queue)[j] = (a \o t)[j]
          BY <1>2, <3>2, <5>2, PrefixOf
        <5> QED BY <3>3, <5>2, <5>3
      <4> QED BY <4>2, <4>3, <4>4
    <3> QED BY <3>6, <3>7, <3>8
  <2>6. PICK j \in DOMAIN Pending : Pending[j] = all[i]
    BY <2>5
  <2> HIDE DEF all
  <2>7. k \in Nat /\ k > Len(db.events)
    BY <1>3, <1>4, <2>2, <2>6, WaitingIsNew
  <2> QED BY <1>6, <2>2, <2>7
<1>8. Types'
  <2>1. queue' \in Seq(Asked) /\ Len(queue') <= QueueSize
    BY <1>1, WriterAssumption
  <2>2. refused' \subseteq Nat \X Nat
    BY <1>1, <1>2, <1>7 DEF Types
  <2>3. failure' \in BOOLEAN
    BY <1>1
  <2> QED BY <1>1, <1>2, <1>5, <2>1, <2>2, <2>3 DEF Types
<1>9. Control'
  BY <1>1, <1>4, <1>5 DEF Control, Busy
<1>10. Pending' = <<>>
  BY <1>1, <1>5, <1>4 DEF Pending
<1>11. Numbering'
  BY <1>1, <1>3 DEF IInv, Numbering
<1>12. Answers'
  <2>1. \A x \in LogOf(db) : x[2] <= Len(db.events)
    <3>1. DOMAIN db.events = 1..Len(db.events)
      BY <1>2, ArchiveTypes DEF Types
    <3> QED BY <1>6, <3>1 DEF LogOf
  <2>2. \A x \in Ids(work.cmds \o <<work.then>> \o queue) : x \notin LogOf(db)
    BY <1>6, <1>7, <2>1
  <2>3. \A x \in Ids(work.cmds \o <<work.then>> \o queue) : x[1] <= Len(db.sessions)
    BY <1>6, <1>7
  <2> QED BY <1>1, <1>5, <2>2, <2>3 DEF IInv, Answers
<1>13. SessionsOf(db') /\ BridgesOf(db')
  BY <1>1 DEF IInv
<1>14. Living'
  <2>1. Active(Newest(db))
    BY <1>1, <1>3 DEF IInv, Living
  <2> QED BY <1>1, <1>3, <2>1 DEF IInv, Living
<1>15. Waiting'
  BY <1>10 DEF Waiting
<1> QED BY <1>8, <1>9, <1>11, <1>12, <1>13, <1>14, <1>15 DEF IInv


-----------------------------------------------------------------------------
(* Sessions end, and others begin *)

LEMMA TimeOf ==
  ASSUME NEW d \in Archive, NEW s, NEW t
  PROVE  t \in SessionTimes(d, s) <=>
           \/ \E i \in DOMAIN d.events : d.events[i].session = s /\ t = d.events[i].at
           \/ \E c \in d.checkpoints : c.session = s /\ t = c.at
BY DEF SessionTimes

Over == {"incomplete", "complete", "failed"}

EndedAt(d, e, st) == [d EXCEPT !.sessions[Len(d.sessions)] = Ended(@, e, st)]

LEMMA EndNewest ==
  ASSUME NEW d \in Archive, SessionsOf(d), BridgesOf(d), d.sessions # <<>>,
         NEW e \in 0..MaxTime, Newest(d).start <= e,
         \A t \in SessionTimes(d, Len(d.sessions)) : t <= e, NEW st \in Over,
         NEW n, n = EndedAt(d, e, st)
  PROVE  /\ n \in Archive /\ SessionsOf(n) /\ BridgesOf(n)
         /\ n.events = d.events /\ n.checkpoints = d.checkpoints
         /\ Len(n.sessions) = Len(d.sessions) /\ Newest(n).start = Newest(d).start
         /\ Newest(n).end = e /\ ~Active(Newest(n))
         /\ \A s \in DOMAIN d.sessions : s # Len(d.sessions) => n.sessions[s] = d.sessions[s]
<1> DEFINE l == Len(d.sessions)
<1>1. /\ d.sessions \in Seq(Session) /\ l \in Nat /\ DOMAIN d.sessions = 1..l /\ l \in 1..l
      /\ Newest(d) \in Session /\ Newest(d) = d.sessions[l]
  <2>1. d.sessions \in Seq(Session) /\ l \in Nat /\ DOMAIN d.sessions = 1..l
    BY ArchiveTypes
  <2>2. l \in 1..l
    BY <2>1
  <2> QED BY <2>1, <2>2 DEF Newest
<1>2. e \in Nat /\ MaxTime \in Nat
  BY WriterAssumption
<1> DEFINE new == Ended(d.sessions[l], e, st)
<1>3. /\ new \in Session /\ new.start = Newest(d).start /\ new.end = e /\ new.status = st
  BY <1>1, <1>2 DEF Ended, Session, Over
<1>4. n.sessions = [d.sessions EXCEPT ![l] = new]
  BY DEF EndedAt, Archive
<1>5. n \in Archive /\ n.events = d.events /\ n.checkpoints = d.checkpoints
  <2>1. [d.sessions EXCEPT ![l] = new] \in Seq(Session)
    BY <1>1, <1>3
  <2>2. n = [d EXCEPT !.sessions = [d.sessions EXCEPT ![l] = new]]
    BY DEF EndedAt
  <2> HIDE DEF new
  <2> QED BY <2>1, <2>2 DEF Archive
<1> HIDE DEF new
<1>6. /\ Len(n.sessions) = l /\ DOMAIN n.sessions = 1..l /\ n.sessions[l] = new
      /\ \A s \in 1..l : s # l => n.sessions[s] = d.sessions[s]
  BY <1>1, <1>3, <1>4
<1>7. Newest(n) = new /\ ~Active(new)
  BY <1>3, <1>6 DEF Newest, Active, Over
<1>8. \A s : SessionTimes(n, s) = SessionTimes(d, s)
  BY <1>5 DEF SessionTimes
<1>9. SessionsOf(n)
  <2>1. ASSUME NEW s \in 1..l
        PROVE  /\ Active(n.sessions[s]) => s = Len(n.sessions) /\ n.sessions[s].end = Forever
               /\ ~Active(n.sessions[s]) => n.sessions[s].end <= MaxTime
               /\ Allowed(n.sessions[s])
               /\ \A t \in SessionTimes(n, s) : n.sessions[s].start <= t /\ t <= n.sessions[s].end
    <3>1. CASE s = l
      <4>1. \A t \in SessionTimes(d, l) : d.sessions[l].start <= t
        BY <1>1 DEF SessionsOf
      <4>2. new.end <= MaxTime /\ new.start <= new.end
        BY <1>3
      <4>3. \A t \in SessionTimes(n, s) : new.start <= t /\ t <= new.end
        BY <1>1, <1>3, <1>8, <3>1, <4>1
      <4>4. Allowed(new)
        BY <1>1, <1>2, <1>3, <4>2, SessionTypes DEF Allowed
      <4> QED BY <1>6, <1>7, <3>1, <4>2, <4>3, <4>4
    <3>2. CASE s # l
      <4>1. n.sessions[s] = d.sessions[s] /\ s \in DOMAIN d.sessions
        BY <1>1, <1>6, <3>2
      <4> QED BY <1>6, <1>8, <4>1 DEF SessionsOf
    <3> QED BY <3>1, <3>2
  <2>2. ASSUME NEW s \in 2..l PROVE n.sessions[s - 1].end <= n.sessions[s].start
    <3>1. /\ s - 1 \in 1..l /\ s \in 1..l /\ s - 1 # l
          /\ d.sessions[s - 1].end <= d.sessions[s].start
      BY <1>1 DEF SessionsOf
    <3>2. n.sessions[s].start = d.sessions[s].start
      BY <1>1, <1>3, <1>6, <3>1
    <3> QED BY <1>6, <3>1, <3>2
  <2> QED BY <1>5, <1>6, <2>1, <2>2 DEF SessionsOf
<1>10. BridgesOf(n)
  <2>1. ASSUME NEW g, NEW s \in 2..l PROVE BridgeGap(n, g, s) <=> BridgeGap(d, g, s)
    <3>1. s - 1 \in 1..l /\ s - 1 # l
      BY <1>1
    <3>2. n.sessions[s - 1] = d.sessions[s - 1]
      BY <1>6, <3>1
    <3> QED BY <3>2 DEF BridgeGap
  <2>2. n.events = d.events /\ Len(n.sessions) = l
    BY <1>5, <1>6
  <2> QED BY <2>1, <2>2 DEF BridgesOf
<1> QED BY <1>1, <1>3, <1>5, <1>6, <1>7, <1>9, <1>10


Extended(d, start) == [d EXCEPT !.sessions = Append(d.sessions, Opened(start))]

LEMMA NewSession ==
  ASSUME NEW d \in Archive, SessionsOf(d), BridgesOf(d), Len(d.sessions) < MaxSessions,
         \A s \in DOMAIN d.sessions : ~Active(d.sessions[s]),
         NEW start \in 1..MaxTime, d.sessions # <<>> => Newest(d).end <= start,
         NEW n, n = Extended(d, start)
  PROVE  /\ n \in Archive /\ SessionsOf(n) /\ BridgesOf(n)
         /\ n.events = d.events /\ n.checkpoints = d.checkpoints
         /\ Len(n.sessions) = Len(d.sessions) + 1 /\ Newest(n) = Opened(start)
         /\ d.sessions # <<>> => n.sessions[Len(n.sessions) - 1] = Newest(d)
<1> DEFINE l == Len(d.sessions)
           new == Opened(start)
<1>1. /\ d.sessions \in Seq(Session) /\ l \in Nat /\ DOMAIN d.sessions = 1..l
      /\ MaxTime \in Nat /\ Forever \in Nat /\ MaxTime < Forever /\ MaxSessions \in Nat
  BY ArchiveTypes, WriterAssumption, ArchiveAssumption
<1>2. /\ new \in Session /\ new.start = start /\ new.end = Forever /\ Active(new) /\ Allowed(new)
  BY <1>1 DEF Opened, Session, Active, Allowed
<1>3. n.sessions = Append(d.sessions, new)
  BY DEF Archive, Extended
<1>4. n \in Archive /\ n.events = d.events /\ n.checkpoints = d.checkpoints
  <2>1. Append(d.sessions, new) \in Seq(Session)
    BY <1>1, <1>2
  <2> HIDE DEF new
  <2> QED BY <2>1 DEF Archive, Extended, new
<1> HIDE DEF new
<1>5. /\ Len(n.sessions) = l + 1 /\ DOMAIN n.sessions = 1..l + 1 /\ n.sessions[l + 1] = new
      /\ \A s \in 1..l : n.sessions[s] = d.sessions[s]
  BY <1>1, <1>2, <1>3
<1>6. \A s : SessionTimes(n, s) = SessionTimes(d, s)
  BY <1>4 DEF SessionTimes
<1>7. /\ \A i \in DOMAIN d.events : d.events[i].session \in Nat /\ d.events[i].session <= l
      /\ \A c \in d.checkpoints : c.session \in 1..l
  BY ArchiveTypes, RowTypes DEF SessionsOf
<1>8. SessionTimes(d, l + 1) = {}
  <2>1. \A i \in DOMAIN d.events : d.events[i].session # l + 1
    BY <1>1, <1>7
  <2>2. \A c \in d.checkpoints : c.session # l + 1
    BY <1>1, <1>7
  <2> QED BY <2>1, <2>2 DEF SessionTimes
<1>9. SessionsOf(n)
  <2>1. ASSUME NEW s \in 1..l + 1
        PROVE  /\ Active(n.sessions[s]) => s = Len(n.sessions) /\ n.sessions[s].end = Forever
               /\ ~Active(n.sessions[s]) => n.sessions[s].end <= MaxTime
               /\ Allowed(n.sessions[s])
               /\ \A t \in SessionTimes(n, s) : n.sessions[s].start <= t /\ t <= n.sessions[s].end
    <3>1. CASE s = l + 1
      BY <1>2, <1>5, <1>6, <1>8, <3>1
    <3>2. CASE s # l + 1
      <4>1. s \in 1..l /\ n.sessions[s] = d.sessions[s] /\ s \in DOMAIN d.sessions
        BY <1>1, <1>5, <3>2
      <4>2. ~Active(d.sessions[s])
        BY <4>1
      <4> QED BY <1>6, <4>1, <4>2 DEF SessionsOf
    <3> QED BY <3>1, <3>2
  <2>2. ASSUME NEW s \in 2..l + 1 PROVE n.sessions[s - 1].end <= n.sessions[s].start
    <3>1. s - 1 \in 1..l /\ n.sessions[s - 1] = d.sessions[s - 1]
      BY <1>1, <1>5
    <3>2. CASE s = l + 1
      <4>1. s - 1 = l /\ d.sessions # <<>>
        BY <1>1, <3>1, <3>2
      <4> QED BY <1>2, <1>5, <3>1, <3>2, <4>1 DEF Newest
    <3>3. CASE s # l + 1
      <4>1. s \in 2..l /\ s \in 1..l
        BY <1>1, <3>3
      <4> QED BY <1>5, <3>1, <4>1 DEF SessionsOf
    <3> QED BY <3>2, <3>3
  <2>3. /\ Len(n.sessions) <= MaxSessions
        /\ \A i \in DOMAIN n.events : n.events[i].session <= Len(n.sessions)
        /\ \A c \in n.checkpoints : c.session \in 1..Len(n.sessions)
    BY <1>1, <1>4, <1>5, <1>7
  <2> QED BY <1>5, <2>1, <2>2, <2>3 DEF SessionsOf
<1>10. BridgesOf(n)
  <2> SUFFICES ASSUME NEW s \in 2..l + 1, NEW i \in DOMAIN d.events,
                      d.events[i].session = s,
                      \A j \in DOMAIN d.events : d.events[j].session = s => i <= j
               PROVE  BridgeGap(n, d.events[i], s)
    BY <1>4, <1>5 DEF BridgesOf
  <2>1. s \in 2..l /\ s - 1 \in 1..l
    BY <1>1, <1>7
  <2>2. BridgeGap(d, d.events[i], s)
    BY <2>1 DEF BridgesOf
  <2> QED BY <1>5, <2>1, <2>2 DEF BridgeGap
<1>11. d.sessions # <<>> => n.sessions[Len(n.sessions) - 1] = Newest(d)
  BY <1>1, <1>5 DEF Newest
<1> QED BY <1>4, <1>5, <1>9, <1>10, <1>11 DEF Newest, new

(* What the state must say of an archive that is opened anew *)
LEMMA OpensKeeps ==
  ASSUME IInv, recorder = "down", NEW start \in 1..MaxTime,
         NEW d \in Archive, SessionsOf(d), BridgesOf(d),
         d.events = db.events, d.checkpoints = db.checkpoints,
         Len(d.sessions) = Len(db.sessions), Len(d.sessions) < MaxSessions,
         \A s \in DOMAIN d.sessions : ~Active(d.sessions[s]),
         d.sessions # <<>> => Newest(d).end <= start /\ Newest(d).end = ResumeFrom(db),
         \A t \in ObservedTimes(db) : t <= start,
         d.sessions = PriorSessions(db), Opens(start),
         recorder' = IF db.sessions = <<>> THEN "recording" ELSE "resumed"
  PROVE  IInv'
<1>1. /\ db' = WithSession(db, start) /\ clock' = start /\ memory' = MemoryOf(db)
      /\ next' = LastSequence(db) + 1
      /\ queue' = queue /\ work' = work /\ failure' = failure
      /\ done' = done /\ refused' = refused
  BY DEF Opens, answers
<1>2. Types /\ db \in Archive /\ Len(db.events) \in Nat /\ Len(db.sessions) \in Nat
  BY ArchiveTypes DEF IInv, Types
<1>3. db' = Extended(d, start)
  <2>1. [db EXCEPT !.sessions = Append(d.sessions, Opened(start))] =
        [d EXCEPT !.sessions = Append(d.sessions, Opened(start))]
    BY <1>2 DEF Archive
  <2> QED BY <1>1, <2>1 DEF WithSession, Extended
<1>4. /\ db' \in Archive /\ SessionsOf(db') /\ BridgesOf(db')
      /\ db'.events = db.events /\ db'.checkpoints = db.checkpoints
      /\ Len(db'.sessions) = Len(db.sessions) + 1 /\ Newest(db') = Opened(start)
      /\ d.sessions # <<>> => db'.sessions[Len(db'.sessions) - 1] = Newest(d)
  BY <1>3, NewSession
<1>5. ObservedTimes(db') = ObservedTimes(db) /\ LastObserved(db') = LastObserved(db)
  <2>1. ObservedTimes(db') = ObservedTimes(db)
    BY <1>4 DEF ObservedTimes
  <2> QED BY <2>1 DEF LastObserved
<1>6. /\ memory'.session = Len(db.sessions) + 1 /\ memory'.next = Len(db.events) + 1
      /\ memory'.last = LastObserved(db)
      /\ memory'.resumeFrom = IF db.sessions = <<>> THEN 0 ELSE ResumeFrom(db)
      /\ next' = Len(db.events) + 1
  BY <1>1 DEF MemoryOf, LastSequence
<1>7. queue = <<>> /\ work.step = "idle" /\ ~failure /\ work.cmds = <<>> /\ work.then = NoCommand
  BY DEF IInv, Control, Busy
<1>8. (d.sessions # <<>> <=> db.sessions # <<>>) /\ (db.sessions # <<>> <=> Len(db.sessions) > 0)
  <2>1. d.sessions \in Seq(Session) /\ db.sessions \in Seq(Session)
    BY <1>2, ArchiveTypes
  <2> QED BY <2>1
<1>9. Types'
  <2>1. memory' \in Memory
    <3>1. LastObserved(db) \in Nat
      BY <1>2, LastObservedSays
    <3>2. (IF db.sessions = <<>> THEN 0 ELSE ResumeFrom(db)) \in Nat
      <4>1. CASE db.sessions = <<>>
        BY <4>1
      <4>2. CASE db.sessions # <<>>
        <5>1. Newest(d) \in Session
          BY <1>8, <4>2, ArchiveTypes DEF Newest
        <5> QED BY <1>8, <4>2, <5>1, SessionTypes
      <4> QED BY <4>1, <4>2
    <3>3. Len(db.sessions) + 1 \in Nat /\ LastSequence(db) + 1 \in Nat
      BY <1>2 DEF LastSequence
    <3> DEFINE from == IF db.sessions = <<>> THEN 0 ELSE ResumeFrom(db)
    <3>4. memory' = [session |-> Len(db.sessions) + 1, next |-> LastSequence(db) + 1,
                     last |-> LastObserved(db), baselines |-> {}, hasGap |-> FALSE,
                     resumeFrom |-> from]
      BY <1>1 DEF MemoryOf
    <3> HIDE DEF from
    <3> QED BY <3>1, <3>2, <3>3, <3>4 DEF Memory, from
  <2>2. next' \in Nat \ {0}
    BY <1>2, <1>6
  <2>3. recorder' \in {"recording", "resumed"}
    OBVIOUS
  <2> QED BY <1>1, <1>2, <1>4, <2>1, <2>2, <2>3 DEF Types
<1>10. Alive' /\ ~Busy' /\ Busy' = Busy
  BY <1>1, <1>7 DEF Alive, Busy
<1>11. Control'
  BY <1>1, <1>7, <1>10, NoCommandType DEF Control
<1>12. Pending' = <<>>
  BY <1>1, <1>7, NoCommandType DEF Pending
<1>13. Numbering'
  <2>1. Numberings(<<>>, memory'.next, next') # {}
    BY <1>2, <1>6, NumberNone
  <2> QED BY <1>4, <1>5, <1>6, <1>12, <2>1 DEF Numbering
<1>14. Answers'
  <2>1. \A x \in refused : x[1] \in Nat /\ x[1] <= Len(db.sessions)
    BY <1>2 DEF IInv, Answers, Types
  <2>2. \A x \in refused : x[1] <= Len(db'.sessions) /\ x[1] < memory'.session
    BY <1>2, <1>4, <1>6, <2>1
  <2>3. LogOf(db') = LogOf(db)
    BY <1>4 DEF LogOf
  <2>4. work'.step # "written"
    BY <1>1, <1>7
  <2> QED BY <1>1, <2>2, <2>3, <2>4 DEF IInv, Answers
<1>15. Living'
  <2>1. memory'.session = Len(db'.sessions) /\ memory'.session # 0
    BY <1>2, <1>4, <1>6
  <2>2. Active(Newest(db')) /\ Newest(db').start <= clock'
    BY <1>1, <1>4 DEF Opened, Active
  <2>3. \A t \in ObservedTimes(db') : t <= clock'
    BY <1>1, <1>5
  <2>4. recorder' \in {"resumed", "bridging"} <=> Len(db'.sessions) > 1
    BY <1>2, <1>4, <1>8
  <2>5. ASSUME Len(db'.sessions) > 1
        PROVE  /\ memory'.resumeFrom = db'.sessions[Len(db'.sessions) - 1].end
               /\ memory'.resumeFrom <= MaxTime
    <3>1. db.sessions # <<>>
      BY <1>2, <1>4, <1>8, <2>5
    <3>2. memory'.resumeFrom = Newest(d).end /\ Newest(d).end <= start
      BY <1>6, <1>8, <3>1
    <3>3. Newest(d) \in Session
      BY <1>8, <3>1, ArchiveTypes DEF Newest
    <3>4. Newest(d).end \in Nat /\ MaxTime \in Nat
      BY <3>3, SessionTypes, WriterAssumption
    <3> QED BY <1>4, <1>8, <3>1, <3>2, <3>4
  <2> QED BY <2>1, <2>2, <2>3, <2>4, <2>5 DEF Living
<1>16. Waiting'
  BY <1>12 DEF Waiting
<1> QED BY <1>4, <1>9, <1>11, <1>13, <1>14, <1>15, <1>16 DEF IInv


LEMMA NewestTypes ==
  ASSUME NEW d \in Archive, d.sessions # <<>>
  PROVE  /\ Len(d.sessions) \in 1..Len(d.sessions) /\ Newest(d) \in Session
         /\ Newest(d).start \in Nat /\ Newest(d).end \in Nat /\ Newest(d).start \in 1..MaxTime
         /\ LatestSession(d) = Newest(d) /\ Len(d.sessions) \in DOMAIN d.sessions
<1>1. /\ d.sessions \in Seq(Session) /\ Len(d.sessions) \in Nat
      /\ DOMAIN d.sessions = 1..Len(d.sessions)
  BY ArchiveTypes
<1>2. Len(d.sessions) \in 1..Len(d.sessions)
  BY <1>1
<1>3. Newest(d) \in Session
  BY <1>1, <1>2 DEF Newest
<1> QED BY <1>1, <1>2, <1>3, SessionTypes DEF Newest, LatestSession, Last

LEMMA CreateKeeps ==
  ASSUME IInv, Create
  PROVE  IInv'
<1>1. recorder = "down" /\ db.sessions = <<>> /\ recorder' = "recording" /\ Opens(clock)
  BY DEF Create
<1>2. db \in Archive /\ SessionsOf(db) /\ BridgesOf(db) /\ clock \in 1..MaxTime
  BY DEF IInv, Types
<1>3. Len(db.sessions) = 0 /\ DOMAIN db.sessions = {} /\ 0 < MaxSessions
  BY <1>1, WriterAssumption
<1>4. ObservedTimes(db) = {}
  <2>1. \A i \in DOMAIN db.events : db.events[i].session \in 1..MaxSessions
    BY <1>2, ArchiveTypes, RowTypes
  <2>2. DOMAIN db.events = {}
    BY <1>2, <1>3, <2>1 DEF SessionsOf
  <2>3. db.checkpoints = {}
    BY <1>2, <1>3 DEF SessionsOf
  <2> QED BY <2>2, <2>3 DEF ObservedTimes
<1>5. PriorSessions(db) = db.sessions
  BY <1>1 DEF PriorSessions
<1> QED BY <1>1, <1>2, <1>3, <1>4, <1>5, OpensKeeps

LEMMA ResumeFromSays ==
  ASSUME NEW d \in Archive, SessionsOf(d), d.sessions # <<>>
  PROVE  /\ ResumeFrom(d) \in Nat
         /\ ~Active(Newest(d)) => ResumeFrom(d) = Newest(d).end
         /\ Active(Newest(d)) => \A t \in SessionTimes(d, Len(d.sessions)) : t <= ResumeFrom(d)
<1>1. LatestSession(d) = Newest(d) /\ Newest(d).end \in Nat /\ Newest(d).start \in Nat
  BY NewestTypes
<1>2. LastObserved(d) \in Nat /\ \A t \in ObservedTimes(d) : t <= LastObserved(d)
        /\ (LastObserved(d) = 0 => ObservedTimes(d) = {})
  BY LastObservedSays
<1>3. SessionTimes(d, Len(d.sessions)) \subseteq ObservedTimes(d)
  BY TimesTypes
<1>4. CASE ~Active(Newest(d))
  <2>1. ResumeFrom(d) = Newest(d).end
    BY <1>1, <1>4 DEF ResumeFrom
  <2> QED BY <1>1, <1>4, <2>1
<1>5. CASE Active(Newest(d)) /\ LastObserved(d) # 0
  <2>1. ResumeFrom(d) = LastObserved(d)
    BY <1>1, <1>5 DEF ResumeFrom
  <2> QED BY <1>2, <1>3, <1>5, <2>1
<1>6. CASE Active(Newest(d)) /\ LastObserved(d) = 0
  <2>1. ResumeFrom(d) = Newest(d).start
    BY <1>1, <1>6 DEF ResumeFrom
  <2> QED BY <1>1, <1>2, <1>3, <1>6, <2>1
<1> QED BY <1>4, <1>5, <1>6

LEMMA ResumeKeeps ==
  ASSUME IInv, Resume
  PROVE  IInv'
<1>1. /\ recorder = "down" /\ db.sessions # <<>> /\ Len(db.sessions) < MaxSessions
      /\ Resumable(db) /\ recorder' = "resumed"
  BY DEF Resume
<1>2. PICK start \in ClockFloor(db)..MaxTime : start >= ResumeFrom(db) /\ Opens(start)
  BY DEF Resume
<1>3. db \in Archive /\ SessionsOf(db) /\ BridgesOf(db)
  BY DEF IInv, Types
<1> DEFINE l == Len(db.sessions)
<1>4. /\ l \in 1..l /\ l \in DOMAIN db.sessions /\ DOMAIN db.sessions = 1..l /\ l \in Nat
      /\ Newest(db) \in Session /\ LatestSession(db) = Newest(db) /\ Newest(db) = db.sessions[l]
      /\ Newest(db).start \in Nat /\ Newest(db).start >= 1 /\ Newest(db).end \in Nat
  BY <1>1, <1>3, NewestTypes, ArchiveTypes DEF Newest
<1>5. LastObserved(db) \in Nat /\ \A t \in ObservedTimes(db) : t <= LastObserved(db)
  BY <1>3, LastObservedSays
<1>6. /\ Allowed(Newest(db)) /\ MaxTime \in Nat
      /\ \A s \in DOMAIN db.sessions : Active(db.sessions[s]) => s = l
      /\ ~Active(Newest(db)) => Newest(db).end <= MaxTime
  BY <1>3, <1>4, WriterAssumption DEF SessionsOf
<1>7. start \in 1..MaxTime /\ LastObserved(db) <= start
  <2> DEFINE boundary == IF Active(Newest(db)) THEN Newest(db).start ELSE Newest(db).end
  <2>1. boundary \in Nat /\ boundary >= 1
    BY <1>4, <1>6 DEF Allowed
  <2>2. ClockFloor(db) = GreatestOf({boundary, LastObserved(db)})
    BY <1>4 DEF ClockFloor
  <2> HIDE DEF boundary
  <2>3. /\ ClockFloor(db) \in Nat
        /\ boundary <= ClockFloor(db) /\ LastObserved(db) <= ClockFloor(db)
    BY <1>5, <2>1, <2>2, GreaterOfTwo
  <2>4. start \in Nat /\ start >= ClockFloor(db) /\ start <= MaxTime
    BY <1>2, <1>6, <2>3
  <2> QED BY <1>5, <1>6, <2>1, <2>3, <2>4
<1>8. \A t \in ObservedTimes(db) : t <= start
  <2>1. \A t \in ObservedTimes(db) : t \in Nat
    BY <1>3, TimesTypes
  <2> QED BY <1>5, <1>7, <2>1
<1>9. ResumeFrom(db) \in Nat /\ ResumeFrom(db) <= start /\ ResumeFrom(db) \in 0..MaxTime
  <2>1. ResumeFrom(db) \in Nat
    BY <1>1, <1>3, ResumeFromSays
  <2> QED BY <1>2, <1>6, <1>7, <2>1
<1>10. CASE Active(Newest(db))
  <2> DEFINE d == EndedAt(db, ResumeFrom(db), "incomplete")
  <2>1. Newest(db).start <= ResumeFrom(db)
    <3>1. Allowed(Ended(Newest(db), ResumeFrom(db), "incomplete"))
      BY <1>1, <1>4, <1>10 DEF Resumable, Interrupted
    <3>2. /\ Ended(Newest(db), ResumeFrom(db), "incomplete").end = ResumeFrom(db)
          /\ Ended(Newest(db), ResumeFrom(db), "incomplete").start = Newest(db).start
      BY <1>4 DEF Ended, Session
    <3> QED BY <1>4, <1>9, <3>1, <3>2 DEF Allowed
  <2>2. \A t \in SessionTimes(db, l) : t <= ResumeFrom(db)
    BY <1>1, <1>3, <1>10, ResumeFromSays
  <2>3. PICK n : n = d
    OBVIOUS
  <2>4. /\ n \in Archive /\ SessionsOf(n) /\ BridgesOf(n)
        /\ n.events = db.events /\ n.checkpoints = db.checkpoints
        /\ Len(n.sessions) = l /\ Newest(n).end = ResumeFrom(db) /\ ~Active(Newest(n))
        /\ \A s \in DOMAIN db.sessions : s # l => n.sessions[s] = db.sessions[s]
    BY <1>1, <1>3, <1>9, <2>1, <2>2, <2>3, EndNewest DEF Over
  <2>5. \A s \in DOMAIN n.sessions : ~Active(n.sessions[s])
    <3>1. DOMAIN n.sessions = 1..l
      BY <2>4, ArchiveTypes
    <3> QED BY <1>4, <1>6, <2>4, <3>1 DEF Newest
  <2>6. n.sessions = PriorSessions(db)
    BY <1>1, <1>3, <1>4, <1>10, <2>3 DEF PriorSessions, Interrupted, EndedAt, Archive
  <2> QED BY <1>1, <1>2, <1>7, <1>8, <1>9, <2>4, <2>5, <2>6, OpensKeeps
<1>11. CASE ~Active(Newest(db))
  <2>1. \A s \in DOMAIN db.sessions : ~Active(db.sessions[s])
    BY <1>4, <1>6, <1>11
  <2>2. PriorSessions(db) = db.sessions
    BY <1>4, <1>11 DEF PriorSessions
  <2>3. Newest(db).end = ResumeFrom(db)
    BY <1>1, <1>3, <1>11, ResumeFromSays
  <2> QED BY <1>1, <1>2, <1>3, <1>7, <1>8, <1>9, <2>1, <2>2, <2>3, OpensKeeps
<1> QED BY <1>10, <1>11

LEMMA LeaseKeeps ==
  ASSUME IInv, LeaseForReplay
  PROVE  IInv'
<1>1. /\ recorder = "down" /\ db.sessions # <<>> /\ db' = Recovered(db)
      /\ clock' = clock /\ recorder' = recorder /\ memory' = memory /\ next' = next
      /\ queue' = queue /\ work' = work /\ failure' = failure /\ done' = done
      /\ refused' = refused
  BY DEF LeaseForReplay, answers
<1>2. Types /\ db \in Archive /\ SessionsOf(db) /\ BridgesOf(db)
  BY DEF IInv, Types
<1> DEFINE l == Len(db.sessions)
           e == GreatestOf({db.sessions[l].start, LastSessionObserved(db, l)})
<1>3. Newest(db).start \in 1..MaxTime /\ Newest(db).start \in Nat /\ Newest(db) = db.sessions[l]
        /\ MaxTime \in Nat
  BY <1>1, <1>2, NewestTypes, WriterAssumption DEF Newest
<1>4. /\ LastSessionObserved(db, l) \in 0..MaxTime /\ LastSessionObserved(db, l) \in Nat
      /\ \A t \in SessionTimes(db, l) : t <= LastSessionObserved(db, l)
  BY <1>2, <1>3, LastSessionObservedSays
<1>5. /\ e \in {Newest(db).start, LastSessionObserved(db, l)}
      /\ Newest(db).start <= e /\ LastSessionObserved(db, l) <= e
  BY <1>3, <1>4, GreaterOfTwo
<1>6. db' = EndedAt(db, e, "incomplete")
  BY <1>1 DEF Recovered, EndedAt
<1> HIDE DEF e
<1>7. e \in 0..MaxTime
  BY <1>3, <1>4, <1>5
<1>8. \A t \in SessionTimes(db, l) : t <= e
  <2>1. \A t \in SessionTimes(db, l) : t \in Nat
    BY <1>2, TimesTypes
  <2> QED BY <1>4, <1>5, <1>7, <2>1
<1>9. /\ db' \in Archive /\ SessionsOf(db') /\ BridgesOf(db')
      /\ db'.events = db.events /\ Len(db'.sessions) = l
  BY <1>1, <1>2, <1>5, <1>6, <1>7, <1>8, EndNewest DEF Over
<1>10. Types'
  BY <1>1, <1>2, <1>9 DEF Types
<1>11. Control'
  BY <1>1 DEF IInv, Control, Busy, Stopping
<1>12. Numbering' /\ Living' /\ Waiting'
  BY <1>1 DEF Numbering, Living, Waiting, Alive
<1>13. Answers'
  <2>1. LogOf(db') = LogOf(db)
    BY <1>9 DEF LogOf
  <2> QED BY <1>1, <1>9, <2>1 DEF IInv, Answers, Alive
<1> QED BY <1>9, <1>10, <1>11, <1>12, <1>13 DEF IInv


-----------------------------------------------------------------------------
(* The archive is written *)

LEMMA ClosedSays ==
  ASSUME IInv, Alive, NEW clean \in BOOLEAN, NEW n, n = Closed(db, memory, clean, clock)
  PROVE  /\ n \in Archive /\ SessionsOf(n) /\ BridgesOf(n)
         /\ n.events = db.events /\ n.checkpoints = db.checkpoints
         /\ Len(n.sessions) = Len(db.sessions) /\ Newest(n).start = Newest(db).start
         /\ \A s \in DOMAIN db.sessions : s # Len(db.sessions) => n.sessions[s] = db.sessions[s]
<1>1. /\ db \in Archive /\ SessionsOf(db) /\ BridgesOf(db) /\ memory.last = LastObserved(db)
      /\ clock \in 1..MaxTime /\ memory.session = Len(db.sessions) /\ db.sessions # <<>>
  <2>1. db.sessions # <<>>
    BY LivingSession
  <2> QED BY <2>1, LivingSession DEF IInv, Types, Numbering
<1> DEFINE l == Len(db.sessions)
           b == Boundary(db, memory)
           e == IF clean THEN GreatestOf({b, clock}) ELSE b
           st == IF clean THEN CleanStatus(memory) ELSE "failed"
<1>2. MaxTime \in Nat /\ Newest(db).start \in Nat /\ Newest(db).start \in 1..MaxTime
        /\ Newest(db) = db.sessions[l] /\ clock \in Nat
  BY <1>1, NewestTypes, WriterAssumption DEF Newest
<1>3. memory.last \in 0..MaxTime /\ memory.last \in Nat
        /\ \A t \in ObservedTimes(db) : t <= memory.last
  BY <1>1, LastObservedSays
<1>4. b = GreatestOf({Newest(db).start, memory.last})
  BY <1>1, <1>2 DEF Boundary
<1>5. /\ b \in {Newest(db).start, memory.last} /\ Newest(db).start <= b /\ memory.last <= b
  BY <1>2, <1>3, <1>4, GreaterOfTwo
<1> HIDE DEF b
<1>6. b \in Nat /\ b \in 0..MaxTime
  BY <1>2, <1>3, <1>5
<1>7. e \in 0..MaxTime /\ e \in Nat /\ b <= e
  <2>1. CASE clean
    <3>1. GreatestOf({b, clock}) \in {b, clock} /\ b <= GreatestOf({b, clock})
      BY <1>2, <1>6, GreaterOfTwo
    <3> QED BY <1>1, <1>2, <1>6, <2>1, <3>1
  <2>2. CASE ~clean
    BY <1>6, <2>2
  <2> QED BY <2>1, <2>2
<1>8. st \in Over
  BY DEF CleanStatus, Over
<1>9. n = EndedAt(db, e, st)
  BY <1>1 DEF Closed, EndedAt, b
<1> HIDE DEF e, st
<1>10. Newest(db).start <= e
  BY <1>2, <1>5, <1>6, <1>7
<1>11. \A t \in SessionTimes(db, l) : t <= e
  <2> TAKE t \in SessionTimes(db, l)
  <2>1. t \in Nat /\ t <= memory.last
    BY <1>1, <1>3, TimesTypes
  <2> QED BY <1>3, <1>5, <1>6, <1>7, <2>1
<1> QED BY <1>1, <1>7, <1>8, <1>9, <1>10, <1>11, EndNewest

LEMMA CloseFailedKeeps ==
  ASSUME IInv, CloseFailed
  PROVE  IInv'
<1>1. /\ work.step = "closing" /\ db' \in {db, Closed(db, memory, FALSE, clock)}
      /\ clock' = clock /\ recorder' = recorder /\ memory' = memory /\ next' = next
      /\ queue' = queue /\ failure' = failure /\ done' = done /\ refused' = refused
      /\ work' = [Idle EXCEPT !.step = "ended"]
  BY DEF CloseFailed, answers
<1>2. /\ Types /\ failure /\ ~Busy /\ work.cmds = <<>> /\ work.then = NoCommand
      /\ recorder \notin {"down", "resumed"} /\ Alive /\ NoCommand.op = "none"
  BY <1>1, NoCommandType DEF IInv, Control, Busy, Alive
<1>3. /\ work'.step = "ended" /\ work'.cmds = <<>> /\ work'.then = NoCommand
      /\ work' \in [step : {"idle", "writing", "written", "rejected", "closing", "ended"},
                    cmds : Seq(Asked), then : Asked \cup {NoCommand}]
  <2>1. work' = [step |-> "ended", cmds |-> <<>>, then |-> NoCommand]
    BY <1>1 DEF Idle
  <2> QED BY <2>1
<1>4. /\ db' \in Archive /\ SessionsOf(db') /\ BridgesOf(db')
      /\ db'.events = db.events /\ db'.checkpoints = db.checkpoints
      /\ Len(db'.sessions) = Len(db.sessions) /\ Newest(db').start = Newest(db).start
      /\ \A s \in DOMAIN db.sessions : s # Len(db.sessions) => db'.sessions[s] = db.sessions[s]
  <2>1. CASE db' = db
    BY <2>1 DEF IInv, Types
  <2>2. CASE db' = Closed(db, memory, FALSE, clock)
    BY <1>2, <2>2, ClosedSays
  <2> QED BY <1>1, <2>1, <2>2
<1>5. Types'
  BY <1>1, <1>2, <1>3, <1>4 DEF Types
<1>6. ~Busy' /\ Alive' /\ Stopping' = Stopping
  BY <1>1, <1>2, <1>3 DEF Busy, Alive, Stopping
<1>7. Control'
  BY <1>1, <1>2, <1>3, <1>6 DEF IInv, Control
<1>8. Pending' = Pending
  <2>1. Pending = (<<>> \o <<>>) \o queue
    BY <1>1, <1>2 DEF Pending
  <2>2. Pending' = (<<>> \o <<>>) \o queue
    BY <1>1, <1>2, <1>3 DEF Pending
  <2> QED BY <2>1, <2>2
<1>9. /\ ObservedTimes(db') = ObservedTimes(db) /\ LogOf(db') = LogOf(db)
      /\ LastObserved(db') = LastObserved(db)
      /\ \A s : HasEventsIn(db', s) <=> HasEventsIn(db, s)
  <2>1. ObservedTimes(db') = ObservedTimes(db) /\ LogOf(db') = LogOf(db)
    BY <1>4 DEF ObservedTimes, LogOf
  <2> QED BY <1>4, <2>1 DEF LastObserved, HasEventsIn
<1>10. Numbering'
  BY <1>1, <1>2, <1>4, <1>9 DEF IInv, Numbering
<1>11. Answers'
  BY <1>1, <1>2, <1>3, <1>4, <1>9 DEF IInv, Answers
<1>12. Len(db.sessions) > 1 => db'.sessions[Len(db.sessions) - 1] = db.sessions[Len(db.sessions) - 1]
  <2> SUFFICES ASSUME Len(db.sessions) > 1
               PROVE  db'.sessions[Len(db.sessions) - 1] = db.sessions[Len(db.sessions) - 1]
    OBVIOUS
  <2>1. Len(db.sessions) \in Nat /\ DOMAIN db.sessions = 1..Len(db.sessions)
    BY <1>2, ArchiveTypes DEF Types
  <2>2. Len(db.sessions) - 1 \in DOMAIN db.sessions /\ Len(db.sessions) - 1 # Len(db.sessions)
    BY <2>1
  <2> QED BY <1>4, <2>2
<1>13. Living'
  BY <1>1, <1>2, <1>3, <1>4, <1>6, <1>9, <1>12 DEF IInv, Living
<1>14. Waiting'
  <2> SUFFICES ASSUME NEW i \in DOMAIN Pending
               PROVE  /\ Fits(Pending[i], db', clock)
                      /\ Len(db'.sessions) > 1 /\ ~HasEventsIn(db', Len(db'.sessions))
                           => Bridging(Pending[i], db')
    BY <1>1, <1>8 DEF Waiting
  <2>1. /\ Fits(Pending[i], db, clock)
        /\ Len(db.sessions) > 1 /\ ~HasEventsIn(db, Len(db.sessions)) => Bridging(Pending[i], db)
    BY <1>2 DEF IInv, Waiting
  <2>2. Fits(Pending[i], db', clock)
    BY <1>4, <2>1 DEF Fits
  <2>3. Len(db.sessions) > 1 /\ Bridging(Pending[i], db) => Bridging(Pending[i], db')
    BY <1>4, <1>12 DEF Bridging, BridgeGap
  <2> QED BY <1>4, <1>9, <2>1, <2>2, <2>3
<1> QED BY <1>4, <1>5, <1>7, <1>10, <1>11, <1>13, <1>14 DEF IInv

LEMMA JoinIs ==
  ASSUME NEW S, NEW a \in Seq(S), NEW b \in Seq(S), NEW c \in Seq(S)
  PROVE  (a \o b) \o c = a \o (b \o c)
OBVIOUS

(* What every write does *)
LEMMA WriteSays ==
  ASSUME IInv, Write
  PROVE  /\ clock' = clock /\ recorder' = recorder /\ next' = next /\ queue' = queue
         /\ failure' = failure /\ done' = done /\ refused' = refused
         /\ work.step = "writing" /\ work'.step = "written"
         /\ work'.cmds = work.cmds /\ work'.then = work.then
         /\ work' \in [step : {"idle", "writing", "written", "rejected", "closing", "ended"},
                       cmds : Seq(Asked), then : Asked \cup {NoCommand}]
         /\ Busy /\ Alive /\ Alive' /\ Control' /\ ~failure
         /\ Pending' \in Seq(Asked) /\ Pending = work.cmds \o Pending'
         /\ Head(work.cmds).op = "stop" => Pending' = <<>>
<1>1. /\ clock' = clock /\ recorder' = recorder /\ next' = next /\ queue' = queue
      /\ failure' = failure /\ done' = done /\ refused' = refused
      /\ work.step = "writing" /\ work' = [work EXCEPT !.step = "written"]
  BY DEF Write, answers
<1>2. Types /\ queue \in Seq(Asked) /\ work.cmds \in Seq(Asked)
        /\ work.then \in Asked \cup {NoCommand}
  BY WorkTypes DEF IInv, Types
<1>3. /\ work'.step = "written" /\ work'.cmds = work.cmds /\ work'.then = work.then
      /\ work' \in [step : {"idle", "writing", "written", "rejected", "closing", "ended"},
                    cmds : Seq(Asked), then : Asked \cup {NoCommand}]
  BY <1>1, <1>2 DEF Types
<1>4. Busy /\ Busy' /\ Stopping' = Stopping /\ Alive' = Alive /\ Alive /\ ~failure
  BY <1>1, <1>3, BusyMeans DEF Busy, Stopping, Alive
<1>5. Control'
  BY <1>1, <1>3, <1>4 DEF IInv, Control
<1> DEFINE t == ThenOf(work)
<1>6. t \in Seq(Asked) /\ ThenOf(work') = t
  BY <1>2, <1>3, ThenTypes DEF ThenOf
<1>7. Pending = (work.cmds \o t) \o queue
  BY <1>1, PendingIs
<1>8. Pending' = (<<>> \o t) \o queue
  BY <1>1, <1>3 DEF Pending, ThenOf
<1>9. Head(work.cmds).op = "stop" => t = <<>> /\ queue = <<>>
  <2>1. Head(work.cmds).op = "stop" => work.then = NoCommand /\ queue = <<>>
    BY <1>4, BusyMeans DEF IInv, Control
  <2> QED BY <1>2, <2>1, ThenTypes
<1> HIDE DEF t
<1>10. Pending' \in Seq(Asked) /\ Pending = work.cmds \o Pending'
  <2>1. Pending' = t \o queue
    <3>1. <<>> \o t = t
      BY <1>6
    <3> QED BY <1>8, <3>1
  <2>2. t \o queue \in Seq(Asked)
    BY <1>2, <1>6
  <2>3. (work.cmds \o t) \o queue = work.cmds \o (t \o queue)
    <3>1. work.cmds \in Seq(Asked) /\ t \in Seq(Asked) /\ queue \in Seq(Asked)
      BY <1>2, <1>6
    <3>2. \A a, b, c \in Seq(Asked) : (a \o b) \o c = a \o (b \o c)
      BY JoinIs
    <3> QED BY <3>1, <3>2, Zenon
  <2> QED BY <1>7, <2>1, <2>2, <2>3
<1>11. Head(work.cmds).op = "stop" => Pending' = <<>>
  BY <1>8, <1>9
<1> QED BY <1>1, <1>3, <1>4, <1>5, <1>10, <1>11

(* Commands that are written get the numbers that the archive has next. *)
LEMMA WrittenNumbers ==
  ASSUME IInv, Write
  PROVE  /\ Numberings(Pending', memory.next + EventCount(work.cmds), next) # {}
         /\ EventCount(work.cmds) \in Nat
         /\ Head(work.cmds).events # <<>> => EventCount(work.cmds) > 0
         /\ \A x \in Ids(work.cmds) : \E k \in Nat :
              /\ x = <<memory.session, k>> /\ k > Len(db.events)
              /\ k <= Len(db.events) + EventCount(work.cmds)
<1> DEFINE c == work.cmds
           n == Len(work.cmds)
<1>1. /\ Busy /\ Alive /\ ~failure /\ Pending' \in Seq(Asked) /\ Pending = c \o Pending'
      /\ c \in Seq(Asked) /\ c # <<>> /\ Head(c) = c[1] /\ 1 \in DOMAIN c
  BY WriteSays, BusyMeans
<1>2. c \in Seq(Command) /\ Pending' \in Seq(Command) /\ Pending \in Seq(Command)
  BY <1>1, AskedAreCommands, PendingTypes DEF IInv
<1>3. /\ memory.next = Len(db.events) + 1 /\ memory.next \in Nat /\ next \in Nat
      /\ Numberings(Pending, memory.next, next) # {} /\ Len(db.events) \in Nat
  BY <1>1, ArchiveTypes DEF IInv, Numbering, Types, Memory
<1>4. Numberings(Pending', memory.next + EventCount(c), next) # {}
  BY <1>1, <1>2, <1>3, NumberRest
<1>5. EventCount(c) \in Nat
  BY <1>2, EventCountNat
<1>6. PICK r : r \in Numberings(Pending, memory.next, next)
  BY <1>3
<1>7. /\ n \in Nat /\ n >= 1 /\ n \in 0..Len(Pending) /\ DOMAIN c = 1..n
      /\ \A i \in 1..n : i \in 1..Len(Pending) /\ Pending[i] = c[i]
      /\ SubSeq(Pending, 1, n) = c
  <2>1. /\ n \in Nat /\ n >= 1 /\ n \in 0..Len(Pending) /\ DOMAIN c = 1..n
        /\ \A i \in 1..n : i \in 1..Len(Pending) /\ Pending[i] = c[i]
    BY <1>1
  <2>2. /\ SubSeq(Pending, 1, n) \in Seq(Command) /\ Len(SubSeq(Pending, 1, n)) = n
        /\ \A i \in 1..n : SubSeq(Pending, 1, n)[i] = Pending[i]
    BY <1>2, <2>1, SubSeqCommands
  <2>3. SubSeq(Pending, 1, n) = c
    BY <1>2, <2>1, <2>2, SameSequence
  <2> QED BY <2>1, <2>3
<1> HIDE DEF n
<1>8. r[n] = memory.next + EventCount(c)
  <2>1. r[n] = memory.next + EventCount(SubSeq(Pending, 1, n))
    BY <1>2, <1>3, <1>6, <1>7, NumberFirst
  <2> QED BY <1>7, <2>1
<1>9. ASSUME NEW i \in 1..n
      PROVE  /\ r[i - 1] \in Nat /\ r[i] \in Nat /\ memory.next <= r[i - 1]
             /\ r[i] = r[i - 1] + Len(c[i].events) /\ r[i] <= r[n]
             /\ c[i].events # <<>> => c[i].first = r[i - 1]
  <2>1. i \in 1..Len(Pending) /\ Pending[i] = c[i]
    BY <1>7
  <2>2. /\ r[i - 1] \in Nat /\ r[i] \in Nat /\ memory.next <= r[i - 1]
        /\ r[i] = r[i - 1] + Len(Pending[i].events)
        /\ Pending[i].events # <<>> => Pending[i].first = r[i - 1]
    BY <1>2, <1>3, <1>6, <2>1, NumberingStep
  <2>3. i \in 0..Len(Pending) /\ i <= n
    BY <1>7, <2>1
  <2>4. r[i] <= r[n]
    BY <1>2, <1>3, <1>6, <1>7, <2>3, NumberingGrows
  <2> QED BY <2>1, <2>2, <2>4
<1>10. Head(c).events # <<>> => EventCount(c) > 0
  <2> SUFFICES ASSUME Head(c).events # <<>> PROVE EventCount(c) > 0
    OBVIOUS
  <2>1. Len(c[1].events) \in Nat /\ Len(c[1].events) > 0
    <3>1. c[1] \in Asked
      BY <1>1
    <3> QED BY <1>1, <3>1, AskedTypes
  <2>2. 1 \in 1..n
    BY <1>7
  <2> QED BY <1>3, <1>5, <1>8, <1>9, <2>1, <2>2
<1>11. ASSUME NEW x \in Ids(c)
       PROVE  \E k \in Nat : /\ x = <<memory.session, k>> /\ k > Len(db.events)
                             /\ k <= Len(db.events) + EventCount(c)
  <2>1. PICK i \in DOMAIN c : \E k \in c[i].first..c[i].first + Len(c[i].events) - 1 :
          x = <<memory.session, k>>
    BY <1>11, IdsAre
  <2>2. PICK k \in c[i].first..c[i].first + Len(c[i].events) - 1 : x = <<memory.session, k>>
    BY <2>1
  <2>3. c[i] \in Asked
    BY <1>1
  <2>4. c[i].first \in Nat /\ Len(c[i].events) \in Nat /\ c[i].events \in Seq(Row)
    BY <2>3, AskedTypes
  <2>5. c[i].events # <<>> /\ k \in Nat /\ k >= c[i].first /\ k <= c[i].first + Len(c[i].events) - 1
    BY <2>2, <2>4
  <2>6. i \in 1..n
    BY <1>7
  <2>9. /\ r[i - 1] \in Nat /\ r[i] \in Nat /\ memory.next <= r[i - 1]
        /\ r[i] = r[i - 1] + Len(c[i].events) /\ r[i] <= r[n]
        /\ c[i].first = r[i - 1]
    BY <1>9, <2>5, <2>6
  <2>10. r[n] \in Nat
    BY <1>3, <1>5, <1>8
  <2> HIDE DEF c
  <2>7. k >= memory.next /\ k <= r[n] - 1
    BY <1>3, <2>4, <2>5, <2>9, <2>10
  <2>8. k > Len(db.events) /\ k <= Len(db.events) + EventCount(c)
    BY <1>3, <1>5, <1>8, <2>5, <2>7
  <2> QED BY <2>2, <2>5, <2>8
<1> QED BY <1>4, <1>5, <1>10, <1>11


(* Events at the end of an archive, of its newest session and no earlier than what *)
(* is there                                                                       *)
Appended(d, es) == [d EXCEPT !.events = @ \o es]

LEMMA AppendedRows ==
  ASSUME NEW d \in Archive, NEW es \in Seq(Row)
  PROVE  /\ Appended(d, es) \in Archive
         /\ Appended(d, es).sessions = d.sessions
         /\ Appended(d, es).checkpoints = d.checkpoints
         /\ Appended(d, es).events = d.events \o es
         /\ Len(Appended(d, es).events) = Len(d.events) + Len(es)
         /\ \A i \in DOMAIN d.events : /\ i \in DOMAIN Appended(d, es).events
                                       /\ Appended(d, es).events[i] = d.events[i]
         /\ \A i \in DOMAIN Appended(d, es).events :
              \/ i \in DOMAIN d.events
              \/ /\ i > Len(d.events) /\ i - Len(d.events) \in 1..Len(es)
                 /\ Appended(d, es).events[i] = es[i - Len(d.events)]
         /\ \A j \in 1..Len(es) : /\ Len(d.events) + j \in DOMAIN Appended(d, es).events
                                  /\ Appended(d, es).events[Len(d.events) + j] = es[j]
<1> DEFINE D == Appended(d, es)
           n == Len(d.events)
           l == Len(es)
<1>1. D \in Archive /\ D.sessions = d.sessions /\ D.checkpoints = d.checkpoints
      /\ D.events = d.events \o es
  <2>1. d.events \o es \in Seq(Row)
    BY ArchiveTypes
  <2> QED BY <2>1 DEF Appended, Archive
<1>2. n \in Nat /\ l \in Nat /\ d.events \in Seq(Row) /\ DOMAIN d.events = 1..n
  BY ArchiveTypes
<1> HIDE DEF D
<1>3. Len(D.events) = n + l /\ DOMAIN D.events = 1..n + l
  BY <1>1, <1>2
<1>4. ASSUME NEW i \in 1..n + l
      PROVE  D.events[i] = IF i <= n THEN d.events[i] ELSE es[i - n]
  BY <1>1, <1>2
<1>5. \A i \in DOMAIN d.events : i \in DOMAIN D.events /\ D.events[i] = d.events[i]
  BY <1>2, <1>3, <1>4
<1>6. ASSUME NEW i \in DOMAIN D.events
      PROVE  \/ i \in DOMAIN d.events
             \/ i > n /\ i - n \in 1..l /\ D.events[i] = es[i - n]
  <2>1. i \in 1..n + l
    BY <1>3
  <2>2. i <= n \/ (i > n /\ i - n \in 1..l /\ ~(i <= n))
    BY <1>2, <2>1
  <2>3. i <= n => i \in DOMAIN d.events
    BY <1>2, <2>1
  <2> QED BY <1>4, <2>1, <2>2, <2>3
<1>7. ASSUME NEW j \in 1..l
      PROVE  n + j \in DOMAIN D.events /\ D.events[n + j] = es[j]
  <2>1. n + j \in 1..n + l /\ ~(n + j <= n) /\ (n + j) - n = j
    BY <1>2
  <2> QED BY <1>3, <1>4, <2>1
<1> QED BY <1>1, <1>3, <1>5, <1>6, <1>7 DEF D

LEMMA AppendedSays ==
  ASSUME NEW d \in Archive, NEW es \in Seq(Row), es # <<>>, d.sessions # <<>>,
         \A i \in 1..Len(es) : es[i].session = Len(d.sessions) /\ es[i].at <= es[Len(es)].at,
         \A t \in ObservedTimes(d) : t <= es[Len(es)].at
  PROVE  /\ LastObserved(Appended(d, es)) = es[Len(es)].at
         /\ HasEventsIn(Appended(d, es), Len(d.sessions))
         /\ \A s : HasEventsIn(d, s) => HasEventsIn(Appended(d, es), s)
         /\ \A t \in ObservedTimes(Appended(d, es)) :
              t \in ObservedTimes(d) \/ \E j \in 1..Len(es) : t = es[j].at
         /\ \A s, t : t \in SessionTimes(Appended(d, es), s) =>
              \/ t \in SessionTimes(d, s)
              \/ s = Len(d.sessions) /\ \E j \in 1..Len(es) : t = es[j].at
         /\ LogOf(d) \subseteq LogOf(Appended(d, es))
         /\ \A k \in Nat : k > Len(d.events) /\ k <= Len(d.events) + Len(es)
              => <<Len(d.sessions), k>> \in LogOf(Appended(d, es))
         /\ \A y \in LogOf(Appended(d, es)) : y \in LogOf(d) \/ y[1] = Len(d.sessions)
<1> DEFINE D == Appended(d, es)
           n == Len(d.events)
           l == Len(es)
           last == Len(d.sessions)
<1>1. /\ D \in Archive /\ D.sessions = d.sessions /\ D.checkpoints = d.checkpoints
      /\ \A i \in DOMAIN d.events : i \in DOMAIN D.events /\ D.events[i] = d.events[i]
      /\ \A i \in DOMAIN D.events :
           \/ i \in DOMAIN d.events
           \/ i > n /\ i - n \in 1..l /\ D.events[i] = es[i - n]
      /\ \A j \in 1..l : n + j \in DOMAIN D.events /\ D.events[n + j] = es[j]
  BY AppendedRows
<1>2. n \in Nat /\ l \in Nat /\ l >= 1 /\ l \in 1..l
  BY ArchiveTypes
<1> HIDE DEF D, n, l, last
<1>3. \A t \in ObservedTimes(D) : t \in ObservedTimes(d) \/ \E j \in 1..l : t = es[j].at
  <2> SUFFICES ASSUME NEW t \in ObservedTimes(D), t \notin ObservedTimes(d)
               PROVE  \E j \in 1..l : t = es[j].at
    OBVIOUS
  <2>1. PICK i \in DOMAIN D.events : t = D.events[i].at
    BY <1>1 DEF ObservedTimes
  <2>2. i \notin DOMAIN d.events
    BY <1>1, <2>1 DEF ObservedTimes
  <2> QED BY <1>1, <2>1, <2>2
<1>4. \A s, t : t \in SessionTimes(D, s) =>
        t \in SessionTimes(d, s) \/ (s = last /\ \E j \in 1..l : t = es[j].at)
  <2> SUFFICES ASSUME NEW s, NEW t, t \in SessionTimes(D, s), t \notin SessionTimes(d, s)
               PROVE  s = last /\ \E j \in 1..l : t = es[j].at
    BY Zenon
  <2>1. PICK i \in DOMAIN D.events : t = D.events[i].at /\ D.events[i].session = s
    BY <1>1 DEF SessionTimes
  <2>2. i \notin DOMAIN d.events
    BY <1>1, <2>1 DEF SessionTimes
  <2> QED BY <1>1, <2>1, <2>2 DEF l, last
<1>5. es[l].at \in ObservedTimes(D)
  BY <1>1, <1>2 DEF ObservedTimes
<1>6. LastObserved(D) = es[l].at
  <2>1. \A t \in ObservedTimes(D) : t <= es[l].at
    BY <1>3 DEF l
  <2> QED BY <1>1, <1>5, <2>1, LastObservedIs
<1>7. HasEventsIn(D, last)
  BY <1>1, <1>2 DEF HasEventsIn, l, last
<1>8. \A s : HasEventsIn(d, s) => HasEventsIn(D, s)
  BY <1>1 DEF HasEventsIn
<1>9. LogOf(d) \subseteq LogOf(D)
  BY <1>1 DEF LogOf
<1>10. ASSUME NEW k \in Nat, k > n, k <= n + l
       PROVE  <<last, k>> \in LogOf(D)
  <2>1. k - n \in 1..l /\ n + (k - n) = k
    BY <1>2, <1>10
  <2>2. k \in DOMAIN D.events /\ D.events[k].session = last
    BY <1>1, <2>1 DEF l, last
  <2> QED BY <2>2 DEF LogOf
<1>11. \A y \in LogOf(D) : y \in LogOf(d) \/ y[1] = last
  <2> SUFFICES ASSUME NEW y \in LogOf(D), y \notin LogOf(d)
               PROVE  y[1] = last
    OBVIOUS
  <2>1. PICK i \in DOMAIN D.events : y = <<D.events[i].session, i>>
    BY DEF LogOf
  <2>2. i \notin DOMAIN d.events
    BY <1>1, <2>1 DEF LogOf
  <2> QED BY <1>1, <2>1, <2>2 DEF l, last
<1> QED BY <1>3, <1>4, <1>6, <1>7, <1>8, <1>9, <1>10, <1>11 DEF D, n, l, last

LEMMA AppendedKeeps ==
  ASSUME NEW d \in Archive, NEW es \in Seq(Row), es # <<>>, d.sessions # <<>>,
         \A i \in 1..Len(es) : es[i].session = Len(d.sessions) /\ es[i].at <= es[Len(es)].at,
         \A t \in ObservedTimes(d) : t <= es[Len(es)].at,
         SessionsOf(d), BridgesOf(d), Active(Newest(d)),
         \A i \in 1..Len(es) : Newest(d).start <= es[i].at,
         Len(d.sessions) > 1 /\ ~HasEventsIn(d, Len(d.sessions))
           => BridgeGap(d, es[1], Len(d.sessions))
  PROVE  SessionsOf(Appended(d, es)) /\ BridgesOf(Appended(d, es))
<1> DEFINE D == Appended(d, es)
           n == Len(d.events)
           l == Len(es)
           last == Len(d.sessions)
<1>1. /\ D \in Archive /\ D.sessions = d.sessions /\ D.checkpoints = d.checkpoints
      /\ \A i \in DOMAIN d.events : i \in DOMAIN D.events /\ D.events[i] = d.events[i]
      /\ \A i \in DOMAIN D.events :
           \/ i \in DOMAIN d.events
           \/ i > n /\ i - n \in 1..l /\ D.events[i] = es[i - n]
      /\ \A j \in 1..l : n + j \in DOMAIN D.events /\ D.events[n + j] = es[j]
      /\ \A s, t : t \in SessionTimes(D, s) =>
              t \in SessionTimes(d, s) \/ (s = last /\ \E j \in 1..l : t = es[j].at)
  BY AppendedRows, AppendedSays
<1>9. /\ Newest(D) = Newest(d)
      /\ \A g, s : BridgeGap(D, g, s) <=> BridgeGap(d, g, s)
  BY <1>1 DEF Newest, BridgeGap
<1>2. /\ n \in Nat /\ l \in Nat /\ l >= 1 /\ 1 \in 1..l /\ last \in Nat /\ last \in DOMAIN d.sessions
      /\ DOMAIN d.events = 1..n /\ last >= 1
  BY ArchiveTypes
<1>3. \A j \in 1..l : es[j] \in Row
  OBVIOUS
<1>4. SessionsOf(D)
  <2>1. ASSUME NEW i \in DOMAIN D.events
        PROVE  D.events[i].session <= last
    <3>1. CASE i \in DOMAIN d.events
      BY <1>1, <3>1 DEF SessionsOf
    <3>2. CASE i \notin DOMAIN d.events
      <4>1. i - n \in 1..l /\ D.events[i] = es[i - n]
        BY <1>1, <3>2
      <4>2. D.events[i].session = last
        BY <4>1
      <4> QED BY <1>2, <4>2
    <3> QED BY <3>1, <3>2
  <2>2. ASSUME NEW s \in DOMAIN d.sessions, NEW t \in SessionTimes(D, s)
        PROVE  d.sessions[s].start <= t /\ t <= d.sessions[s].end
    <3>1. CASE t \in SessionTimes(d, s)
      BY <3>1 DEF SessionsOf
    <3>2. CASE s = last /\ \E j \in 1..l : t = es[j].at
      <4>1. PICK j \in 1..l : t = es[j].at
        BY <3>2
      <4>2. d.sessions[s].end = Forever /\ d.sessions[s].start <= t
        BY <1>2, <3>2, <4>1 DEF SessionsOf, Newest
      <4>3. t \in Nat /\ t <= MaxTime /\ MaxTime < Forever /\ MaxTime \in Nat /\ Forever \in Nat
        BY <1>3, <4>1, RowTypes, WriterAssumption, ArchiveAssumption
      <4> QED BY <4>2, <4>3
    <3> QED BY <1>1, <3>1, <3>2
  <2> HIDE DEF D, last
  <2> QED BY <1>1, <2>1, <2>2 DEF SessionsOf, last
<1>5. BridgesOf(D)
  <2> SUFFICES ASSUME NEW s \in 2..last, NEW i \in DOMAIN D.events, D.events[i].session = s,
                      \A j \in DOMAIN D.events : D.events[j].session = s => i <= j
               PROVE  BridgeGap(d, D.events[i], s)
    BY <1>1, <1>9 DEF BridgesOf
  <2>1. CASE i \in DOMAIN d.events
    BY <1>1, <2>1 DEF BridgesOf
  <2>2. CASE i \notin DOMAIN d.events
    <3>1. i > n /\ i - n \in 1..l /\ D.events[i] = es[i - n] /\ s = last
      BY <1>1, <2>2
    <3>2. ~HasEventsIn(d, last)
      <4> SUFFICES ASSUME NEW j \in DOMAIN d.events, d.events[j].session = last
                   PROVE  FALSE
        BY DEF HasEventsIn
      <4>1. j \in DOMAIN D.events /\ D.events[j].session = s
        BY <1>1, <3>1
      <4>2. i <= j
        BY <4>1
      <4>3. j \in 1..n /\ i > n /\ i \in Nat
        <5>1. i \in 1..Len(D.events) /\ Len(D.events) \in Nat
          BY <1>1, ArchiveTypes
        <5> QED BY <1>2, <3>1, <5>1
      <4> QED BY <1>2, <4>2, <4>3
    <3>3. n + 1 \in DOMAIN D.events /\ D.events[n + 1] = es[1] /\ es[1].session = last
      BY <1>1, <1>2
    <3>4. i <= n + 1
      BY <3>1, <3>3
    <3>5. i - n = 1
      <4>1. i > n /\ i <= n + 1 /\ n \in Nat /\ i \in Int
        <5>1. i \in 1..Len(D.events) /\ Len(D.events) \in Nat
          BY <1>1, ArchiveTypes
        <5> QED BY <1>2, <3>1, <3>4, <5>1
      <4> QED BY <4>1
    <3>6. BridgeGap(d, es[1], last)
      BY <3>1, <3>2
    <3> QED BY <3>1, <3>5, <3>6
  <2> QED BY <2>1, <2>2
<1> QED BY <1>4, <1>5

(* What is written was observed in the newest session. *)
LEMMA WrittenEvents ==
  ASSUME IInv, Write, Head(work.cmds).op \in {"events", "open"}
  PROVE  /\ EventsOf(work.cmds) \in Seq(Row) /\ EventsOf(work.cmds) # <<>>
         /\ Len(EventsOf(work.cmds)) = EventCount(work.cmds)
         /\ \A i \in 1..Len(EventsOf(work.cmds)) :
              LET e == EventsOf(work.cmds)[i] IN
              /\ Newest(db).start <= e.at /\ e.at <= clock
              /\ Len(db.sessions) > 1 /\ ~HasEventsIn(db, Len(db.sessions))
                   => BridgeGap(db, e, Len(db.sessions))
<1> DEFINE cmds == work.cmds
           P == {e \in Row :
                   /\ Newest(db).start <= e.at /\ e.at <= clock
                   /\ Len(db.sessions) > 1 /\ ~HasEventsIn(db, Len(db.sessions))
                        => BridgeGap(db, e, Len(db.sessions))}
<1>1. /\ Alive /\ cmds \in Seq(Asked) /\ Head(cmds) \in Asked /\ Pending = cmds \o Pending'
      /\ Pending' \in Seq(Asked) /\ cmds \in Seq(Command)
  BY WriteSays, BusyMeans, AskedAreCommands
<1>2. ASSUME NEW k \in 1..Len(cmds)
      PROVE  cmds[k].events \in Seq(P)
  <2>1. k \in DOMAIN Pending /\ Pending[k] = cmds[k]
    BY <1>1
  <2>2. cmds[k] \in Asked
    BY <1>1
  <2>3. cmds[k].events \in Seq(Row) /\ Len(cmds[k].events) \in Nat
    BY <2>2, AskedTypes
  <2>4. /\ Fits(cmds[k], db, clock)
        /\ Len(db.sessions) > 1 /\ ~HasEventsIn(db, Len(db.sessions)) => Bridging(cmds[k], db)
    BY <1>1, <2>1 DEF IInv, Waiting
  <2>5. ASSUME NEW j \in 1..Len(cmds[k].events)
        PROVE  cmds[k].events[j] \in P
    <3>1. cmds[k].events[j] \in Row
      BY <2>3
    <3>2. Newest(db).start <= cmds[k].events[j].at /\ cmds[k].events[j].at <= clock
      BY <2>3, <2>4 DEF Fits
    <3>3. Bridging(cmds[k], db) => BridgeGap(db, cmds[k].events[j], Len(db.sessions))
      <4> SUFFICES ASSUME Bridging(cmds[k], db)
                   PROVE  BridgeGap(db, cmds[k].events[j], Len(db.sessions))
        OBVIOUS
      <4>1. j = 1 /\ BridgeGap(db, cmds[k].events[1], Len(db.sessions))
        BY DEF Bridging
      <4> QED BY <4>1
    <3> QED BY <2>4, <3>1, <3>2, <3>3
  <2> HIDE DEF P
  <2> QED BY <2>3, <2>5
<1>3. P \subseteq Row
  OBVIOUS
<1> HIDE DEF P
<1>4. EventsOf(cmds) \in Seq(P) /\ Len(EventsOf(cmds)) = EventCount(cmds)
  BY <1>1, <1>2, <1>3, EventsOfTypes
<1>5. EventCount(cmds) > 0 /\ EventCount(cmds) \in Nat
  BY <1>1, AskedTypes, WrittenNumbers
<1>6. EventsOf(cmds) # <<>> /\ EventsOf(cmds) \in Seq(Row)
  BY <1>3, <1>4, <1>5
<1>7. \A i \in 1..Len(EventsOf(cmds)) : EventsOf(cmds)[i] \in P
  BY <1>4
<1> QED BY <1>4, <1>6, <1>7 DEF P

(* Events are written: of the newest session, with the numbers that follow. *)
LEMMA WriteEventsSays ==
  ASSUME IInv, Write, Head(work.cmds).op \in {"events", "open"},
         NEW es, es = EventsOf(work.cmds)
  PROVE  /\ db' = Appended(db, es)
         /\ memory' \in Memory /\ memory'.session = memory.session
         /\ memory'.next = memory.next + Len(es)
         /\ memory'.last = es[Len(es)].at /\ memory'.resumeFrom = memory.resumeFrom
         /\ \A i \in 1..Len(es) : /\ es[i].session = memory.session
                                  /\ memory.last <= es[i].at /\ es[i].at <= es[Len(es)].at
<1> DEFINE c == Head(work.cmds)
           seen == Seen(work.cmds)
           n == EventCount(work.cmds)
<1>1. seen.ok /\ db' = [db EXCEPT !.events = @ \o es] /\ memory' = MemoryAfter(memory, seen, n)
  <2>1. Accepts(work.cmds) /\ Transact(work.cmds)
    BY DEF Write
  <2> QED BY <2>1 DEF Accepts, Transact
<1>2. es \in Seq(Row) /\ es # <<>> /\ Len(es) = n /\ n \in Nat
  BY WrittenEvents, WrittenNumbers
<1>3. c \in Asked
  BY WriteSays, BusyMeans
<1>4. c.first \in Nat
  BY <1>3, AskedTypes
<1>5. db \in Archive /\ memory \in Memory
  BY DEF IInv, Types
<1>6. KnownMarkets(db) \subseteq Markets
  BY <1>5, MarketsKnown DEF KnownMarkets
<1>7. seen = Checked(db, memory, c.first, es)
  BY DEF Seen
<1>11. Checked(db, memory, c.first, es).ok
  BY <1>1, <1>7
<1> HIDE DEF seen, c, n
<1>8. /\ seen \in Verdict
      /\ \A i \in 1..Len(es) : es[i].session = memory.session /\ es[i].at >= memory.last
                                        /\ es[i].at <= seen.last
      /\ seen.last = es[Len(es)].at
  <2>1. Judged(db, memory, c.first, es, seen)
    BY <1>1, <1>2, <1>4, <1>5, <1>6, <1>7 DEF Judged
  <2>2. /\ seen \in Verdict
        /\ \A i \in 1..Len(es) : es[i].session = memory.session /\ es[i].at >= memory.last
                                        /\ es[i].at <= seen.last
        /\ es # <<>> => seen.last = es[Len(es)].at
    BY <2>1, CheckedSays
  <2> QED BY <1>2, <2>2
<1>9. memory' \in Memory /\ memory'.session = memory.session
      /\ memory'.next = memory.next + n /\ memory'.last = seen.last
      /\ memory'.resumeFrom = memory.resumeFrom
  <2>1. memory' = [memory EXCEPT !.next = @ + n, !.last = seen.last,
                                 !.baselines = seen.baselines, !.hasGap = seen.hasGap]
    BY <1>1 DEF MemoryAfter
  <2>2. seen.last \in Nat /\ seen.baselines \in SUBSET Baselines /\ seen.hasGap \in BOOLEAN
    BY <1>8 DEF Verdict
  <2>3. memory.next + n \in Nat
    BY <1>2, <1>5 DEF Memory
  <2> QED BY <1>5, <2>1, <2>2, <2>3 DEF Memory
<1>10. \A i \in 1..Len(es) : es[i].at \in Nat /\ memory.last \in Nat
  BY <1>2, <1>5, RowTypes DEF Memory
<1> QED BY <1>1, <1>2, <1>8, <1>9, <1>10 DEF Appended

LEMMA WriteEventsKeeps ==
  ASSUME IInv, Write, Head(work.cmds).op \in {"events", "open"}
  PROVE  IInv'
<1> DEFINE es == EventsOf(work.cmds)
           l == Len(db.sessions)
<1>1. /\ clock' = clock /\ recorder' = recorder /\ next' = next /\ queue' = queue
      /\ failure' = failure /\ done' = done /\ refused' = refused
      /\ work.step = "writing" /\ work'.step = "written"
      /\ work'.cmds = work.cmds /\ work'.then = work.then
      /\ work' \in [step : {"idle", "writing", "written", "rejected", "closing", "ended"},
                    cmds : Seq(Asked), then : Asked \cup {NoCommand}]
      /\ Alive /\ Alive' /\ Control' /\ ~failure
      /\ Pending' \in Seq(Asked) /\ Pending = work.cmds \o Pending'
      /\ work.cmds \in Seq(Asked)
  BY WriteSays, BusyMeans
<1>2. /\ es \in Seq(Row) /\ es # <<>> /\ Len(es) = EventCount(work.cmds)
      /\ Len(es) \in Nat /\ 1 \in 1..Len(es)
      /\ \A i \in 1..Len(es) : Newest(db).start <= es[i].at /\ es[i].at <= clock
      /\ l > 1 /\ ~HasEventsIn(db, l) => BridgeGap(db, es[1], l)
  <2>1. /\ es \in Seq(Row) /\ es # <<>> /\ Len(es) = EventCount(work.cmds)
        /\ \A i \in 1..Len(es) :
             /\ Newest(db).start <= es[i].at /\ es[i].at <= clock
             /\ l > 1 /\ ~HasEventsIn(db, l) => BridgeGap(db, es[i], l)
    BY WrittenEvents
  <2>2. Len(es) \in Nat /\ 1 \in 1..Len(es)
    BY <2>1
  <2> QED BY <2>1, <2>2
<1>3. /\ db' = Appended(db, es)
      /\ memory' \in Memory /\ memory'.session = memory.session
      /\ memory'.next = memory.next + Len(es)
      /\ memory'.last = es[Len(es)].at /\ memory'.resumeFrom = memory.resumeFrom
      /\ \A i \in 1..Len(es) : /\ es[i].session = memory.session
                               /\ memory.last <= es[i].at /\ es[i].at <= es[Len(es)].at
  BY WriteEventsSays
<1> HIDE DEF es
<1>4. /\ db \in Archive /\ memory.session = l /\ l \in DOMAIN db.sessions /\ db.sessions # <<>>
      /\ memory.last = LastObserved(db) /\ memory.next = Len(db.events) + 1
      /\ Len(db.events) \in Nat /\ Active(Newest(db)) /\ SessionsOf(db) /\ BridgesOf(db)
  BY <1>1, LivingSession, ArchiveTypes DEF IInv, Types, Numbering, Living
<1>5. \A t \in ObservedTimes(db) : t <= es[Len(es)].at
  <2>1. /\ LastObserved(db) \in Nat /\ ObservedTimes(db) \subseteq Nat
        /\ \A t \in ObservedTimes(db) : t <= LastObserved(db)
    BY <1>4, LastObservedSays, TimesTypes
  <2>2. Len(es) \in 1..Len(es)
    BY <1>2
  <2>3. es[Len(es)] \in Row
    BY <1>2, <2>2
  <2>4. es[Len(es)].at \in Nat /\ memory.last <= es[Len(es)].at
    BY <1>3, <2>2, <2>3, RowTypes
  <2> QED BY <1>4, <2>1, <2>4
<1>6. /\ db' \in Archive /\ db'.sessions = db.sessions /\ db'.checkpoints = db.checkpoints
      /\ Len(db'.events) = Len(db.events) + Len(es)
  BY <1>2, <1>3, <1>4, AppendedRows
<1>7. /\ LastObserved(db') = es[Len(es)].at
      /\ HasEventsIn(db', l)
      /\ \A s : HasEventsIn(db, s) => HasEventsIn(db', s)
      /\ \A t \in ObservedTimes(db') : t \in ObservedTimes(db) \/ \E j \in 1..Len(es) : t = es[j].at
      /\ LogOf(db) \subseteq LogOf(db')
      /\ \A k \in Nat : k > Len(db.events) /\ k <= Len(db.events) + Len(es)
              => <<l, k>> \in LogOf(db')
      /\ \A y \in LogOf(db') : y \in LogOf(db) \/ y[1] = l
  BY <1>2, <1>3, <1>4, <1>5, AppendedSays
<1>8. SessionsOf(db') /\ BridgesOf(db')
  BY <1>2, <1>3, <1>4, <1>5, AppendedKeeps
<1>9. Types'
  BY <1>1, <1>3, <1>6 DEF IInv, Types
<1>10. Numbering'
  <2>1. Numberings(Pending', memory.next + EventCount(work.cmds), next) # {}
    BY WrittenNumbers
  <2>2. memory'.next = Len(db'.events) + 1
    BY <1>2, <1>3, <1>4, <1>6
  <2>3. Numberings(Pending, memory.next, next)' # {}
    BY <1>1, <1>2, <1>3, <2>1
  <2> QED BY <1>3, <1>7, <2>2, <2>3 DEF Numbering
<1>11. Answers'
  <2>1. refused \cap LogOf(db') = {}
    <3>1. \A x \in refused : x \notin LogOf(db) /\ x[1] < l /\ l \in Nat
      BY <1>1, <1>4, ArchiveTypes DEF IInv, Answers
    <3> QED BY <1>7, <3>1
  <2>2. Ids(work.cmds)' = Ids(work.cmds)
    BY <1>1, <1>3 DEF Ids
  <2>3. Ids(work.cmds) \subseteq LogOf(db')
    <3> SUFFICES ASSUME NEW x \in Ids(work.cmds) PROVE x \in LogOf(db')
      OBVIOUS
    <3>1. PICK k \in Nat : x = <<l, k>> /\ k > Len(db.events) /\ k <= Len(db.events) + Len(es)
      BY <1>2, <1>4, WrittenNumbers
    <3> QED BY <1>7, <3>1
  <2>4. done \subseteq LogOf(db')
    BY <1>7 DEF IInv, Answers
  <2>5. /\ \A x \in refused' : x[1] <= Len(db'.sessions)
        /\ \A x \in refused' : x[1] < memory'.session
    BY <1>1, <1>3, <1>6 DEF IInv, Answers
  <2> QED BY <1>1, <2>1, <2>2, <2>3, <2>4, <2>5 DEF Answers
<1>12. Living'
  <2>1. \A t \in ObservedTimes(db') : t <= clock
    BY <1>1, <1>2, <1>7 DEF IInv, Living
  <2>2. Newest(db') = Newest(db) /\ Len(db'.sessions) = l
    BY <1>6 DEF Newest
  <2>3. Newest(db').start <= clock
    BY <1>1, <2>2 DEF IInv, Living
  <2>4. recorder \in {"resumed", "bridging"} => l > 1
    BY <1>1 DEF IInv, Living
  <2>5. l > 1 => /\ memory'.resumeFrom = db'.sessions[l - 1].end
                 /\ memory'.resumeFrom <= MaxTime
    BY <1>1, <1>3, <1>6 DEF IInv, Living
  <2> QED BY <1>1, <1>3, <1>4, <1>7, <2>1, <2>2, <2>3, <2>4, <2>5 DEF IInv, Living
<1>13. Waiting'
  <2> SUFFICES ASSUME NEW i \in DOMAIN Pending'
               PROVE  Fits(Pending'[i], db', clock)
    BY <1>1, <1>6, <1>7 DEF Waiting
  <2>1. Len(work.cmds) + i \in DOMAIN Pending /\ Pending[Len(work.cmds) + i] = Pending'[i]
    BY <1>1
  <2>2. Fits(Pending'[i], db, clock)
    BY <1>1, <2>1 DEF IInv, Waiting
  <2> QED BY <1>6, <2>2 DEF Fits, Newest
<1> QED BY <1>1, <1>8, <1>9, <1>10, <1>11, <1>12, <1>13 DEF IInv

(* A write of no events leaves the numbers, and the log, as they are. *)
LEMMA QuietWriteSays ==
  ASSUME IInv, Write, Head(work.cmds).op \notin {"events", "open"}
  PROVE  /\ Ids(work.cmds) = {}
         /\ Numberings(Pending', memory.next, next) # {}
         /\ 1 \in DOMAIN Pending /\ Pending[1] = Head(work.cmds)
<1> DEFINE c == Head(work.cmds)
<1>1. /\ c \in Asked /\ work.cmds = <<c>> /\ Pending = work.cmds \o Pending'
      /\ Pending' \in Seq(Asked)
  BY WriteSays, BusyMeans
<1>2. c \in Command /\ c.events = <<>>
  BY <1>1, AskedTypes
<1>3. EventCount(work.cmds) = Len(c.events)
  BY <1>1, <1>2, SingleCommand
<1>4. EventCount(work.cmds) = 0
  BY <1>2, <1>3
<1>5. \A x \in Ids(work.cmds) : FALSE
  <2> SUFFICES ASSUME NEW x \in Ids(work.cmds) PROVE FALSE
    OBVIOUS
  <2>1. Len(db.events) \in Nat
    BY ArchiveTypes DEF IInv, Types
  <2>2. PICK k \in Nat : k > Len(db.events) /\ k <= Len(db.events) + 0
    BY <1>4, WrittenNumbers
  <2> QED BY <2>1, <2>2
<1>6. Numberings(Pending', memory.next, next) # {}
  <2>1. memory.next \in Nat /\ memory.next + 0 = memory.next
    BY DEF IInv, Types, Memory
  <2> QED BY <1>4, <2>1, WrittenNumbers
<1>7. 1 \in DOMAIN Pending /\ Pending[1] = c
  BY <1>1
<1> QED BY <1>5, <1>6, <1>7

LEMMA QuietWriteKeeps ==
  ASSUME IInv, Write, Head(work.cmds).op \notin {"events", "open"},
         db' \in Archive, SessionsOf(db'), BridgesOf(db'),
         memory' \in Memory, memory'.session = memory.session, memory'.next = memory.next,
         memory'.resumeFrom = memory.resumeFrom, memory'.last = LastObserved(db'),
         Len(db'.events) = Len(db.events), LogOf(db') = LogOf(db),
         \A s : HasEventsIn(db', s) <=> HasEventsIn(db, s),
         \A t \in ObservedTimes(db') : t <= clock,
         Len(db'.sessions) = Len(db.sessions), Newest(db').start = Newest(db).start,
         \A s \in DOMAIN db.sessions : s # Len(db.sessions) => db'.sessions[s] = db.sessions[s],
         Head(work.cmds).op # "stop" => Active(Newest(db'))
  PROVE  IInv'
<1> DEFINE l == Len(db.sessions)
<1>1. /\ clock' = clock /\ recorder' = recorder /\ next' = next /\ queue' = queue
      /\ failure' = failure /\ done' = done /\ refused' = refused
      /\ work.step = "writing" /\ work'.step = "written"
      /\ work'.cmds = work.cmds /\ work'.then = work.then
      /\ work' \in [step : {"idle", "writing", "written", "rejected", "closing", "ended"},
                    cmds : Seq(Asked), then : Asked \cup {NoCommand}]
      /\ Alive /\ Alive' /\ Control' /\ ~failure
      /\ Pending' \in Seq(Asked) /\ Pending = work.cmds \o Pending'
      /\ work.cmds \in Seq(Asked)
  BY WriteSays, BusyMeans
<1>2. Ids(work.cmds) = {} /\ Numberings(Pending', memory.next, next) # {}
  BY QuietWriteSays
<1>3. Types'
  BY <1>1 DEF IInv, Types
<1>4. Numbering'
  <2>1. memory.next = Len(db.events) + 1
    BY <1>1 DEF IInv, Numbering
  <2>2. Numberings(Pending, memory.next, next)' # {}
    BY <1>1, <1>2
  <2> QED BY <2>1, <2>2 DEF Numbering
<1>5. Answers'
  <2>1. Ids(work.cmds)' = Ids(work.cmds)
    BY <1>1 DEF Ids
  <2> QED BY <1>1, <1>2, <2>1 DEF IInv, Answers
<1>6. l > 1 => db'.sessions[l - 1] = db.sessions[l - 1]
  <2> SUFFICES ASSUME l > 1 PROVE db'.sessions[l - 1] = db.sessions[l - 1]
    OBVIOUS
  <2>1. l \in Nat /\ DOMAIN db.sessions = 1..l
    BY ArchiveTypes DEF IInv, Types
  <2>2. l - 1 \in DOMAIN db.sessions /\ l - 1 # l
    BY <2>1
  <2> QED BY <2>2
<1>7. Living'
  BY <1>1, <1>6 DEF IInv, Living
<1>8. Waiting'
  <2> SUFFICES ASSUME NEW i \in DOMAIN Pending'
               PROVE  /\ Fits(Pending'[i], db', clock)
                      /\ l > 1 /\ ~HasEventsIn(db, l) => Bridging(Pending'[i], db')
    BY <1>1 DEF Waiting
  <2>1. Len(work.cmds) + i \in DOMAIN Pending /\ Pending[Len(work.cmds) + i] = Pending'[i]
    BY <1>1
  <2>2. /\ Fits(Pending'[i], db, clock)
        /\ l > 1 /\ ~HasEventsIn(db, l) => Bridging(Pending'[i], db)
    BY <1>1, <2>1 DEF IInv, Waiting
  <2>3. Fits(Pending'[i], db', clock)
    BY <2>2 DEF Fits
  <2>4. l > 1 /\ Bridging(Pending'[i], db) => Bridging(Pending'[i], db')
    BY <1>6 DEF Bridging, BridgeGap
  <2> QED BY <2>2, <2>3, <2>4
<1> QED BY <1>1, <1>3, <1>4, <1>5, <1>7, <1>8 DEF IInv

(* A gap that is closed keeps all but its end. *)
LEMMA ClosedGapSays ==
  ASSUME NEW d \in Archive, NEW g \in Nat, NEW x \in 0..MaxTime, NEW D,
         D = [d EXCEPT !.events[g].end = x]
  PROVE  /\ D \in Archive /\ D.sessions = d.sessions /\ D.checkpoints = d.checkpoints
         /\ Len(D.events) = Len(d.events) /\ DOMAIN D.events = DOMAIN d.events
         /\ \A i \in DOMAIN d.events :
              /\ D.events[i].session = d.events[i].session /\ D.events[i].at = d.events[i].at
              /\ D.events[i].kind = d.events[i].kind
              /\ i # g => D.events[i] = d.events[i]
<1> DEFINE es == [d.events EXCEPT ![g].end = x]
<1>1. d.events \in Seq(Row) /\ DOMAIN d.events = 1..Len(d.events) /\ Len(d.events) \in Nat
  BY ArchiveTypes
<1>2. x \in 0..Forever
  BY WriterAssumption, ArchiveAssumption
<1>3. ASSUME NEW i \in 1..Len(d.events)
      PROVE  /\ es[i] \in Row /\ es[i].session = d.events[i].session
             /\ es[i].at = d.events[i].at /\ es[i].kind = d.events[i].kind
             /\ i # g => es[i] = d.events[i]
  <2>1. d.events[i] \in Row
    BY <1>1
  <2>2. CASE i = g
    <3>1. es[i] = [d.events[i] EXCEPT !.end = x]
      BY <1>1, <2>2
    <3> QED BY <1>2, <2>1, <2>2, <3>1 DEF Row
  <2>3. CASE i # g
    BY <1>1, <2>1, <2>3
  <2> QED BY <2>2, <2>3
<1>4. es \in Seq(Row) /\ Len(es) = Len(d.events) /\ DOMAIN es = 1..Len(d.events)
  <2>1. DOMAIN es = 1..Len(d.events)
    BY <1>1
  <2>2. es = [i \in 1..Len(d.events) |-> es[i]]
    BY <1>1
  <2>3. \A i \in 1..Len(d.events) : es[i] \in Row
    BY <1>3
  <2> HIDE DEF es
  <2>4. es \in [1..Len(d.events) -> Row]
    BY <2>2, <2>3, Zenon
  <2>5. es \in Seq(Row)
    BY <1>1, <2>4
  <2> QED BY <1>1, <2>1, <2>5
<1>5. D.events = es /\ D.sessions = d.sessions /\ D.checkpoints = d.checkpoints
  BY DEF Archive
<1>6. D = [sessions |-> d.sessions, events |-> es, checkpoints |-> d.checkpoints]
  BY DEF Archive
<1> HIDE DEF es
<1>7. D \in Archive
  <2>1. d.sessions \in Seq(Session) /\ d.checkpoints \in SUBSET CheckpointRow
    BY ArchiveTypes
  <2> QED BY ONLY <1>4, <1>6, <2>1 DEF Archive
<1> QED BY <1>1, <1>3, <1>4, <1>5, <1>7

LEMMA WriteCloseKeeps ==
  ASSUME IInv, Write, Head(work.cmds).op = "close"
  PROVE  IInv'
<1> DEFINE c == Head(work.cmds)
<1>1. db.events[c.gap].end = Forever /\ db' = [db EXCEPT !.events[c.gap].end = c.at]
      /\ memory' = memory
  <2>1. Accepts(work.cmds) /\ Transact(work.cmds)
    BY DEF Write
  <2> QED BY <2>1 DEF Accepts, Transact
<1>2. c \in Asked /\ Alive
  BY WriteSays, BusyMeans
<1>3. c.gap \in Nat /\ c.at \in 0..MaxTime
  BY <1>2, AskedTypes
<1>4. /\ db \in Archive /\ memory \in Memory /\ memory.last = LastObserved(db)
      /\ SessionsOf(db) /\ BridgesOf(db) /\ \A t \in ObservedTimes(db) : t <= clock
      /\ Active(Newest(db))
  BY <1>2, WriteSays DEF IInv, Types, Numbering, Living
<1> HIDE DEF c
<1>5. /\ db' \in Archive /\ db'.sessions = db.sessions /\ db'.checkpoints = db.checkpoints
      /\ Len(db'.events) = Len(db.events) /\ DOMAIN db'.events = DOMAIN db.events
      /\ \A i \in DOMAIN db.events :
           /\ db'.events[i].session = db.events[i].session /\ db'.events[i].at = db.events[i].at
           /\ db'.events[i].kind = db.events[i].kind
           /\ i # c.gap => db'.events[i] = db.events[i]
  BY <1>1, <1>3, <1>4, ClosedGapSays
<1>6. ObservedTimes(db') = ObservedTimes(db)
  BY <1>5 DEF ObservedTimes
<1>7. \A s : SessionTimes(db', s) = SessionTimes(db, s)
  BY <1>5 DEF SessionTimes
<1>8. LogOf(db') = LogOf(db) /\ (\A s : HasEventsIn(db', s) <=> HasEventsIn(db, s))
  BY <1>5 DEF LogOf, HasEventsIn
<1>9. SessionsOf(db')
  BY <1>4, <1>5, <1>7 DEF SessionsOf
<1>10. BridgesOf(db')
  <2> SUFFICES ASSUME NEW s \in 2..Len(db.sessions), NEW i \in DOMAIN db.events,
                      db.events[i].session = s,
                      \A j \in DOMAIN db.events : db.events[j].session = s => i <= j
               PROVE  BridgeGap(db', db'.events[i], s)
    BY <1>5 DEF BridgesOf
  <2>1. BridgeGap(db, db.events[i], s)
    BY <1>4 DEF BridgesOf
  <2>2. db.events[i].end # Forever
    <3>1. db.events[i].at \in Nat /\ db.events[i].at <= MaxTime
      BY <1>4, ArchiveTypes, RowTypes, WriterAssumption
    <3>2. MaxTime < Forever /\ MaxTime \in Nat /\ Forever \in Nat
      BY WriterAssumption, ArchiveAssumption
    <3>3. db.events[i].end = db.events[i].at
      BY <2>1 DEF BridgeGap
    <3> QED BY <3>1, <3>2, <3>3
  <2>3. db'.events[i] = db.events[i]
    BY <1>1, <1>5, <2>2
  <2> QED BY <1>5, <2>1, <2>3 DEF BridgeGap
<1>11. Newest(db') = Newest(db) /\ LastObserved(db') = LastObserved(db)
  BY <1>5, <1>6 DEF Newest, LastObserved
<1>12. c.op \notin {"events", "open"}
  BY DEF c
<1> QED BY <1>1, <1>4, <1>5, <1>6, <1>8, <1>9, <1>10, <1>11, <1>12, QuietWriteKeeps DEF c

LEMMA WriteCheckpointKeeps ==
  ASSUME IInv, Write, Head(work.cmds).op = "checkpoint"
  PROVE  IInv'
<1> DEFINE c == Head(work.cmds)
           last == GreatestOf({r.at : r \in c.rows})
           l == Len(db.sessions)
<1>1. /\ CheckpointsAllowed(db, memory, c.rows)
      /\ db' = [db EXCEPT !.checkpoints = @ \cup c.rows]
      /\ memory' = [memory EXCEPT !.last = last]
  <2>1. Accepts(work.cmds) /\ Transact(work.cmds)
    BY DEF Write
  <2> QED BY <2>1 DEF Accepts, Transact
<1>2. /\ c \in Asked /\ Alive /\ 1 \in DOMAIN Pending /\ Pending[1] = c
      /\ c.rows \subseteq CheckpointRow /\ c.rows # {}
  BY WriteSays, BusyMeans, QuietWriteSays, AskedTypes
<1>3. /\ db \in Archive /\ memory \in Memory /\ memory.last = LastObserved(db)
      /\ SessionsOf(db) /\ BridgesOf(db) /\ \A t \in ObservedTimes(db) : t <= clock
      /\ Active(Newest(db)) /\ memory.session = l /\ l \in DOMAIN db.sessions
  BY <1>2, WriteSays, LivingSession DEF IInv, Types, Numbering, Living
<1>4. Fits(c, db, clock)
  BY <1>2 DEF IInv, Waiting
<1>5. \A r \in c.rows : /\ r.session = l /\ LastObserved(db) <= r.at
                        /\ Newest(db).start <= r.at /\ r.at <= clock
                        /\ r.at \in 1..MaxTime /\ r.at \in Nat /\ r \in CheckpointRow
  BY <1>1, <1>2, <1>3, <1>4, CheckpointTypes DEF CheckpointsAllowed, Fits
<1>6. \E r \in c.rows : r.at = last /\ \A q \in c.rows : q.at <= last
  <2>1. {r.at : r \in c.rows} \subseteq 0..MaxTime /\ {r.at : r \in c.rows} # {}
    <3>1. MaxTime \in Nat
      BY WriterAssumption
    <3> QED BY <1>2, <1>5, <3>1
  <2>2. MaxTime \in Nat
    BY WriterAssumption
  <2>3. last \in {r.at : r \in c.rows} /\ \A y \in {r.at : r \in c.rows} : y <= last
    BY <2>1, <2>2, GreatestExists
  <2> QED BY <2>3
<1> HIDE DEF c, last, l
<1>7. /\ db'.sessions = db.sessions /\ db'.events = db.events
      /\ db'.checkpoints = db.checkpoints \cup c.rows /\ db' \in Archive
  <2>1. db.checkpoints \cup c.rows \in SUBSET CheckpointRow
    BY <1>2, <1>3, ArchiveTypes
  <2> QED BY <1>1, <1>3, <2>1 DEF Archive
<1>8. \A t : t \in ObservedTimes(db') <=> t \in ObservedTimes(db) \/ \E r \in c.rows : t = r.at
  BY <1>7 DEF ObservedTimes
<1>9. LastObserved(db') = last
  <2>1. last \in ObservedTimes(db')
    BY <1>6, <1>8
  <2>2. ASSUME NEW t \in ObservedTimes(db') PROVE t <= last
    <3>1. CASE t \in ObservedTimes(db)
      <4>1. PICK r \in c.rows : r.at = last
        BY <1>6
      <4>2. t \in Nat /\ LastObserved(db) \in Nat /\ t <= LastObserved(db)
        BY <1>3, <3>1, LastObservedSays, TimesTypes
      <4> QED BY <1>5, <4>1, <4>2
    <3>2. CASE \E r \in c.rows : t = r.at
      BY <1>6, <3>2
    <3> QED BY <1>8, <3>1, <3>2
  <2> QED BY <1>7, <2>1, <2>2, LastObservedIs
<1>10. memory' \in Memory /\ memory'.session = memory.session /\ memory'.next = memory.next
       /\ memory'.resumeFrom = memory.resumeFrom /\ memory'.last = LastObserved(db')
  <2>1. last \in Nat
    BY <1>5, <1>6
  <2> QED BY <1>1, <1>3, <1>9, <2>1 DEF Memory
<1>11. \A t \in ObservedTimes(db') : t <= clock
  BY <1>3, <1>5, <1>8
<1>12. /\ LogOf(db') = LogOf(db) /\ (\A s : HasEventsIn(db', s) <=> HasEventsIn(db, s))
       /\ Newest(db') = Newest(db)
  BY <1>7 DEF LogOf, HasEventsIn, Newest
<1>13. BridgesOf(db')
  BY <1>3, <1>7 DEF BridgesOf, BridgeGap
<1>14. SessionsOf(db')
  <2>1. \A r \in db'.checkpoints : r.session \in 1..Len(db.sessions)
    <3>1. l \in 1..Len(db.sessions)
      BY <1>3, ArchiveTypes
    <3> QED BY <1>3, <1>5, <1>7, <3>1 DEF SessionsOf
  <2>2. ASSUME NEW s \in DOMAIN db.sessions, NEW t \in SessionTimes(db', s)
        PROVE  db.sessions[s].start <= t /\ t <= db.sessions[s].end
    <3>1. CASE t \in SessionTimes(db, s)
      BY <1>3, <3>1 DEF SessionsOf
    <3>2. CASE t \notin SessionTimes(db, s)
      <4>1. PICK r \in c.rows : r.session = s /\ t = r.at
        BY <1>7, <3>2, TimeOf DEF SessionTimes
      <4>2. s = l /\ db.sessions[s] = Newest(db)
        BY <1>5, <4>1 DEF Newest, l
      <4>3. db.sessions[s].end = Forever
        BY <1>3, <4>2 DEF SessionsOf
      <4>4. MaxTime < Forever /\ MaxTime \in Nat /\ Forever \in Nat
        BY WriterAssumption, ArchiveAssumption
      <4>5. t \in Nat /\ t <= MaxTime /\ Newest(db).start <= t
        BY <1>5, <4>1, <4>4
      <4> QED BY <4>2, <4>3, <4>4, <4>5
    <3> QED BY <3>1, <3>2
  <2> QED BY <1>3, <1>7, <2>1, <2>2 DEF SessionsOf
<1>15. c.op \notin {"events", "open"}
  BY DEF c
<1> QED BY <1>3, <1>7, <1>10, <1>11, <1>12, <1>13, <1>14, <1>15, QuietWriteKeeps DEF c

LEMMA WriteStopKeeps ==
  ASSUME IInv, Write, Head(work.cmds).op = "stop"
  PROVE  IInv'
<1> DEFINE c == Head(work.cmds)
<1>1. db' = Closed(db, memory, c.clean, clock) /\ memory' = memory
  <2>1. Transact(work.cmds)
    BY DEF Write
  <2> QED BY <2>1 DEF Transact
<1>2. c \in Asked /\ Alive
  BY WriteSays, BusyMeans
<1>3. c.clean \in BOOLEAN
  BY <1>2, AskedTypes
<1>4. /\ memory \in Memory /\ memory.last = LastObserved(db)
      /\ \A t \in ObservedTimes(db) : t <= clock
  BY <1>2, WriteSays DEF IInv, Types, Numbering, Living
<1> HIDE DEF c
<1>5. /\ db' \in Archive /\ SessionsOf(db') /\ BridgesOf(db')
      /\ db'.events = db.events /\ db'.checkpoints = db.checkpoints
      /\ Len(db'.sessions) = Len(db.sessions) /\ Newest(db').start = Newest(db).start
      /\ \A s \in DOMAIN db.sessions : s # Len(db.sessions) => db'.sessions[s] = db.sessions[s]
  BY <1>1, <1>2, <1>3, ClosedSays
<1>6. /\ ObservedTimes(db') = ObservedTimes(db) /\ LogOf(db') = LogOf(db)
      /\ \A s : HasEventsIn(db', s) <=> HasEventsIn(db, s)
  BY <1>5 DEF ObservedTimes, LogOf, HasEventsIn
<1>7. LastObserved(db') = LastObserved(db)
  BY <1>6 DEF LastObserved
<1>8. c.op = "stop"
  BY DEF c
<1> QED BY <1>1, <1>4, <1>5, <1>6, <1>7, <1>8, QuietWriteKeeps DEF c

LEMMA WriteKeeps ==
  ASSUME IInv, Write
  PROVE  IInv'
<1>1. Head(work.cmds) \in Asked
  BY WriteSays, BusyMeans
<1>2. Head(work.cmds).op \in {"events", "open", "close", "checkpoint", "stop"}
  BY <1>1, AskedTypes
<1> QED BY <1>2, WriteEventsKeeps, WriteCloseKeeps, WriteCheckpointKeeps, WriteStopKeeps

LEMMA InitIsGood ==
  ASSUME Init
  PROVE  IInv
<1>1. /\ db = EmptyArchive /\ clock = 1 /\ recorder = "down" /\ memory = Forgotten /\ next = 1
      /\ queue = <<>> /\ work = Idle /\ failure = FALSE /\ done = {} /\ refused = {}
  BY DEF Init
<1>2. db.sessions = <<>> /\ db.events = <<>> /\ db.checkpoints = {} /\ db \in Archive
  BY <1>1 DEF EmptyArchive, Archive
<1>3. work.step = "idle" /\ work.cmds = <<>> /\ work.then = NoCommand
  BY <1>1 DEF Idle
<1>4. Types
  <2>1. memory \in Memory
    BY <1>1 DEF Forgotten, Memory
  <2>2. QueueSize \in Nat /\ 1 \in 1..MaxTime
    BY WriterAssumption
  <2>3. work \in [step : {"idle", "writing", "written", "rejected", "closing", "ended"},
                  cmds : Seq(Asked), then : Asked \cup {NoCommand}]
    BY <1>1 DEF Idle
  <2>4. queue \in Seq(Asked) /\ Len(queue) <= QueueSize
    BY <1>1, <2>2
  <2>5. clock \in 1..MaxTime /\ next \in Nat \ {0}
    BY <1>1, <2>2
  <2>6. failure \in BOOLEAN /\ refused \subseteq Nat \X Nat
    BY <1>1
  <2> QED BY <1>1, <1>2, <2>1, <2>3, <2>4, <2>5, <2>6 DEF Types
<1>5. ~Alive /\ ~Busy /\ NoCommand.op = "none"
  BY <1>1, <1>3, NoCommandType DEF Alive, Busy
<1>6. Control
  BY <1>1, <1>3, <1>5 DEF Control
<1>7. Numbering /\ Living /\ Waiting
  BY <1>5 DEF Numbering, Living, Waiting
<1>8. Answers
  BY <1>1, <1>5 DEF Answers
<1>9. SessionsOf(db)
  <2>1. Len(db.sessions) = 0 /\ DOMAIN db.sessions = {} /\ DOMAIN db.events = {} /\ 2..0 = {}
    BY <1>2
  <2>2. MaxSessions \in Nat /\ 0 <= MaxSessions
    BY WriterAssumption
  <2> QED BY <1>2, <2>1, <2>2 DEF SessionsOf
<1>10. BridgesOf(db)
  <2>1. DOMAIN db.events = {}
    BY <1>2
  <2> QED BY <2>1 DEF BridgesOf
<1> QED BY <1>4, <1>6, <1>7, <1>8, <1>9, <1>10 DEF IInv

LEMMA StutterKeeps ==
  ASSUME IInv, UNCHANGED vars
  PROVE  IInv'
<1>1. /\ db' = db /\ clock' = clock /\ recorder' = recorder /\ memory' = memory /\ next' = next
      /\ queue' = queue /\ work' = work /\ failure' = failure /\ done' = done
      /\ refused' = refused
  BY DEF vars
<1>2. Pending' = Pending /\ Ids(work.cmds)' = Ids(work.cmds)
  BY <1>1 DEF Pending, Ids
<1>3. Busy' = Busy /\ Alive' = Alive /\ Stopping' = Stopping
  BY <1>1 DEF Busy, Alive, Stopping
<1>4. Types' /\ Control'
  BY <1>1, <1>3 DEF IInv, Types, Control
<1>5. Numbering'
  BY <1>1, <1>2, <1>3 DEF IInv, Numbering
<1>6. Answers' /\ Living' /\ Waiting'
  BY <1>1, <1>2, <1>3 DEF IInv, Answers, Living, Waiting
<1> QED BY <1>1, <1>4, <1>5, <1>6 DEF IInv

LEMMA StepKeeps ==
  ASSUME IInv, [Next]_vars
  PROVE  IInv'
<1>1. CASE Create \/ Resume \/ LeaseForReplay
  BY <1>1, CreateKeeps, ResumeKeeps, LeaseKeeps
<1>2. CASE Callers
  BY <1>2, RecordMarketKeeps, RecordResolutionKeeps, OpenGapKeeps, CloseGapKeeps, CheckpointKeeps
     DEF Callers
<1>3. CASE Service
  <2>1. BridgeFails => Exits
    BY DEF BridgeFails
  <2>2. Stopped => Exits
    BY DEF Stopped
  <2> QED BY <1>3, <2>1, <2>2, BridgeKeeps, BridgedKeeps, PutStopKeeps, ExitsKeeps DEF Service
<1>4. CASE Stop \/ Tick
  BY <1>4, StopKeeps, TickKeeps
<1>5. CASE Processor
  BY <1>5, TakeKeeps, WriteKeeps, WriteFailsKeeps, AnswerKeeps, AnswerErrorKeeps, CloseFailedKeeps
     DEF Processor
<1>6. CASE Crash
  BY <1>6, ExitsKeeps DEF Crash
<1>7. CASE UNCHANGED vars
  BY <1>7, StutterKeeps
<1> QED BY <1>1, <1>2, <1>3, <1>4, <1>5, <1>6, <1>7 DEF Next

(* The archive, what the recorder remembers of it and what waits for it agree in   *)
(* every state that crashes, resumes, leases and failed transactions lead to.      *)
THEOREM RecordingInvariant == Spec => []IInv
<1>1. Init => IInv
  BY InitIsGood
<1>2. IInv /\ [Next]_vars => IInv'
  BY StepKeeps
<1> QED BY <1>1, <1>2, PTL DEF Spec

-----------------------------------------------------------------------------
(* What follows from the invariant *)

(* Who waits for the writer waits for a command that it will answer, or for its    *)
(* end: a stop put while the writer was failing is not left in a queue nobody      *)
(* reads (AsyncRecordingWriter.stop).                                              *)
THEOREM NobodyIsLeftWaiting == Spec => []NobodyWaitsInVain
<1>1. IInv => NobodyWaitsInVain
  <2> SUFFICES ASSUME IInv PROVE NobodyWaitsInVain
    OBVIOUS
  <2>1. Types /\ Control /\ queue \in Seq(Asked)
    BY DEF IInv, Types
  <2>2. ASSUME recorder # "joining", failure \/ work.step = "ended"
        PROVE  \A op : ~Unanswered(op)
    <3>1. queue = <<>> /\ ~Busy
      BY <2>1, <2>2 DEF Control, Busy
    <3>2. work.then = NoCommand /\ NoCommand.op = "none" /\ work.step \notin {"writing", "rejected"}
      BY <2>1, <3>1, NoCommandType DEF Control, Busy
    <3>3. Pending = (<<>> \o <<>>) \o <<>>
      BY <3>1, <3>2 DEF Pending
    <3>4. DOMAIN Pending = {}
      BY <3>3
    <3> QED BY <3>4 DEF Unanswered
  <2>3. recorder = "joining" => failure /\ work.step \in {"closing", "ended"}
    BY <2>1 DEF Control
  <2> QED BY <2>2, <2>3 DEF NobodyWaitsInVain
<1> QED BY <1>1, RecordingInvariant, PTL

LEMMA InvariantNumbers ==
  ASSUME IInv
  PROVE  ArchiveNumbered
<1>1. Types /\ Control
  BY DEF IInv
<1>2. db.events \in Seq(Row) /\ Len(queue) <= QueueSize
  BY <1>1, ArchiveTypes DEF Types
<1>3. /\ recorder \in {"down", "resumed", "bridging", "recording", "putting", "stopping", "joining"}
      /\ work.step \in {"idle", "writing", "written", "rejected", "closing", "ended"}
  BY <1>1, WorkTypes DEF Types
<1>4. ASSUME recorder # "down", ~failure
      PROVE  /\ memory.next = LastSequence(db) + 1 /\ memory.last = LastObserved(db)
             /\ \A i \in DOMAIN Pending : Pending[i].events # <<>> =>
                  Pending[i].first = memory.next + EventCount(SubSeq(Pending, 1, i - 1))
             /\ next = memory.next + EventCount(Pending)
  <2>1. /\ memory.next = Len(db.events) + 1 /\ memory.last = LastObserved(db)
        /\ Numberings(Pending, memory.next, next) # {}
    BY <1>4 DEF IInv, Numbering, Alive
  <2>2. memory.next \in Nat /\ next \in Nat /\ Pending \in Seq(Command) /\ Len(Pending) \in Nat
    BY <1>1, PendingTypes DEF Types, Memory
  <2>3. PICK r : r \in Numberings(Pending, memory.next, next)
    BY <2>1
  <2>4. ASSUME NEW i \in DOMAIN Pending, Pending[i].events # <<>>
        PROVE  Pending[i].first = memory.next + EventCount(SubSeq(Pending, 1, i - 1))
    <3>1. i \in 1..Len(Pending)
      BY <2>2
    <3>2. i - 1 \in 0..Len(Pending) /\ Pending[i].first = r[i - 1]
      BY <2>2, <2>3, <2>4, <3>1, NumberingStep
    <3>3. r[i - 1] = memory.next + EventCount(SubSeq(Pending, 1, i - 1))
      BY <2>2, <2>3, <3>2, NumberFirst
    <3> QED BY <3>2, <3>3
  <2>5. next = memory.next + EventCount(Pending)
    <3>1. Len(Pending) \in 0..Len(Pending)
      BY <2>2
    <3>2. r[Len(Pending)] = memory.next + EventCount(SubSeq(Pending, 1, Len(Pending)))
      BY <2>2, <2>3, <3>1, NumberFirst
    <3>3. r[Len(Pending)] = next
      BY <2>3 DEF Numberings
    <3>4. SubSeq(Pending, 1, Len(Pending)) = Pending
      <4>1. /\ SubSeq(Pending, 1, Len(Pending)) \in Seq(Command)
            /\ Len(SubSeq(Pending, 1, Len(Pending))) = Len(Pending)
            /\ \A i \in 1..Len(Pending) : SubSeq(Pending, 1, Len(Pending))[i] = Pending[i]
        BY <2>2, <3>1, SubSeqCommands
      <4> QED BY <2>2, <4>1, SameSequence
    <3> QED BY <3>2, <3>3, <3>4
  <2> QED BY <2>1, <2>4, <2>5 DEF LastSequence
<1> QED BY <1>2, <1>3, <1>4 DEF ArchiveNumbered

LEMMA InvariantBridges ==
  ASSUME IInv
  PROVE  OutagesAreGaps
<1>1. db \in Archive /\ SessionsOf(db) /\ BridgesOf(db)
  BY DEF IInv, Types
<1>2. ASSUME NEW s \in 2..Len(db.sessions), HasEvents(s)
      PROVE  LET g == db.events[FirstEvent(s)] IN
             /\ IsGap(g) /\ IsGlobal(g)
             /\ g.start = db.sessions[s - 1].end /\ g.end = g.at
  <2> DEFINE E == {i \in DOMAIN db.events : db.events[i].session = s}
             f == FirstEvent(s)
  <2>1. E # {}
    BY <1>2 DEF HasEvents
  <2>2. E \subseteq Nat
    BY <1>1, ArchiveTypes
  <2>3. f = LeastOf(E)
    BY DEF FirstEvent
  <2> HIDE DEF f
  <2>4. f \in E /\ \A j \in E : f <= j
    <3> HIDE DEF E
    <3> QED BY <2>1, <2>2, <2>3, LeastExists
  <2>5. BridgeGap(db, db.events[f], s)
    BY <1>1, <2>4 DEF BridgesOf
  <2> QED BY <2>5 DEF BridgeGap, f
<1> QED BY <1>1, <1>2 DEF OutagesAreGaps, SessionsOf

(* The archive's rows, what the writer remembers of them and what waits for it are *)
(* one numbered history, and what a crash or a stop leaves out of it is a gap that *)
(* says so, whatever the interleaving of callers, processor, crashes and resumes   *)
(* (RecordingArchive, RecordingCommandProcessor, start_recording_session).         *)
THEOREM ArchiveStaysConsistent == Spec => []ArchiveConsistent
<1>1. IInv => ArchiveConsistent
  BY InvariantNumbers, InvariantBridges DEF ArchiveConsistent
<1> QED BY <1>1, RecordingInvariant, PTL

-----------------------------------------------------------------------------
(* The archive implements the durable log: every step adds to the log, answers, or *)
(* does neither.                                                                   *)

TheLog(d) == [i \in DOMAIN d.events |-> <<d.events[i].session, i>>]

LEMMA LogIs ==
  ASSUME NEW d \in Archive
  PROVE  /\ TheLog(d) \in Seq(Nat \X Nat) /\ Len(TheLog(d)) = Len(d.events)
         /\ DOMAIN TheLog(d) = DOMAIN d.events
         /\ \A i \in DOMAIN d.events : TheLog(d)[i] = <<d.events[i].session, i>>
         /\ \A a, b \in DOMAIN TheLog(d) : TheLog(d)[a] = TheLog(d)[b] => a = b
         /\ {TheLog(d)[i] : i \in DOMAIN TheLog(d)} = LogOf(d)
<1> DEFINE L == TheLog(d)
           n == Len(d.events)
<1>1. n \in Nat /\ DOMAIN d.events = 1..n /\ \A i \in 1..n : d.events[i].session \in Nat
  BY ArchiveTypes, RowTypes
<1>2. L = [i \in 1..n |-> <<d.events[i].session, i>>]
  BY <1>1 DEF TheLog
<1>3. DOMAIN L = 1..n /\ \A i \in 1..n : L[i] = <<d.events[i].session, i>>
  BY <1>2
<1>4. L \in Seq(Nat \X Nat) /\ Len(L) = n
  <2>1. \A i \in 1..n : <<d.events[i].session, i>> \in Nat \X Nat
    BY <1>1
  <2> HIDE DEF L, n
  <2> QED BY <1>1, <1>2, <2>1
<1> HIDE DEF L
<1>5. \A a, b \in DOMAIN L : L[a] = L[b] => a = b
  BY <1>3
<1>6. {L[i] : i \in DOMAIN L} = LogOf(d)
  BY <1>1, <1>3 DEF LogOf
<1> QED BY <1>1, <1>3, <1>4, <1>5, <1>6 DEF L

LEMMA SameLog ==
  ASSUME NEW d \in Archive, NEW e \in Archive, DOMAIN d.events = DOMAIN e.events,
         \A i \in DOMAIN d.events : e.events[i].session = d.events[i].session
  PROVE  TheLog(e) = TheLog(d)
BY DEF TheLog

(* A transaction of events is a commit. *)
LEMMA CommitStep ==
  ASSUME IInv, IInv', Write, Head(work.cmds).op \in {"events", "open"}
  PROVE  /\ Len(TheLog(db')) > Len(TheLog(db))
         /\ SubSeq(TheLog(db'), 1, Len(TheLog(db))) = TheLog(db)
         /\ \A a, b \in DOMAIN TheLog(db') : TheLog(db')[a] = TheLog(db')[b] => a = b
         /\ {TheLog(db')[i] : i \in DOMAIN TheLog(db')} \cap refused = {}
         /\ done' = done /\ refused' = refused
<1> DEFINE es == EventsOf(work.cmds)
           n == Len(db.events)
<1>1. db \in Archive /\ db' \in Archive /\ n \in Nat
  BY ArchiveTypes DEF IInv, Types
<1>2. es \in Seq(Row) /\ es # <<>> /\ db' = Appended(db, es)
  BY WrittenEvents, WriteEventsSays
<1> HIDE DEF es
<1>3. /\ Len(db'.events) = n + Len(es)
      /\ \A i \in DOMAIN db.events : i \in DOMAIN db'.events /\ db'.events[i] = db.events[i]
  BY <1>1, <1>2, AppendedRows
<1>4. Len(es) \in Nat /\ Len(es) > 0
  BY <1>2
<1> DEFINE L == TheLog(db)
           M == TheLog(db')
<1>5. /\ L \in Seq(Nat \X Nat) /\ Len(L) = n /\ DOMAIN L = DOMAIN db.events /\ DOMAIN L = 1..n
      /\ M \in Seq(Nat \X Nat) /\ Len(M) = n + Len(es)
      /\ \A i \in 1..n : M[i] = L[i]
  <2>1. DOMAIN db.events = 1..n
    BY <1>1, ArchiveTypes
  <2>2. /\ L \in Seq(Nat \X Nat) /\ Len(L) = n /\ DOMAIN L = DOMAIN db.events
        /\ \A i \in DOMAIN db.events : L[i] = <<db.events[i].session, i>>
    BY <1>1, LogIs
  <2>3. /\ M \in Seq(Nat \X Nat) /\ Len(M) = Len(db'.events)
        /\ \A i \in DOMAIN db'.events : M[i] = <<db'.events[i].session, i>>
    BY <1>1, LogIs
  <2> QED BY <1>3, <2>1, <2>2, <2>3
<1>6. /\ \A a, b \in DOMAIN M : M[a] = M[b] => a = b
      /\ {M[i] : i \in DOMAIN M} = LogOf(db')
  BY <1>1, LogIs
<1>7. done' = done /\ refused' = refused
  BY WriteSays
<1>8. LogOf(db') \cap refused = {}
  BY <1>7 DEF IInv, Answers
<1> HIDE DEF L, M, n
<1>9. SubSeq(M, 1, n) = L
  <2>1. n \in 0..Len(M)
    BY <1>1, <1>4, <1>5
  <2>2. /\ SubSeq(M, 1, n) \in Seq(Nat \X Nat) /\ Len(SubSeq(M, 1, n)) = n
        /\ \A i \in 1..n : SubSeq(M, 1, n)[i] = M[i]
    BY <1>1, <1>5, <2>1
  <2> QED BY <1>5, <2>2, SameSequence
<1> QED BY <1>1, <1>4, <1>5, <1>6, <1>7, <1>8, <1>9 DEF L, M

(* Every other step leaves the log as it is. *)
LEMMA QuietStep ==
  ASSUME IInv, IInv', [Next]_vars, ~(Write /\ Head(work.cmds).op \in {"events", "open"})
  PROVE  TheLog(db') = TheLog(db)
<1>1. db \in Archive /\ db' \in Archive
  BY DEF IInv, Types
<1>2. ASSUME db'.events = db.events PROVE TheLog(db') = TheLog(db)
  BY <1>2 DEF TheLog
<1>3. CASE Create
  BY <1>1, <1>2, <1>3 DEF Create, Opens, WithSession, Archive
<1>4. CASE Resume
  <2>1. PICK start : Opens(start)
    BY <1>4 DEF Resume
  <2> QED BY <1>1, <1>2, <2>1 DEF Opens, WithSession, Archive
<1>5. CASE LeaseForReplay
  BY <1>1, <1>2, <1>5 DEF LeaseForReplay, Recovered, Archive
<1>6. CASE Callers
  BY <1>2, <1>6 DEF Callers, RecordMarket, RecordResolution, OpenGap, CloseGap, Checkpoint, Records
<1>7. CASE Service
  BY <1>2, <1>7 DEF Service, Bridge, Bridged, BridgeFails, PutStop, Stopped, Records, Exits
<1>8. CASE Stop \/ Tick \/ Crash
  BY <1>2, <1>8 DEF Stop, Tick, Crash, Exits
<1>9. CASE Take \/ WriteFails \/ Answer \/ AnswerError
  BY <1>2, <1>9 DEF Take, WriteFails, Answer, AnswerError
<1>10. CASE CloseFailed
  BY <1>1, <1>2, <1>10 DEF CloseFailed, Closed, Archive
<1>11. CASE Write
  <2> DEFINE c == Head(work.cmds)
  <2>1. c \in Asked
    BY <1>11, WriteSays, BusyMeans
  <2>2. c.op \in {"close", "checkpoint", "stop"} /\ c.gap \in Nat /\ c.at \in 0..MaxTime
    BY <1>11, <2>1, AskedTypes
  <2>3. Transact(work.cmds)
    BY <1>11 DEF Write
  <2>4. CASE c.op = "close"
    <3>1. db' = [db EXCEPT !.events[c.gap].end = c.at]
      BY <2>3, <2>4 DEF Transact
    <3> HIDE DEF c
    <3>2. /\ DOMAIN db'.events = DOMAIN db.events
          /\ \A i \in DOMAIN db.events : db'.events[i].session = db.events[i].session
      BY <1>1, <2>2, <3>1, ClosedGapSays
    <3> QED BY <1>1, <3>2, SameLog
  <2>5. CASE c.op = "checkpoint"
    <3>1. db' = [db EXCEPT !.checkpoints = @ \cup c.rows]
      BY <2>3, <2>5 DEF Transact
    <3> QED BY <1>1, <1>2, <3>1 DEF Archive
  <2>6. CASE c.op = "stop"
    <3>1. db' = Closed(db, memory, c.clean, clock)
      BY <2>3, <2>6 DEF Transact
    <3> QED BY <1>1, <1>2, <3>1 DEF Closed, Archive
  <2> QED BY <2>2, <2>4, <2>5, <2>6
<1>12. CASE UNCHANGED vars
  BY <1>2, <1>12 DEF vars
<1> QED BY <1>3, <1>4, <1>5, <1>6, <1>7, <1>8, <1>9, <1>10, <1>11, <1>12 DEF Next, Processor

(* What is answered is in the log, what is refused is not. *)
LEMMA AnswersStep ==
  ASSUME IInv, IInv', [Next]_vars, ~(Write /\ Head(work.cmds).op \in {"events", "open"})
  PROVE  \/ done \subseteq done' /\ done' \subseteq LogOf(db) /\ refused' = refused
         \/ refused \subseteq refused' /\ refused' \cap LogOf(db) = {} /\ done' = done
<1>1. {TheLog(db)[i] : i \in DOMAIN TheLog(db)} = LogOf(db)
  BY LogIs DEF IInv, Types
<1>2. {TheLog(db')[i] : i \in DOMAIN TheLog(db')} = LogOf(db')
  BY LogIs DEF IInv, Types
<1>3. LogOf(db') = LogOf(db)
  BY <1>1, <1>2, QuietStep
<1>4. done' \subseteq LogOf(db) /\ refused' \cap LogOf(db) = {}
  BY <1>3 DEF IInv, Answers
<1>5. CASE Answer
  BY <1>4, <1>5 DEF Answer
<1>6. CASE AnswerError
  BY <1>4, <1>6 DEF AnswerError
<1>7. CASE done' = done /\ refused' = refused
  BY <1>4, <1>7
<1>8. CASE Create
  BY <1>7, <1>8 DEF Create, Opens, answers
<1>9. CASE Resume
  BY <1>7, <1>9 DEF Resume, Opens, answers
<1>10. CASE LeaseForReplay \/ Stop \/ Tick \/ Crash
  BY <1>7, <1>10 DEF LeaseForReplay, Stop, Tick, Crash, Exits, answers
<1>11. CASE Callers
  BY <1>7, <1>11
     DEF Callers, RecordMarket, RecordResolution, OpenGap, CloseGap, Checkpoint, Records, answers
<1>12. CASE Service
  BY <1>7, <1>12
     DEF Service, Bridge, Bridged, BridgeFails, PutStop, Stopped, Records, Exits, answers
<1>13. CASE Take \/ WriteFails \/ CloseFailed \/ Write
  BY <1>7, <1>13 DEF Take, WriteFails, CloseFailed, Write, answers
<1>14. CASE UNCHANGED vars
  BY <1>7, <1>14 DEF vars
<1> QED BY <1>5, <1>6, <1>8, <1>9, <1>10, <1>11, <1>12, <1>13, <1>14 DEF Next, Processor

(* The archive, over crashes, resumes and replay leases, is the durable log that   *)
(* DurableLog specifies: what was acknowledged is in it, in the order it was given *)
(* numbers in, and what was refused never gets there (RecordingCommandProcessor,   *)
(* RecordingArchive.append_events).                                                *)
THEOREM ArchiveIsADurableLog == Spec => ImplementsDurableLog
<1>1. Init => Durable!Init
  <2> SUFFICES ASSUME Init PROVE Durable!Init
    OBVIOUS
  <2>1. db.events = <<>> /\ done = {} /\ refused = {}
    BY DEF Init, EmptyArchive
  <2>2. [i \in DOMAIN db.events |-> <<db.events[i].session, i>>] = <<>>
    BY <2>1
  <2> QED BY <2>1, <2>2 DEF Durable!Init
<1>2. IInv /\ IInv' /\ [Next]_vars => [Durable!Next]_Durable!vars
  <2> SUFFICES ASSUME IInv, IInv', [Next]_vars PROVE [Durable!Next]_Durable!vars
    OBVIOUS
  <2> DEFINE L == [i \in DOMAIN db.events |-> <<db.events[i].session, i>>]
             M == [i \in DOMAIN db'.events |-> <<db'.events[i].session, i>>]
  <2>1. TheLog(db) = L /\ TheLog(db') = M
    BY DEF TheLog
  <2>2. CASE Write /\ Head(work.cmds).op \in {"events", "open"}
    <3> HIDE DEF L, M
    <3>1. /\ Len(M) > Len(L) /\ SubSeq(M, 1, Len(L)) = L
          /\ done' = done /\ refused' = refused
      BY <2>1, <2>2, CommitStep
    <3>2. /\ \A a, b \in DOMAIN M : M[a] = M[b] => a = b
          /\ {M[i] : i \in DOMAIN M} \cap refused = {}
      BY <2>1, <2>2, CommitStep
    <3>3. Durable!IsInjective(M) /\ Durable!Range(M) \cap refused = {}
      BY <3>2 DEF Durable!IsInjective, Durable!Range
    <3> USE DEF L, M
    <3>4. Durable!Commit
      BY ONLY <3>1, <3>3, Zenon DEF Durable!Commit
    <3> QED BY <3>4 DEF Durable!Next
  <2>3. CASE ~(Write /\ Head(work.cmds).op \in {"events", "open"})
    <3>1. TheLog(db') = TheLog(db)
      BY <2>3, QuietStep
    <3>2. {TheLog(db)[i] : i \in DOMAIN TheLog(db)} = LogOf(db)
      BY LogIs DEF IInv, Types
    <3> HIDE DEF L, M
    <3>3. M = L /\ Durable!Range(L) = LogOf(db)
      BY <2>1, <3>1, <3>2 DEF Durable!Range
    <3>4. \/ done \subseteq done' /\ done' \subseteq Durable!Range(L) /\ refused' = refused
          \/ refused \subseteq refused' /\ refused' \cap Durable!Range(L) = {} /\ done' = done
      BY <2>3, <3>3, AnswersStep
    <3> USE DEF L, M
    <3>5. Durable!Acknowledge \/ Durable!Refuse
      BY ONLY <3>3, <3>4, Zenon DEF Durable!Acknowledge, Durable!Refuse
    <3> QED BY <3>5 DEF Durable!Next
  <2> QED BY <2>2, <2>3
<1> QED BY <1>1, <1>2, RecordingInvariant, PTL DEF Spec, ImplementsDurableLog, Durable!Spec
=============================================================================
