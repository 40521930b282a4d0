------------------------- MODULE StreamMergerProofs -------------------------
(* Proofs about the merger of a run's event sources, for every value of the *)
(* constants.                                                                *)
EXTENDS StreamMerger, TLAPS, FiniteSetTheorems, SequenceTheorems

(* How many entries of a queue belong to a set. *)
Positions(q, S) == {i \in DOMAIN q : q[i] \in S}
Count(q, S) == Cardinality(Positions(q, S))

LEMMA CountType ==
  ASSUME NEW E, NEW q \in Seq(E), NEW S
  PROVE  /\ IsFiniteSet(Positions(q, S)) /\ Count(q, S) \in Nat
         /\ Count(q, S) = 0 <=> \A i \in DOMAIN q : q[i] \notin S
<1>1. IsFiniteSet(1..Len(q)) /\ DOMAIN q = 1..Len(q)
  BY FS_Interval
<1>2. IsFiniteSet(Positions(q, S))
  BY <1>1, FS_Subset DEF Positions
<1>3. Count(q, S) \in Nat /\ (Count(q, S) = 0 <=> Positions(q, S) = {})
  BY <1>2, FS_CardinalityType, FS_EmptySet DEF Count
<1>4. QED
  BY <1>2, <1>3 DEF Positions

(* One entry more behind the others. *)
LEMMA CountAppend ==
  ASSUME NEW E, NEW q \in Seq(E), NEW x \in E, NEW S
  PROVE  Count(Append(q, x), S) = Count(q, S) + (IF x \in S THEN 1 ELSE 0)
<1> DEFINE n == Len(q)
<1>1. /\ n \in Nat /\ DOMAIN q = 1..n /\ DOMAIN Append(q, x) = 1..(n + 1)
      /\ \A i \in 1..n : Append(q, x)[i] = q[i]
      /\ Append(q, x)[n + 1] = x
  OBVIOUS
<1>2. 1..(n + 1) = (1..n) \cup {n + 1} /\ n + 1 \notin 1..n
  BY <1>1
<1>3. IsFiniteSet(Positions(q, S)) /\ n + 1 \notin Positions(q, S)
  BY <1>1, <1>2, CountType DEF Positions
<1>4. Positions(Append(q, x), S)
        = IF x \in S THEN Positions(q, S) \cup {n + 1} ELSE Positions(q, S)
  BY <1>1, <1>2 DEF Positions
<1>5. Cardinality(Positions(q, S) \cup {n + 1}) = Cardinality(Positions(q, S)) + 1
  BY <1>3, FS_AddElement
<1>6. Cardinality(Positions(q, S)) \in Nat
  BY <1>3, FS_CardinalityType
<1>7. QED
  BY <1>4, <1>5, <1>6 DEF Count

(* One entry less at the front. *)
LEMMA CountTail ==
  ASSUME NEW E, NEW q \in Seq(E), q # <<>>, NEW S
  PROVE  Count(q, S) = Count(Tail(q), S) + (IF Head(q) \in S THEN 1 ELSE 0)
<1> DEFINE n == Len(q)
           r == Tail(q)
<1>1. /\ n \in Nat \ {0} /\ DOMAIN q = 1..n /\ DOMAIN r = 1..(n - 1)
      /\ \A i \in 1..(n - 1) : r[i] = q[i + 1]
      /\ r \in Seq(E) /\ Head(q) = q[1]
  OBVIOUS
<1>2. IsFiniteSet(Positions(r, S)) /\ IsFiniteSet(Positions(q, S))
  BY <1>1, CountType
<1> DEFINE later == Positions(q, S) \ {1}
           f == [i \in Positions(r, S) |-> i + 1]
<1>3. f \in Bijection(Positions(r, S), later)
  <2>1. f \in [Positions(r, S) -> later]
    BY <1>1 DEF Positions
  <2>2. \A i, j \in Positions(r, S) : f[i] = f[j] => i = j
    BY <1>1 DEF Positions
  <2>3. \A k \in later : \E i \in Positions(r, S) : f[i] = k
    <3> SUFFICES ASSUME NEW k \in later PROVE \E i \in Positions(r, S) : f[i] = k
      OBVIOUS
    <3>1. k \in 2..n /\ q[k] \in S
      BY <1>1 DEF Positions
    <3>2. k - 1 \in Positions(r, S)
      BY <1>1, <3>1 DEF Positions
    <3>3. f[k - 1] = k
      BY <3>1, <3>2
    <3>4. QED
      BY <3>2, <3>3
  <2>4. QED
    BY <2>1, <2>2, <2>3 DEF Bijection, Injection, Surjection, IsInjective
<1>4. Cardinality(later) = Cardinality(Positions(r, S))
  BY <1>2, <1>3, FS_Bijection DEF ExistsBijection
<1>5. Cardinality(later) = IF 1 \in Positions(q, S) THEN Cardinality(Positions(q, S)) - 1
                           ELSE Cardinality(Positions(q, S))
  BY <1>2, FS_RemoveElement
<1>6. 1 \in Positions(q, S) <=> Head(q) \in S
  BY <1>1 DEF Positions
<1>7. Cardinality(Positions(q, S)) \in Nat /\ Cardinality(Positions(r, S)) \in Nat
  BY <1>2, FS_CardinalityType
<1>8. QED
  BY <1>4, <1>5, <1>6, <1>7 DEF Count

-----------------------------------------------------------------------------
(* The entries of the queue *)

Marker(t) == [kind |-> "marker", token |-> t]
Hint(m) == [kind |-> "hint", market |-> m]
GapsOn(m) == {[kind |-> "gap", markets |-> ms] : ms \in {x \in SUBSET Conditions : m \in x}}
Failure == [kind |-> "failure"]
Completion(s) == [kind |-> "completed", source |-> s]
Lossless == {[kind |-> "lossless", source |-> s] : s \in Primaries}
Completions == {Completion(s) : s \in Primaries}

Entries ==
  {Marker(t) : t \in Tokens} \cup {Hint(m) : m \in Conditions}
    \cup [kind : {"gap"}, markets : SUBSET Conditions]
    \cup [kind : {"lossless", "completed"}, source : Sources] \cup {Failure}

MergerTypeOK ==
  /\ queue \in Seq(Entries)
  /\ pendingBooks \in [Tokens -> [serial : Nat, epoch : Nat]]
  /\ staleMarkers \in [Tokens -> Nat]
  /\ pendingHints \subseteq Conditions
  /\ completed \in Nat /\ resolutionCompleted \in 0..1
  /\ running \subseteq Sources
  /\ ended \in {"no", "stopped", "failed", "closed"}
  /\ ended # "no" => running = {}
  /\ received \in 0..MaxEvents
  /\ newest \in [Tokens -> Nat]
  /\ gapsSeen \in [Conditions -> Nat] /\ gapsDelivered \in [Conditions -> Nat]
  /\ owed \in Int

LEMMA MergerTypeInitially == Init => MergerTypeOK
BY MergerAssumption DEF Init, MergerTypeOK, None

(* What a taken entry leaves in the queue. *)
LEMMA TakesType ==
  ASSUME MergerTypeOK, NEW kind, Takes(kind)
  PROVE  /\ queue' \in Seq(Entries) /\ Head(queue) \in Entries /\ Head(queue).kind = kind
         /\ queue # <<>> /\ queue' = Tail(queue) /\ ended = "no"
BY DEF MergerTypeOK, Takes, Iterating

(* A source leaves its completion, behind its failure if there is one. *)
LEMMA EndOfSource ==
  ASSUME queue \in Seq(Entries), NEW s \in Sources, SourceEnds(s)
  PROVE  /\ Completion(s) \in Entries /\ Failure \in Entries
         /\ \E q \in Seq(Entries) : /\ q = queue \/ q = Append(queue, Failure)
                                  /\ queue' = Append(q, Completion(s))
<1>1. Completion(s) \in Entries /\ Failure \in Entries
  BY DEF Entries, Completion
<1>2. PICK last \in {<<>>, <<Failure>>} : queue' = queue \o last \o <<Completion(s)>>
  BY DEF SourceEnds, Completion, Failure
<1>3. CASE last = <<>>
  BY <1>1, <1>2, <1>3, AppendIsConcat, ConcatEmptySeq
<1>4. CASE last = <<Failure>>
  <2>1. queue \o last = Append(queue, Failure) /\ queue \o last \in Seq(Entries)
    BY <1>1, <1>4, AppendIsConcat
  <2>2. QED
    BY <1>1, <1>2, <2>1, AppendIsConcat
<1>5. QED
  BY <1>1, <1>2, <1>3, <1>4

LEMMA MergerTypeStep ==
  ASSUME MergerTypeOK, [Next]_vars
  PROVE  MergerTypeOK'
<1> USE MergerAssumption DEF MergerTypeOK
<1>1. ASSUME NEW t \in Tokens, ReceiveBook(t) PROVE MergerTypeOK'
  <2>1. Marker(t) \in Entries
    BY DEF Entries
  <2>2. ended = "no" /\ received' = received + 1 /\ received' \in 0..MaxEvents
    BY <1>1 DEF ReceiveBook, Yields
  <2>3. queue' \in Seq(Entries)
    BY <1>1, <2>1 DEF ReceiveBook, Marker
  <2>4. [serial |-> received', epoch |-> gapsSeen[ConditionOf[t]]] \in [serial : Nat, epoch : Nat]
    BY <2>2
  <2>5. pendingBooks' \in [Tokens -> [serial : Nat, epoch : Nat]]
    BY <1>1, <2>4 DEF ReceiveBook
  <2>6. newest' \in [Tokens -> Nat]
    BY <1>1, <2>2 DEF ReceiveBook
  <2>7. QED
    BY <1>1, <2>2, <2>3, <2>5, <2>6 DEF ReceiveBook, Yields, endVars
<1>2. ASSUME NEW ms \in SUBSET Conditions, ReceiveGap(ms) PROVE MergerTypeOK'
  <2>1. [kind |-> "gap", markets |-> ms] \in Entries
    BY DEF Entries
  <2>2. ended = "no" /\ received' = received + 1 /\ received' \in 0..MaxEvents
    BY <1>2 DEF ReceiveGap, Yields
  <2>3. queue' \in Seq(Entries)
    BY <1>2, <2>1 DEF ReceiveGap
  <2>4. /\ pendingBooks' \in [Tokens -> [serial : Nat, epoch : Nat]]
        /\ staleMarkers' \in [Tokens -> Nat] /\ gapsSeen' \in [Conditions -> Nat]
    BY <1>2 DEF ReceiveGap, None
  <2>5. QED
    BY <1>2, <2>2, <2>3, <2>4 DEF ReceiveGap, Yields, endVars
<1>3. ASSUME NEW m \in Conditions, ReceiveHint(m) PROVE MergerTypeOK'
  <2>1. Hint(m) \in Entries
    BY DEF Entries
  <2>2. queue' \in Seq(Entries)
    BY <1>3, <2>1 DEF ReceiveHint, Hint
  <2>3. QED
    BY <1>3, <2>2 DEF ReceiveHint, Yields, endVars
<1>4. ASSUME NEW s \in Sources, ReceiveLossless(s) PROVE MergerTypeOK'
  <2>1. [kind |-> "lossless", source |-> s] \in Entries
    BY DEF Entries
  <2>2. queue' \in Seq(Entries)
    BY <1>4, <2>1 DEF ReceiveLossless
  <2>3. QED
    BY <1>4, <2>2 DEF ReceiveLossless, Yields, endVars
<1>5. ASSUME NEW s \in Sources, SourceEnds(s) PROVE MergerTypeOK'
  <2>1. Completion(s) \in Entries /\ \E q \in Seq(Entries) : queue' = Append(q, Completion(s))
    BY <1>5, EndOfSource
  <2>2. queue' \in Seq(Entries)
    BY <2>1
  <2>3. QED
    BY <1>5, <2>2 DEF SourceEnds, historyVars
<1>6. CASE CountCompletion
  <2>1. ended = "no" /\ queue' \in Seq(Entries)
    BY <1>6, TakesType DEF CountCompletion
  <2>2. completed' \in Nat /\ resolutionCompleted' \in 0..1
    <3>1. CASE Head(queue).source \in Primaries
      BY <1>6, <3>1 DEF CountCompletion
    <3>2. CASE Head(queue).source \notin Primaries /\ ~ResolutionOnly
      BY <1>6, <3>2 DEF CountCompletion
    <3>3. CASE Head(queue).source \notin Primaries /\ ResolutionOnly
      <4>1. Cardinality(Primaries) = 0
        BY <3>3, FS_EmptySet DEF ResolutionOnly
      <4>2. resolutionCompleted = 0
        BY <1>6, <4>1 DEF CountCompletion, Takes, Iterating
      <4>3. QED
        BY <1>6, <3>3, <4>2 DEF CountCompletion
    <3>4. QED
      BY <3>1, <3>2, <3>3
  <2>3. QED
    BY <1>6, <2>1, <2>2 DEF CountCompletion, historyVars
<1>7. CASE RaiseFailure
  BY <1>7, TakesType DEF RaiseFailure, End, historyVars
<1>8. CASE SkipMarker
  <2>1. queue' \in Seq(Entries) /\ ended = "no"
    BY <1>8, TakesType DEF SkipMarker
  <2>2. staleMarkers' \in [Tokens -> Nat]
    <3>1. PICK t : staleMarkers' = [staleMarkers EXCEPT ![t] = IF @ > 0 THEN @ - 1 ELSE @]
      BY <1>8 DEF SkipMarker
    <3>2. ASSUME NEW u \in Tokens PROVE staleMarkers'[u] \in Nat
      BY <3>1
    <3>3. QED
      BY <3>1, <3>2
  <2>3. QED
    BY <1>8, <2>1, <2>2 DEF SkipMarker, endVars, historyVars
<1>9. CASE DeliverBook
  <2>1. queue' \in Seq(Entries) /\ ended = "no"
    BY <1>9, TakesType DEF DeliverBook
  <2>2. pendingBooks' \in [Tokens -> [serial : Nat, epoch : Nat]]
    BY <1>9 DEF DeliverBook, None
  <2>3. QED
    BY <1>9, <2>1, <2>2 DEF DeliverBook, endVars, historyVars
<1>10. CASE DeliverGap
  <2>1. queue' \in Seq(Entries)
    BY <1>10, TakesType DEF DeliverGap
  <2>2. gapsDelivered' \in [Conditions -> Nat]
    BY <1>10 DEF DeliverGap
  <2>3. QED
    BY <1>10, <2>1, <2>2 DEF DeliverGap, endVars
<1>11. CASE DeliverHint
  <2>1. queue' \in Seq(Entries)
    BY <1>11, TakesType DEF DeliverHint
  <2>2. QED
    BY <1>11, <2>1 DEF DeliverHint, endVars, historyVars
<1>12. CASE DeliverLossless
  <2>1. queue' \in Seq(Entries)
    BY <1>12, TakesType DEF DeliverLossless
  <2>2. QED
    BY <1>12, <2>1 DEF DeliverLossless, endVars
<1>13. CASE StopIterating \/ CloseEarly
  BY <1>13 DEF StopIterating, CloseEarly, End, queueVars, historyVars
<1>14. CASE UNCHANGED vars
  BY <1>14 DEF vars, queueVars, endVars, historyVars
<1>15. QED
  BY <1>1, <1>2, <1>3, <1>4, <1>5, <1>6, <1>7, <1>8, <1>9, <1>10, <1>11, <1>12, <1>13, <1>14
  DEF Next, Source, Iterate

-----------------------------------------------------------------------------
(* Counting the entries of each kind *)

LEMMA EntryKinds ==
  ASSUME NEW x \in Entries
  PROVE  /\ \A t \in Tokens : x = Marker(t) <=> x.kind = "marker" /\ x.token = t
         /\ \A m \in Conditions : x = Hint(m) <=> x.kind = "hint" /\ x.market = m
         /\ \A m \in Conditions : x \in GapsOn(m) <=> x.kind = "gap" /\ m \in x.markets
         /\ x \in Lossless <=> x.kind = "lossless" /\ x.source \in Primaries
         /\ x \in Completions <=> x.kind = "completed" /\ x.source \in Primaries
         /\ x.kind = "marker" => x.token \in Tokens
         /\ x.kind = "hint" => x.market \in Conditions
         /\ x.kind = "gap" => x.markets \subseteq Conditions
         /\ x.kind \in {"lossless", "completed"} => x.source \in Sources
<1>1. \A m : x \in GapsOn(m) => x.kind = "gap" /\ m \in x.markets
  BY DEF GapsOn
<1>2. x \in Lossless => x.kind = "lossless" /\ x.source \in Primaries
  BY DEF Lossless
<1>3. x \in Completions => x.kind = "completed" /\ x.source \in Primaries
  BY DEF Completions, Completion
<1>4. \A t : Marker(t).kind = "marker" /\ Marker(t).token = t
  BY DEF Marker
<1>5. \A m : Hint(m).kind = "hint" /\ Hint(m).market = m
  BY DEF Hint
<1>6. CASE \E t \in Tokens : x = Marker(t)
  BY <1>1, <1>2, <1>3, <1>4, <1>5, <1>6
<1>7. CASE \E m \in Conditions : x = Hint(m)
  BY <1>1, <1>2, <1>3, <1>4, <1>5, <1>7
<1>8. CASE x \in [kind : {"gap"}, markets : SUBSET Conditions]
  <2>1. x.kind = "gap" /\ x.markets \in SUBSET Conditions
        /\ x = [kind |-> "gap", markets |-> x.markets]
    BY <1>8
  <2>2. \A m \in Conditions : m \in x.markets => x \in GapsOn(m)
    BY <2>1 DEF GapsOn
  <2>3. QED
    BY <1>1, <1>2, <1>3, <1>4, <1>5, <2>1, <2>2
<1>9. CASE x \in [kind : {"lossless", "completed"}, source : Sources]
  <2>1. /\ x.kind \in {"lossless", "completed"} /\ x.source \in Sources
        /\ x = [kind |-> x.kind, source |-> x.source]
    BY <1>9
  <2>2. x.kind = "lossless" /\ x.source \in Primaries => x \in Lossless
    BY <2>1 DEF Lossless
  <2>3. x.kind = "completed" /\ x.source \in Primaries => x \in Completions
    BY <2>1 DEF Completions, Completion
  <2>4. QED
    BY <1>1, <1>2, <1>3, <1>4, <1>5, <2>1, <2>2, <2>3
<1>10. CASE x = Failure
  <2>1. x.kind = "failure"
    BY <1>10 DEF Failure
  <2>2. QED
    BY <1>1, <1>2, <1>3, <1>4, <1>5, <2>1
<1>11. QED
  BY <1>6, <1>7, <1>8, <1>9, <1>10 DEF Entries

(* The counts of a queue q, and those of the queue with x before or behind it. *)
Adds(larger, q, x) ==
  /\ \A t \in Tokens :
       Count(larger, {Marker(t)}) = Count(q, {Marker(t)})
         + (IF x.kind = "marker" /\ x.token = t THEN 1 ELSE 0)
  /\ \A m \in Conditions :
       Count(larger, {Hint(m)}) = Count(q, {Hint(m)})
         + (IF x.kind = "hint" /\ x.market = m THEN 1 ELSE 0)
  /\ \A m \in Conditions :
       Count(larger, GapsOn(m)) = Count(q, GapsOn(m))
         + (IF x.kind = "gap" /\ m \in x.markets THEN 1 ELSE 0)
  /\ Count(larger, Lossless) = Count(q, Lossless)
       + (IF x.kind = "lossless" /\ x.source \in Primaries THEN 1 ELSE 0)
  /\ Count(larger, Completions) = Count(q, Completions)
       + (IF x.kind = "completed" /\ x.source \in Primaries THEN 1 ELSE 0)

LEMMA AppendAdds ==
  ASSUME NEW q \in Seq(Entries), NEW x \in Entries
  PROVE  Adds(Append(q, x), q, x)
<1>1. \A t \in Tokens : x \in {Marker(t)} <=> x.kind = "marker" /\ x.token = t
  BY EntryKinds
<1>2. \A m \in Conditions : x \in {Hint(m)} <=> x.kind = "hint" /\ x.market = m
  BY EntryKinds
<1>3. QED
  BY <1>1, <1>2, EntryKinds, CountAppend DEF Adds

LEMMA TailAdds ==
  ASSUME NEW q \in Seq(Entries), q # <<>>
  PROVE  Adds(q, Tail(q), Head(q))
<1>1. Head(q) \in Entries
  OBVIOUS
<1>2. \A t \in Tokens : Head(q) \in {Marker(t)} <=> Head(q).kind = "marker" /\ Head(q).token = t
  BY <1>1, EntryKinds
<1>3. \A m \in Conditions : Head(q) \in {Hint(m)} <=> Head(q).kind = "hint" /\ Head(q).market = m
  BY <1>1, EntryKinds
<1>4. QED
  BY <1>1, <1>2, <1>3, EntryKinds, CountTail DEF Adds

(* Counts are natural numbers. *)
LEMMA CountsAreNat ==
  ASSUME NEW q \in Seq(Entries)
  PROVE  /\ \A t : Count(q, {Marker(t)}) \in Nat
         /\ \A m : Count(q, {Hint(m)}) \in Nat /\ Count(q, GapsOn(m)) \in Nat
         /\ Count(q, Lossless) \in Nat /\ Count(q, Completions) \in Nat
BY CountType

(* An entry of one kind leaves the counts of the other kinds. *)
LEMMA AddsElsewhere ==
  ASSUME NEW q \in Seq(Entries), NEW larger, NEW x, Adds(larger, q, x)
  PROVE  /\ x.kind # "marker" =>
              \A t \in Tokens : Count(larger, {Marker(t)}) = Count(q, {Marker(t)})
         /\ x.kind # "hint" =>
              \A m \in Conditions : Count(larger, {Hint(m)}) = Count(q, {Hint(m)})
         /\ x.kind # "gap" =>
              \A m \in Conditions : Count(larger, GapsOn(m)) = Count(q, GapsOn(m))
         /\ x.kind # "lossless" => Count(larger, Lossless) = Count(q, Lossless)
         /\ x.kind # "completed" => Count(larger, Completions) = Count(q, Completions)
<1>1. ASSUME x.kind # "marker", NEW t \in Tokens
      PROVE  Count(larger, {Marker(t)}) = Count(q, {Marker(t)})
  <2>1. Count(larger, {Marker(t)}) = Count(q, {Marker(t)}) + 0
    BY <1>1 DEF Adds
  <2>2. Count(q, {Marker(t)}) \in Nat
    BY CountType
  <2>3. QED
    BY <2>1, <2>2
<1>2. ASSUME x.kind # "hint", NEW m \in Conditions
      PROVE  Count(larger, {Hint(m)}) = Count(q, {Hint(m)})
  <2>1. Count(larger, {Hint(m)}) = Count(q, {Hint(m)}) + 0
    BY <1>2 DEF Adds
  <2>2. Count(q, {Hint(m)}) \in Nat
    BY CountType
  <2>3. QED
    BY <2>1, <2>2
<1>3. ASSUME x.kind # "gap", NEW m \in Conditions
      PROVE  Count(larger, GapsOn(m)) = Count(q, GapsOn(m))
  <2>1. Count(larger, GapsOn(m)) = Count(q, GapsOn(m)) + 0
    BY <1>3 DEF Adds
  <2>2. Count(q, GapsOn(m)) \in Nat
    BY CountType
  <2>3. QED
    BY <2>1, <2>2
<1>4. ASSUME x.kind # "lossless" PROVE Count(larger, Lossless) = Count(q, Lossless)
  <2>1. Count(larger, Lossless) = Count(q, Lossless) + 0
    BY <1>4 DEF Adds
  <2>2. Count(q, Lossless) \in Nat
    BY CountType
  <2>3. QED
    BY <2>1, <2>2
<1>5. ASSUME x.kind # "completed" PROVE Count(larger, Completions) = Count(q, Completions)
  <2>1. Count(larger, Completions) = Count(q, Completions) + 0
    BY <1>5 DEF Adds
  <2>2. Count(q, Completions) \in Nat
    BY CountType
  <2>3. QED
    BY <2>1, <2>2
<1>6. QED
  BY <1>1, <1>2, <1>3, <1>4, <1>5

(* Every entry of G in the queue has an entry x behind it. *)
FollowedBy(q, G, x) ==
  \A j \in DOMAIN q : q[j] \in G => \E i \in DOMAIN q : j < i /\ q[i] = x

LEMMA FollowedByAppend ==
  ASSUME NEW q \in Seq(Entries), NEW y \in Entries, NEW G, NEW x, y \notin G,
         y = x \/ FollowedBy(q, G, x)
  PROVE  FollowedBy(Append(q, y), G, x)
<1> DEFINE n == Len(q)
<1>1. /\ n \in Nat /\ DOMAIN q = 1..n /\ DOMAIN Append(q, y) = 1..(n + 1)
      /\ \A i \in 1..n : Append(q, y)[i] = q[i]
      /\ Append(q, y)[n + 1] = y
  OBVIOUS
<1>2. SUFFICES ASSUME NEW j \in 1..(n + 1), Append(q, y)[j] \in G
               PROVE  \E i \in 1..(n + 1) : j < i /\ Append(q, y)[i] = x
  BY <1>1 DEF FollowedBy
<1>3. j \in 1..n /\ q[j] \in G
  BY <1>1, <1>2
<1>4. CASE y = x
  BY <1>1, <1>3, <1>4
<1>5. CASE FollowedBy(q, G, x)
  <2>1. PICK i \in 1..n : j < i /\ q[i] = x
    BY <1>1, <1>3, <1>5 DEF FollowedBy
  <2>2. QED
    BY <1>1, <2>1
<1>6. QED
  BY <1>4, <1>5

LEMMA FollowedByTail ==
  ASSUME NEW q \in Seq(Entries), q # <<>>, NEW G, NEW x, FollowedBy(q, G, x)
  PROVE  FollowedBy(Tail(q), G, x)
<1> DEFINE n == Len(q)
           r == Tail(q)
<1>1. /\ n \in Nat \ {0} /\ DOMAIN q = 1..n /\ DOMAIN r = 1..(n - 1)
      /\ \A i \in 1..(n - 1) : r[i] = q[i + 1]
  OBVIOUS
<1>2. SUFFICES ASSUME NEW j \in 1..(n - 1), r[j] \in G
               PROVE  \E i \in 1..(n - 1) : j < i /\ r[i] = x
  BY <1>1 DEF FollowedBy
<1>3. PICK i \in 1..n : j + 1 < i /\ q[i] = x
  BY <1>1, <1>2 DEF FollowedBy
<1>4. i - 1 \in 1..(n - 1) /\ r[i - 1] = q[i] /\ j < i - 1
  BY <1>1, <1>3
<1>5. QED
  BY <1>3, <1>4

-----------------------------------------------------------------------------
(* Books among gaps *)

HasBook(t) == pendingBooks[t] # None

(* Each waiting book has one live marker, each discarded one a counted marker. *)
MarkersCounted ==
  \A t \in Tokens :
    Count(queue, {Marker(t)}) = staleMarkers[t] + (IF HasBook(t) THEN 1 ELSE 0)

HintsCounted ==
  \A m \in Conditions : Count(queue, {Hint(m)}) = IF m \in pendingHints THEN 1 ELSE 0

(* The gaps of a condition are delivered or in the queue. *)
GapsCounted ==
  \A m \in Conditions : gapsDelivered[m] + Count(queue, GapsOn(m)) = gapsSeen[m]

(* A waiting book is the newest of its token and younger than every gap of its *)
(* market; its live marker is behind the gaps that are still in the queue.      *)
BooksAreYoung ==
  \A t \in Tokens : HasBook(t) =>
    /\ pendingBooks[t].serial = newest[t]
    /\ pendingBooks[t].epoch = gapsSeen[ConditionOf[t]]
    /\ FollowedBy(queue, GapsOn(ConditionOf[t]), Marker(t))

BookInv ==
  /\ MergerTypeOK /\ MarkersCounted /\ HintsCounted /\ GapsCounted /\ BooksAreYoung
  /\ BookKeepsItsPlaceAmongGaps

LEMMA BookInitially == Init => BookInv
<1> SUFFICES ASSUME Init PROVE BookInv
  OBVIOUS
<1>1. MergerTypeOK
  BY MergerTypeInitially
<1>2. \A S : Count(queue, S) = 0
  BY FS_EmptySet DEF Init, Count, Positions
<1>3. MarkersCounted /\ HintsCounted /\ GapsCounted /\ BooksAreYoung
  BY <1>2, MergerAssumption DEF Init, MarkersCounted, HintsCounted, GapsCounted, BooksAreYoung, HasBook
<1>4. BookKeepsItsPlaceAmongGaps
  BY DEF Init, BookKeepsItsPlaceAmongGaps
<1>5. QED
  BY <1>1, <1>3, <1>4 DEF BookInv

bookVars == <<pendingBooks, staleMarkers, pendingHints, newest, gapsSeen, gapsDelivered>>

(* Books, gaps and hints do not notice an entry of another kind. *)
SameBooks(a, b) ==
  /\ \A t \in Tokens : Count(a, {Marker(t)}) = Count(b, {Marker(t)})
  /\ \A m \in Conditions : Count(a, {Hint(m)}) = Count(b, {Hint(m)})
  /\ \A m \in Conditions : Count(a, GapsOn(m)) = Count(b, GapsOn(m))

KeepsPlaces(a, b) ==
  \A t \in Tokens : FollowedBy(a, GapsOn(ConditionOf[t]), Marker(t))
                     => FollowedBy(b, GapsOn(ConditionOf[t]), Marker(t))

Other(x) == x.kind \in {"failure", "completed", "lossless"}

LEMMA OtherAppended ==
  ASSUME NEW q \in Seq(Entries), NEW x \in Entries, Other(x)
  PROVE  SameBooks(Append(q, x), q) /\ KeepsPlaces(q, Append(q, x))
<1>1. x.kind # "marker" /\ x.kind # "hint" /\ x.kind # "gap"
  BY DEF Other
<1>2. SameBooks(Append(q, x), q)
  BY <1>1, AppendAdds, AddsElsewhere DEF SameBooks
<1>3. \A t \in Tokens : x \notin GapsOn(ConditionOf[t])
  BY <1>1, EntryKinds, MergerAssumption
<1>4. KeepsPlaces(q, Append(q, x))
  BY <1>3, FollowedByAppend DEF KeepsPlaces
<1>5. QED
  BY <1>2, <1>4

LEMMA OtherTaken ==
  ASSUME NEW q \in Seq(Entries), q # <<>>, Other(Head(q))
  PROVE  SameBooks(Tail(q), q) /\ KeepsPlaces(q, Tail(q))
<1>1. Head(q).kind # "marker" /\ Head(q).kind # "hint" /\ Head(q).kind # "gap"
  BY DEF Other
<1>2. Tail(q) \in Seq(Entries) /\ Adds(q, Tail(q), Head(q))
  BY TailAdds
<1>3. SameBooks(Tail(q), q)
  BY <1>1, <1>2, AddsElsewhere DEF SameBooks
<1>4. KeepsPlaces(q, Tail(q))
  BY FollowedByTail DEF KeepsPlaces
<1>5. QED
  BY <1>3, <1>4

LEMMA BooksUntouched ==
  ASSUME BookInv, MergerTypeOK', SameBooks(queue', queue), KeepsPlaces(queue, queue'),
         UNCHANGED bookVars, delivered' = delivered \/ delivered'.kind # "book"
  PROVE  BookInv'
<1>1. MarkersCounted' /\ HintsCounted' /\ GapsCounted'
  BY DEF BookInv, bookVars, SameBooks, MarkersCounted, HintsCounted, GapsCounted, HasBook
<1>2. BooksAreYoung'
  BY DEF BookInv, bookVars, KeepsPlaces, BooksAreYoung, HasBook
<1>3. BookKeepsItsPlaceAmongGaps'
  BY DEF BookInv, bookVars, BookKeepsItsPlaceAmongGaps
<1>4. QED
  BY <1>1, <1>2, <1>3 DEF BookInv

LEMMA BookReceived ==
  ASSUME BookInv, MergerTypeOK', NEW t \in Tokens, ReceiveBook(t)
  PROVE  BookInv'
<1> USE DEF BookInv
<1>1. /\ received' \in Nat /\ received' # 0
      /\ newest' = [newest EXCEPT ![t] = received']
      /\ pendingBooks' = [pendingBooks EXCEPT ![t] =
                            [serial |-> received', epoch |-> gapsSeen[ConditionOf[t]]]]
      /\ queue' = IF HasBook(t) THEN queue ELSE Append(queue, Marker(t))
      /\ UNCHANGED <<staleMarkers, pendingHints, gapsSeen, gapsDelivered, delivered>>
  BY DEF ReceiveBook, Yields, MergerTypeOK, HasBook, Marker
<1>2. queue \in Seq(Entries) /\ Marker(t) \in Entries /\ ConditionOf[t] \in Conditions
  BY MergerAssumption DEF MergerTypeOK, Entries
<1>3. /\ pendingBooks'[t].serial = received' /\ pendingBooks'[t].epoch = gapsSeen[ConditionOf[t]]
      /\ newest'[t] = received'
      /\ \A u \in Tokens \ {t} : pendingBooks'[u] = pendingBooks[u] /\ newest'[u] = newest[u]
  BY <1>1 DEF MergerTypeOK
<1>4. HasBook(t)' /\ \A u \in Tokens \ {t} : HasBook(u)' <=> HasBook(u)
  BY <1>1, <1>3 DEF HasBook, None
<1>5. Marker(t).kind = "marker" /\ Marker(t).token = t
  BY DEF Marker
<1>6. CASE HasBook(t)
  <2>1. MarkersCounted' /\ HintsCounted' /\ GapsCounted'
    BY <1>1, <1>4, <1>6 DEF MarkersCounted, HintsCounted, GapsCounted
  <2>2. BooksAreYoung'
    BY <1>1, <1>3, <1>4, <1>6 DEF BooksAreYoung
  <2>3. QED
    BY <1>1, <2>1, <2>2 DEF BookKeepsItsPlaceAmongGaps
<1>7. CASE ~HasBook(t)
  <2>1. queue' = Append(queue, Marker(t)) /\ Adds(queue', queue, Marker(t))
    BY <1>1, <1>2, <1>7, AppendAdds
  <2>2. MarkersCounted'
    <3>1. ASSUME NEW u \in Tokens
          PROVE  Count(queue', {Marker(u)}) = staleMarkers[u] + (IF HasBook(u)' THEN 1 ELSE 0)
      <4>1. Count(queue', {Marker(u)}) = Count(queue, {Marker(u)}) + (IF u = t THEN 1 ELSE 0)
        BY <1>5, <2>1 DEF Adds
      <4>2. Count(queue, {Marker(u)}) = staleMarkers[u] + (IF HasBook(u) THEN 1 ELSE 0)
        BY DEF MarkersCounted
      <4>3. staleMarkers[u] \in Nat
        BY DEF MergerTypeOK
      <4>4. QED
        BY <1>4, <1>7, <4>1, <4>2, <4>3
    <3>2. QED
      BY <1>1, <3>1 DEF MarkersCounted
  <2>3. HintsCounted' /\ GapsCounted'
    <3>1. Marker(t).kind # "hint" /\ Marker(t).kind # "gap"
      BY <1>5
    <3>2. ASSUME NEW m \in Conditions
          PROVE  /\ Count(queue', {Hint(m)}) = Count(queue, {Hint(m)})
                 /\ Count(queue', GapsOn(m)) = Count(queue, GapsOn(m))
      BY <1>2, <2>1, <3>1, AddsElsewhere
    <3>3. QED
      BY <1>1, <3>2 DEF HintsCounted, GapsCounted
  <2>4. \A u \in Tokens : Marker(t) \notin GapsOn(ConditionOf[u])
    BY <1>2, <1>5, EntryKinds, MergerAssumption
  <2>5. FollowedBy(queue', GapsOn(ConditionOf[t]), Marker(t))
    BY <1>2, <2>1, <2>4, FollowedByAppend
  <2>6. \A u \in Tokens : FollowedBy(queue, GapsOn(ConditionOf[u]), Marker(u))
          => FollowedBy(queue', GapsOn(ConditionOf[u]), Marker(u))
    BY <1>2, <2>1, <2>4, FollowedByAppend
  <2>7. BooksAreYoung'
    BY <1>1, <1>3, <1>4, <2>5, <2>6 DEF BooksAreYoung
  <2>8. QED
    BY <1>1, <2>2, <2>3, <2>7 DEF BookKeepsItsPlaceAmongGaps
<1>8. QED
  BY <1>6, <1>7

LEMMA BookGap ==
  ASSUME BookInv, MergerTypeOK', NEW ms \in SUBSET Conditions, ReceiveGap(ms)
  PROVE  BookInv'
<1> USE DEF BookInv
<1> DEFINE gap == [kind |-> "gap", markets |-> ms]
           Unsafe(t) == HasBook(t) /\ ConditionOf[t] \in ms
<1>1. queue \in Seq(Entries) /\ gap \in Entries /\ gap.kind = "gap" /\ gap.markets = ms
  BY DEF MergerTypeOK, Entries
<1>2. /\ queue' = Append(queue, gap)
      /\ \A t \in Tokens : /\ pendingBooks'[t] = IF Unsafe(t) THEN None ELSE pendingBooks[t]
                           /\ staleMarkers'[t] = IF Unsafe(t) THEN staleMarkers[t] + 1
                                                 ELSE staleMarkers[t]
      /\ \A m \in Conditions : gapsSeen'[m] = IF m \in ms THEN gapsSeen[m] + 1 ELSE gapsSeen[m]
      /\ UNCHANGED <<pendingHints, newest, gapsDelivered, delivered>>
  BY DEF ReceiveGap, Yields, HasBook
<1> HIDE DEF gap
<1>3. Adds(queue', queue, gap)
  BY <1>1, <1>2, AppendAdds
<1>4. \A t \in Tokens : HasBook(t)' <=> HasBook(t) /\ ~Unsafe(t)
  BY <1>2 DEF HasBook
<1>5. MarkersCounted'
  <2>1. ASSUME NEW t \in Tokens
        PROVE  Count(queue', {Marker(t)}) = staleMarkers'[t] + (IF HasBook(t)' THEN 1 ELSE 0)
    <3>1. Count(queue', {Marker(t)}) = Count(queue, {Marker(t)})
      BY <1>1, <1>3, AddsElsewhere
    <3>2. Count(queue, {Marker(t)}) = staleMarkers[t] + (IF HasBook(t) THEN 1 ELSE 0)
      BY DEF MarkersCounted
    <3>3. staleMarkers[t] \in Nat
      BY DEF MergerTypeOK
    <3>4. CASE Unsafe(t)
      BY <1>2, <1>4, <3>1, <3>2, <3>3, <3>4
    <3>5. CASE ~Unsafe(t)
      BY <1>2, <1>4, <3>1, <3>2, <3>5
    <3>6. QED
      BY <3>4, <3>5
  <2>2. QED
    BY <2>1 DEF MarkersCounted
<1>6. HintsCounted'
  <2>1. \A m \in Conditions : Count(queue', {Hint(m)}) = Count(queue, {Hint(m)})
    BY <1>1, <1>3, AddsElsewhere
  <2>2. QED
    BY <1>2, <2>1 DEF HintsCounted
<1>7. GapsCounted'
  <2>1. ASSUME NEW m \in Conditions
        PROVE  gapsDelivered'[m] + Count(queue', GapsOn(m)) = gapsSeen'[m]
    <3>1. Count(queue', GapsOn(m)) = Count(queue, GapsOn(m)) + (IF m \in ms THEN 1 ELSE 0)
      BY <1>1, <1>3 DEF Adds
    <3>2. gapsDelivered[m] + Count(queue, GapsOn(m)) = gapsSeen[m]
      BY DEF GapsCounted
    <3>3. gapsDelivered[m] \in Nat /\ Count(queue, GapsOn(m)) \in Nat
      BY <1>1, CountType DEF MergerTypeOK
    <3>4. QED
      BY <1>2, <3>1, <3>2, <3>3
  <2>2. QED
    BY <2>1 DEF GapsCounted
<1>8. BooksAreYoung'
  <2>1. ASSUME NEW t \in Tokens, HasBook(t)'
        PROVE  /\ pendingBooks'[t].serial = newest'[t]
               /\ pendingBooks'[t].epoch = gapsSeen'[ConditionOf[t]]
               /\ FollowedBy(queue', GapsOn(ConditionOf[t]), Marker(t))
    <3>1. HasBook(t) /\ ConditionOf[t] \in Conditions \ ms
      BY <1>4, <2>1, MergerAssumption
    <3>2. /\ pendingBooks[t].serial = newest[t]
          /\ pendingBooks[t].epoch = gapsSeen[ConditionOf[t]]
          /\ FollowedBy(queue, GapsOn(ConditionOf[t]), Marker(t))
      BY <3>1 DEF BooksAreYoung
    <3>3. gap \notin GapsOn(ConditionOf[t])
      BY <1>1, <3>1, EntryKinds
    <3>4. FollowedBy(queue', GapsOn(ConditionOf[t]), Marker(t))
      BY <1>1, <1>2, <3>2, <3>3, FollowedByAppend
    <3>5. QED
      BY <1>2, <3>1, <3>2, <3>4
  <2>2. QED
    BY <2>1 DEF BooksAreYoung
<1>9. BookKeepsItsPlaceAmongGaps'
  BY <1>2 DEF BookKeepsItsPlaceAmongGaps
<1>10. QED
  BY <1>5, <1>6, <1>7, <1>8, <1>9

LEMMA BookHint ==
  ASSUME BookInv, MergerTypeOK', NEW m \in Conditions, ReceiveHint(m)
  PROVE  BookInv'
<1> USE DEF BookInv
<1>1. queue \in Seq(Entries) /\ Hint(m) \in Entries
  BY DEF MergerTypeOK, Entries
<1>2. Hint(m).kind = "hint" /\ Hint(m).market = m
  BY DEF Hint
<1>3. /\ queue' = IF m \in pendingHints THEN queue ELSE Append(queue, Hint(m))
      /\ pendingHints' = pendingHints \cup {m}
      /\ UNCHANGED <<pendingBooks, staleMarkers, newest, gapsSeen, gapsDelivered, delivered>>
  BY DEF ReceiveHint, Yields, Hint
<1>4. CASE m \in pendingHints
  <2>1. pendingHints' = pendingHints /\ queue' = queue
    BY <1>3, <1>4
  <2>2. SameBooks(queue', queue) /\ KeepsPlaces(queue, queue') /\ UNCHANGED bookVars
    BY <1>3, <2>1 DEF SameBooks, KeepsPlaces, bookVars
  <2>3. QED
    BY <1>3, <2>2, BooksUntouched
<1>5. CASE m \notin pendingHints
  <2>1. queue' = Append(queue, Hint(m)) /\ Adds(queue', queue, Hint(m))
    BY <1>1, <1>3, <1>5, AppendAdds
  <2>2. /\ \A t \in Tokens : Count(queue', {Marker(t)}) = Count(queue, {Marker(t)})
        /\ \A c \in Conditions : Count(queue', GapsOn(c)) = Count(queue, GapsOn(c))
    BY <1>1, <1>2, <2>1, AddsElsewhere
  <2>3. MarkersCounted' /\ GapsCounted'
    BY <1>3, <2>2 DEF MarkersCounted, GapsCounted, HasBook
  <2>4. HintsCounted'
    <3>1. ASSUME NEW c \in Conditions
          PROVE  Count(queue', {Hint(c)}) = IF c \in pendingHints' THEN 1 ELSE 0
      <4>1. Count(queue', {Hint(c)}) = Count(queue, {Hint(c)}) + (IF c = m THEN 1 ELSE 0)
        BY <1>2, <2>1 DEF Adds
      <4>2. Count(queue, {Hint(c)}) = IF c \in pendingHints THEN 1 ELSE 0
        BY DEF HintsCounted
      <4>3. QED
        BY <1>3, <1>5, <4>1, <4>2
    <3>2. QED
      BY <3>1 DEF HintsCounted
  <2>5. \A t \in Tokens : Hint(m) \notin GapsOn(ConditionOf[t])
    BY <1>1, <1>2, EntryKinds, MergerAssumption
  <2>6. KeepsPlaces(queue, queue')
    BY <1>1, <2>1, <2>5, FollowedByAppend DEF KeepsPlaces
  <2>7. BooksAreYoung'
    BY <1>3, <2>6 DEF BooksAreYoung, KeepsPlaces, HasBook
  <2>8. QED
    BY <1>3, <2>3, <2>4, <2>7 DEF BookKeepsItsPlaceAmongGaps
<1>6. QED
  BY <1>4, <1>5

(* The entries a step may append or take without touching books. *)
LEMMA BookLosslessEntry ==
  ASSUME BookInv, MergerTypeOK', NEW s \in Sources, ReceiveLossless(s)
  PROVE  BookInv'
<1> DEFINE x == [kind |-> "lossless", source |-> s]
<1>1. queue \in Seq(Entries) /\ x \in Entries /\ Other(x)
  BY DEF BookInv, MergerTypeOK, Entries, Other
<1>2. queue' = Append(queue, x) /\ UNCHANGED bookVars /\ delivered' = delivered
  BY DEF ReceiveLossless, Yields, bookVars
<1> HIDE DEF x
<1>3. SameBooks(queue', queue) /\ KeepsPlaces(queue, queue')
  BY <1>1, <1>2, OtherAppended
<1>4. QED
  BY <1>2, <1>3, BooksUntouched

LEMMA BookSourceEnds ==
  ASSUME BookInv, MergerTypeOK', NEW s \in Sources, SourceEnds(s)
  PROVE  BookInv'
<1>1. queue \in Seq(Entries)
  BY DEF BookInv, MergerTypeOK
<1>2. Completion(s) \in Entries /\ Failure \in Entries /\ Other(Completion(s)) /\ Other(Failure)
  BY <1>1, EndOfSource DEF Other, Completion, Failure
<1>3. PICK q \in Seq(Entries) : /\ q = queue \/ q = Append(queue, Failure)
                               /\ queue' = Append(q, Completion(s))
  BY <1>1, EndOfSource
<1>4. SameBooks(q, queue) /\ KeepsPlaces(queue, q)
  <2>1. CASE q = queue
    BY <2>1 DEF SameBooks, KeepsPlaces
  <2>2. CASE q = Append(queue, Failure)
    BY <1>1, <1>2, <2>2, OtherAppended
  <2>3. QED
    BY <1>3, <2>1, <2>2
<1>5. SameBooks(queue', q) /\ KeepsPlaces(q, queue')
  BY <1>2, <1>3, OtherAppended
<1>6. SameBooks(queue', queue) /\ KeepsPlaces(queue, queue')
  BY <1>4, <1>5 DEF SameBooks, KeepsPlaces
<1>7. UNCHANGED bookVars /\ delivered' = delivered
  BY DEF SourceEnds, bookVars, historyVars
<1>8. QED
  BY <1>6, <1>7, BooksUntouched

LEMMA BookOtherTaken ==
  ASSUME BookInv, MergerTypeOK', CountCompletion \/ RaiseFailure \/ DeliverLossless
  PROVE  BookInv'
<1>1. queue \in Seq(Entries)
  BY DEF BookInv, MergerTypeOK
<1>2. queue # <<>> /\ queue' = Tail(queue) /\ Other(Head(queue))
  BY DEF CountCompletion, RaiseFailure, DeliverLossless, Takes, Other
<1>3. SameBooks(queue', queue) /\ KeepsPlaces(queue, queue')
  BY <1>1, <1>2, OtherTaken
<1>4. UNCHANGED bookVars
  BY DEF CountCompletion, RaiseFailure, DeliverLossless, bookVars, historyVars
<1>5. delivered' = delivered \/ delivered'.kind # "book"
  <2>1. CASE DeliverLossless
    BY <2>1 DEF DeliverLossless, Takes
  <2>2. CASE CountCompletion \/ RaiseFailure
    BY <2>2 DEF CountCompletion, RaiseFailure
  <2>3. QED
    BY <2>1, <2>2
<1>6. QED
  BY <1>3, <1>4, <1>5, BooksUntouched

LEMMA BookUnmoved ==
  ASSUME BookInv, MergerTypeOK', UNCHANGED <<queue, bookVars, delivered>>
  PROVE  BookInv'
<1>1. SameBooks(queue', queue) /\ KeepsPlaces(queue, queue')
  BY DEF SameBooks, KeepsPlaces
<1>2. QED
  BY <1>1, BooksUntouched

(* The first entry of the queue is a marker. *)
LEMMA MarkerTaken ==
  ASSUME BookInv, Takes("marker")
  PROVE  /\ queue \in Seq(Entries) /\ queue # <<>> /\ queue' = Tail(queue)
         /\ queue' \in Seq(Entries)
         /\ Head(queue).token \in Tokens
         /\ \A u \in Tokens : Count(queue, {Marker(u)}) = Count(queue', {Marker(u)})
                                + (IF u = Head(queue).token THEN 1 ELSE 0)
         /\ \A m \in Conditions : /\ Count(queue', {Hint(m)}) = Count(queue, {Hint(m)})
                                  /\ Count(queue', GapsOn(m)) = Count(queue, GapsOn(m))
         /\ KeepsPlaces(queue, queue')
<1>1. /\ queue \in Seq(Entries) /\ queue # <<>> /\ queue' = Tail(queue)
      /\ queue' \in Seq(Entries) /\ Head(queue) \in Entries /\ Head(queue).kind = "marker"
  <2>1. MergerTypeOK /\ queue \in Seq(Entries)
    BY DEF BookInv, MergerTypeOK
  <2>2. /\ queue' \in Seq(Entries) /\ Head(queue) \in Entries /\ Head(queue).kind = "marker"
        /\ queue # <<>> /\ queue' = Tail(queue)
    BY <2>1, TakesType
  <2>3. QED
    BY <2>1, <2>2
<1>2. Head(queue).token \in Tokens
  BY <1>1, EntryKinds
<1>3. Adds(queue, queue', Head(queue))
  BY <1>1, TailAdds
<1>4. ASSUME NEW u \in Tokens
      PROVE  Count(queue, {Marker(u)}) = Count(queue', {Marker(u)})
                                           + (IF u = Head(queue).token THEN 1 ELSE 0)
  BY <1>1, <1>3 DEF Adds
<1>5. ASSUME NEW m \in Conditions
      PROVE  /\ Count(queue', {Hint(m)}) = Count(queue, {Hint(m)})
             /\ Count(queue', GapsOn(m)) = Count(queue, GapsOn(m))
  BY <1>1, <1>3, AddsElsewhere
<1>6. KeepsPlaces(queue, queue')
  BY <1>1, FollowedByTail DEF KeepsPlaces
<1>7. QED
  BY <1>1, <1>2, <1>4, <1>5, <1>6

LEMMA BookSkipped ==
  ASSUME BookInv, MergerTypeOK', SkipMarker
  PROVE  BookInv'
<1> USE DEF BookInv
<1> DEFINE t == Head(queue).token
<1>1. Takes("marker")
  BY DEF SkipMarker
<1>2. /\ t \in Tokens /\ queue' \in Seq(Entries)
      /\ \A u \in Tokens : Count(queue, {Marker(u)}) = Count(queue', {Marker(u)})
                             + (IF u = t THEN 1 ELSE 0)
      /\ \A m \in Conditions : /\ Count(queue', {Hint(m)}) = Count(queue, {Hint(m)})
                               /\ Count(queue', GapsOn(m)) = Count(queue, GapsOn(m))
      /\ KeepsPlaces(queue, queue')
  BY <1>1, MarkerTaken
<1>3. /\ staleMarkers[t] > 0 \/ ~HasBook(t)
      /\ staleMarkers' = [staleMarkers EXCEPT ![t] = IF @ > 0 THEN @ - 1 ELSE @]
      /\ UNCHANGED <<pendingBooks, pendingHints, newest, gapsSeen, gapsDelivered, delivered>>
  BY DEF SkipMarker, HasBook, historyVars
<1> HIDE DEF t
<1>4. \A u \in Tokens : staleMarkers[u] \in Nat /\ Count(queue', {Marker(u)}) \in Nat
  BY <1>2, CountType DEF MergerTypeOK
<1>5. staleMarkers[t] > 0
  <2>1. Count(queue, {Marker(t)}) = Count(queue', {Marker(t)}) + 1
    BY <1>2
  <2>2. Count(queue, {Marker(t)}) = staleMarkers[t] + (IF HasBook(t) THEN 1 ELSE 0)
    BY <1>2 DEF MarkersCounted
  <2>3. QED
    BY <1>2, <1>3, <1>4, <2>1, <2>2
<1>6. staleMarkers'[t] = staleMarkers[t] - 1
      /\ \A u \in Tokens \ {t} : staleMarkers'[u] = staleMarkers[u]
  BY <1>2, <1>3, <1>5 DEF MergerTypeOK
<1>7. MarkersCounted'
  <2>1. ASSUME NEW u \in Tokens
        PROVE  Count(queue', {Marker(u)}) = staleMarkers'[u] + (IF HasBook(u) THEN 1 ELSE 0)
    <3>1. Count(queue, {Marker(u)}) = staleMarkers[u] + (IF HasBook(u) THEN 1 ELSE 0)
      BY DEF MarkersCounted
    <3>2. Count(queue, {Marker(u)}) = Count(queue', {Marker(u)}) + (IF u = t THEN 1 ELSE 0)
      BY <1>2
    <3>3. CASE u = t
      BY <1>4, <1>6, <3>1, <3>2, <3>3
    <3>4. CASE u # t
      BY <1>4, <1>6, <3>1, <3>2, <3>4
    <3>5. QED
      BY <3>3, <3>4
  <2>2. \A u \in Tokens : HasBook(u)' <=> HasBook(u)
    BY <1>3 DEF HasBook
  <2>3. QED
    BY <2>1, <2>2 DEF MarkersCounted
<1>8. HintsCounted' /\ GapsCounted'
  BY <1>2, <1>3 DEF HintsCounted, GapsCounted
<1>9. BooksAreYoung'
  BY <1>2, <1>3 DEF BooksAreYoung, KeepsPlaces, HasBook
<1>10. BookKeepsItsPlaceAmongGaps'
  BY <1>3 DEF BookKeepsItsPlaceAmongGaps
<1>11. QED
  BY <1>7, <1>8, <1>9, <1>10

(* A book that is handed over has no gap of its market before it, so it is as *)
(* old as the gaps the consumer knows.                                        *)
LEMMA BookHandedOver ==
  ASSUME BookInv, DeliverBook, NEW t, t = Head(queue).token
  PROVE  /\ t \in Tokens /\ HasBook(t)
         /\ Count(queue', {Marker(t)}) = 0
         /\ pendingBooks[t].epoch = gapsDelivered[ConditionOf[t]]
         /\ pendingBooks[t].serial = newest[t]
<1> USE DEF BookInv
<1> DEFINE c == ConditionOf[t]
<1>1. Takes("marker") /\ staleMarkers[t] = 0 /\ HasBook(t)
  BY DEF DeliverBook, HasBook
<1>2. /\ queue \in Seq(Entries) /\ queue # <<>> /\ queue' = Tail(queue)
      /\ queue' \in Seq(Entries) /\ t \in Tokens
      /\ Count(queue, {Marker(t)}) = Count(queue', {Marker(t)}) + 1
  BY <1>1, MarkerTaken
<1>3. c \in Conditions
  BY <1>2, MergerAssumption
<1>4. Count(queue, {Marker(t)}) = 1
  BY <1>1, <1>2 DEF MarkersCounted
<1>5. Count(queue', {Marker(t)}) = 0
  <2>1. Count(queue', {Marker(t)}) \in Nat
    BY <1>2, CountType
  <2>2. QED
    BY <1>2, <1>4, <2>1
<1>6. \A i \in DOMAIN queue' : queue'[i] # Marker(t)
  BY <1>2, <1>5, CountType
<1>7. FollowedBy(queue, GapsOn(c), Marker(t))
  BY <1>1, <1>2 DEF BooksAreYoung
<1>8. \A j \in DOMAIN queue : queue[j] \notin GapsOn(c)
  <2>1. SUFFICES ASSUME NEW j \in DOMAIN queue, queue[j] \in GapsOn(c) PROVE FALSE
    OBVIOUS
  <2>2. PICK i \in DOMAIN queue : j < i /\ queue[i] = Marker(t)
    BY <1>7, <2>1 DEF FollowedBy
  <2>3. i - 1 \in DOMAIN queue' /\ queue'[i - 1] = queue[i]
    BY <1>2, <2>1, <2>2
  <2>4. QED
    BY <1>6, <2>2, <2>3
<1>9. Count(queue, GapsOn(c)) = 0
  BY <1>2, <1>8, CountType
<1>10. gapsDelivered[c] = gapsSeen[c]
  <2>1. gapsDelivered[c] + 0 = gapsSeen[c]
    BY <1>3, <1>9 DEF GapsCounted
  <2>2. gapsDelivered[c] \in Nat
    BY <1>3 DEF MergerTypeOK
  <2>3. QED
    BY <2>1, <2>2
<1>11. pendingBooks[t].epoch = gapsSeen[c] /\ pendingBooks[t].serial = newest[t]
  BY <1>1, <1>2 DEF BooksAreYoung
<1>12. QED
  BY <1>1, <1>2, <1>5, <1>10, <1>11

LEMMA BookDelivered ==
  ASSUME BookInv, MergerTypeOK', DeliverBook
  PROVE  BookInv'
<1> USE DEF BookInv
<1>1. PICK t : t = Head(queue).token
  OBVIOUS
<1>2. /\ t \in Tokens /\ HasBook(t) /\ Count(queue', {Marker(t)}) = 0
      /\ pendingBooks[t].epoch = gapsDelivered[ConditionOf[t]]
  BY <1>1, BookHandedOver
<1>3. /\ \A u \in Tokens : Count(queue, {Marker(u)}) = Count(queue', {Marker(u)})
                             + (IF u = t THEN 1 ELSE 0)
      /\ \A m \in Conditions : /\ Count(queue', {Hint(m)}) = Count(queue, {Hint(m)})
                               /\ Count(queue', GapsOn(m)) = Count(queue, GapsOn(m))
      /\ KeepsPlaces(queue, queue') /\ queue' \in Seq(Entries)
  BY <1>1, MarkerTaken DEF DeliverBook
<1>4. /\ delivered' = [kind |-> "book", token |-> t, book |-> pendingBooks[t]]
      /\ pendingBooks' = [pendingBooks EXCEPT ![t] = None]
      /\ staleMarkers[t] = 0
      /\ UNCHANGED <<staleMarkers, pendingHints, newest, gapsSeen, gapsDelivered>>
  BY <1>1 DEF DeliverBook, historyVars
<1>5. ~HasBook(t)' /\ \A u \in Tokens \ {t} : pendingBooks'[u] = pendingBooks[u]
                                             /\ (HasBook(u)' <=> HasBook(u))
  BY <1>2, <1>4 DEF HasBook, MergerTypeOK
<1>6. MarkersCounted'
  <2>1. ASSUME NEW u \in Tokens
        PROVE  Count(queue', {Marker(u)}) = staleMarkers[u] + (IF HasBook(u)' THEN 1 ELSE 0)
    <3>1. CASE u = t
      BY <1>2, <1>4, <1>5, <3>1
    <3>2. CASE u # t
      <4>1. Count(queue, {Marker(u)}) = staleMarkers[u] + (IF HasBook(u) THEN 1 ELSE 0)
        BY DEF MarkersCounted
      <4>2. Count(queue, {Marker(u)}) = Count(queue', {Marker(u)}) + 0
        BY <1>3, <3>2
      <4>3. Count(queue', {Marker(u)}) \in Nat
        BY <1>3, CountType
      <4>4. QED
        BY <1>5, <3>2, <4>1, <4>2, <4>3
    <3>3. QED
      BY <3>1, <3>2
  <2>2. QED
    BY <1>4, <2>1 DEF MarkersCounted
<1>7. HintsCounted' /\ GapsCounted'
  BY <1>3, <1>4 DEF HintsCounted, GapsCounted
<1>8. BooksAreYoung'
  <2>1. ASSUME NEW u \in Tokens, HasBook(u)'
        PROVE  /\ pendingBooks'[u].serial = newest[u]
               /\ pendingBooks'[u].epoch = gapsSeen[ConditionOf[u]]
               /\ FollowedBy(queue', GapsOn(ConditionOf[u]), Marker(u))
    <3>1. u # t /\ HasBook(u) /\ pendingBooks'[u] = pendingBooks[u]
      BY <1>5, <2>1
    <3>2. QED
      BY <1>3, <3>1 DEF BooksAreYoung, KeepsPlaces
  <2>2. QED
    BY <1>4, <2>1 DEF BooksAreYoung
<1>9. BookKeepsItsPlaceAmongGaps'
  BY <1>2, <1>4 DEF BookKeepsItsPlaceAmongGaps
<1>10. QED
  BY <1>6, <1>7, <1>8, <1>9

LEMMA BookGapDelivered ==
  ASSUME BookInv, MergerTypeOK', DeliverGap
  PROVE  BookInv'
<1> USE DEF BookInv
<1> DEFINE gap == Head(queue)
<1>1. queue \in Seq(Entries) /\ queue # <<>> /\ queue' = Tail(queue) /\ gap.kind = "gap"
  BY DEF DeliverGap, Takes, MergerTypeOK
<1>2. queue' \in Seq(Entries) /\ Adds(queue, queue', gap) /\ KeepsPlaces(queue, queue')
  BY <1>1, TailAdds, FollowedByTail DEF KeepsPlaces
<1>3. /\ delivered' = gap
      /\ \A m \in Conditions : gapsDelivered'[m] = IF m \in gap.markets
                                                   THEN gapsDelivered[m] + 1
                                                   ELSE gapsDelivered[m]
      /\ UNCHANGED <<pendingBooks, staleMarkers, pendingHints, newest, gapsSeen>>
  BY DEF DeliverGap
<1> HIDE DEF gap
<1>4. /\ \A t \in Tokens : Count(queue', {Marker(t)}) = Count(queue, {Marker(t)})
      /\ \A m \in Conditions : Count(queue', {Hint(m)}) = Count(queue, {Hint(m)})
  BY <1>1, <1>2, AddsElsewhere
<1>5. MarkersCounted' /\ HintsCounted'
  BY <1>3, <1>4 DEF MarkersCounted, HintsCounted, HasBook
<1>6. GapsCounted'
  <2>1. ASSUME NEW m \in Conditions
        PROVE  gapsDelivered'[m] + Count(queue', GapsOn(m)) = gapsSeen[m]
    <3>1. Count(queue, GapsOn(m)) = Count(queue', GapsOn(m)) + (IF m \in gap.markets THEN 1 ELSE 0)
      BY <1>1, <1>2 DEF Adds
    <3>2. gapsDelivered[m] + Count(queue, GapsOn(m)) = gapsSeen[m]
      BY DEF GapsCounted
    <3>3. gapsDelivered[m] \in Nat /\ Count(queue', GapsOn(m)) \in Nat
      BY <1>2, CountType DEF MergerTypeOK
    <3>4. QED
      BY <1>3, <3>1, <3>2, <3>3
  <2>2. QED
    BY <1>3, <2>1 DEF GapsCounted
<1>7. BooksAreYoung'
  BY <1>2, <1>3 DEF BooksAreYoung, KeepsPlaces, HasBook
<1>8. BookKeepsItsPlaceAmongGaps'
  BY <1>1, <1>3 DEF BookKeepsItsPlaceAmongGaps
<1>9. QED
  BY <1>5, <1>6, <1>7, <1>8

LEMMA BookHintDelivered ==
  ASSUME BookInv, MergerTypeOK', DeliverHint
  PROVE  BookInv'
<1> USE DEF BookInv
<1> DEFINE hint == Head(queue)
           m == Head(queue).market
<1>1. /\ queue \in Seq(Entries) /\ queue # <<>> /\ queue' = Tail(queue)
      /\ hint.kind = "hint" /\ hint \in Entries
  BY DEF DeliverHint, Takes, MergerTypeOK
<1>2. queue' \in Seq(Entries) /\ Adds(queue, queue', hint) /\ KeepsPlaces(queue, queue')
  BY <1>1, TailAdds, FollowedByTail DEF KeepsPlaces
<1>3. /\ delivered' = hint /\ pendingHints' = pendingHints \ {m}
      /\ UNCHANGED <<pendingBooks, staleMarkers, newest, gapsSeen, gapsDelivered>>
  BY DEF DeliverHint, historyVars
<1>4. /\ \A t \in Tokens : Count(queue', {Marker(t)}) = Count(queue, {Marker(t)})
      /\ \A c \in Conditions : Count(queue', GapsOn(c)) = Count(queue, GapsOn(c))
  BY <1>1, <1>2, AddsElsewhere
<1>5. MarkersCounted' /\ GapsCounted'
  BY <1>3, <1>4 DEF MarkersCounted, GapsCounted, HasBook
<1>6. HintsCounted'
  <2>1. ASSUME NEW c \in Conditions
        PROVE  Count(queue', {Hint(c)}) = IF c \in pendingHints' THEN 1 ELSE 0
    <3>1. Count(queue, {Hint(c)}) = Count(queue', {Hint(c)}) + (IF c = m THEN 1 ELSE 0)
      BY <1>1, <1>2 DEF Adds
    <3>2. Count(queue, {Hint(c)}) = IF c \in pendingHints THEN 1 ELSE 0
      BY DEF HintsCounted
    <3>3. Count(queue', {Hint(c)}) \in Nat
      BY <1>2, CountType
    <3>4. QED
      BY <1>3, <3>1, <3>2, <3>3
  <2>2. QED
    BY <2>1 DEF HintsCounted
<1>7. BooksAreYoung'
  BY <1>2, <1>3 DEF BooksAreYoung, KeepsPlaces, HasBook
<1>8. BookKeepsItsPlaceAmongGaps'
  BY <1>1, <1>3 DEF BookKeepsItsPlaceAmongGaps
<1>9. QED
  BY <1>5, <1>6, <1>7, <1>8

LEMMA BookStep == BookInv /\ [Next]_vars => BookInv'
<1> SUFFICES ASSUME BookInv, [Next]_vars PROVE BookInv'
  OBVIOUS
<1>1. MergerTypeOK'
  BY MergerTypeStep DEF BookInv
<1>2. ASSUME NEW t \in Tokens, ReceiveBook(t) PROVE BookInv'
  BY <1>1, <1>2, BookReceived
<1>3. ASSUME NEW ms \in SUBSET Conditions, ReceiveGap(ms) PROVE BookInv'
  BY <1>1, <1>3, BookGap
<1>4. ASSUME NEW m \in Conditions, ReceiveHint(m) PROVE BookInv'
  BY <1>1, <1>4, BookHint
<1>5. ASSUME NEW s \in Sources, ReceiveLossless(s) PROVE BookInv'
  BY <1>1, <1>5, BookLosslessEntry
<1>6. ASSUME NEW s \in Sources, SourceEnds(s) PROVE BookInv'
  BY <1>1, <1>6, BookSourceEnds
<1>7. CASE CountCompletion \/ RaiseFailure \/ DeliverLossless
  BY <1>1, <1>7, BookOtherTaken
<1>8. CASE SkipMarker
  BY <1>1, <1>8, BookSkipped
<1>9. CASE DeliverBook
  BY <1>1, <1>9, BookDelivered
<1>10. CASE DeliverGap
  BY <1>1, <1>10, BookGapDelivered
<1>11. CASE DeliverHint
  BY <1>1, <1>11, BookHintDelivered
<1>12. CASE StopIterating \/ CloseEarly \/ UNCHANGED vars
  <2>1. UNCHANGED <<queue, bookVars, delivered>>
    BY <1>12 DEF StopIterating, CloseEarly, vars, queueVars, historyVars, bookVars
  <2>2. QED
    BY <1>1, <2>1, BookUnmoved
<1>13. QED
  BY <1>2, <1>3, <1>4, <1>5, <1>6, <1>7, <1>8, <1>9, <1>10, <1>11, <1>12
  DEF Next, Source, Iterate

(* Coalescing hands over the newest book of a token, whatever waits before it *)
(* in the queue (cli/streams/merger.py __anext__, _enqueue_book).             *)
THEOREM NewestBookHandedOver == Spec => NewestBookDelivered
<1>1. ASSUME BookInv, [Next]_vars, delivered' # delivered, delivered'.kind = "book"
      PROVE  delivered'.book.serial = newest[delivered'.token]
  <2>1. CASE DeliverBook
    <3>1. PICK t : t = Head(queue).token
      OBVIOUS
    <3>2. pendingBooks[t].serial = newest[t]
      BY <1>1, <2>1, <3>1, BookHandedOver
    <3>3. delivered' = [kind |-> "book", token |-> t, book |-> pendingBooks[t]]
      BY <2>1, <3>1 DEF DeliverBook
    <3>4. QED
      BY <3>2, <3>3
  <2>2. CASE Source
    BY <1>1, <2>2 DEF Source, ReceiveBook, ReceiveGap, ReceiveHint, ReceiveLossless, SourceEnds,
                      Yields
  <2>3. CASE CountCompletion \/ RaiseFailure \/ SkipMarker \/ StopIterating \/ CloseEarly
    BY <1>1, <2>3 DEF CountCompletion, RaiseFailure, SkipMarker, StopIterating, CloseEarly, endVars
  <2>4. CASE DeliverGap \/ DeliverHint \/ DeliverLossless
    BY <1>1, <2>4 DEF DeliverGap, DeliverHint, DeliverLossless, Takes
  <2>5. CASE UNCHANGED vars
    BY <1>1, <2>5 DEF vars
  <2>6. QED
    BY <1>1, <2>1, <2>2, <2>3, <2>4, <2>5 DEF Next, Iterate
<1>2. BookInv /\ [Next]_vars
        => [delivered' # delivered /\ delivered'.kind = "book"
              => delivered'.book.serial = newest[delivered'.token]]_vars
  BY <1>1
<1>3. QED
  BY <1>2, BookInitially, BookStep, PTL DEF Spec, NewestBookDelivered

-----------------------------------------------------------------------------
(* The end of the sources *)

LosslessFrom(s) == [kind |-> "lossless", source |-> s]

(* A primary source runs, or its completion was counted or is in the queue. *)
SourcesCounted ==
  ended = "no" =>
    completed + Count(queue, Completions) + Cardinality(running \cap Primaries)
      = Cardinality(Primaries)

(* What a source still owes is in the queue, before its completion. *)
CompletionIsLast ==
  ended = "no" =>
    \A s \in Primaries : s \in running
                         \/ FollowedBy(queue, {LosslessFrom(s)}, Completion(s))

SourceInv ==
  /\ MergerTypeOK /\ SourcesCounted /\ CompletionIsLast
  /\ completed <= Cardinality(Primaries)
  /\ owed = Count(queue, Lossless) /\ owed <= received
  /\ NothingOwedAtTheEnd

LEMMA PrimariesFinite ==
  /\ IsFiniteSet(Primaries) /\ Cardinality(Primaries) \in Nat
  /\ \A S : IsFiniteSet(S \cap Primaries) /\ Cardinality(S \cap Primaries) \in Nat
<1>1. IsFiniteSet({"market", "wallet", "gamma"})
  <2>1. IsFiniteSet({"market"}) /\ IsFiniteSet({"wallet"}) /\ IsFiniteSet({"gamma"})
    BY FS_Singleton
  <2>2. IsFiniteSet({"market"} \cup {"wallet"})
    BY <2>1, FS_Union
  <2>3. IsFiniteSet(({"market"} \cup {"wallet"}) \cup {"gamma"})
    BY <2>1, <2>2, FS_Union
  <2>4. {"market", "wallet", "gamma"} = ({"market"} \cup {"wallet"}) \cup {"gamma"}
    OBVIOUS
  <2>5. QED
    BY <2>3, <2>4
<1>2. IsFiniteSet(Primaries)
  BY <1>1, FS_Subset, MergerAssumption DEF Primaries
<1>3. QED
  BY <1>2, FS_Subset, FS_CardinalityType

LEMMA SourceInitially == Init => SourceInv
<1> SUFFICES ASSUME Init PROVE SourceInv
  OBVIOUS
<1>1. MergerTypeOK
  BY MergerTypeInitially
<1>2. \A S : Count(queue, S) = 0
  BY FS_EmptySet DEF Init, Count, Positions
<1>3. running \cap Primaries = Primaries
  BY DEF Init, Primaries
<1>4. completed = 0 /\ Cardinality(Primaries) \in Nat
  BY PrimariesFinite DEF Init
<1>5. SourcesCounted
  BY <1>2, <1>3, <1>4 DEF SourcesCounted
<1>6. CompletionIsLast
  BY DEF Init, CompletionIsLast, Primaries
<1>7. completed <= Cardinality(Primaries)
  BY <1>4
<1>8. owed = Count(queue, Lossless) /\ owed <= received /\ NothingOwedAtTheEnd
  BY <1>2 DEF Init, NothingOwedAtTheEnd
<1>9. QED
  BY <1>1, <1>5, <1>6, <1>7, <1>8 DEF SourceInv

(* An entry that is neither lossless nor a completion, behind or before the queue. *)
SameSources(a, b) ==
  Count(a, Lossless) = Count(b, Lossless) /\ Count(a, Completions) = Count(b, Completions)

KeepsCompletions(a, b) ==
  \A s \in Primaries : FollowedBy(a, {LosslessFrom(s)}, Completion(s))
                        => FollowedBy(b, {LosslessFrom(s)}, Completion(s))

LEMMA LosslessEntry ==
  ASSUME NEW x \in Entries, x.kind # "lossless", NEW s
  PROVE  x # LosslessFrom(s)
BY DEF LosslessFrom

LEMMA OtherSourceAppended ==
  ASSUME NEW q \in Seq(Entries), NEW x \in Entries, x.kind # "lossless", x.kind # "completed"
  PROVE  SameSources(Append(q, x), q) /\ KeepsCompletions(q, Append(q, x))
<1>1. SameSources(Append(q, x), q)
  BY AppendAdds, AddsElsewhere DEF SameSources
<1>2. \A s : x \notin {LosslessFrom(s)}
  BY LosslessEntry
<1>3. QED
  BY <1>1, <1>2, FollowedByAppend DEF KeepsCompletions

LEMMA SourcesUntouched ==
  ASSUME SourceInv, MergerTypeOK', SameSources(queue', queue), KeepsCompletions(queue, queue'),
         UNCHANGED <<endVars, owed>>, received' = received \/ received' = received + 1
  PROVE  SourceInv'
<1>1. SourcesCounted' /\ completed' <= Cardinality(Primaries) /\ NothingOwedAtTheEnd'
  BY DEF SourceInv, SourcesCounted, SameSources, endVars, NothingOwedAtTheEnd
<1>2. CompletionIsLast'
  BY DEF SourceInv, CompletionIsLast, KeepsCompletions, endVars
<1>3. owed' = Count(queue', Lossless)
  BY DEF SourceInv, SameSources
<1>4. owed' <= received'
  BY DEF SourceInv, MergerTypeOK
<1>5. QED
  BY <1>1, <1>2, <1>3, <1>4 DEF SourceInv

LEMMA SourceFeedEvent ==
  ASSUME SourceInv, MergerTypeOK',
         \/ \E t \in Tokens : ReceiveBook(t)
         \/ \E ms \in SUBSET Conditions : ReceiveGap(ms)
         \/ \E m \in Conditions : ReceiveHint(m)
  PROVE  SourceInv'
<1>1. queue \in Seq(Entries)
  BY DEF SourceInv, MergerTypeOK
<1>2. \/ queue' = queue
      \/ \E x \in Entries : /\ x.kind # "lossless" /\ x.kind # "completed"
                           /\ queue' = Append(queue, x)
  <2>1. ASSUME NEW t \in Tokens, ReceiveBook(t)
        PROVE  queue' = queue \/ queue' = Append(queue, Marker(t))
    BY <2>1 DEF ReceiveBook, Marker
  <2>2. ASSUME NEW ms \in SUBSET Conditions, ReceiveGap(ms)
        PROVE  queue' = Append(queue, [kind |-> "gap", markets |-> ms])
    BY <2>2 DEF ReceiveGap
  <2>3. ASSUME NEW m \in Conditions, ReceiveHint(m)
        PROVE  queue' = queue \/ queue' = Append(queue, Hint(m))
    BY <2>3 DEF ReceiveHint, Hint
  <2>4. \A t \in Tokens : /\ Marker(t) \in Entries
                          /\ Marker(t).kind # "lossless" /\ Marker(t).kind # "completed"
    BY DEF Entries, Marker
  <2>5. \A m \in Conditions : /\ Hint(m) \in Entries
                              /\ Hint(m).kind # "lossless" /\ Hint(m).kind # "completed"
    BY DEF Entries, Hint
  <2>6. \A ms \in SUBSET Conditions :
          /\ [kind |-> "gap", markets |-> ms] \in Entries
          /\ [kind |-> "gap", markets |-> ms].kind # "lossless"
          /\ [kind |-> "gap", markets |-> ms].kind # "completed"
    BY DEF Entries
  <2>7. QED
    BY <2>1, <2>2, <2>3, <2>4, <2>5, <2>6
<1>3. SameSources(queue', queue) /\ KeepsCompletions(queue, queue')
  <2>1. CASE queue' = queue
    BY <2>1 DEF SameSources, KeepsCompletions
  <2>2. CASE queue' # queue
    BY <1>1, <1>2, <2>2, OtherSourceAppended
  <2>3. QED
    BY <2>1, <2>2
<1>4. UNCHANGED <<endVars, owed>> /\ received' = received + 1
  BY DEF ReceiveBook, ReceiveGap, ReceiveHint, Yields
<1>5. QED
  BY <1>3, <1>4, SourcesUntouched

LEMMA SourceOtherTaken ==
  ASSUME SourceInv, MergerTypeOK', SkipMarker \/ DeliverBook \/ DeliverGap \/ DeliverHint
  PROVE  SourceInv'
<1>1. queue \in Seq(Entries)
  BY DEF SourceInv, MergerTypeOK
<1>2. /\ queue # <<>> /\ queue' = Tail(queue)
      /\ Head(queue).kind # "lossless" /\ Head(queue).kind # "completed"
  BY DEF SkipMarker, DeliverBook, DeliverGap, DeliverHint, Takes
<1>3. Tail(queue) \in Seq(Entries) /\ Adds(queue, Tail(queue), Head(queue))
  BY <1>1, <1>2, TailAdds
<1>4. SameSources(queue', queue)
  BY <1>2, <1>3, AddsElsewhere DEF SameSources
<1>5. KeepsCompletions(queue, queue')
  BY <1>1, <1>2, FollowedByTail DEF KeepsCompletions
<1>6. UNCHANGED <<endVars, owed>> /\ received' = received
  BY DEF SkipMarker, DeliverBook, DeliverGap, DeliverHint, historyVars
<1>7. QED
  BY <1>4, <1>5, <1>6, SourcesUntouched

LEMMA SourceLosslessEntry ==
  ASSUME SourceInv, MergerTypeOK', NEW s \in Sources, ReceiveLossless(s)
  PROVE  SourceInv'
<1> USE DEF SourceInv
<1>1. /\ queue \in Seq(Entries) /\ LosslessFrom(s) \in Entries
      /\ LosslessFrom(s).kind = "lossless" /\ LosslessFrom(s).source = s
  BY DEF MergerTypeOK, Entries, LosslessFrom
<1>2. /\ s \in running /\ queue' = Append(queue, LosslessFrom(s))
      /\ owed' = owed + (IF s \in Primaries THEN 1 ELSE 0)
      /\ received' = received + 1 /\ ended = "no"
      /\ UNCHANGED <<completed, running, ended>>
  BY DEF ReceiveLossless, Yields, LosslessFrom, endVars, MergerTypeOK
<1>3. Adds(queue', queue, LosslessFrom(s))
  BY <1>1, <1>2, AppendAdds
<1>4. Count(queue', Completions) = Count(queue, Completions)
  BY <1>1, <1>3, AddsElsewhere
<1>5. SourcesCounted'
  BY <1>2, <1>4 DEF SourcesCounted
<1>6. CompletionIsLast'
  <2>1. ASSUME NEW p \in Primaries, p \notin running
        PROVE  FollowedBy(queue', {LosslessFrom(p)}, Completion(p))
    <3>1. FollowedBy(queue, {LosslessFrom(p)}, Completion(p))
      BY <1>2, <2>1 DEF CompletionIsLast
    <3>2. LosslessFrom(s) \notin {LosslessFrom(p)}
      BY <1>2, <2>1 DEF LosslessFrom
    <3>3. QED
      BY <1>1, <1>2, <3>1, <3>2, FollowedByAppend
  <2>2. QED
    BY <1>2, <2>1 DEF CompletionIsLast
<1>7. owed' = Count(queue', Lossless)
  <2>1. Count(queue', Lossless) = Count(queue, Lossless) + (IF s \in Primaries THEN 1 ELSE 0)
    BY <1>1, <1>3 DEF Adds
  <2>2. QED
    BY <1>2, <2>1
<1>8. owed' <= received'
  BY <1>2 DEF MergerTypeOK
<1>9. completed' <= Cardinality(Primaries) /\ NothingOwedAtTheEnd'
  BY <1>2 DEF NothingOwedAtTheEnd
<1>10. QED
  BY <1>5, <1>6, <1>7, <1>8, <1>9

LEMMA SourceCompletes ==
  ASSUME SourceInv, MergerTypeOK', NEW s \in Sources, SourceEnds(s)
  PROVE  SourceInv'
<1> USE DEF SourceInv
<1>1. queue \in Seq(Entries) /\ s \in running /\ running' = running \ {s}
      /\ UNCHANGED <<completed, ended, owed, received>> /\ ended = "no"
  BY DEF SourceEnds, historyVars, MergerTypeOK
<1>2. /\ Completion(s) \in Entries /\ Failure \in Entries
      /\ Completion(s).kind = "completed" /\ Completion(s).source = s
      /\ Failure.kind = "failure"
  BY <1>1, EndOfSource DEF Completion, Failure
<1>3. PICK q \in Seq(Entries) : /\ q = queue \/ q = Append(queue, Failure)
                               /\ queue' = Append(q, Completion(s))
  BY <1>1, EndOfSource
<1>4. SameSources(q, queue) /\ KeepsCompletions(queue, q)
  <2>1. CASE q = queue
    BY <2>1 DEF SameSources, KeepsCompletions
  <2>2. CASE q = Append(queue, Failure)
    BY <1>1, <1>2, <2>2, OtherSourceAppended
  <2>3. QED
    BY <1>3, <2>1, <2>2
<1>5. Adds(queue', q, Completion(s))
  BY <1>2, <1>3, AppendAdds
<1>6. Count(queue', Lossless) = Count(queue, Lossless)
  BY <1>2, <1>4, <1>5, AddsElsewhere DEF SameSources
<1>7. Count(queue', Completions) = Count(queue, Completions) + (IF s \in Primaries THEN 1 ELSE 0)
  BY <1>2, <1>4, <1>5 DEF Adds, SameSources
<1>8. SourcesCounted'
  <2>1. /\ IsFiniteSet(running \cap Primaries) /\ Cardinality(running \cap Primaries) \in Nat
        /\ Count(queue, Completions) \in Nat /\ completed \in Nat
    BY <1>1, PrimariesFinite, CountType DEF MergerTypeOK
  <2>2. CASE s \in Primaries
    <3>1. running' \cap Primaries = (running \cap Primaries) \ {s} /\ s \in running \cap Primaries
      BY <1>1, <2>2
    <3>2. Cardinality((running \cap Primaries) \ {s}) = Cardinality(running \cap Primaries) - 1
      BY <2>1, <3>1, FS_RemoveElement
    <3>3. Cardinality(running' \cap Primaries) = Cardinality(running \cap Primaries) - 1
      BY <3>1, <3>2
    <3>4. QED
      BY <1>1, <1>7, <2>1, <2>2, <3>3 DEF SourcesCounted
  <2>3. CASE s \notin Primaries
    <3>1. running' \cap Primaries = running \cap Primaries
      BY <1>1, <2>3
    <3>2. Count(queue', Completions) = Count(queue, Completions)
      BY <1>7, <2>1, <2>3
    <3>3. QED
      BY <1>1, <3>1, <3>2 DEF SourcesCounted
  <2>4. QED
    BY <2>2, <2>3
<1>9. CompletionIsLast'
  <2>1. ASSUME NEW p \in Primaries, p \notin running'
        PROVE  FollowedBy(queue', {LosslessFrom(p)}, Completion(p))
    <3>1. Completion(s) \notin {LosslessFrom(p)}
      BY <1>2, LosslessEntry
    <3>2. p = s \/ FollowedBy(q, {LosslessFrom(p)}, Completion(p))
      BY <1>1, <1>4, <2>1 DEF CompletionIsLast, KeepsCompletions
    <3>3. CASE p = s
      BY <1>2, <1>3, <3>1, <3>3, FollowedByAppend
    <3>4. CASE p # s
      BY <1>2, <1>3, <3>1, <3>2, <3>4, FollowedByAppend
    <3>5. QED
      BY <3>3, <3>4
  <2>2. QED
    BY <2>1 DEF CompletionIsLast
<1>10. QED
  BY <1>1, <1>6, <1>8, <1>9 DEF NothingOwedAtTheEnd

LEMMA SourceCompletionCounted ==
  ASSUME SourceInv, MergerTypeOK', CountCompletion
  PROVE  SourceInv'
<1> USE DEF SourceInv
<1> DEFINE x == Head(queue)
<1>1. /\ queue \in Seq(Entries) /\ queue # <<>> /\ queue' = Tail(queue)
      /\ x.kind = "completed" /\ ended = "no"
      /\ UNCHANGED <<running, ended, owed, received>>
  BY DEF CountCompletion, Takes, Iterating, MergerTypeOK, historyVars
<1>2. completed' = completed + (IF x.source \in Primaries THEN 1 ELSE 0)
  BY DEF CountCompletion, MergerTypeOK
<1>3. queue' \in Seq(Entries) /\ Adds(queue, queue', x)
  BY <1>1, TailAdds
<1>4. Count(queue', Lossless) = Count(queue, Lossless)
  BY <1>1, <1>3, AddsElsewhere
<1>5. Count(queue, Completions) = Count(queue', Completions)
                                    + (IF x.source \in Primaries THEN 1 ELSE 0)
  BY <1>1, <1>3 DEF Adds
<1>6. /\ completed \in Nat /\ Count(queue', Completions) \in Nat
      /\ Cardinality(running \cap Primaries) \in Nat /\ Cardinality(Primaries) \in Nat
  BY <1>3, PrimariesFinite, CountType DEF MergerTypeOK
<1>7. completed + Count(queue, Completions) + Cardinality(running \cap Primaries)
        = Cardinality(Primaries)
  BY <1>1 DEF SourcesCounted
<1>8. completed' + Count(queue', Completions) + Cardinality(running \cap Primaries)
        = Cardinality(Primaries)
  BY <1>2, <1>5, <1>6, <1>7
<1>9. SourcesCounted' /\ completed' <= Cardinality(Primaries)
  <2>1. completed' \in Nat
    BY <1>2, <1>6
  <2>2. completed' <= Cardinality(Primaries)
    BY <1>6, <1>8, <2>1
  <2>3. QED
    BY <1>1, <1>8, <2>2 DEF SourcesCounted
<1>10. CompletionIsLast'
  <2>1. KeepsCompletions(queue, queue')
    BY <1>1, FollowedByTail DEF KeepsCompletions
  <2>2. QED
    BY <1>1, <2>1 DEF CompletionIsLast, KeepsCompletions
<1>11. QED
  BY <1>1, <1>4, <1>9, <1>10 DEF NothingOwedAtTheEnd

LEMMA SourceLosslessDelivered ==
  ASSUME SourceInv, MergerTypeOK', DeliverLossless
  PROVE  SourceInv'
<1> USE DEF SourceInv
<1> DEFINE x == Head(queue)
<1>1. /\ queue \in Seq(Entries) /\ queue # <<>> /\ queue' = Tail(queue)
      /\ x.kind = "lossless" /\ ended = "no"
      /\ owed' = owed - (IF x.source \in Primaries THEN 1 ELSE 0)
      /\ UNCHANGED <<running, ended, completed, received>>
  BY DEF DeliverLossless, Takes, Iterating, MergerTypeOK, endVars
<1>2. queue' \in Seq(Entries) /\ Adds(queue, queue', x)
  BY <1>1, TailAdds
<1>3. Count(queue', Completions) = Count(queue, Completions)
  BY <1>1, <1>2, AddsElsewhere
<1>4. Count(queue, Lossless) = Count(queue', Lossless)
                                 + (IF x.source \in Primaries THEN 1 ELSE 0)
  BY <1>1, <1>2 DEF Adds
<1>5. Count(queue', Lossless) \in Nat
  BY <1>2, CountType
<1>6. owed' = Count(queue', Lossless)
  BY <1>1, <1>4, <1>5
<1>7. owed' <= received'
  BY <1>1 DEF MergerTypeOK
<1>8. SourcesCounted' /\ completed' <= Cardinality(Primaries) /\ NothingOwedAtTheEnd'
  BY <1>1, <1>3 DEF SourcesCounted, NothingOwedAtTheEnd
<1>9. CompletionIsLast'
  <2>1. KeepsCompletions(queue, queue')
    BY <1>1, FollowedByTail DEF KeepsCompletions
  <2>2. QED
    BY <1>1, <2>1 DEF CompletionIsLast, KeepsCompletions
<1>10. QED
  BY <1>6, <1>7, <1>8, <1>9

LEMMA SourceFails ==
  ASSUME SourceInv, MergerTypeOK', RaiseFailure
  PROVE  SourceInv'
<1> USE DEF SourceInv
<1>1. /\ queue \in Seq(Entries) /\ queue # <<>> /\ queue' = Tail(queue)
      /\ Head(queue).kind = "failure" /\ ended' = "failed"
      /\ UNCHANGED <<completed, owed, received>>
  BY DEF RaiseFailure, Takes, End, MergerTypeOK, historyVars
<1>2. queue' \in Seq(Entries) /\ Adds(queue, queue', Head(queue))
  BY <1>1, TailAdds
<1>3. Count(queue', Lossless) = Count(queue, Lossless)
  BY <1>1, <1>2, AddsElsewhere
<1>4. QED
  BY <1>1, <1>3 DEF SourcesCounted, CompletionIsLast, NothingOwedAtTheEnd

(* Iteration stops when every completion has been counted, and with them all *)
(* that came before them.                                                     *)
LEMMA SourceStops ==
  ASSUME SourceInv, MergerTypeOK', StopIterating
  PROVE  SourceInv'
<1> USE DEF SourceInv
<1>1. /\ queue \in Seq(Entries) /\ ended = "no" /\ ended' = "stopped"
      /\ UNCHANGED <<queue, completed, owed, received>>
      /\ ~(completed < Cardinality(Primaries))
  BY DEF StopIterating, Iterating, End, MergerTypeOK, queueVars, historyVars
<1>2. /\ completed \in Nat /\ Count(queue, Completions) \in Nat
      /\ IsFiniteSet(running \cap Primaries)
      /\ Cardinality(running \cap Primaries) \in Nat /\ Cardinality(Primaries) \in Nat
  BY <1>1, PrimariesFinite, CountType DEF MergerTypeOK
<1>3. Count(queue, Completions) = 0 /\ Cardinality(running \cap Primaries) = 0
  <2>1. completed + Count(queue, Completions) + Cardinality(running \cap Primaries)
          = Cardinality(Primaries)
    BY <1>1 DEF SourcesCounted
  <2>2. QED
    BY <1>1, <1>2, <2>1
<1>4. running \cap Primaries = {}
  BY <1>2, <1>3, FS_EmptySet
<1>5. \A i \in DOMAIN queue : queue[i] \notin Completions
  BY <1>1, <1>3, CountType
<1>6. \A j \in DOMAIN queue : queue[j] \notin Lossless
  <2>1. SUFFICES ASSUME NEW j \in DOMAIN queue, queue[j] \in Lossless PROVE FALSE
    OBVIOUS
  <2>2. PICK s \in Primaries : queue[j] = LosslessFrom(s)
    BY <2>1 DEF Lossless, LosslessFrom
  <2>3. FollowedBy(queue, {LosslessFrom(s)}, Completion(s))
    BY <1>1, <1>4 DEF CompletionIsLast
  <2>4. PICK i \in DOMAIN queue : queue[i] = Completion(s)
    BY <2>2, <2>3 DEF FollowedBy
  <2>5. QED
    BY <1>5, <2>4 DEF Completions
<1>7. Count(queue, Lossless) = 0
  BY <1>1, <1>6, CountType
<1>8. QED
  BY <1>1, <1>7 DEF SourcesCounted, CompletionIsLast, NothingOwedAtTheEnd

LEMMA SourceCloses ==
  ASSUME SourceInv, MergerTypeOK', CloseEarly \/ UNCHANGED vars
  PROVE  SourceInv'
<1>1. CASE CloseEarly
  BY <1>1 DEF SourceInv, CloseEarly, End, queueVars, historyVars, SourcesCounted,
              CompletionIsLast, NothingOwedAtTheEnd
<1>2. CASE UNCHANGED vars
  BY <1>2 DEF SourceInv, vars, queueVars, endVars, historyVars, SourcesCounted,
              CompletionIsLast, NothingOwedAtTheEnd
<1>3. QED
  BY <1>1, <1>2

LEMMA SourceStep == SourceInv /\ [Next]_vars => SourceInv'
<1> SUFFICES ASSUME SourceInv, [Next]_vars PROVE SourceInv'
  OBVIOUS
<1>1. MergerTypeOK'
  BY MergerTypeStep DEF SourceInv
<1>2. CASE \/ \E t \in Tokens : ReceiveBook(t)
           \/ \E ms \in SUBSET Conditions : ReceiveGap(ms)
           \/ \E m \in Conditions : ReceiveHint(m)
  BY <1>1, <1>2, SourceFeedEvent
<1>3. ASSUME NEW s \in Sources, ReceiveLossless(s) PROVE SourceInv'
  BY <1>1, <1>3, SourceLosslessEntry
<1>4. ASSUME NEW s \in Sources, SourceEnds(s) PROVE SourceInv'
  BY <1>1, <1>4, SourceCompletes
<1>5. CASE SkipMarker \/ DeliverBook \/ DeliverGap \/ DeliverHint
  BY <1>1, <1>5, SourceOtherTaken
<1>6. CASE CountCompletion
  BY <1>1, <1>6, SourceCompletionCounted
<1>7. CASE DeliverLossless
  BY <1>1, <1>7, SourceLosslessDelivered
<1>8. CASE RaiseFailure
  BY <1>1, <1>8, SourceFails
<1>9. CASE StopIterating
  BY <1>1, <1>9, SourceStops
<1>10. CASE CloseEarly \/ UNCHANGED vars
  BY <1>1, <1>10, SourceCloses
<1>11. CASE Source
  <2>1. \A m \in Conditions : {m} \in SUBSET Conditions
    OBVIOUS
  <2>2. Conditions \in SUBSET Conditions
    OBVIOUS
  <2>3. QED
    BY <1>2, <1>3, <1>4, <1>11, <2>1, <2>2 DEF Source
<1>12. CASE Iterate
  BY <1>5, <1>6, <1>7, <1>8, <1>9, <1>12 DEF Iterate
<1>13. QED
  BY <1>10, <1>11, <1>12 DEF Next

-----------------------------------------------------------------------------
(* Books are handed over between the gaps they came between, and iteration   *)
(* that ends by itself owes no event of a primary source (merger.py          *)
(* __anext__, _consume_stream, _discard_unsafe_books).                        *)
THEOREM EventsKeepTheirPlaces == Spec => []EventsKeepTheirPlace
<1>1. BookInv /\ SourceInv => EventsKeepTheirPlace
  BY DEF BookInv, SourceInv, EventsKeepTheirPlace
<1>2. QED
  BY <1>1, BookInitially, BookStep, SourceInitially, SourceStep, PTL DEF Spec

(* Every waiting book has one live marker, every discarded one a counted one, *)
(* and a hint marker finds its hint (merger.py _discard_unsafe_books,         *)
(* __anext__).                                                                *)
THEOREM BuffersStayConsistent == Spec => []BuffersConsistent
<1>1. ASSUME BookInv, SourceInv PROVE BuffersConsistent
  <2>1. TypeOK
    <3>1. owed \in 0..MaxEvents
      <4>1. owed \in Nat /\ owed <= received /\ received \in 0..MaxEvents
        BY <1>1, CountType DEF SourceInv, MergerTypeOK
      <4>2. QED
        BY <4>1, MergerAssumption
    <3>2. completed \in 0..Cardinality(Primaries)
      BY <1>1, PrimariesFinite DEF SourceInv, MergerTypeOK
    <3>3. QED
      BY <1>1, <3>1, <3>2 DEF SourceInv, MergerTypeOK, TypeOK
  <2>2. \A t \in Tokens : MarkersOf(t) = Count(queue, {Marker(t)})
    BY DEF MarkersOf, Count, Positions, Marker
  <2>3. \A m \in Conditions :
          Cardinality({i \in DOMAIN queue : queue[i] = [kind |-> "hint", market |-> m]})
            = Count(queue, {Hint(m)})
    BY DEF Count, Positions, Hint
  <2>4. MarkersMatchBuffers
    <3>1. \A t \in Tokens :
            MarkersOf(t) = staleMarkers[t] + (IF pendingBooks[t] # None THEN 1 ELSE 0)
      BY <1>1, <2>2 DEF BookInv, MarkersCounted, HasBook
    <3>2. QED
      BY <1>1, <2>3, <3>1 DEF BookInv, HintsCounted, MarkersMatchBuffers
  <2>5. QED
    BY <2>1, <2>4 DEF BuffersConsistent
<1>2. QED
  BY <1>1, BookInitially, BookStep, SourceInitially, SourceStep, PTL DEF Spec

=============================================================================
