---------------------------- MODULE StreamMerger ----------------------------
(***************************************************************************)
(* The merger of a run's event sources (cli/streams/merger.py): one task   *)
(* per source feeds one queue, the runtime takes events out one by one.    *)
(* Books and market hints are coalesced: the queue holds a marker and the  *)
(* newest value waits beside it.  A coverage gap discards the books it     *)
(* makes unsafe, but their markers cannot leave the queue.                 *)
(*                                                                         *)
(* A step of a source task or of __anext__ runs between two awaits.        *)
(***************************************************************************)
EXTENDS Integers, Sequences, SequencesExt, FiniteSets

CONSTANTS Tokens, Conditions, ConditionOf,
          Sources,     \* the streams merged, of {"market", "wallet", "gamma"}
          MaxEvents    \* bound on the events the sources yield

ASSUME MergerAssumption ==
  /\ ConditionOf \in [Tokens -> Conditions]
  /\ Sources \subseteq {"market", "wallet", "gamma"}
  /\ MaxEvents \in Nat

VARIABLES queue,         \* _queue
          pendingBooks,  \* _pending_books: the serial and epoch of the newest book
          staleMarkers,  \* _stale_book_marker_counts
          pendingHints,  \* _pending_market_hints
          completed,     \* primary sources whose completion was dequeued
          resolutionCompleted,
          running,       \* sources whose task is still consuming
          ended,         \* "no", or why iteration is over
          delivered,     \* the last event __anext__ returned
          \* history
          received,      \* events yielded by the sources so far
          newest,        \* serial of the newest book of each token
          gapsSeen, gapsDelivered,   \* gaps of each condition, in and out
          owed           \* lossless events of primary sources not delivered yet

queueVars == <<queue, pendingBooks, staleMarkers, pendingHints>>
endVars == <<completed, resolutionCompleted, running, ended>>
historyVars == <<received, newest, gapsSeen, gapsDelivered, owed>>
vars == <<queueVars, endVars, delivered, historyVars>>

Primaries == Sources \ {"gamma"}
ResolutionOnly == Primaries = {}

None == [serial |-> 0, epoch |-> 0]
TokensOf(m) == {t \in Tokens : ConditionOf[t] = m}

Init ==
  /\ queue = <<>>
  /\ pendingBooks = [t \in Tokens |-> None]
  /\ staleMarkers = [t \in Tokens |-> 0]
  /\ pendingHints = {}
  /\ completed = 0 /\ resolutionCompleted = 0
  /\ running = Sources
  /\ ended = "no"
  /\ delivered = [kind |-> "nothing"]
  /\ received = 0
  /\ newest = [t \in Tokens |-> 0]
  /\ gapsSeen = [m \in Conditions |-> 0]
  /\ gapsDelivered = [m \in Conditions |-> 0]
  /\ owed = 0

-----------------------------------------------------------------------------
(* _consume_stream: a source yields an event *)

Yields(source) ==
  /\ source \in running
  /\ received < MaxEvents
  /\ received' = received + 1
  /\ UNCHANGED <<endVars, delivered, gapsDelivered>>

\* Mutant: the waiting book is kept and the newer one dropped.
ReceiveBook_KeepsFirst(t) ==
  /\ Yields("market")
  /\ newest' = [newest EXCEPT ![t] = received']
  /\ pendingBooks' = [pendingBooks EXCEPT ![t] = IF @ # None THEN @ ELSE
                        [serial |-> received', epoch |-> gapsSeen[ConditionOf[t]]]]
  /\ queue' = IF pendingBooks[t] # None THEN queue
              ELSE Append(queue, [kind |-> "marker", token |-> t])
  /\ UNCHANGED <<staleMarkers, pendingHints, gapsSeen, owed>>

\* _enqueue_book: a token that already waits keeps its marker.
ReceiveBook(t) ==
  /\ Yields("market")
  /\ newest' = [newest EXCEPT ![t] = received']
  /\ pendingBooks' = [pendingBooks EXCEPT ![t] =
                        [serial |-> received', epoch |-> gapsSeen[ConditionOf[t]]]]
  /\ queue' = IF pendingBooks[t] # None THEN queue
              ELSE Append(queue, [kind |-> "marker", token |-> t])
  /\ UNCHANGED <<staleMarkers, pendingHints, gapsSeen, owed>>

\* Mutant: a gap leaves the waiting books in place.
ReceiveGap_KeepsBooks(markets) ==
  /\ Yields("market")
  /\ queue' = Append(queue, [kind |-> "gap", markets |-> markets])
  /\ gapsSeen' = [m \in Conditions |-> IF m \in markets THEN gapsSeen[m] + 1
                                       ELSE gapsSeen[m]]
  /\ UNCHANGED <<pendingBooks, staleMarkers, pendingHints, newest, owed>>

\* Mutant: the markers of discarded books are not counted.
ReceiveGap_Uncounted(markets) ==
  /\ Yields("market")
  /\ pendingBooks' = [t \in Tokens |-> IF ConditionOf[t] \in markets THEN None
                                       ELSE pendingBooks[t]]
  /\ queue' = Append(queue, [kind |-> "gap", markets |-> markets])
  /\ gapsSeen' = [m \in Conditions |-> IF m \in markets THEN gapsSeen[m] + 1
                                       ELSE gapsSeen[m]]
  /\ UNCHANGED <<staleMarkers, pendingHints, newest, owed>>

\* _discard_unsafe_books, then the gap itself; a gap without a condition
\* affects every market.
ReceiveGap(markets) ==
  /\ Yields("market")
  /\ LET unsafe == {t \in Tokens : pendingBooks[t] # None /\ ConditionOf[t] \in markets}
     IN /\ pendingBooks' = [t \in Tokens |-> IF t \in unsafe THEN None
                                             ELSE pendingBooks[t]]
        /\ staleMarkers' = [t \in Tokens |-> IF t \in unsafe THEN staleMarkers[t] + 1
                                             ELSE staleMarkers[t]]
  /\ queue' = Append(queue, [kind |-> "gap", markets |-> markets])
  /\ gapsSeen' = [m \in Conditions |-> IF m \in markets THEN gapsSeen[m] + 1
                                       ELSE gapsSeen[m]]
  /\ UNCHANGED <<pendingHints, newest, owed>>

ReceiveHint(m) ==
  /\ Yields("market")
  /\ pendingHints' = pendingHints \union {m}
  /\ queue' = IF m \in pendingHints THEN queue
              ELSE Append(queue, [kind |-> "hint", market |-> m])
  /\ UNCHANGED <<pendingBooks, staleMarkers, newest, gapsSeen, owed>>

\* Wallet trades and resolutions are queued as they are.
ReceiveLossless(source) ==
  /\ Yields(source)
  /\ queue' = Append(queue, [kind |-> "lossless", source |-> source])
  /\ owed' = owed + (IF source \in Primaries THEN 1 ELSE 0)
  /\ UNCHANGED <<pendingBooks, staleMarkers, pendingHints, newest, gapsSeen>>

\* The source is exhausted, or raises: a failure goes before the completion.
SourceEnds(source) ==
  /\ source \in running
  /\ running' = running \ {source}
  /\ \E last \in {<<>>, <<[kind |-> "failure"]>>} :
       queue' = queue \o last \o <<[kind |-> "completed", source |-> source]>>
  /\ UNCHANGED <<pendingBooks, staleMarkers, pendingHints, completed,
                 resolutionCompleted, ended, delivered, historyVars>>

-----------------------------------------------------------------------------
(* __anext__ *)

Iterating ==
  /\ ended = "no"
  /\ \/ completed < Cardinality(Primaries)
     \/ ResolutionOnly /\ resolutionCompleted = 0

Takes(kind) ==
  /\ Iterating
  /\ queue # <<>>
  /\ Head(queue).kind = kind
  /\ queue' = Tail(queue)

\* aclose: the source tasks are cancelled and nothing more is delivered.
End(why) ==
  /\ ended' = why
  /\ running' = {}

CountCompletion ==
  /\ Takes("completed")
  /\ IF Head(queue).source \in Primaries
     THEN completed' = completed + 1 /\ UNCHANGED resolutionCompleted
     ELSE /\ resolutionCompleted' = resolutionCompleted
                                      + (IF ResolutionOnly THEN 1 ELSE 0)
          /\ UNCHANGED completed
  /\ UNCHANGED <<pendingBooks, staleMarkers, pendingHints, running, ended,
                 delivered, historyVars>>

\* Mutant: the failure of a source is left in the queue for a later turn.
RaiseFailure_Postponed ==
  /\ Iterating
  /\ queue # <<>> /\ Head(queue).kind = "failure"
  /\ UNCHANGED vars

RaiseFailure ==
  /\ Takes("failure")
  /\ End("failed")
  /\ UNCHANGED <<pendingBooks, staleMarkers, pendingHints, completed,
                 resolutionCompleted, delivered, historyVars>>

\* A marker whose book a gap discarded publishes nothing.
SkipMarker ==
  /\ Takes("marker")
  /\ LET t == Head(queue).token
     IN /\ staleMarkers[t] > 0 \/ pendingBooks[t] = None
        /\ staleMarkers' = [staleMarkers EXCEPT ![t] = IF @ > 0 THEN @ - 1 ELSE @]
  /\ UNCHANGED <<pendingBooks, pendingHints, endVars, delivered, historyVars>>

DeliverBook ==
  /\ Takes("marker")
  /\ LET t == Head(queue).token
     IN /\ staleMarkers[t] = 0
        /\ pendingBooks[t] # None
        /\ delivered' = [kind |-> "book", token |-> t, book |-> pendingBooks[t]]
        /\ pendingBooks' = [pendingBooks EXCEPT ![t] = None]
  /\ UNCHANGED <<staleMarkers, pendingHints, endVars, historyVars>>

DeliverGap ==
  /\ Takes("gap")
  /\ delivered' = Head(queue)
  /\ gapsDelivered' = [m \in Conditions |->
                         IF m \in Head(queue).markets THEN gapsDelivered[m] + 1
                         ELSE gapsDelivered[m]]
  /\ UNCHANGED <<pendingBooks, staleMarkers, pendingHints, endVars,
                 received, newest, gapsSeen, owed>>

DeliverHint ==
  /\ Takes("hint")
  /\ delivered' = Head(queue)
  /\ pendingHints' = pendingHints \ {Head(queue).market}
  /\ UNCHANGED <<pendingBooks, staleMarkers, endVars, historyVars>>

DeliverLossless ==
  /\ Takes("lossless")
  /\ delivered' = Head(queue)
  /\ owed' = owed - (IF Head(queue).source \in Primaries THEN 1 ELSE 0)
  /\ UNCHANGED <<pendingBooks, staleMarkers, pendingHints, endVars,
                 received, newest, gapsSeen, gapsDelivered>>

\* Every primary source is done.
StopIterating ==
  /\ ended = "no" /\ ~Iterating
  /\ End("stopped")
  /\ UNCHANGED <<queueVars, completed, resolutionCompleted, delivered, historyVars>>

\* The runtime leaves its loop: a new plan, a new market, or the end of the run.
CloseEarly ==
  /\ ended = "no"
  /\ End("closed")
  /\ UNCHANGED <<queueVars, completed, resolutionCompleted, delivered, historyVars>>

-----------------------------------------------------------------------------
Source ==
  \/ \E t \in Tokens : ReceiveBook(t)
  \/ \E m \in Conditions : ReceiveGap({m}) \/ ReceiveHint(m)
  \/ ReceiveGap(Conditions)
  \/ \E s \in Sources : ReceiveLossless(s) \/ SourceEnds(s)

Iterate ==
  \/ CountCompletion \/ RaiseFailure \/ SkipMarker \/ DeliverBook \/ DeliverGap
  \/ DeliverHint \/ DeliverLossless \/ StopIterating

Next == Source \/ Iterate \/ CloseEarly

Spec == Init /\ [][Next]_vars

\* The runtime asks for the next event again after every dispatch.
FairSpec == Spec /\ WF_vars(Iterate)

-----------------------------------------------------------------------------
MarkersOf(t) ==
  Cardinality({i \in DOMAIN queue : queue[i] = [kind |-> "marker", token |-> t]})

TypeOK ==
  /\ completed \in 0..Cardinality(Primaries) /\ resolutionCompleted \in 0..1
  /\ running \subseteq Sources
  /\ ended \in {"no", "stopped", "failed", "closed"}
  /\ staleMarkers \in [Tokens -> Nat]
  /\ pendingHints \subseteq Conditions
  /\ received \in 0..MaxEvents /\ owed \in 0..MaxEvents

\* A book is only handed over between the gaps it was received between: an old
\* marker never publishes the replacement before the gap (201-210).
BookKeepsItsPlaceAmongGaps ==
  delivered.kind = "book" =>
    delivered.book.epoch = gapsDelivered[ConditionOf[delivered.token]]

\* Each waiting book has one live marker and each discarded one a counted marker,
\* and a hint marker always finds its hint: no book is published twice, none waits
\* without a marker, and pop never raises (126-130, 194-211).
MarkersMatchBuffers ==
  /\ ended = "no" =>
       \A t \in Tokens :
         MarkersOf(t) = staleMarkers[t] + (IF pendingBooks[t] # None THEN 1 ELSE 0)
  /\ \A m \in Conditions :
       Cardinality({i \in DOMAIN queue : queue[i] = [kind |-> "hint", market |-> m]})
         = IF m \in pendingHints THEN 1 ELSE 0

BuffersConsistent == TypeOK /\ MarkersMatchBuffers

\* Coalescing hands over the newest book of the token, not the first (120-125).
NewestBookDelivered ==
  [][delivered' # delivered /\ delivered'.kind = "book"
       => delivered'.book.serial = newest[delivered'.token]]_vars

\* Iteration that ends by itself has delivered every event of its primary
\* sources: the completion of a source is queued behind its events (98-103, 175).
NothingOwedAtTheEnd == ended = "stopped" => owed = 0

\* What the merger hands over keeps its place: books between the gaps they came
\* between, and every event of a source before its end.
EventsKeepTheirPlace == BookKeepsItsPlaceAmongGaps /\ NothingOwedAtTheEnd

\* A waiting book is handed over, discarded by a gap, or the iteration ends.
BooksAreDelivered ==
  \A t \in Tokens :
    pendingBooks[t] # None ~> pendingBooks[t] = None \/ ended # "no"

=============================================================================
