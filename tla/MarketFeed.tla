----------------------------- MODULE MarketFeed -----------------------------
(***************************************************************************)
(* One subscription generation of the market stream (polymarket/           *)
(* ws_market.py): the exchange sends baselines and deltas, the SDK handle   *)
(* drops its oldest messages when it is full and counts them, and the      *)
(* adapter projects depth from what is left (book_projector.py).  Messages *)
(* that cannot be routed, normalized or projected invalidate depth         *)
(* (book_gaps.py); a market is then silent until it has new baselines.     *)
(*                                                                         *)
(* The content of a price level is the serial of the change that wrote it. *)
(* Consumer is what a bot that keeps the newest book of each token and     *)
(* forgets those a gap affects holds after the events of one message.      *)
(***************************************************************************)
EXTENDS Integers, Sequences, FiniteSets

CONSTANTS TokenIds, Conditions, ConditionOf,
          Subscribed,   \* normalized_token_ids
          Levels,       \* the price levels of a book
          Capacity,     \* of the SDK handle
          MaxChanges    \* bound on the changes of the exchange's books

ASSUME FeedAssumption ==
  /\ ConditionOf \in [TokenIds -> Conditions]
  /\ Subscribed \subseteq TokenIds
  /\ Levels # {}
  /\ Capacity \in Nat \ {0} /\ MaxChanges \in Nat

VARIABLES exchangeBooks,  \* the exchange's books
          serial,         \* changes so far
          channel,        \* messages in the SDK handle
          missed,         \* the drop counter moved since it was last read
          depth,          \* BookDepthProjector._depth
          recovering,     \* recovering_conditions
          consumer,       \* newest book of each token a bot may rely on
          \* history
          seen,           \* the exchange's books as of the last message read
          gapped          \* conditions a gap has ever affected

exchangeVars == <<exchangeBooks, serial>>
adapterVars == <<depth, recovering, consumer, seen, gapped>>
feedVars == <<exchangeVars, channel, missed, adapterVars>>

Books == [Levels -> 0..MaxChanges]
NoBook == [l \in {} |-> 0]
Faults == {"none", "unrouteable", "malformed", "crossed"}
TokensOf(m) == {t \in TokenIds : ConditionOf[t] = m}

FeedInit ==
  /\ exchangeBooks = [t \in TokenIds |-> [l \in Levels |-> 0]]
  /\ serial = 0
  /\ channel = <<>>
  /\ missed = FALSE
  /\ depth = [t \in TokenIds |-> NoBook]
  /\ recovering = {}
  /\ consumer = [t \in TokenIds |-> NoBook]
  /\ seen = exchangeBooks
  /\ gapped = {}

-----------------------------------------------------------------------------
(* The exchange and the SDK handle *)

\* A full handle drops its oldest message and counts it.
Enqueue(message) ==
  \/ /\ Len(channel) < Capacity
     /\ channel' = Append(channel, message)
     /\ UNCHANGED missed
  \/ /\ Len(channel) = Capacity
     /\ channel' = Append(Tail(channel), message)
     /\ missed' = TRUE

\* A baseline carries the whole book of a token.
SendBaseline(t, fault) ==
  /\ Enqueue([kind |-> "baseline", places |-> {t} \X Levels,
              books |-> exchangeBooks, fault |-> fault])
  /\ UNCHANGED <<exchangeVars, adapterVars>>

\* A delta carries changed levels of the tokens of one market.
SendDelta(places, fault) ==
  /\ serial < MaxChanges
  /\ serial' = serial + 1
  /\ exchangeBooks' = [t \in TokenIds |-> [l \in Levels |->
                 IF <<t, l>> \in places THEN serial + 1 ELSE exchangeBooks[t][l]]]
  /\ Enqueue([kind |-> "delta", places |-> places,
              books |-> exchangeBooks', fault |-> fault])
  /\ UNCHANGED adapterVars

-----------------------------------------------------------------------------
(* MarketStream.events: one message, up to the next read of the handle *)

\* invalidate_condition
Invalidate(message, d) ==
  [t \in TokenIds |-> IF \E p \in message.places : ConditionOf[p[1]] = ConditionOf[t]
                    THEN NoBook ELSE d[t]]

ConditionsIn(message) == {ConditionOf[p[1]] : p \in message.places}

\* Mutant: a recovered market is published without the siblings of its baseline.
Published_OwnOnly(message, d, r) ==
  LET touched == {t \in {p[1] : p \in message.places} : d[t] # NoBook}
      m == CHOOSE c \in ConditionsIn(message) : TRUE
  IN IF m \notin r THEN touched
     ELSE IF message.kind = "baseline"
               /\ \A t \in TokensOf(m) \intersect Subscribed : d[t] # NoBook
     THEN touched
     ELSE {}

\* The tokens whose snapshots are yielded for a projected message.
Published(message, d, r) ==
  LET touched == {t \in {p[1] : p \in message.places} : d[t] # NoBook}
      m == CHOOSE c \in ConditionsIn(message) : TRUE
  IN IF m \notin r THEN touched
     ELSE IF message.kind = "baseline"
               /\ \A t \in TokensOf(m) \intersect Subscribed : d[t] # NoBook
     THEN {t \in TokensOf(m) : d[t] # NoBook}
     ELSE {}

\* apply_baseline and apply_delta; changes of tokens that are not subscribed
\* or have no baseline are left out.
Project(message, d) ==
  [t \in TokenIds |->
     LET changed == {l \in Levels : <<t, l>> \in message.places}
     IN IF t \notin Subscribed \/ changed = {} THEN d[t]
        ELSE IF message.kind = "baseline" THEN message.books[t]
        ELSE IF d[t] = NoBook THEN NoBook
        ELSE [l \in Levels |-> IF l \in changed THEN message.books[t][l] ELSE d[t][l]]]

Routed(message) ==
  /\ message.fault # "unrouteable"
  /\ message.kind = "baseline" => \A p \in message.places : p[1] \in Subscribed

\* The changes that reach the projector.
Applicable(message, d) ==
  \E p \in message.places :
    p[1] \in Subscribed /\ (message.kind = "delta" => d[p[1]] # NoBook)

\* The message as the handle gives it, after a drop was noticed or not: gap
\* and published events end up in depth, recovering and consumer.
Handle(message, d, r, c) ==
  \/ \* the message names no subscribed market
     /\ ~Routed(message)
     /\ depth' = [t \in TokenIds |-> NoBook]
     /\ consumer' = [t \in TokenIds |-> NoBook]
     /\ recovering' = Conditions /\ gapped' = Conditions
  \/ \* normalizing or projecting it raises
     /\ Routed(message)
     /\ \/ message.fault = "malformed"
        \/ message.fault = "crossed" /\ Applicable(message, d)
     /\ depth' = Invalidate(message, d)
     /\ consumer' = Invalidate(message, c)
     /\ recovering' = r \union ConditionsIn(message)
     /\ gapped' = gapped \union r \union ConditionsIn(message)
  \/ \* it is projected
     /\ Routed(message)
     /\ message.fault = "none" \/ (message.fault = "crossed" /\ ~Applicable(message, d))
     /\ depth' = Project(message, d)
     /\ LET out == Published(message, depth', r)
        IN /\ consumer' = [t \in TokenIds |-> IF t \in out THEN depth'[t] ELSE c[t]]
           /\ recovering' = IF message.kind = "baseline" /\ out # {}
                            THEN r \ ConditionsIn(message) ELSE r
     /\ gapped' = gapped \union r

\* Mutant: a drop is noticed but the projected depth is kept.
Receive_KeepsDepth ==
  /\ channel # <<>>
  /\ channel' = Tail(channel)
  /\ missed' = FALSE
  /\ seen' = Head(channel).books
  /\ IF missed
     THEN Handle(Head(channel), depth, Conditions, [t \in TokenIds |-> NoBook])
     ELSE Handle(Head(channel), depth, recovering, consumer)
  /\ UNCHANGED exchangeVars

\* A drop clears the projector and yields a gap that affects every market.
Receive ==
  /\ channel # <<>>
  /\ channel' = Tail(channel)
  /\ missed' = FALSE
  /\ seen' = Head(channel).books
  /\ \/ /\ missed
        /\ LET nothing == [t \in TokenIds |-> NoBook]
           IN Handle(Head(channel), nothing, Conditions, nothing)
     \/ /\ ~missed
        /\ Handle(Head(channel), depth, recovering, consumer)
  /\ UNCHANGED exchangeVars

-----------------------------------------------------------------------------
Exchange ==
  \/ \E t \in TokenIds, fault \in Faults : SendBaseline(t, fault)
  \/ \E m \in Conditions : \E places \in (SUBSET (TokensOf(m) \X Levels)) \ {{}},
       fault \in Faults : SendDelta(places, fault)

FeedNext == Exchange \/ Receive

FeedSpec == FeedInit /\ [][FeedNext]_feedVars

-----------------------------------------------------------------------------
MaybeBooks == Books \union {NoBook}

TypeOK ==
  /\ exchangeBooks \in [TokenIds -> Books] /\ seen \in [TokenIds -> Books]
  /\ serial \in 0..MaxChanges
  /\ Len(channel) <= Capacity
  /\ missed \in BOOLEAN
  /\ depth \in [TokenIds -> MaybeBooks] /\ consumer \in [TokenIds -> MaybeBooks]
  /\ recovering \subseteq gapped /\ gapped \subseteq Conditions
  /\ \A t \in TokenIds \ Subscribed : depth[t] = NoBook

\* Whatever was dropped, rejected or sent for other tokens, the book a bot holds
\* is the one the exchange had when it sent the last message read, level by
\* level: no lost delta survives in it (ws_market.py 124-132, 166-181, 221-236).
BooksFollowExchange ==
  \A t \in TokenIds : consumer[t] # NoBook => consumer[t] = seen[t]

\* The bot holds exactly the projected books of the markets that are not
\* recovering: suppressed deltas reach it when the market has recovered.
ConsumerHoldsDepth ==
  \A t \in TokenIds :
    consumer[t] = IF ConditionOf[t] \in recovering THEN NoBook ELSE depth[t]

\* After a gap the tokens of a market come back together: a bot never pairs a
\* fresh book with the absence of its sibling (195-207).
MarketsRecoverTogether ==
  \A m \in gapped :
    LET held == {t \in TokensOf(m) \intersect Subscribed : consumer[t] # NoBook}
    IN held = {} \/ held = TokensOf(m) \intersect Subscribed

\* The books of the projector and those of the bot stay one state, gap by gap.
DepthConsistent == TypeOK /\ ConsumerHoldsDepth /\ MarketsRecoverTogether

=============================================================================
