--------------------------- MODULE BotInputProofs ---------------------------
(***************************************************************************)
(* Proofs about what a bot is given to act on: the books of the market     *)
(* stream, for any tokens, markets, levels and capacity, and the trades of *)
(* the wallets it follows, for any trades, plans and windows.              *)
(***************************************************************************)
EXTENDS MarketFeed, WalletRuntime, WellFoundedInduction, TLAPS

-----------------------------------------------------------------------------
(* The market stream *)

Places == TokenIds \X Levels

Messages ==
  {m \in [kind : {"baseline", "delta"}, places : SUBSET Places,
          books : [TokenIds -> Books], fault : Faults] :
     /\ m.places # {}
     /\ \E c \in Conditions : \A p \in m.places : ConditionOf[p[1]] = c
     /\ m.kind = "baseline" => \E t \in TokenIds : m.places = {t} \X Levels}

(* A message says all that has changed since the one before it. *)
Follows(before, message) ==
  \A t \in TokenIds, l \in Levels :
    <<t, l>> \notin message.places => message.books[t][l] = before[t][l]

Newest(ch, s) == IF ch = <<>> THEN s ELSE ch[Len(ch)].books

(* Nothing is missing between two queued messages, nor, unless the handle has *)
(* dropped one, between the last one read and the oldest that waits.          *)
ChannelInv ==
  /\ channel \in Seq(Messages)
  /\ Len(channel) <= Capacity
  /\ missed \in BOOLEAN
  /\ exchangeBooks = Newest(channel, seen)
  /\ \A i \in 2..Len(channel) : Follows(channel[i - 1].books, channel[i])
  /\ channel # <<>> /\ ~missed => Follows(seen, channel[1])

(* What the adapter holds, and the bot, when the exchange's books were s. *)
HeldInv(d, r, c, s, g) ==
  /\ d \in [TokenIds -> MaybeBooks] /\ c \in [TokenIds -> MaybeBooks]
  /\ r \subseteq Conditions /\ g \subseteq Conditions
  /\ \A t \in TokenIds \ Subscribed : d[t] = NoBook
  /\ \A t \in TokenIds : d[t] # NoBook => d[t] = s[t]
  /\ \A t \in TokenIds : c[t] = IF ConditionOf[t] \in r THEN NoBook ELSE d[t]
  /\ \A t \in Subscribed : ConditionOf[t] \in g \ r => d[t] # NoBook

FeedInv ==
  /\ exchangeBooks \in [TokenIds -> Books] /\ seen \in [TokenIds -> Books]
  /\ serial \in 0..MaxChanges
  /\ recovering \subseteq gapped
  /\ ChannelInv
  /\ HeldInv(depth, recovering, consumer, seen, gapped)

-----------------------------------------------------------------------------
(* Books and messages *)

LEMMA NoBookIsNone == NoBook \notin Books
<1>1. DOMAIN NoBook = {}
  BY DEF NoBook
<1>2. \A b \in Books : DOMAIN b = Levels
  BY DEF Books
<1> QED BY <1>1, <1>2, FeedAssumption

LEMMA MessageTypes ==
  ASSUME NEW message \in Messages
  PROVE  /\ message.kind \in {"baseline", "delta"}
         /\ message.places \subseteq TokenIds \X Levels /\ message.places # {}
         /\ message.books \in [TokenIds -> Books] /\ message.fault \in Faults
BY DEF Messages, Places

(* A message is about one market, which its places name. *)
LEMMA OneMarket ==
  ASSUME NEW message \in Messages
  PROVE  \E m \in Conditions :
           /\ ConditionsIn(message) = {m}
           /\ \A t \in TokenIds, l \in Levels : <<t, l>> \in message.places => ConditionOf[t] = m
           /\ \A p \in message.places : ConditionOf[p[1]] = m
<1>1. PICK m \in Conditions : \A p \in message.places : ConditionOf[p[1]] = m
  BY DEF Messages
<1>2. message.places # {}
  BY MessageTypes
<1>3. ConditionsIn(message) = {m}
  BY <1>1, <1>2 DEF ConditionsIn
<1>4. ASSUME NEW t \in TokenIds, NEW l \in Levels, <<t, l>> \in message.places
      PROVE  ConditionOf[t] = m
  <2>1. ConditionOf[<<t, l>>[1]] = m
    BY <1>1, <1>4
  <2> QED BY <2>1
<1> QED BY <1>1, <1>3, <1>4

(* A baseline writes every level of its token. *)
LEMMA BaselineIsWhole ==
  ASSUME NEW message \in Messages, message.kind = "baseline"
  PROVE  \E t \in TokenIds : message.places = {t} \X Levels
BY DEF Messages

(* A book that was the exchange's stays so when a message leaves it alone. *)
LEMMA UntouchedStays ==
  ASSUME NEW message \in Messages, NEW s \in [TokenIds -> Books], Follows(s, message),
         NEW t \in TokenIds, \A l \in Levels : <<t, l>> \notin message.places
  PROVE  message.books[t] = s[t]
<1>1. message.books[t] \in [Levels -> 0..MaxChanges] /\ s[t] \in [Levels -> 0..MaxChanges]
  BY MessageTypes DEF Books
<1>2. \A l \in Levels : message.books[t][l] = s[t][l]
  BY DEF Follows
<1> QED BY <1>1, <1>2

-----------------------------------------------------------------------------
(* What one message does to the projector and to the bot *)

(* A projected book is the exchange's, as of the message. *)
LEMMA ProjectFollows ==
  ASSUME NEW message \in Messages, NEW s \in [TokenIds -> Books], Follows(s, message),
         NEW d \in [TokenIds -> MaybeBooks],
         \A t \in TokenIds \ Subscribed : d[t] = NoBook,
         \A t \in TokenIds : d[t] # NoBook => d[t] = s[t],
         NEW t \in TokenIds
  PROVE  LET e == Project(message, d)[t] IN
         /\ e \in MaybeBooks
         /\ t \notin Subscribed => e = NoBook
         /\ e # NoBook => e = message.books[t]
         /\ d[t] # NoBook => e # NoBook
         /\ (\A l \in Levels : <<t, l>> \notin message.places) => e = d[t]
         /\ e = NoBook => d[t] = NoBook
         /\ message.kind = "baseline" /\ t \in Subscribed
              /\ (\E l \in Levels : <<t, l>> \in message.places) => e # NoBook
<1> DEFINE changed == {l \in Levels : <<t, l>> \in message.places}
           merged == [l \in Levels |-> IF l \in changed THEN message.books[t][l] ELSE d[t][l]]
<1>1. Project(message, d)[t] =
        IF t \notin Subscribed \/ changed = {} THEN d[t]
        ELSE IF message.kind = "baseline" THEN message.books[t]
        ELSE IF d[t] = NoBook THEN NoBook ELSE merged
  BY DEF Project
<1>2. message.books[t] \in Books /\ message.books[t] # NoBook
  BY MessageTypes, NoBookIsNone
<1>3. changed = {} => message.books[t] = s[t]
  BY UntouchedStays
<1>4. ASSUME d[t] # NoBook PROVE merged = message.books[t]
  <2>1. d[t] = s[t]
    BY <1>4
  <2>2. \A l \in Levels : (IF l \in changed THEN message.books[t][l] ELSE d[t][l])
                            = message.books[t][l]
    BY <2>1 DEF Follows
  <2>3. merged = [l \in Levels |-> message.books[t][l]]
    BY <2>2
  <2>4. message.books[t] = [l \in Levels |-> message.books[t][l]]
    BY <1>2 DEF Books
  <2> QED BY <2>3, <2>4
<1>5. d[t] \in MaybeBooks
  OBVIOUS
<1> HIDE DEF changed, merged
<1>6. (changed = {}) <=> (\A l \in Levels : <<t, l>> \notin message.places)
  BY DEF changed
<1>7. NoBook \in MaybeBooks /\ message.books[t] \in MaybeBooks
  BY <1>2 DEF MaybeBooks
<1>8. CASE t \notin Subscribed \/ changed = {}
  <2>1. Project(message, d)[t] = d[t]
    BY <1>1, <1>8
  <2> QED BY <2>1, <1>3, <1>5, <1>6, <1>8
<1>9. CASE t \in Subscribed /\ changed # {} /\ message.kind = "baseline"
  <2>1. Project(message, d)[t] = message.books[t]
    BY <1>1, <1>9
  <2> QED BY <2>1, <1>2, <1>6, <1>7, <1>9
<1>10. CASE t \in Subscribed /\ changed # {} /\ message.kind # "baseline"
  <2>1. Project(message, d)[t] = IF d[t] = NoBook THEN NoBook ELSE message.books[t]
    BY <1>1, <1>4, <1>10
  <2> QED BY <2>1, <1>2, <1>6, <1>7, <1>10
<1> QED BY <1>8, <1>9, <1>10


(* A message that names no subscribed market leaves nothing of the books. *)
LEMMA NothingHeld ==
  ASSUME NEW s \in [TokenIds -> Books], NEW g, g \subseteq Conditions
  PROVE  LET nothing == [t \in TokenIds |-> NoBook]
         IN HeldInv(nothing, Conditions, nothing, s, g)
BY FeedAssumption DEF HeldInv, MaybeBooks

(* A message that cannot be read takes its market's books, and only those. *)
LEMMA InvalidateHeld ==
  ASSUME NEW message \in Messages, NEW s \in [TokenIds -> Books], Follows(s, message),
         NEW d, NEW r, NEW c, NEW g, HeldInv(d, r, c, s, g)
  PROVE  HeldInv(Invalidate(message, d), r \union ConditionsIn(message),
                 Invalidate(message, c), message.books, g \union r \union ConditionsIn(message))
<1> USE FeedAssumption
<1>1. PICK m \in Conditions :
        /\ ConditionsIn(message) = {m}
        /\ \A t \in TokenIds, l \in Levels : <<t, l>> \in message.places => ConditionOf[t] = m
        /\ \A p \in message.places : ConditionOf[p[1]] = m
  BY OneMarket
<1>2. message.places # {}
  BY MessageTypes
<1> DEFINE dd == Invalidate(message, d)
           cc == Invalidate(message, c)
<1>3. /\ dd = [t \in TokenIds |-> IF ConditionOf[t] = m THEN NoBook ELSE d[t]]
      /\ cc = [t \in TokenIds |-> IF ConditionOf[t] = m THEN NoBook ELSE c[t]]
  <2>1. \A t \in TokenIds : (\E p \in message.places : ConditionOf[p[1]] = ConditionOf[t])
                            <=> ConditionOf[t] = m
    BY <1>1, <1>2
  <2> QED BY <2>1 DEF Invalidate
<1>4. \A t \in TokenIds : ConditionOf[t] # m => message.books[t] = s[t]
  BY <1>1, UntouchedStays
<1> HIDE DEF dd, cc
<1>5. /\ dd \in [TokenIds -> MaybeBooks] /\ cc \in [TokenIds -> MaybeBooks]
      /\ \A t \in TokenIds \ Subscribed : dd[t] = NoBook
  BY <1>3 DEF HeldInv, MaybeBooks
<1>6. \A t \in TokenIds : dd[t] # NoBook => dd[t] = message.books[t]
  BY <1>3, <1>4 DEF HeldInv
<1>7. \A t \in TokenIds :
        cc[t] = IF ConditionOf[t] \in r \union {m} THEN NoBook ELSE dd[t]
  BY <1>3 DEF HeldInv
<1>8. \A t \in Subscribed :
        ConditionOf[t] \in (g \union r \union {m}) \ (r \union {m}) => dd[t] # NoBook
  BY <1>3 DEF HeldInv
<1>9. r \union {m} \subseteq Conditions /\ g \union r \union {m} \subseteq Conditions
  BY DEF HeldInv
<1>10. HeldInv(dd, r \union {m}, cc, message.books, g \union r \union {m})
  BY <1>5, <1>6, <1>7, <1>8, <1>9 DEF HeldInv
<1> QED BY <1>1, <1>10 DEF dd, cc

(* A projected message is published with all a recovering market needs. *)
LEMMA ProjectHeld ==
  ASSUME NEW message \in Messages, NEW s \in [TokenIds -> Books], Follows(s, message),
         NEW d, NEW r, NEW c, HeldInv(d, r, c, s, gapped), Routed(message),
         depth' = Project(message, d),
         LET out == Published(message, depth', r)
         IN /\ consumer' = [t \in TokenIds |-> IF t \in out THEN depth'[t] ELSE c[t]]
            /\ recovering' = IF message.kind = "baseline" /\ out # {}
                             THEN r \ ConditionsIn(message) ELSE r
  PROVE  HeldInv(depth', recovering', consumer', message.books, gapped \union r)
<1> USE FeedAssumption
<1> DEFINE out == Published(message, depth', r)
           touched == {t \in {p[1] : p \in message.places} : depth'[t] # NoBook}
<1>1. PICK m \in Conditions :
        /\ ConditionsIn(message) = {m}
        /\ \A t \in TokenIds, l \in Levels : <<t, l>> \in message.places => ConditionOf[t] = m
        /\ \A p \in message.places : ConditionOf[p[1]] = m
  BY OneMarket
<1>2. /\ depth' = [t \in TokenIds |-> depth'[t]]
      /\ consumer' = [t \in TokenIds |-> IF t \in out THEN depth'[t] ELSE c[t]]
      /\ recovering' = IF message.kind = "baseline" /\ out # {}
                       THEN r \ ConditionsIn(message) ELSE r
  BY DEF Project
<1>3. \A t \in TokenIds :
        /\ depth'[t] \in MaybeBooks
        /\ t \notin Subscribed => depth'[t] = NoBook
        /\ depth'[t] # NoBook => depth'[t] = message.books[t]
        /\ d[t] # NoBook => depth'[t] # NoBook
        /\ (\A l \in Levels : <<t, l>> \notin message.places) => depth'[t] = d[t]
        /\ depth'[t] = NoBook => d[t] = NoBook
        /\ message.kind = "baseline" /\ t \in Subscribed
             /\ (\E l \in Levels : <<t, l>> \in message.places) => depth'[t] # NoBook
  <2>1. /\ d \in [TokenIds -> MaybeBooks]
        /\ \A t \in TokenIds \ Subscribed : d[t] = NoBook
        /\ \A t \in TokenIds : d[t] # NoBook => d[t] = s[t]
    BY DEF HeldInv
  <2>2. ASSUME NEW t \in TokenIds
        PROVE  LET e == Project(message, d)[t] IN
               /\ e \in MaybeBooks
               /\ t \notin Subscribed => e = NoBook
               /\ e # NoBook => e = message.books[t]
               /\ d[t] # NoBook => e # NoBook
               /\ (\A l \in Levels : <<t, l>> \notin message.places) => e = d[t]
               /\ e = NoBook => d[t] = NoBook
               /\ message.kind = "baseline" /\ t \in Subscribed
                    /\ (\E l \in Levels : <<t, l>> \in message.places) => e # NoBook
    BY <2>1, ProjectFollows
  <2> QED BY <2>2
<1>4. out = IF m \notin r THEN touched
            ELSE IF message.kind = "baseline"
                      /\ \A t \in TokensOf(m) \intersect Subscribed : depth'[t] # NoBook
            THEN {t \in TokensOf(m) : depth'[t] # NoBook}
            ELSE {}
  <2>1. (CHOOSE x \in {m} : TRUE) = m
    OBVIOUS
  <2> QED BY <1>1, <2>1 DEF Published
<1>5. \A t \in TokenIds : t \in touched <=>
        depth'[t] # NoBook /\ \E l \in Levels : <<t, l>> \in message.places
  <2>1. message.places \subseteq TokenIds \X Levels
    BY MessageTypes
  <2>2. \A p \in message.places : p = <<p[1], p[2]>> /\ p[2] \in Levels
    BY <2>1
  <2>3. \A t \in TokenIds, l \in Levels : <<t, l>>[1] = t
    OBVIOUS
  <2>4. ASSUME NEW t \in TokenIds
        PROVE  t \in {p[1] : p \in message.places} <=> \E l \in Levels : <<t, l>> \in message.places
    <3>1. ASSUME NEW p \in message.places, t = p[1]
          PROVE  \E l \in Levels : <<t, l>> \in message.places
      BY <2>2, <3>1
    <3>2. ASSUME NEW l \in Levels, <<t, l>> \in message.places
          PROVE  \E p \in message.places : t = p[1]
      BY <2>3, <3>2
    <3> QED BY <3>1, <3>2
  <2>5. \A t : t \in touched <=> t \in {p[1] : p \in message.places} /\ depth'[t] # NoBook
    OBVIOUS
  <2> QED BY <2>4, <2>5
<1>6. \A t \in TokenIds : t \notin touched => depth'[t] = d[t]
  BY <1>3, <1>5
<1>7. \A t \in touched \cap TokenIds : ConditionOf[t] = m
  BY <1>1, <1>5
<1> HIDE DEF out, touched
<1>8. depth' \in [TokenIds -> MaybeBooks] /\ consumer' \in [TokenIds -> MaybeBooks]
  BY <1>2, <1>3 DEF HeldInv
<1>9. r \subseteq Conditions /\ gapped \union r \subseteq Conditions
  BY DEF HeldInv
<1>10. (\A t \in TokenIds :
          consumer'[t] = IF ConditionOf[t] \in recovering' THEN NoBook ELSE depth'[t])
       /\ \A t \in Subscribed :
            ConditionOf[t] \in (gapped \union r) \ recovering' => depth'[t] # NoBook
  <2>1. \A t \in TokenIds : c[t] = IF ConditionOf[t] \in r THEN NoBook ELSE d[t]
    BY DEF HeldInv
  <2>2. \A t \in Subscribed : ConditionOf[t] \in gapped \ r => d[t] # NoBook
    BY DEF HeldInv
  <2>3. CASE m \notin r
    <3>1. recovering' = r /\ out = touched
      BY <1>1, <1>2, <1>4, <2>3
    <3>2. \A t \in TokenIds : consumer'[t] = IF ConditionOf[t] \in r THEN NoBook ELSE depth'[t]
      BY <2>1, <2>3, <3>1, <1>2, <1>3, <1>6, <1>7
    <3> QED BY <3>1, <3>2, <2>2, <1>3
  <2>4. CASE m \in r /\ out = {}
    <3>1. recovering' = r /\ \A t \in TokenIds : consumer'[t] = c[t]
      BY <1>2, <2>4
    <3>2. \A t \in TokenIds : ConditionOf[t] # m => depth'[t] = d[t]
      BY <1>6, <1>7
    <3> QED BY <2>1, <2>2, <2>4, <3>1, <3>2, <1>3
  <2>5. CASE m \in r /\ out # {}
    <3>1. /\ message.kind = "baseline"
          /\ \A t \in TokensOf(m) \intersect Subscribed : depth'[t] # NoBook
          /\ out = {t \in TokensOf(m) : depth'[t] # NoBook}
          /\ recovering' = r \ {m}
      BY <1>1, <1>2, <1>4, <2>5
    <3>2. \A t \in TokenIds : ConditionOf[t] # m => depth'[t] = d[t]
      BY <1>6, <1>7
    <3>3. \A t \in TokenIds : t \in out <=> ConditionOf[t] = m /\ depth'[t] # NoBook
      BY <3>1 DEF TokensOf
    <3>4. \A t \in TokenIds :
            consumer'[t] = IF ConditionOf[t] \in recovering' THEN NoBook ELSE depth'[t]
      BY <2>1, <2>5, <3>1, <3>2, <3>3, <1>2
    <3>5. \A t \in Subscribed :
            ConditionOf[t] \in (gapped \union r) \ recovering' => depth'[t] # NoBook
      BY <2>2, <3>1, <3>2, <1>3 DEF TokensOf
    <3> QED BY <3>4, <3>5
  <2> QED BY <2>3, <2>4, <2>5
<1>11. recovering' \subseteq Conditions
  BY <1>9
<1>12. HeldInv(depth', recovering', consumer', message.books, gapped \union r)
  BY <1>3, <1>8, <1>9, <1>10, <1>11 DEF HeldInv
<1> QED BY <1>12


LEMMA HandleHeld ==
  ASSUME NEW message \in Messages, NEW s \in [TokenIds -> Books], Follows(s, message),
         NEW d, NEW r, NEW c, HeldInv(d, r, c, s, gapped), Handle(message, d, r, c)
  PROVE  /\ HeldInv(depth', recovering', consumer', message.books, gapped')
         /\ recovering' \subseteq gapped'
<1>1. message.books \in [TokenIds -> Books]
  BY MessageTypes
<1>2. CASE /\ depth' = [t \in TokenIds |-> NoBook]
           /\ consumer' = [t \in TokenIds |-> NoBook]
           /\ recovering' = Conditions /\ gapped' = Conditions
  BY <1>1, <1>2, NothingHeld
<1>3. CASE /\ depth' = Invalidate(message, d)
           /\ consumer' = Invalidate(message, c)
           /\ recovering' = r \union ConditionsIn(message)
           /\ gapped' = gapped \union r \union ConditionsIn(message)
  BY <1>3, InvalidateHeld
<1>4. CASE /\ Routed(message)
           /\ depth' = Project(message, d)
           /\ LET out == Published(message, depth', r)
              IN /\ consumer' = [t \in TokenIds |-> IF t \in out THEN depth'[t] ELSE c[t]]
                 /\ recovering' = IF message.kind = "baseline" /\ out # {}
                                  THEN r \ ConditionsIn(message) ELSE r
           /\ gapped' = gapped \union r
  BY <1>4, ProjectHeld
<1> QED
  <2>1. \/ ~Routed(message)
        \/ Routed(message) /\ depth' = Invalidate(message, d)
        \/ Routed(message) /\ depth' = Project(message, d)
    BY DEF Handle
  <2> QED BY <1>2, <1>3, <1>4 DEF Handle

-----------------------------------------------------------------------------
(* The handle *)

LEMMA InitFeedInv ==
  ASSUME FeedInit
  PROVE  FeedInv
<1> USE FeedAssumption
<1>1. exchangeBooks \in [TokenIds -> Books] /\ serial \in 0..MaxChanges
  BY DEF FeedInit, Books
<1>2. ChannelInv
  <2>1. channel = <<>> /\ missed = FALSE /\ exchangeBooks = seen
    BY DEF FeedInit
  <2>2. channel \in Seq(Messages) /\ Len(channel) = 0 /\ 2..0 = {} /\ 0 <= Capacity
    BY <2>1
  <2> QED BY <2>1, <2>2 DEF ChannelInv, Newest
<1>3. HeldInv(depth, recovering, consumer, seen, gapped)
  BY DEF FeedInit, HeldInv, MaybeBooks
<1> QED BY <1>1, <1>2, <1>3 DEF FeedInit, FeedInv

(* A message goes in behind the newest: of the chain, at most what led to the *)
(* oldest is lost, and that is what missed says.                              *)
LEMMA EnqueueKeepsChain ==
  ASSUME ChannelInv, seen \in [TokenIds -> Books], NEW message \in Messages,
         Follows(exchangeBooks, message), Enqueue(message), message.books = exchangeBooks',
         seen' = seen
  PROVE  ChannelInv'
<1> USE FeedAssumption
<1>1. channel \in Seq(Messages) /\ Len(channel) \in Nat /\ Len(channel) <= Capacity
  BY DEF ChannelInv
<1>2. CASE /\ Len(channel) < Capacity
           /\ channel' = Append(channel, message)
           /\ UNCHANGED missed
  <2>1. /\ channel' \in Seq(Messages) /\ Len(channel') = Len(channel) + 1
        /\ channel' # <<>>
        /\ \A i \in 1..Len(channel) : channel'[i] = channel[i]
        /\ channel'[Len(channel')] = message
    BY <1>1, <1>2
  <2>2. Newest(channel', seen') = exchangeBooks'
    BY <2>1 DEF Newest
  <2>3. ASSUME NEW i \in 2..Len(channel') PROVE Follows(channel'[i - 1].books, channel'[i])
    <3>1. CASE i = Len(channel')
      <4>1. channel'[i - 1] = channel[Len(channel)] /\ channel # <<>>
        BY <1>1, <2>1, <3>1
      <4> QED BY <2>1, <3>1, <4>1 DEF ChannelInv, Newest
    <3>2. CASE i # Len(channel')
      <4>1. i \in 2..Len(channel) /\ channel'[i - 1] = channel[i - 1] /\ channel'[i] = channel[i]
        BY <1>1, <2>1, <3>2
      <4> QED BY <4>1 DEF ChannelInv
    <3> QED BY <3>1, <3>2
  <2>4. ASSUME ~missed' PROVE Follows(seen', channel'[1])
    <3>1. CASE channel = <<>>
      <4>1. exchangeBooks = seen /\ channel'[1] = message
        BY <1>1, <2>1, <3>1 DEF ChannelInv, Newest
      <4> QED BY <4>1
    <3>2. CASE channel # <<>>
      <4>1. channel'[1] = channel[1]
        BY <1>1, <2>1, <3>2
      <4> QED BY <1>2, <2>4, <3>2, <4>1 DEF ChannelInv
    <3> QED BY <3>1, <3>2
  <2> QED BY <1>1, <1>2, <2>1, <2>2, <2>3, <2>4 DEF ChannelInv
<1>3. CASE /\ Len(channel) = Capacity
           /\ channel' = Append(Tail(channel), message)
           /\ missed' = TRUE
  <2>1. /\ Tail(channel) \in Seq(Messages) /\ Len(Tail(channel)) = Len(channel) - 1
        /\ \A i \in 1..Len(channel) - 1 : Tail(channel)[i] = channel[i + 1]
    BY <1>1, <1>3
  <2>2. /\ channel' \in Seq(Messages) /\ Len(channel') = Len(channel)
        /\ channel' # <<>>
        /\ \A i \in 1..Len(channel) - 1 : channel'[i] = channel[i + 1]
        /\ channel'[Len(channel')] = message
    BY <1>1, <1>3, <2>1
  <2>3. Newest(channel', seen') = exchangeBooks'
    BY <2>2 DEF Newest
  <2>4. ASSUME NEW i \in 2..Len(channel') PROVE Follows(channel'[i - 1].books, channel'[i])
    <3>1. CASE i = Len(channel')
      <4>1. channel'[i - 1] = channel[Len(channel)] /\ channel # <<>>
        BY <1>1, <1>3, <2>2, <3>1
      <4> QED BY <2>2, <3>1, <4>1 DEF ChannelInv, Newest
    <3>2. CASE i # Len(channel')
      <4>1. i + 1 \in 2..Len(channel) /\ channel'[i - 1] = channel[i]
           /\ channel'[i] = channel[i + 1]
        BY <1>1, <2>2, <3>2
      <4>2. Follows(channel[(i + 1) - 1].books, channel[i + 1])
        BY <4>1 DEF ChannelInv
      <4>3. (i + 1) - 1 = i
        OBVIOUS
      <4> QED BY <4>1, <4>2, <4>3
    <3> QED BY <3>1, <3>2
  <2> QED BY <1>1, <1>3, <2>2, <2>3, <2>4 DEF ChannelInv
<1> QED BY <1>2, <1>3 DEF Enqueue

LEMMA BaselineIsMessage ==
  ASSUME NEW t \in TokenIds, NEW fault \in Faults, exchangeBooks \in [TokenIds -> Books]
  PROVE  LET message == [kind |-> "baseline", places |-> {t} \X Levels,
                         books |-> exchangeBooks, fault |-> fault]
         IN message \in Messages /\ Follows(exchangeBooks, message)
<1> USE FeedAssumption
<1> DEFINE message == [kind |-> "baseline", places |-> {t} \X Levels,
                       books |-> exchangeBooks, fault |-> fault]
<1>1. {t} \X Levels \in SUBSET Places /\ {t} \X Levels # {}
  <2>1. PICK l \in Levels : TRUE
    OBVIOUS
  <2>2. <<t, l>> \in {t} \X Levels
    OBVIOUS
  <2> QED BY <2>2 DEF Places
<1>2. \A p \in {t} \X Levels : ConditionOf[p[1]] = ConditionOf[t]
  OBVIOUS
<1>3. ConditionOf[t] \in Conditions
  OBVIOUS
<1>4. message \in Messages
  BY <1>1, <1>2, <1>3 DEF Messages
<1>5. Follows(exchangeBooks, message)
  BY DEF Follows
<1> QED BY <1>4, <1>5

LEMMA DeltaIsMessage ==
  ASSUME NEW m \in Conditions, NEW places \in (SUBSET (TokensOf(m) \X Levels)) \ {{}},
         NEW fault \in Faults, exchangeBooks \in [TokenIds -> Books],
         exchangeBooks' \in [TokenIds -> Books],
         exchangeBooks' = [t \in TokenIds |-> [l \in Levels |->
                     IF <<t, l>> \in places THEN serial + 1 ELSE exchangeBooks[t][l]]]
  PROVE  LET message == [kind |-> "delta", places |-> places,
                         books |-> exchangeBooks', fault |-> fault]
         IN message \in Messages /\ Follows(exchangeBooks, message)
<1> DEFINE message == [kind |-> "delta", places |-> places,
                          books |-> exchangeBooks', fault |-> fault]
<1>1. places \in SUBSET Places /\ places # {}
  BY DEF Places, TokensOf
<1>2. \A p \in places : ConditionOf[p[1]] = m
  BY DEF TokensOf
<1>3. message \in Messages
  BY <1>1, <1>2 DEF Messages
<1>4. Follows(exchangeBooks, message)
  BY DEF Follows
<1> QED BY <1>3, <1>4

LEMMA ReceiveKeepsFeed ==
  ASSUME FeedInv, Receive
  PROVE  FeedInv'
<1> USE FeedAssumption
<1>1. channel \in Seq(Messages) /\ Len(channel) \in Nat /\ Len(channel) <= Capacity
      /\ channel # <<>>
  BY DEF FeedInv, ChannelInv, Receive
<1>2. /\ Head(channel) = channel[1] /\ channel[1] \in Messages
      /\ channel' \in Seq(Messages) /\ Len(channel') = Len(channel) - 1
      /\ \A i \in 1..Len(channel') : channel'[i] = channel[i + 1]
  BY <1>1 DEF Receive
<1>3. channel[1].books \in [TokenIds -> Books] /\ seen' = channel[1].books
  BY <1>2, MessageTypes DEF Receive
<1>4. ChannelInv'
  <2>1. Newest(channel', seen') = Newest(channel, seen)
    <3>1. CASE channel' = <<>>
      <4>1. Len(channel) = 1
        BY <1>1, <1>2, <3>1
      <4> QED BY <1>1, <1>3, <3>1, <4>1 DEF Newest
    <3>2. CASE channel' # <<>>
      <4>1. channel'[Len(channel')] = channel[Len(channel)]
        BY <1>1, <1>2, <3>2
      <4> QED BY <1>1, <3>2, <4>1 DEF Newest
    <3> QED BY <3>1, <3>2
  <2>2. \A i \in 2..Len(channel) : Follows(channel[i - 1].books, channel[i])
    BY DEF FeedInv, ChannelInv
  <2>3. ASSUME NEW i \in 2..Len(channel') PROVE Follows(channel'[i - 1].books, channel'[i])
    <3>1. i + 1 \in 2..Len(channel) /\ channel'[i - 1] = channel[i]
          /\ channel'[i] = channel[i + 1]
          /\ (i + 1) - 1 = i
      BY <1>1, <1>2
    <3>2. Follows(channel[(i + 1) - 1].books, channel[i + 1])
      BY <2>2, <3>1
    <3> QED BY <3>1, <3>2
  <2>4. ASSUME channel' # <<>> PROVE Follows(seen', channel'[1])
    <3>1. 2 \in 2..Len(channel) /\ channel'[1] = channel[2] /\ 2 - 1 = 1
      BY <1>1, <1>2, <2>4
    <3>2. Follows(channel[2 - 1].books, channel[2])
      BY <2>2, <3>1
    <3> QED BY <1>3, <3>1, <3>2
  <2>5. exchangeBooks' = exchangeBooks /\ missed' = FALSE /\ exchangeBooks = Newest(channel, seen)
    BY DEF Receive, exchangeVars, FeedInv, ChannelInv
  <2>6. Len(channel') <= Capacity /\ missed' \in BOOLEAN /\ exchangeBooks' = Newest(channel', seen')
    <3>1. Len(channel') <= Capacity
      BY <1>1, <1>2
    <3> HIDE FeedAssumption
    <3> QED BY <3>1, <2>1, <2>5, Zenon
  <2>7. channel' \in Seq(Messages)
    BY <1>2
  <2> QED BY <2>3, <2>4, <2>6, <2>7 DEF ChannelInv
<1>5. HeldInv(depth', recovering', consumer', seen', gapped') /\ recovering' \subseteq gapped'
  <2>1. CASE ~missed
    <3>1. Handle(channel[1], depth, recovering, consumer)
      BY <1>2, <2>1 DEF Receive
    <3>2. Follows(seen, channel[1]) /\ seen \in [TokenIds -> Books]
      BY <1>1, <2>1 DEF FeedInv, ChannelInv
    <3> QED BY <1>2, <1>3, <3>1, <3>2, HandleHeld DEF FeedInv
  <2>2. CASE missed
    <3> DEFINE nothing == [t \in TokenIds |-> NoBook]
    <3>1. Handle(channel[1], nothing, Conditions, nothing)
      BY <1>2, <2>2 DEF Receive
    <3>2. Follows(channel[1].books, channel[1])
      BY DEF Follows
    <3>3. HeldInv(nothing, Conditions, nothing, channel[1].books, gapped)
      BY <1>3, NothingHeld DEF FeedInv, HeldInv
    <3> HIDE DEF nothing
    <3> QED BY <1>2, <1>3, <3>1, <3>2, <3>3, HandleHeld
  <2> QED BY <2>1, <2>2
<1>6. exchangeBooks' \in [TokenIds -> Books] /\ serial' \in 0..MaxChanges
  BY DEF Receive, exchangeVars, FeedInv
<1> QED BY <1>3, <1>4, <1>5, <1>6 DEF FeedInv

LEMMA ExchangeKeepsFeed ==
  ASSUME FeedInv, Exchange
  PROVE  FeedInv'
<1> USE FeedAssumption
<1>1. exchangeBooks \in [TokenIds -> Books] /\ seen \in [TokenIds -> Books] /\ ChannelInv
      /\ serial \in 0..MaxChanges
  BY DEF FeedInv
<1>2. UNCHANGED adapterVars
  BY DEF Exchange, SendBaseline, SendDelta
<1>3. CASE \E t \in TokenIds, fault \in Faults : SendBaseline(t, fault)
  <2>1. PICK t \in TokenIds, fault \in Faults : SendBaseline(t, fault)
    BY <1>3
  <2>2. exchangeBooks' = exchangeBooks /\ serial' = serial
    BY <2>1 DEF SendBaseline, exchangeVars
  <2> DEFINE message == [kind |-> "baseline", places |-> {t} \X Levels,
                         books |-> exchangeBooks, fault |-> fault]
  <2>3. message \in Messages /\ Follows(exchangeBooks, message) /\ message.books = exchangeBooks'
    BY <1>1, <2>2, BaselineIsMessage
  <2>4. Enqueue(message)
    BY <2>1 DEF SendBaseline
  <2> HIDE DEF message
  <2>5. ChannelInv'
    BY <1>1, <1>2, <2>3, <2>4, EnqueueKeepsChain DEF adapterVars
  <2> QED BY <1>1, <1>2, <2>2, <2>5 DEF FeedInv, adapterVars
<1>4. CASE \E m \in Conditions : \E places \in (SUBSET (TokensOf(m) \X Levels)) \ {{}},
             fault \in Faults : SendDelta(places, fault)
  <2>0. PICK m \in Conditions :
          \E places \in (SUBSET (TokensOf(m) \X Levels)) \ {{}}, fault \in Faults :
            SendDelta(places, fault)
    BY <1>4
  <2>1. PICK places \in (SUBSET (TokensOf(m) \X Levels)) \ {{}}, fault \in Faults :
          SendDelta(places, fault)
    BY <2>0
  <2>2. /\ serial < MaxChanges /\ serial' = serial + 1
        /\ exchangeBooks' = [t \in TokenIds |-> [l \in Levels |->
                       IF <<t, l>> \in places THEN serial + 1 ELSE exchangeBooks[t][l]]]
    BY <2>1 DEF SendDelta
  <2>3. serial + 1 \in 0..MaxChanges
    BY <1>1, <2>2
  <2>4. exchangeBooks' \in [TokenIds -> Books]
    <3>1. \A t \in TokenIds, l \in Levels : exchangeBooks[t][l] \in 0..MaxChanges
      BY <1>1 DEF Books
    <3>2. \A t \in TokenIds : [l \in Levels |->
             IF <<t, l>> \in places THEN serial + 1 ELSE exchangeBooks[t][l]] \in Books
      BY <2>3, <3>1 DEF Books
    <3> QED BY <2>2, <3>2
  <2> DEFINE message == [kind |-> "delta", places |-> places,
                          books |-> exchangeBooks', fault |-> fault]
  <2>5. message \in Messages /\ Follows(exchangeBooks, message) /\ message.books = exchangeBooks'
    BY <1>1, <2>2, <2>4, DeltaIsMessage
  <2>6. Enqueue(message)
    BY <2>1 DEF SendDelta
  <2> HIDE DEF message
  <2>7. ChannelInv'
    BY <1>1, <1>2, <2>5, <2>6, EnqueueKeepsChain DEF adapterVars
  <2> QED BY <1>1, <1>2, <2>2, <2>3, <2>4, <2>7 DEF FeedInv, adapterVars
<1> QED BY <1>3, <1>4 DEF Exchange

LEMMA FeedStep ==
  ASSUME FeedInv, [FeedNext]_feedVars
  PROVE  FeedInv'
<1>1. CASE Exchange
  BY <1>1, ExchangeKeepsFeed
<1>2. CASE Receive
  BY <1>2, ReceiveKeepsFeed
<1>3. CASE UNCHANGED feedVars
  BY <1>3 DEF FeedInv, ChannelInv, Newest, feedVars, exchangeVars, adapterVars
<1> QED BY <1>1, <1>2, <1>3 DEF FeedNext

(* What is read, projected and held follows the exchange, message by message, in   *)
(* every state the handle and the gaps lead to.                                    *)
THEOREM FeedInvariant == FeedSpec => []FeedInv
<1>1. FeedInit => FeedInv
  BY InitFeedInv
<1>2. FeedInv /\ [FeedNext]_feedVars => FeedInv'
  BY FeedStep
<1> QED BY <1>1, <1>2, PTL DEF FeedSpec

(* However many messages the handle drops, and whichever cannot be read, a book *)
(* the bot holds is the exchange's as of the last message read: no delta that   *)
(* was lost survives in it (ws_market.py 124-132, 166-181, 221-236).            *)
THEOREM FeedNeverMisleads == FeedSpec => []BooksFollowExchange
<1>1. FeedInv => BooksFollowExchange
  BY DEF FeedInv, HeldInv, BooksFollowExchange
<1> QED BY <1>1, FeedInvariant, PTL

(* The projector's depth and the bot's books are one state, market by market,  *)
(* and after a gap the tokens of a market come back together (195-207).        *)
THEOREM DepthStaysConsistent == FeedSpec => []DepthConsistent
<1>1. FeedInv => TypeOK
  BY DEF FeedInv, ChannelInv, HeldInv, TypeOK
<1>2. FeedInv => ConsumerHoldsDepth
  BY DEF FeedInv, HeldInv, ConsumerHoldsDepth
<1>3. FeedInv => MarketsRecoverTogether
  <2> SUFFICES ASSUME FeedInv, NEW m \in gapped
               PROVE  LET held == {t \in TokensOf(m) \intersect Subscribed : consumer[t] # NoBook}
                      IN held = {} \/ held = TokensOf(m) \intersect Subscribed
    BY DEF MarketsRecoverTogether
  <2>1. \A t \in TokensOf(m) \intersect Subscribed :
          ConditionOf[t] = m /\ (consumer[t] # NoBook <=> m \notin recovering)
    BY DEF FeedInv, HeldInv, TokensOf
  <2> QED BY <2>1
<1> QED BY <1>1, <1>2, <1>3, FeedInvariant, PTL DEF DepthConsistent

-----------------------------------------------------------------------------
(* What the bot has heard of the wallets it follows *)

HeardInv ==
  /\ heard \in Seq(claimed)
  /\ HeardOnce

LEMMA HeardInitially == Init => HeardInv
BY DEF Init, HeardInv, HeardOnce

\* Only the dispatcher tells the bot of a trade, and only of one it can claim.
LEMMA HeardSteps ==
  ASSUME HeardInv, [Next]_vars
  PROVE  HeardInv'
<1>1. CASE UNCHANGED <<heard, claimed>>
  BY <1>1 DEF HeardInv, HeardOnce
<1>2. CASE Dispatch /\ ~UNCHANGED <<heard, claimed>>
  <2> DEFINE id == Head(stream.inbox).trade.id
  <2>1. heard' = Append(heard, id) /\ claimed' = claimed \cup {id} /\ id \notin claimed
    BY <1>2 DEF Dispatch, Fails, keptVars, Accepts, Claim
  <2> HIDE DEF id
  <2>2. heard \in Seq(claimed') /\ heard' \in Seq(claimed')
    BY <2>1 DEF HeardInv
  <2>3. /\ DOMAIN heard = 1..Len(heard) /\ Len(heard) \in Nat
        /\ DOMAIN heard' = 1..Len(heard) + 1
        /\ \A i \in 1..Len(heard) : heard'[i] = heard[i] /\ heard[i] # id
        /\ heard'[Len(heard) + 1] = id
    BY <2>1 DEF HeardInv
  <2> QED BY <2>2, <2>3 DEF HeardInv, HeardOnce
<1> QED
  BY <1>1, <1>2
  DEF Next, World, Runtime, vars, worldVars, cycleVars, keptVars, Tick, Trade, Index,
      ExchangeResolves, ChangesItsMind, Refresh, Fails, ReadPositions, Bootstrap, Open,
      Poll, DispatchResolution, Rebuild

-----------------------------------------------------------------------------
(* The window of a poll *)

LEMMA NewestOf ==
  ASSUME NEW s, NEW n \in Nat, s # {}, s \subseteq Nat, \A x \in s : x <= n
  PROVE  Max(s) \in s /\ \A x \in s : x <= Max(s)
<1> DEFINE above == {k \in Nat : \A x \in s : x <= k}
<1>1. PICK m \in above : \A k \in above : <<k, m>> \notin OpToRel(<, Nat)
  <2>1. n \in above /\ above \subseteq Nat
    OBVIOUS
  <2> HIDE DEF above
  <2> QED BY <2>1, WFMin, NatLessThanWellFounded
<1>2. m \in Nat /\ \A x \in s : x <= m
  OBVIOUS
<1>3. m \in s
  <2> SUFFICES ASSUME m \notin s PROVE FALSE
    OBVIOUS
  <2>1. \A x \in s : x \in Nat /\ x < m
    BY <1>2
  <2>2. m # 0
    <3>1. PICK x \in s : x \in Nat /\ x < m
      BY <2>1
    <3> QED BY <3>1
  <2>3. m - 1 \in Nat /\ m - 1 < m /\ m - 1 \in above
    BY <1>2, <2>1, <2>2
  <2>4. <<m - 1, m>> \in OpToRel(<, Nat)
    BY <1>2, <2>3 DEF OpToRel
  <2> QED BY <1>1, <2>3, <2>4
<1> QED BY <1>2, <1>3 DEF Max

LEMMA LatestOf ==
  ASSUME NEW rows, NEW from \in Nat, NEW n \in Nat, from <= n,
         \A r \in rows : r.at \in Nat /\ r.at <= n
  PROVE  /\ Latest(rows, from) \in Nat /\ Latest(rows, from) <= n
         /\ Latest(rows, from) = from \/ \E r \in rows : Latest(rows, from) = r.at
<1> DEFINE times == {r.at : r \in rows} \cup {from}
<1>1. times # {} /\ times \subseteq Nat /\ \A x \in times : x <= n
  OBVIOUS
<1>2. \A x \in times : x = from \/ \E r \in rows : x = r.at
  OBVIOUS
<1>3. Latest(rows, from) \in times
  <2>1. Max(times) \in times
    <3> HIDE DEF times
    <3> QED BY <1>1, NewestOf
  <2> QED BY <2>1 DEF Latest
<1> HIDE DEF times
<1> QED BY <1>1, <1>2, <1>3

-----------------------------------------------------------------------------
(* The exchange and its Data API *)

ExchangeTrades == {Happened(i, n, o) : i \in Nat, n \in Nat, o \in Offers}

\* What the Data API shows is at most the overlap newer than what it does not yet.
WorldInv ==
  /\ now \in Nat
  /\ trades \in Seq(ExchangeTrades)
  /\ \A i \in DOMAIN trades : trades[i].id = i /\ trades[i].at \in Nat /\ trades[i].at <= now
  /\ indexed \subseteq DOMAIN trades
  /\ \A j \in indexed, i \in DOMAIN trades \ indexed :
       trades[j].at <= trades[i].at + Overlap

LEMMA WorldInitially == Init => WorldInv
BY WindowAssumption DEF Init, WorldInv

LEMMA TradeKeepsTheOld ==
  ASSUME WorldInv, NEW o \in Offers, Trade(o)
  PROVE  /\ trades' \in Seq(ExchangeTrades) /\ Len(trades) \in Nat
         /\ DOMAIN trades = 1..Len(trades) /\ DOMAIN trades' = 1..Len(trades) + 1
         /\ \A i \in 1..Len(trades) : trades'[i] = trades[i]
         /\ trades'[Len(trades) + 1].id = Len(trades) + 1
         /\ trades'[Len(trades) + 1].at = now
<1> DEFINE new == Happened(Len(trades) + 1, now, o)
<1>1. Len(trades) \in Nat /\ now \in Nat /\ trades \in Seq(ExchangeTrades)
  BY DEF WorldInv
<1>2. new \in ExchangeTrades
  <2>1. Len(trades) + 1 \in Nat
    BY <1>1
  <2> QED BY <1>1, <2>1 DEF ExchangeTrades
<1>3. new.id = Len(trades) + 1 /\ new.at = now
  BY DEF Happened
<1>4. trades' = Append(trades, new)
  BY DEF Trade
<1> HIDE DEF new
<1> QED BY <1>1, <1>2, <1>3, <1>4

LEMMA WorldSteps ==
  ASSUME WorldInv, [Next]_vars
  PROVE  WorldInv'
<1>1. CASE UNCHANGED <<now, trades, indexed>>
  BY <1>1 DEF WorldInv
<1>2. CASE Tick
  <2>1. now' = now + 1 /\ trades' = trades /\ indexed' = indexed
    BY <1>2 DEF Tick
  <2> QED BY <2>1 DEF WorldInv
<1>3. ASSUME NEW o \in Offers, Trade(o)
      PROVE  WorldInv'
  <2>1. now' = now /\ indexed' = indexed
    BY <1>3 DEF Trade
  <2>2. \A j \in indexed : j \in 1..Len(trades) /\ trades[j].at \in Nat /\ trades[j].at <= now
    BY <1>3, TradeKeepsTheOld DEF WorldInv
  <2>3. \A i \in 1..Len(trades) + 1 : i \in 1..Len(trades) \/ i = Len(trades) + 1
    BY <1>3, TradeKeepsTheOld
  <2> QED BY <1>3, <2>1, <2>2, <2>3, TradeKeepsTheOld, WindowAssumption DEF WorldInv
<1>4. ASSUME NEW i \in 1..MaxTrades, Index(i)
      PROVE  WorldInv'
  <2>1. /\ now' = now /\ trades' = trades /\ indexed' = indexed \cup {i}
        /\ i \in DOMAIN trades
        /\ \A j \in DOMAIN trades \ indexed : trades[i].at <= trades[j].at + Overlap
    BY <1>4 DEF Index
  <2> QED BY <2>1 DEF WorldInv
<1> QED
  BY <1>1, <1>2, <1>3, <1>4
  DEF Next, World, Runtime, vars, worldVars, cycleVars, keptVars, ExchangeResolves,
      ChangesItsMind, Refresh, Fails, ReadPositions, Bootstrap, Open, Poll, Dispatch,
      DispatchResolution, Rebuild

-----------------------------------------------------------------------------
(* The streams of a cycle *)

Due(s, i) ==
  /\ Covers(s, trades[i].wallet, MarketOf[trades[i].token])
  /\ Fresh(trades[i]) /\ i \notin stream.seen

\* The newest trade of a selector is at most the overlap newer than one still due.
StreamInv ==
  phase = "streaming" =>
    /\ stream.last \in [Selectors(plan) -> Nat]
    /\ \A s \in Selectors(plan) : stream.last[s] <= now
    /\ \A s \in Selectors(plan), i \in DOMAIN trades :
         Due(s, i) => stream.last[s] <= trades[i].at + Overlap

LEMMA InTheWindow ==
  ASSUME WorldInv, StreamInv, phase = "streaming", NEW s \in Selectors(plan),
         NEW i \in DOMAIN trades, Due(s, i)
  PROVE  trades[i].at >= WindowStart(s)
<1>1. /\ stream.last[s] \in Nat /\ trades[i].at \in Nat /\ now \in Nat
      /\ stream.last[s] <= trades[i].at + Overlap /\ trades[i].at >= now - MaxAge
  BY DEF WorldInv, StreamInv, Due, Fresh
<1> QED BY <1>1, WindowAssumption DEF WindowStart

LEMMA StreamInitially == Init => StreamInv
BY DEF Init, StreamInv

\* A poll delivers what is due and indexed; what is due and not, is not much older.
LEMMA PollPassesNothingOver ==
  ASSUME WorldInv, StreamInv, NEW s \in DOMAIN stream.last, Poll(s)
  PROVE  StreamInv'
<1> DEFINE usable == {r \in Rows(s) : Fresh(r)}
           from == stream.last[s]
<1>1. /\ phase = "streaming" /\ phase' = phase /\ plan' = plan
      /\ now' = now /\ trades' = trades /\ indexed' = indexed
      /\ stream.last \in [Selectors(plan) -> Nat] /\ s \in Selectors(plan)
      /\ from \in Nat /\ from <= now
  BY DEF Poll, worldVars, StreamInv
<1>2. stream'.last = [stream.last EXCEPT ![s] = Latest(usable, from)]
  BY DEF Poll
<1>3. stream'.seen = stream.seen \cup {r.id : r \in usable}
  BY DEF Poll
<1>4. \A r \in usable : \E j \in indexed : r = trades[j] /\ r.at \in Nat /\ r.at <= now
  BY DEF Rows, WorldInv
<1>5. /\ Latest(usable, from) \in Nat /\ Latest(usable, from) <= now
      /\ Latest(usable, from) = from \/ \E r \in usable : Latest(usable, from) = r.at
  <2> HIDE DEF usable, from
  <2> QED BY <1>1, <1>4, LatestOf DEF WorldInv
<1>6. ASSUME NEW i \in DOMAIN trades, Due(s, i)', i \in indexed
      PROVE  FALSE
  <2>1. Due(s, i)
    BY <1>1, <1>3, <1>6 DEF Due, Fresh
  <2>2. trades[i] \in usable /\ trades[i].id = i
    BY <1>1, <1>6, <2>1, InTheWindow DEF Due, Rows, WorldInv
  <2> QED BY <1>3, <1>6, <2>2 DEF Due
<1>7. ASSUME NEW i \in DOMAIN trades, NEW u \in Selectors(plan), Due(u, i)'
      PROVE  Due(u, i)
  BY <1>1, <1>3, <1>7 DEF Due, Fresh
<1>8. ASSUME NEW i \in DOMAIN trades, Due(s, i)'
      PROVE  Latest(usable, from) <= trades[i].at + Overlap
  <2>1. i \notin indexed /\ Due(s, i)
    BY <1>1, <1>6, <1>7, <1>8
  <2>2. from <= trades[i].at + Overlap
    BY <1>1, <2>1 DEF StreamInv
  <2>3. \A j \in indexed : trades[j].at <= trades[i].at + Overlap
    BY <2>1 DEF WorldInv
  <2> HIDE DEF usable, from
  <2> QED BY <1>4, <1>5, <2>2, <2>3
<1>9. stream'.last \in [Selectors(plan) -> Nat]
  BY <1>1, <1>2, <1>5
<1>10. \A u \in Selectors(plan) :
         stream'.last[u] = IF u = s THEN Latest(usable, from) ELSE stream.last[u]
  BY <1>1, <1>2
<1> HIDE DEF usable, from
<1> QED BY <1>1, <1>5, <1>7, <1>8, <1>9, <1>10 DEF StreamInv

LEMMA StreamSteps ==
  ASSUME WorldInv, WorldInv', StreamInv, [Next]_vars
  PROVE  StreamInv'
<1>1. CASE UNCHANGED <<now, trades, phase, plan, stream>>
  BY <1>1 DEF StreamInv, Due, Fresh
<1>2. CASE phase' # "streaming"
  BY <1>2 DEF StreamInv
<1>3. CASE Tick
  <2>1. /\ now' = now + 1 /\ trades' = trades /\ phase' = phase /\ plan' = plan
        /\ stream' = stream /\ now \in Nat
    BY <1>3 DEF Tick, cycleVars, WorldInv
  <2>2. \A i \in DOMAIN trades : Fresh(trades[i])' => Fresh(trades[i])
    BY <2>1, WindowAssumption DEF Fresh, WorldInv
  <2>3. \A i \in DOMAIN trades : \A s \in Selectors(plan) : Due(s, i)' => Due(s, i)
    BY <2>1, <2>2 DEF Due
  <2> QED BY <2>1, <2>3 DEF StreamInv
<1>4. ASSUME NEW o \in Offers, Trade(o)
      PROVE  StreamInv'
  <2>1. now' = now /\ phase' = phase /\ plan' = plan /\ stream' = stream /\ now \in Nat
    BY <1>4 DEF Trade, cycleVars, WorldInv
  <2>2. ASSUME phase = "streaming", NEW s \in Selectors(plan), NEW i \in DOMAIN trades',
               Due(s, i)'
        PROVE  stream.last[s] <= trades'[i].at + Overlap
    <3>1. CASE i \in DOMAIN trades
      <4>1. trades'[i] = trades[i]
        BY <1>4, <3>1, TradeKeepsTheOld
      <4>2. Due(s, i)
        BY <2>1, <2>2, <4>1 DEF Due, Fresh
      <4> QED BY <2>2, <3>1, <4>1, <4>2 DEF StreamInv
    <3>2. CASE i = Len(trades) + 1
      <4>1. trades'[i].at = now
        BY <1>4, <3>2, TradeKeepsTheOld
      <4>2. stream.last[s] \in Nat /\ stream.last[s] <= now
        BY <2>2 DEF StreamInv
      <4> QED BY <2>1, <4>1, <4>2, WindowAssumption
    <3> QED BY <1>4, <3>1, <3>2, TradeKeepsTheOld
  <2> QED BY <2>1, <2>2 DEF StreamInv
<1>5. ASSUME NEW ms \in SUBSET Markets, Open(ms), phase' = "streaming"
      PROVE  StreamInv'
  <2>1. stream' = NewStream(plan) /\ plan' = plan /\ now' = now /\ trades' = trades
    BY <1>5 DEF Open, Fails, worldVars
  <2>2. stream'.last = [s \in Selectors(plan) |-> 0]
    BY <2>1 DEF NewStream
  <2> QED BY <2>1, <2>2, WindowAssumption DEF StreamInv, WorldInv
<1>6. ASSUME NEW s \in DOMAIN stream.last, Poll(s)
      PROVE  StreamInv'
  BY <1>6, PollPassesNothingOver
<1>7. CASE Dispatch
  <2>1. CASE phase' = "streaming"
    <3>1. /\ now' = now /\ trades' = trades /\ plan' = plan /\ phase = "streaming"
          /\ stream' = [stream EXCEPT !.inbox = Tail(@)]
      BY <1>7, <2>1 DEF Dispatch, Fails, worldVars
    <3>2. stream'.last = stream.last /\ stream'.seen = stream.seen
      BY <3>1
    <3> QED BY <3>1, <3>2 DEF StreamInv, Due, Fresh
  <2> QED BY <2>1 DEF StreamInv
<1> QED
  BY <1>1, <1>2, <1>3, <1>4, <1>5, <1>6, <1>7
  DEF Next, World, Runtime, vars, worldVars, cycleVars, keptVars, Index, ExchangeResolves,
      ChangesItsMind, Refresh, Fails, ReadPositions, Bootstrap, DispatchResolution, Rebuild

\* The bot hears of a followed trade at most once, across every rebuild of the streams,
\* and no fresh trade falls between two polls.
THEOREM EveryTradeIsHeardOnce == Spec => []TradesReachTheBot
<1> DEFINE Inv == HeardInv /\ WorldInv /\ StreamInv
<1>1. Init => Inv
  BY HeardInitially, WorldInitially, StreamInitially
<1>2. Inv /\ [Next]_vars => Inv'
  BY HeardSteps, WorldSteps, StreamSteps
<1>3. Inv => TradesReachTheBot
  <2> SUFFICES ASSUME Inv, phase = "streaming", NEW i \in DOMAIN trades,
                      NEW s \in Selectors(plan), Due(s, i)
               PROVE  trades[i].at >= WindowStart(s)
    BY DEF TradesReachTheBot, HeardInv, NothingPassedOver, Due
  <2> QED BY InTheWindow
<1> HIDE DEF Inv
<1> QED BY <1>1, <1>2, <1>3, PTL DEF Spec
=============================================================================
