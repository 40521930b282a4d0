------------------------- MODULE PaperBrokerProofs -------------------------
(* Proofs about the paper broker, for any calls, markets, books and gaps. *)
EXTENDS PaperBroker, FiniteSetTheorems, WellFoundedInduction, TLAPS

Points == Awaiting \cup {"idle", "answered", "raised"}

(* The answers of orders: what a source id is filled or rejected with. *)
Verdicts == {Filled(c) : c \in Calls} \cup {Rejected(c) : c \in Calls}

LEMMA VerdictsAreFinal == Verdicts \cap {Unset, Pending, Broken} = {}
BY DEF Verdicts, Filled, Rejected, Unset, Pending, Broken

LEMMA UnsetIsNoOutcome == Unset # Pending /\ Unset # Broken /\ Pending # Broken
BY DEF Unset, Pending, Broken

LEMMA FilledIsVerdict ==
  ASSUME NEW c \in Calls
  PROVE  Filled(c) \in Verdicts /\ Rejected(c) \in Verdicts
BY DEF Verdicts

-----------------------------------------------------------------------------
(* One order per source id *)

Shared(c) == OrderOf[c].source # NoSource
Active(c) == pc[c] \in Awaiting \ {"waiting"}

CallTypes ==
  /\ pc \in [Calls -> Points]
  /\ answer \in [Calls -> Verdicts \cup {Unset}]
  /\ outcome \in [Calls -> Verdicts \cup {Unset, Pending, Broken}]
  /\ receipt \in [Calls -> Verdicts \cup {Unset}]
  /\ claims \in [Sources -> Calls \cup {NoCall}]
  /\ waitsOn \in [Calls -> Calls \cup {NoCall}]
  /\ applied \subseteq Calls

(* A claim belongs to a well-formed call of its source id that has not failed, *)
(* and such a call holds it.                                                   *)
ClaimOf(c) ==
  outcome[c] # Unset =>
    /\ OrderOf[c].valid /\ Shared(c)
    /\ outcome[c] # Broken => claims[OrderOf[c].source] = c

ClaimsOwned ==
  \A s \in Sources : claims[s] # NoCall =>
    /\ OrderOf[claims[s]].source = s /\ OrderOf[claims[s]].valid
    /\ outcome[claims[s]] \in Verdicts \cup {Pending}

(* The future of a claim is open exactly while its owner is under way. *)
UnderWay(c) ==
  /\ Active(c) => OrderOf[c].valid /\ (Shared(c) => outcome[c] = Pending)
  /\ outcome[c] = Pending => Active(c)

WaitsForOwner(c) ==
  pc[c] = "waiting" =>
    /\ OrderOf[c].valid /\ Shared(c) /\ outcome[c] = Unset
    /\ waitsOn[c] \in Calls /\ OrderOf[waitsOn[c]].source = OrderOf[c].source
    /\ outcome[waitsOn[c]] # Unset

(* An applied fill is kept as a receipt, and is the only answer its owner gives. *)
ReceiptOf(c) ==
  /\ receipt[c] # Unset => c \in applied /\ receipt[c] = Filled(c)
  /\ c \in applied =>
       /\ OrderOf[c].valid /\ pc[c] \in {"exiting", "answered", "raised"}
       /\ Shared(c) => receipt[c] = Filled(c) /\ outcome[c] \in {Pending, Filled(c)}
  /\ pc[c] = "exiting" =>
       answer[c] \in Verdicts /\ (c \in applied => answer[c] = Filled(c))

(* What a call was answered is what the claim of its source id still says. *)
AnswerKept(c) ==
  pc[c] = "answered" /\ OrderOf[c].valid /\ Shared(c) =>
    /\ answer[c] \in Verdicts
    /\ claims[OrderOf[c].source] # NoCall
    /\ outcome[claims[OrderOf[c].source]] = answer[c]

IdleIsNew(c) == pc[c] = "idle" => outcome[c] = Unset

CallInv(c) ==
  ClaimOf(c) /\ UnderWay(c) /\ WaitsForOwner(c) /\ ReceiptOf(c) /\ AnswerKept(c) /\ IdleIsNew(c)

ClaimInv == CallTypes /\ ClaimsOwned /\ \A c \in Calls : CallInv(c)

LEMMA SourceOf ==
  ASSUME NEW c \in Calls, Shared(c)
  PROVE  OrderOf[c].source \in Sources
BY DEF Shared, Sources

LEMMA ClaimInitially == BrokerInit => ClaimInv
<1> SUFFICES ASSUME BrokerInit PROVE ClaimInv
  OBVIOUS
<1> USE DEF BrokerInit
<1>1. CallTypes
  BY DEF CallTypes, Points
<1>2. ClaimsOwned
  BY DEF ClaimsOwned
<1>3. ASSUME NEW c \in Calls PROVE CallInv(c)
  BY UnsetIsNoOutcome, CallsAssumption
  DEF CallInv, ClaimOf, UnderWay, Active, Awaiting, WaitsForOwner, ReceiptOf, AnswerKept,
      IdleIsNew
<1>4. QED
  BY <1>1, <1>2, <1>3 DEF ClaimInv

claimVars == <<pc, answer, claims, outcome, receipt, waitsOn, applied>>

LEMMA ClaimUnchanged ==
  ASSUME ClaimInv, UNCHANGED claimVars
  PROVE  ClaimInv'
BY DEF ClaimInv, claimVars, CallTypes, ClaimsOwned, CallInv, ClaimOf, UnderWay, Active,
   WaitsForOwner, ReceiptOf, AnswerKept, IdleIsNew

(* A call under way reaches its next await. *)
LEMMA ClaimAdvance ==
  ASSUME ClaimInv, NEW c \in Calls, BeforeFill(c),
         NEW to \in Awaiting \ {"waiting", "exiting"}, pc' = [pc EXCEPT ![c] = to],
         UNCHANGED <<answer, claims, outcome, receipt, waitsOn, applied>>
  PROVE  ClaimInv'
<1> USE DEF ClaimInv
<1>1. CallTypes' /\ ClaimsOwned'
  BY DEF CallTypes, ClaimsOwned, Points
<1>2. pc'[c] = to /\ \A d \in Calls \ {c} : pc'[d] = pc[d]
  BY DEF CallTypes
<1>3. ASSUME NEW d \in Calls PROVE CallInv(d)'
  <2>1. CASE d = c
    BY <1>2, <2>1
    DEF CallInv, BeforeFill, Awaiting, ClaimOf, UnderWay, Active, WaitsForOwner, ReceiptOf,
        AnswerKept, IdleIsNew
  <2>2. CASE d # c
    BY <1>2, <2>2
    DEF CallInv, ClaimOf, UnderWay, Active, WaitsForOwner, ReceiptOf, AnswerKept, IdleIsNew
  <2>3. QED
    BY <2>1, <2>2
<1>4. QED
  BY <1>1, <1>3

(* A call begins: it owns a new claim, or carries no source id. *)
LEMMA ClaimBegin ==
  ASSUME ClaimInv, NEW c \in Calls, pc[c] = "idle", OrderOf[c].valid,
         pc' = [pc EXCEPT ![c] = "sleeping"],
         \/ ~Shared(c) /\ UNCHANGED <<claims, outcome>>
         \/ /\ Shared(c) /\ claims[OrderOf[c].source] = NoCall
            /\ claims' = [claims EXCEPT ![OrderOf[c].source] = c]
            /\ outcome' = [outcome EXCEPT ![c] = Pending],
         UNCHANGED <<answer, receipt, waitsOn, applied>>
  PROVE  ClaimInv'
<1> USE DEF ClaimInv
<1> DEFINE s == OrderOf[c].source
<1>1. outcome[c] = Unset /\ c \notin applied /\ receipt[c] = Unset
  BY DEF CallInv, IdleIsNew, ReceiptOf
<1>2. pc'[c] = "sleeping" /\ \A d \in Calls \ {c} : pc'[d] = pc[d] /\ outcome'[d] = outcome[d]
  BY DEF CallTypes
<1>3. CallTypes'
  <2>1. pc' \in [Calls -> Points]
    BY DEF CallTypes, Points, Awaiting
  <2>2. outcome' \in [Calls -> Verdicts \cup {Unset, Pending, Broken}]
    BY DEF CallTypes
  <2>3. claims' \in [Sources -> Calls \cup {NoCall}]
    BY DEF CallTypes
  <2>4. QED
    BY <2>1, <2>2, <2>3 DEF CallTypes
<1>4. CASE ~Shared(c) /\ UNCHANGED <<claims, outcome>>
  <2>1. ClaimsOwned'
    BY <1>4 DEF ClaimsOwned
  <2>2. ASSUME NEW d \in Calls, d # c PROVE CallInv(d)'
    BY <1>2, <1>4, <2>2
    DEF CallInv, ClaimOf, UnderWay, Active, WaitsForOwner, ReceiptOf, AnswerKept, IdleIsNew
  <2>3. CallInv(c)'
    BY <1>1, <1>2, <1>4, UnsetIsNoOutcome
    DEF CallInv, Awaiting, ClaimOf, UnderWay, Active, WaitsForOwner, ReceiptOf, AnswerKept,
        IdleIsNew
  <2>4. QED
    BY <1>3, <2>1, <2>2, <2>3
<1>5. CASE /\ Shared(c) /\ claims[s] = NoCall
           /\ claims' = [claims EXCEPT ![s] = c]
           /\ outcome' = [outcome EXCEPT ![c] = Pending]
  <2>1. /\ s \in Sources /\ claims'[s] = c /\ outcome'[c] = Pending
        /\ \A t \in Sources \ {s} : claims'[t] = claims[t]
    BY <1>5, SourceOf DEF CallTypes
  <2>2. ClaimsOwned'
    <3> SUFFICES ASSUME NEW t \in Sources, claims'[t] # NoCall
                 PROVE  /\ OrderOf[claims'[t]].source = t /\ OrderOf[claims'[t]].valid
                        /\ outcome'[claims'[t]] \in Verdicts \cup {Pending}
      BY DEF ClaimsOwned
    <3>1. CASE t = s
      BY <2>1, <3>1
    <3>2. CASE t # s
      <4>1. claims'[t] = claims[t] /\ claims[t] \in Calls /\ claims[t] # c
        BY <1>1, <2>1, <3>2, VerdictsAreFinal, UnsetIsNoOutcome DEF CallTypes, ClaimsOwned
      <4>2. QED
        BY <1>2, <4>1 DEF ClaimsOwned
    <3>3. QED
      BY <3>1, <3>2
  <2>3. CallInv(c)'
    BY <1>1, <1>2, <1>5, <2>1, UnsetIsNoOutcome
    DEF CallInv, Awaiting, ClaimOf, UnderWay, Active, WaitsForOwner, ReceiptOf, AnswerKept,
        IdleIsNew
  <2>4. ASSUME NEW d \in Calls, d # c PROVE CallInv(d)'
    <3>1. ClaimOf(d)'
      <4>1. outcome[d] # Unset /\ outcome[d] # Broken => OrderOf[d].source # s
        BY <1>5, CallsAssumption, <2>1 DEF CallInv, ClaimOf
      <4>2. Shared(d) => OrderOf[d].source \in Sources
        BY SourceOf
      <4>3. QED
        BY <1>2, <2>1, <2>4, <4>1, <4>2 DEF CallInv, ClaimOf, Shared
    <3>2. UnderWay(d)' /\ ReceiptOf(d)' /\ IdleIsNew(d)'
      BY <1>2, <2>4 DEF CallInv, UnderWay, Active, ReceiptOf, IdleIsNew, Shared
    <3>3. WaitsForOwner(d)'
      BY <1>2, <2>1, <2>4, UnsetIsNoOutcome DEF CallInv, WaitsForOwner, Shared
    <3>4. AnswerKept(d)'
      <4> SUFFICES ASSUME pc'[d] = "answered", OrderOf[d].valid, Shared(d)
                   PROVE  /\ answer'[d] \in Verdicts /\ claims'[OrderOf[d].source] # NoCall
                          /\ outcome'[claims'[OrderOf[d].source]] = answer'[d]
        BY DEF AnswerKept, Shared
      <4>1. /\ answer[d] \in Verdicts /\ claims[OrderOf[d].source] # NoCall
            /\ outcome[claims[OrderOf[d].source]] = answer[d]
        BY <1>2, <2>4 DEF CallInv, AnswerKept
      <4>2. OrderOf[d].source \in Sources /\ OrderOf[d].source # s
        BY <1>5, <4>1, SourceOf
      <4>3. claims[OrderOf[d].source] \in Calls \ {c}
        BY <1>1, <4>1, <4>2, VerdictsAreFinal DEF CallTypes
      <4>4. QED
        BY <1>2, <2>1, <4>1, <4>2, <4>3
    <3>5. QED
      BY <3>1, <3>2, <3>3, <3>4 DEF CallInv
  <2>5. QED
    BY <1>3, <2>2, <2>3, <2>4
<1>6. QED
  BY <1>4, <1>5

(* A duplicate begins to wait for the owner of its claim. *)
LEMMA ClaimWait ==
  ASSUME ClaimInv, NEW c \in Calls, pc[c] = "idle", OrderOf[c].valid, Shared(c),
         claims[OrderOf[c].source] # NoCall,
         pc' = [pc EXCEPT ![c] = "waiting"],
         waitsOn' = [waitsOn EXCEPT ![c] = claims[OrderOf[c].source]],
         UNCHANGED <<claims, outcome, answer, receipt, applied>>
  PROVE  ClaimInv'
<1> USE DEF ClaimInv
<1>1. outcome[c] = Unset /\ c \notin applied /\ receipt[c] = Unset
  BY DEF CallInv, IdleIsNew, ReceiptOf
<1> DEFINE owner == claims[OrderOf[c].source]
<1>2. /\ owner \in Calls /\ OrderOf[owner].source = OrderOf[c].source
      /\ outcome[owner] # Unset
  BY SourceOf, VerdictsAreFinal, UnsetIsNoOutcome DEF CallTypes, ClaimsOwned
<1> HIDE DEF owner
<1>3. /\ pc'[c] = "waiting" /\ waitsOn'[c] = owner
      /\ \A d \in Calls \ {c} : pc'[d] = pc[d] /\ waitsOn'[d] = waitsOn[d]
  BY DEF CallTypes, owner
<1>4. CallTypes'
  <2>1. pc' \in [Calls -> Points]
    BY DEF CallTypes, Points, Awaiting
  <2>2. QED
    BY <1>2, <2>1 DEF CallTypes, owner
<1>5. ClaimsOwned'
  BY DEF ClaimsOwned
<1>6. CallInv(c)'
  BY <1>1, <1>2, <1>3, UnsetIsNoOutcome
  DEF CallInv, Awaiting, ClaimOf, UnderWay, Active, WaitsForOwner, ReceiptOf, AnswerKept,
      IdleIsNew, Shared
<1>7. ASSUME NEW d \in Calls, d # c PROVE CallInv(d)'
  BY <1>3, <1>7
  DEF CallInv, ClaimOf, UnderWay, Active, WaitsForOwner, ReceiptOf, AnswerKept, IdleIsNew,
      Shared
<1>8. QED
  BY <1>4, <1>5, <1>6, <1>7

(* A call under way returns its answer; the claim it owns says the same. *)
LEMMA ClaimReturn ==
  ASSUME ClaimInv, NEW c \in Calls, Active(c), NEW a \in Verdicts,
         c \in applied => a = Filled(c), Return(c, a), UNCHANGED applied
  PROVE  ClaimInv'
<1> USE DEF ClaimInv
<1>1. /\ pc' = [pc EXCEPT ![c] = "answered"] /\ answer' = [answer EXCEPT ![c] = a]
      /\ outcome' = IF outcome[c] # Unset THEN [outcome EXCEPT ![c] = a] ELSE outcome
      /\ UNCHANGED <<claims, receipt, waitsOn, applied>>
  BY DEF Return, OwnsClaim
<1>2. /\ OrderOf[c].valid /\ (Shared(c) => outcome[c] = Pending)
      /\ ~Shared(c) => outcome[c] = Unset
      /\ pc[c] # "waiting"
  BY DEF CallInv, UnderWay, ClaimOf, Active
<1>3. /\ a \notin {Unset, Pending, Broken}
      /\ pc'[c] = "answered" /\ answer'[c] = a
      /\ \A d \in Calls \ {c} : pc'[d] = pc[d] /\ answer'[d] = answer[d]
                                 /\ outcome'[d] = outcome[d]
      /\ Shared(c) => outcome'[c] = a
      /\ ~Shared(c) => outcome'[c] = Unset
  BY <1>1, <1>2, VerdictsAreFinal, UnsetIsNoOutcome DEF CallTypes
<1>4. CallTypes'
  <2>1. pc' \in [Calls -> Points]
    BY <1>1 DEF CallTypes, Points
  <2>2. QED
    BY <1>1, <2>1 DEF CallTypes
<1>5. ClaimsOwned'
  BY <1>1, <1>3 DEF ClaimsOwned, CallTypes
<1>6. CallInv(c)'
  <2>1. ClaimOf(c)' /\ UnderWay(c)' /\ WaitsForOwner(c)' /\ IdleIsNew(c)'
    BY <1>1, <1>2, <1>3, UnsetIsNoOutcome
    DEF CallInv, ClaimOf, UnderWay, Active, Awaiting, WaitsForOwner, IdleIsNew, Shared
  <2>2. ReceiptOf(c)'
    BY <1>1, <1>2, <1>3 DEF CallInv, ReceiptOf, Shared
  <2>3. AnswerKept(c)'
    BY <1>1, <1>2, <1>3, CallsAssumption, UnsetIsNoOutcome
    DEF CallInv, AnswerKept, ClaimOf, Shared
  <2>4. QED
    BY <2>1, <2>2, <2>3 DEF CallInv
<1>7. ASSUME NEW d \in Calls, d # c PROVE CallInv(d)'
  <2>1. ClaimOf(d)' /\ UnderWay(d)' /\ IdleIsNew(d)' /\ ReceiptOf(d)'
    BY <1>1, <1>3, <1>7 DEF CallInv, ClaimOf, UnderWay, Active, ReceiptOf, IdleIsNew, Shared
  <2>2. WaitsForOwner(d)'
    BY <1>1, <1>2, <1>3, <1>7 DEF CallInv, WaitsForOwner, Shared
  <2>3. AnswerKept(d)'
    BY <1>1, <1>2, <1>3, <1>7, VerdictsAreFinal, SourceOf, UnsetIsNoOutcome
    DEF CallInv, AnswerKept, Shared, CallTypes
  <2>4. QED
    BY <2>1, <2>2, <2>3 DEF CallInv
<1>8. QED
  BY <1>4, <1>5, <1>6, <1>7

(* A duplicate returns what the claim says. *)
LEMMA ClaimShare ==
  ASSUME ClaimInv, NEW c \in Calls, pc[c] = "waiting",
         outcome[waitsOn[c]] \notin {Pending, Broken}, Return(c, outcome[waitsOn[c]]),
         UNCHANGED applied
  PROVE  ClaimInv'
<1> USE DEF ClaimInv
<1> DEFINE owner == waitsOn[c]
<1>1. /\ OrderOf[c].valid /\ Shared(c) /\ outcome[c] = Unset /\ c \notin applied
      /\ owner \in Calls /\ OrderOf[owner].source = OrderOf[c].source
      /\ outcome[owner] \in Verdicts
  BY DEF CallInv, WaitsForOwner, ReceiptOf, CallTypes
<1>2. claims[OrderOf[c].source] = owner
  BY <1>1, VerdictsAreFinal DEF CallInv, ClaimOf
<1> HIDE DEF owner
<1>3. /\ pc' = [pc EXCEPT ![c] = "answered"]
      /\ answer' = [answer EXCEPT ![c] = outcome[owner]]
      /\ UNCHANGED <<claims, outcome, receipt, waitsOn, applied>>
  BY <1>1 DEF Return, OwnsClaim, owner
<1>4. /\ pc'[c] = "answered" /\ answer'[c] = outcome[owner]
      /\ \A d \in Calls \ {c} : pc'[d] = pc[d] /\ answer'[d] = answer[d]
  BY <1>3 DEF CallTypes
<1>5. CallTypes' /\ ClaimsOwned'
  BY <1>1, <1>3 DEF CallTypes, ClaimsOwned, Points
<1>6. CallInv(c)'
  <2>1. AnswerKept(c)'
    BY <1>1, <1>2, <1>3, <1>4, CallsAssumption DEF AnswerKept
  <2>2. QED
    BY <1>1, <1>3, <1>4, <2>1, UnsetIsNoOutcome
    DEF CallInv, Awaiting, ClaimOf, UnderWay, Active, WaitsForOwner, ReceiptOf, IdleIsNew
<1>7. ASSUME NEW d \in Calls, d # c PROVE CallInv(d)'
  BY <1>3, <1>4, <1>7
  DEF CallInv, ClaimOf, UnderWay, Active, WaitsForOwner, ReceiptOf, AnswerKept, IdleIsNew
<1>8. QED
  BY <1>5, <1>6, <1>7

(* A call raises: its applied fill becomes the answer of its source id, *)
(* otherwise the claim is given up.                                     *)
LEMMA ClaimRaise ==
  ASSUME ClaimInv, NEW c \in Calls, pc[c] \in Awaiting, Raise(c), UNCHANGED applied
  PROVE  ClaimInv'
<1> USE DEF ClaimInv
<1> DEFINE s == OrderOf[c].source
<1>1. pc' = [pc EXCEPT ![c] = "raised"] /\ UNCHANGED <<answer, receipt, waitsOn, applied>>
  BY DEF Raise
<1>2. pc'[c] = "raised" /\ \A d \in Calls \ {c} : pc'[d] = pc[d]
  BY <1>1 DEF CallTypes
<1>3. pc' \in [Calls -> Points]
  BY <1>1 DEF CallTypes, Points
<1>4. outcome[c] # Unset => outcome[c] = Pending /\ Active(c) /\ Shared(c) /\ OrderOf[c].valid
                            /\ s \in Sources /\ claims[s] = c
  BY SourceOf, UnsetIsNoOutcome
  DEF CallInv, UnderWay, ClaimOf, WaitsForOwner, Active, Awaiting
<1>5. CASE UNCHANGED <<outcome, claims>> /\ outcome[c] = Unset
  <2>1. CallTypes' /\ ClaimsOwned'
    BY <1>1, <1>3, <1>5 DEF CallTypes, ClaimsOwned
  <2>2. CallInv(c)'
    BY <1>1, <1>2, <1>5, UnsetIsNoOutcome
    DEF CallInv, Awaiting, ClaimOf, UnderWay, Active, WaitsForOwner, ReceiptOf, AnswerKept,
        IdleIsNew
  <2>3. ASSUME NEW d \in Calls, d # c PROVE CallInv(d)'
    BY <1>1, <1>2, <1>5, <2>3
    DEF CallInv, ClaimOf, UnderWay, Active, WaitsForOwner, ReceiptOf, AnswerKept, IdleIsNew
  <2>4. QED
    BY <2>1, <2>2, <2>3
<1>6. CASE /\ outcome[c] # Unset /\ receipt[c] # Unset
           /\ outcome' = [outcome EXCEPT ![c] = receipt[c]] /\ UNCHANGED claims
  <2>1. receipt[c] = Filled(c) /\ c \in applied /\ Filled(c) \in Verdicts
    BY <1>6, FilledIsVerdict DEF CallInv, ReceiptOf
  <2>2. outcome'[c] = Filled(c) /\ \A d \in Calls \ {c} : outcome'[d] = outcome[d]
    BY <1>6, <2>1 DEF CallTypes
  <2>3. CallTypes' /\ ClaimsOwned'
    BY <1>1, <1>3, <1>6, <2>1, <2>2 DEF CallTypes, ClaimsOwned
  <2>4. CallInv(c)'
    BY <1>1, <1>2, <1>4, <1>6, <2>1, <2>2, VerdictsAreFinal
    DEF CallInv, Awaiting, ClaimOf, UnderWay, Active, WaitsForOwner, ReceiptOf, AnswerKept,
        IdleIsNew, Shared
  <2>5. ASSUME NEW d \in Calls, d # c PROVE CallInv(d)'
    <3>1. ClaimOf(d)' /\ UnderWay(d)' /\ IdleIsNew(d)' /\ ReceiptOf(d)'
      BY <1>1, <1>2, <1>6, <2>2, <2>5
      DEF CallInv, ClaimOf, UnderWay, Active, ReceiptOf, IdleIsNew, Shared
    <3>2. WaitsForOwner(d)'
      BY <1>1, <1>2, <2>1, <2>2, <2>5, VerdictsAreFinal DEF CallInv, WaitsForOwner, Shared
    <3>3. AnswerKept(d)'
      BY <1>1, <1>2, <1>4, <1>6, <2>2, <2>5, VerdictsAreFinal, SourceOf
      DEF CallInv, AnswerKept, Shared, CallTypes
    <3>4. QED
      BY <3>1, <3>2, <3>3 DEF CallInv
  <2>6. QED
    BY <2>3, <2>4, <2>5
<1>7. CASE /\ outcome[c] # Unset /\ receipt[c] = Unset
           /\ outcome' = [outcome EXCEPT ![c] = Broken]
           /\ claims' = [claims EXCEPT ![s] = IF @ = c THEN NoCall ELSE @]
  <2>1. /\ outcome'[c] = Broken /\ \A d \in Calls \ {c} : outcome'[d] = outcome[d]
        /\ claims'[s] = NoCall /\ \A t \in Sources \ {s} : claims'[t] = claims[t]
        /\ claims' \in [Sources -> Calls \cup {NoCall}]
    BY <1>4, <1>7 DEF CallTypes
  <2>2. c \notin applied
    <3>1. Filled(c) # Unset
      BY FilledIsVerdict, VerdictsAreFinal
    <3>2. QED
      BY <1>4, <1>7, <3>1 DEF CallInv, ReceiptOf
  <2>3. CallTypes'
    BY <1>1, <1>3, <1>7, <2>1 DEF CallTypes
  <2>4. ClaimsOwned'
    <3> SUFFICES ASSUME NEW t \in Sources, claims'[t] # NoCall
                 PROVE  /\ OrderOf[claims'[t]].source = t /\ OrderOf[claims'[t]].valid
                        /\ outcome'[claims'[t]] \in Verdicts \cup {Pending}
      BY DEF ClaimsOwned
    <3>1. t # s /\ claims'[t] = claims[t]
      BY <2>1
    <3>2. claims[t] \in Calls \ {c}
      BY <1>4, <1>7, <2>1, <3>1 DEF CallTypes, ClaimsOwned
    <3>3. QED
      BY <2>1, <3>1, <3>2 DEF ClaimsOwned
  <2>5. CallInv(c)'
    BY <1>1, <1>2, <1>4, <1>7, <2>1, <2>2, UnsetIsNoOutcome
    DEF CallInv, Awaiting, ClaimOf, UnderWay, Active, WaitsForOwner, ReceiptOf, AnswerKept,
        IdleIsNew, Shared
  <2>6. ASSUME NEW d \in Calls, d # c PROVE CallInv(d)'
    <3>1. ClaimOf(d)'
      <4>1. outcome[d] # Unset /\ outcome[d] # Broken => OrderOf[d].source # s
        BY <1>4, <1>7, <2>6 DEF CallInv, ClaimOf
      <4>2. Shared(d) => OrderOf[d].source \in Sources
        BY SourceOf
      <4>3. QED
        BY <2>1, <2>6, <4>1, <4>2 DEF CallInv, ClaimOf, Shared
    <3>2. UnderWay(d)' /\ IdleIsNew(d)' /\ ReceiptOf(d)'
      BY <1>1, <1>2, <2>1, <2>6 DEF CallInv, UnderWay, Active, ReceiptOf, IdleIsNew, Shared
    <3>3. WaitsForOwner(d)'
      BY <1>1, <1>2, <2>1, <2>6, UnsetIsNoOutcome DEF CallInv, WaitsForOwner, Shared
    <3>4. AnswerKept(d)'
      <4> SUFFICES ASSUME pc'[d] = "answered", OrderOf[d].valid, Shared(d)
                   PROVE  /\ answer'[d] \in Verdicts /\ claims'[OrderOf[d].source] # NoCall
                          /\ outcome'[claims'[OrderOf[d].source]] = answer'[d]
        BY DEF AnswerKept, Shared
      <4>1. /\ answer[d] \in Verdicts /\ claims[OrderOf[d].source] # NoCall
            /\ outcome[claims[OrderOf[d].source]] = answer[d]
        BY <1>2, <2>6 DEF CallInv, AnswerKept
      <4>2. OrderOf[d].source \in Sources /\ OrderOf[d].source # s
        BY <1>4, <1>7, <4>1, SourceOf, VerdictsAreFinal
      <4>3. claims[OrderOf[d].source] \in Calls \ {c}
        BY <1>4, <1>7, <4>1, <4>2, VerdictsAreFinal DEF CallTypes
      <4>4. QED
        BY <1>1, <2>1, <4>1, <4>2, <4>3
    <3>5. QED
      BY <3>1, <3>2, <3>3, <3>4 DEF CallInv
  <2>7. QED
    BY <2>3, <2>4, <2>5, <2>6
<1>8. QED
  BY <1>5, <1>6, <1>7 DEF Raise, OwnsClaim

(* The order is decided inside the scope: filled, which leaves a receipt with *)
(* its claim, or rejected.                                                    *)
LEMMA ClaimDecide ==
  ASSUME ClaimInv, NEW c \in Calls, pc[c] = "entering",
         pc' = [pc EXCEPT ![c] = "exiting"],
         \/ /\ applied' = applied \cup {c}
            /\ answer' = [answer EXCEPT ![c] = Filled(c)]
            /\ receipt' = IF OwnsClaim(c) THEN [receipt EXCEPT ![c] = Filled(c)] ELSE receipt
         \/ /\ answer' = [answer EXCEPT ![c] = Rejected(c)]
            /\ UNCHANGED <<applied, receipt>>,
         UNCHANGED <<claims, outcome, waitsOn>>
  PROVE  ClaimInv'
<1> USE DEF ClaimInv
<1>1. /\ Active(c) /\ c \notin applied /\ receipt[c] = Unset /\ OrderOf[c].valid
      /\ Shared(c) => outcome[c] = Pending
      /\ ~Shared(c) => outcome[c] = Unset
  BY DEF CallInv, UnderWay, ClaimOf, Active, Awaiting, ReceiptOf
<1>2. Filled(c) \in Verdicts /\ Rejected(c) \in Verdicts
  BY FilledIsVerdict
<1>3. /\ pc'[c] = "exiting"
      /\ \A d \in Calls \ {c} : /\ pc'[d] = pc[d] /\ answer'[d] = answer[d]
                                /\ receipt'[d] = receipt[d]
                                /\ d \in applied' <=> d \in applied
  BY DEF CallTypes
<1>4. CallTypes'
  <2>1. pc' \in [Calls -> Points] /\ answer' \in [Calls -> Verdicts \cup {Unset}]
    BY <1>2 DEF CallTypes, Points, Awaiting
  <2>2. receipt' \in [Calls -> Verdicts \cup {Unset}] /\ applied' \subseteq Calls
    BY <1>2 DEF CallTypes
  <2>3. QED
    BY <2>1, <2>2 DEF CallTypes
<1>5. ClaimsOwned'
  BY DEF ClaimsOwned
<1>6. ReceiptOf(c)'
  <2>1. CASE /\ applied' = applied \cup {c}
             /\ answer' = [answer EXCEPT ![c] = Filled(c)]
             /\ receipt' = IF OwnsClaim(c) THEN [receipt EXCEPT ![c] = Filled(c)] ELSE receipt
    <3>1. c \in applied' /\ answer'[c] = Filled(c)
      BY <2>1 DEF CallTypes
    <3>2. Shared(c) => receipt'[c] = Filled(c)
      BY <1>1, <2>1, UnsetIsNoOutcome DEF CallTypes, OwnsClaim
    <3>3. ~Shared(c) => receipt'[c] = Unset
      BY <1>1, <2>1 DEF OwnsClaim
    <3>4. QED
      BY <1>1, <1>2, <1>3, <3>1, <3>2, <3>3 DEF ReceiptOf, Shared
  <2>2. CASE /\ answer' = [answer EXCEPT ![c] = Rejected(c)]
             /\ UNCHANGED <<applied, receipt>>
    <3>1. answer'[c] = Rejected(c)
      BY <2>2 DEF CallTypes
    <3>2. QED
      BY <1>1, <1>2, <1>3, <2>2, <3>1 DEF ReceiptOf
  <2>3. QED
    BY <2>1, <2>2
<1>7. CallInv(c)'
  BY <1>1, <1>3, <1>6, UnsetIsNoOutcome
  DEF CallInv, Awaiting, ClaimOf, UnderWay, Active, WaitsForOwner, AnswerKept, IdleIsNew, Shared
<1>8. ASSUME NEW d \in Calls, d # c PROVE CallInv(d)'
  BY <1>3, <1>8
  DEF CallInv, ClaimOf, UnderWay, Active, WaitsForOwner, ReceiptOf, AnswerKept, IdleIsNew,
      Shared
<1>9. QED
  BY <1>4, <1>5, <1>7, <1>8

LEMMA ClaimRejectMalformed ==
  ASSUME ClaimInv, NEW c \in Calls, RejectMalformed(c)
  PROVE  ClaimInv'
<1> USE DEF ClaimInv
<1>1. /\ pc[c] = "idle" /\ ~OrderOf[c].valid
      /\ pc' = [pc EXCEPT ![c] = "answered"] /\ answer' = [answer EXCEPT ![c] = Rejected(c)]
      /\ UNCHANGED <<claims, outcome, receipt, waitsOn, applied>>
  BY DEF RejectMalformed, historyVars
<1>2. /\ pc'[c] = "answered"
      /\ \A d \in Calls \ {c} : pc'[d] = pc[d] /\ answer'[d] = answer[d]
  BY <1>1 DEF CallTypes
<1>3. CallTypes' /\ ClaimsOwned'
  BY <1>1, FilledIsVerdict DEF CallTypes, ClaimsOwned, Points
<1>4. outcome[c] = Unset /\ c \notin applied
  BY <1>1 DEF CallInv, IdleIsNew, ReceiptOf
<1>5. CallInv(c)'
  BY <1>1, <1>2, <1>4, UnsetIsNoOutcome
  DEF CallInv, Awaiting, ClaimOf, UnderWay, Active, WaitsForOwner, ReceiptOf, AnswerKept,
      IdleIsNew
<1>6. ASSUME NEW d \in Calls, d # c PROVE CallInv(d)'
  BY <1>1, <1>2, <1>6
  DEF CallInv, ClaimOf, UnderWay, Active, WaitsForOwner, ReceiptOf, AnswerKept, IdleIsNew
<1>7. QED
  BY <1>3, <1>5, <1>6

LEMMA ClaimSubmit ==
  ASSUME ClaimInv, NEW c \in Calls, Submit(c)
  PROVE  ClaimInv'
<1>1. pc[c] = "idle" /\ OrderOf[c].valid /\ UNCHANGED <<applied, answer, receipt>>
  BY DEF Submit
<1>2. CASE ~Shared(c)
  BY <1>1, <1>2, ClaimBegin DEF Submit, Begin, Shared
<1>3. CASE Shared(c) /\ claims[OrderOf[c].source] = NoCall
  BY <1>1, <1>3, ClaimBegin DEF Submit, Begin, Shared
<1>4. CASE Shared(c) /\ claims[OrderOf[c].source] # NoCall
  BY <1>1, <1>4, ClaimWait DEF Submit, Shared
<1>5. QED
  BY <1>2, <1>3, <1>4

(* An order that is rejected before its fill leaves nothing behind. *)
LEMMA ClaimReject ==
  ASSUME ClaimInv, NEW c \in Calls, BeforeFill(c), Reject(c), UNCHANGED applied
  PROVE  ClaimInv'
<1>1. Active(c) /\ c \notin applied
  BY DEF ClaimInv, CallInv, ReceiptOf, BeforeFill, Active, Awaiting
<1>2. QED
  BY <1>1, ClaimReturn, FilledIsVerdict DEF Reject

LEMMA ClaimProgress ==
  ASSUME ClaimInv, NEW c \in Calls, Progress(c)
  PROVE  ClaimInv'
<1>1. CASE WakeWaiter(c)
  BY <1>1, ClaimShare, ClaimRaise DEF WakeWaiter, Awaiting, historyVars
<1>2. CASE Wake(c)
  BY <1>2, ClaimReject, ClaimAdvance DEF Wake, Advance, BeforeFill, Awaiting, historyVars
<1>3. CASE ReadBook(c)
  <2>1. BeforeFill(c) /\ UNCHANGED applied
    BY <1>3 DEF ReadBook, BeforeFill, Awaiting, historyVars
  <2>2. CASE Reject(c)
    BY <2>1, <2>2, ClaimReject
  <2>3. ASSUME NEW to \in {"market1", "market2"}, Advance(c, to) PROVE ClaimInv'
    BY <2>1, <2>3, ClaimAdvance DEF Advance, Awaiting
  <2>4. QED
    BY <1>3, <2>2, <2>3 DEF ReadBook
<1>4. CASE ReadMarket(c)
  <2>1. BeforeFill(c) /\ UNCHANGED applied
    BY <1>4 DEF ReadMarket, BeforeFill, Awaiting, historyVars
  <2>2. CASE Reject(c)
    BY <2>1, <2>2, ClaimReject
  <2>3. ASSUME NEW to \in {"book2", "entering"}, Advance(c, to) PROVE ClaimInv'
    BY <2>1, <2>3, ClaimAdvance DEF Advance, Awaiting
  <2>4. QED
    BY <1>4, <2>2, <2>3 DEF ReadMarket
<1>5. CASE ScopeRefused(c)
  BY <1>5, ClaimRaise DEF ScopeRefused, Awaiting, historyVars
<1>6. CASE Apply(c)
  BY <1>6, ClaimDecide DEF Apply
<1>7. CASE RejectInScope(c)
  BY <1>7, ClaimDecide DEF RejectInScope, historyVars
<1>8. CASE LeaveScope(c)
  <2>1. /\ Active(c) /\ pc[c] \in Awaiting /\ UNCHANGED applied
        /\ answer[c] \in Verdicts /\ (c \in applied => answer[c] = Filled(c))
    BY <1>8 DEF LeaveScope, ClaimInv, CallInv, ReceiptOf, Active, Awaiting, historyVars
  <2>2. QED
    BY <1>8, <2>1, ClaimReturn, ClaimRaise DEF LeaveScope
<1>9. QED
  BY <1>1, <1>2, <1>3, <1>4, <1>5, <1>6, <1>7, <1>8 DEF Progress

LEMMA ClaimStep ==
  ASSUME ClaimInv, [BrokerNext]_brokerVars
  PROVE  ClaimInv'
<1>1. ASSUME NEW c \in Calls, Submit(c) \/ RejectMalformed(c) \/ Cancel(c) \/ Progress(c)
      PROVE  ClaimInv'
  BY <1>1, ClaimSubmit, ClaimRejectMalformed, ClaimRaise, ClaimProgress DEF Cancel, historyVars
<1>2. CASE \/ \E m \in Conditions : Track(m) \/ GapBegins(m) \/ GapRecovers(m)
           \/ \E m \in Conditions : \E w \in TokensOf(m) : ResolutionArrives(m, w)
           \/ Resolve
           \/ UNCHANGED brokerVars
  BY <1>2, ClaimUnchanged
  DEF Track, GapBegins, GapRecovers, ResolutionArrives, Resolve, ApplyResolution,
      ResolutionFails, TellBot, brokerVars, callVars, historyVars, claimVars
<1>3. QED
  BY <1>1, <1>2 DEF BrokerNext

-----------------------------------------------------------------------------
(* Coverage gaps and fills *)

(* A gap moves the revision of its market, so a call that was overtaken by one *)
(* began in a gap or under an older revision.                                  *)
OvertakenShows(c) ==
  BeforeFill(c) =>
    /\ startedAt[c].revision <= continuity[MarketOf(c)].revision
    /\ c \in disturbed => \/ startedAt[c].blackout
                          \/ startedAt[c].revision < continuity[MarketOf(c)].revision

GapInv ==
  /\ startedAt \in [Calls -> Continuities] /\ continuity \in [Conditions -> Continuities]
  /\ disturbed \subseteq Calls
  /\ \A c \in Calls : OvertakenShows(c)
  /\ \A c \in disturbed : pc[c] # "idle"
  /\ applied \cap disturbed = {}

LEMMA MarketOfCall ==
  ASSUME NEW c \in Calls
  PROVE  MarketOf(c) \in Conditions
BY CallsAssumption, MarketsAssumption DEF MarketOf

LEMMA GapInitially == BrokerInit => GapInv
BY CallsAssumption
DEF BrokerInit, GapInv, Continuities, OvertakenShows, BeforeFill, Awaiting

(* A call moves without beginning: past the fill, or towards it. *)
LEMMA GapMove ==
  ASSUME GapInv, ClaimInv, NEW c \in Calls, NEW to \in Points, to # "idle",
         pc' = [pc EXCEPT ![c] = to],
         to \in Awaiting \ {"waiting", "exiting"} => BeforeFill(c),
         UNCHANGED <<startedAt, continuity, disturbed, applied>>
  PROVE  GapInv'
<1>1. pc'[c] = to /\ \A d \in Calls \ {c} : pc'[d] = pc[d]
  BY DEF ClaimInv, CallTypes
<1>2. \A d \in Calls : BeforeFill(d)' => BeforeFill(d)
  BY <1>1 DEF BeforeFill
<1>3. \A d \in Calls : OvertakenShows(d)'
  BY <1>2 DEF GapInv, OvertakenShows, MarketOf
<1>4. \A d \in disturbed' : pc'[d] # "idle"
  BY <1>1 DEF GapInv
<1>5. QED
  BY <1>3, <1>4 DEF GapInv

LEMMA GapBegin ==
  ASSUME GapInv, ClaimInv, NEW c \in Calls, pc[c] = "idle", Begin(c),
         UNCHANGED <<continuity, applied>>
  PROVE  GapInv'
<1> DEFINE now == continuity[MarketOf(c)]
<1>1. /\ pc' = [pc EXCEPT ![c] = "sleeping"] /\ startedAt' = [startedAt EXCEPT ![c] = now]
      /\ disturbed' = IF now.blackout THEN disturbed \cup {c} ELSE disturbed
  BY DEF Begin
<1>2. /\ pc'[c] = "sleeping" /\ startedAt'[c] = now
      /\ \A d \in Calls \ {c} : pc'[d] = pc[d] /\ startedAt'[d] = startedAt[d]
  BY <1>1 DEF ClaimInv, CallTypes, GapInv
<1>3. now \in Continuities /\ now.revision <= now.revision
  BY MarketOfCall, CallsAssumption DEF GapInv, Continuities
<1>4. c \notin applied /\ c \notin disturbed
  BY DEF ClaimInv, CallInv, ReceiptOf, GapInv
<1>5. startedAt' \in [Calls -> Continuities] /\ disturbed' \subseteq Calls
  BY <1>1, <1>3 DEF GapInv
<1>6. OvertakenShows(c)'
  BY <1>1, <1>2, <1>3, <1>4 DEF OvertakenShows, MarketOf
<1>7. ASSUME NEW d \in Calls, d # c PROVE OvertakenShows(d)'
  BY <1>1, <1>2, <1>7 DEF GapInv, OvertakenShows, BeforeFill, MarketOf
<1>8. \A d \in disturbed' : pc'[d] # "idle"
  BY <1>1, <1>2 DEF GapInv
<1>9. applied' \cap disturbed' = {}
  BY <1>1, <1>4 DEF GapInv
<1>10. QED
  BY <1>5, <1>6, <1>7, <1>8, <1>9 DEF GapInv

(* A fill is applied only where no gap shows. *)
LEMMA GapApply ==
  ASSUME GapInv, ClaimInv, NEW c \in Calls, Apply(c)
  PROVE  GapInv'
<1>1. /\ pc[c] = "entering" /\ ~Disrupted(c) /\ applied' = applied \cup {c}
      /\ pc' = [pc EXCEPT ![c] = "exiting"] /\ UNCHANGED <<startedAt, continuity, disturbed>>
  BY DEF Apply, worldVars
<1>2. pc'[c] = "exiting" /\ \A d \in Calls \ {c} : pc'[d] = pc[d]
  BY <1>1 DEF ClaimInv, CallTypes
<1>3. c \notin disturbed
  <2>1. BeforeFill(c)
    BY <1>1 DEF BeforeFill, Awaiting
  <2>2. startedAt[c].revision \in Int /\ continuity[MarketOf(c)].revision \in Int
    BY MarketOfCall, CallsAssumption DEF GapInv, Continuities
  <2>3. QED
    BY <1>1, <2>1, <2>2 DEF GapInv, OvertakenShows, Disrupted
<1>4. \A d \in Calls : BeforeFill(d)' => BeforeFill(d)
  BY <1>2 DEF BeforeFill, Awaiting
<1>5. \A d \in Calls : OvertakenShows(d)'
  BY <1>1, <1>4 DEF GapInv, OvertakenShows, MarketOf
<1>6. \A d \in disturbed' : pc'[d] # "idle"
  BY <1>1, <1>2 DEF GapInv
<1>7. QED
  BY <1>1, <1>3, <1>5, <1>6 DEF GapInv

(* A gap overtakes the calls of its market that are on their way to a fill. *)
LEMMA GapOpens ==
  ASSUME GapInv, ClaimInv, NEW m \in Conditions, GapBegins(m)
  PROVE  GapInv'
<1>1. /\ continuity[m].revision < MaxRevision
      /\ continuity' = [continuity EXCEPT ![m] =
                          [revision |-> continuity[m].revision + 1, blackout |-> TRUE]]
      /\ disturbed' = disturbed \cup {c \in Calls : BeforeFill(c) /\ MarketOf(c) = m}
      /\ UNCHANGED <<pc, startedAt, applied>>
  BY DEF GapBegins, callVars
<1>2. continuity[m] \in Continuities
  BY DEF GapInv
<1>3. /\ continuity' \in [Conditions -> Continuities]
      /\ continuity'[m].revision = continuity[m].revision + 1
      /\ \A n \in Conditions \ {m} : continuity'[n] = continuity[n]
  BY <1>1, <1>2, CallsAssumption DEF GapInv, Continuities
<1>4. \A c \in Calls : BeforeFill(c) => c \notin applied /\ pc[c] # "idle"
  BY DEF ClaimInv, CallInv, ReceiptOf, BeforeFill, Awaiting
<1>5. ASSUME NEW c \in Calls PROVE OvertakenShows(c)'
  <2>1. startedAt[c].revision \in Int /\ continuity[m].revision \in Int
    BY <1>2, CallsAssumption DEF GapInv, Continuities
  <2>2. CASE MarketOf(c) = m
    BY <1>1, <1>3, <2>1, <2>2 DEF GapInv, OvertakenShows, BeforeFill, MarketOf
  <2>3. CASE MarketOf(c) # m
    BY <1>1, <1>3, <2>3, MarketOfCall DEF GapInv, OvertakenShows, BeforeFill, MarketOf
  <2>4. QED
    BY <2>2, <2>3
<1>6. QED
  BY <1>1, <1>3, <1>4, <1>5 DEF GapInv

LEMMA GapCloses ==
  ASSUME GapInv, NEW m \in Conditions, GapRecovers(m)
  PROVE  GapInv'
<1>1. /\ continuity' = [continuity EXCEPT ![m].blackout = FALSE]
      /\ UNCHANGED <<pc, startedAt, applied, disturbed>>
  BY DEF GapRecovers, callVars, historyVars
<1>2. continuity[m] \in Continuities
  BY DEF GapInv
<1>3. /\ continuity' \in [Conditions -> Continuities]
      /\ \A n \in Conditions : continuity'[n].revision = continuity[n].revision
  BY <1>1, <1>2 DEF GapInv, Continuities
<1>4. \A c \in Calls : OvertakenShows(c)'
  BY <1>1, <1>3, MarketOfCall DEF GapInv, OvertakenShows, BeforeFill, MarketOf
<1>5. QED
  BY <1>1, <1>3, <1>4 DEF GapInv

gapVars == <<pc, startedAt, continuity, disturbed, applied>>

LEMMA GapUnchanged ==
  ASSUME GapInv, UNCHANGED gapVars
  PROVE  GapInv'
BY DEF GapInv, gapVars, OvertakenShows, BeforeFill, MarketOf

(* Every step of a call but its beginning and its fill only moves it. *)
LEMMA GapCall ==
  ASSUME GapInv, ClaimInv, NEW c \in Calls,
         Submit(c) \/ RejectMalformed(c) \/ Cancel(c) \/ Progress(c)
  PROVE  GapInv'
<1>1. CASE Submit(c)
  <2>1. pc[c] = "idle" /\ UNCHANGED <<continuity, applied>>
    BY <1>1 DEF Submit, worldVars
  <2>2. CASE Begin(c)
    BY <2>1, <2>2, GapBegin
  <2>3. CASE pc' = [pc EXCEPT ![c] = "waiting"] /\ UNCHANGED <<startedAt, disturbed>>
    BY <2>1, <2>3, GapMove DEF Points, Awaiting
  <2>4. QED
    BY <1>1, <2>2, <2>3 DEF Submit
<1>2. CASE Apply(c)
  BY <1>2, GapApply
<1>3. ASSUME NEW to \in Points, to # "idle", pc' = [pc EXCEPT ![c] = to],
             to \in Awaiting \ {"waiting", "exiting"} => BeforeFill(c),
             UNCHANGED <<startedAt, continuity, disturbed, applied>>
      PROVE  GapInv'
  BY <1>3, GapMove
<1>4. CASE RejectMalformed(c) \/ RejectInScope(c)
  <2>1. UNCHANGED <<startedAt, continuity, disturbed, applied>>
    BY <1>4 DEF RejectMalformed, RejectInScope, worldVars, historyVars
  <2>2. \E to \in {"answered", "exiting"} : pc' = [pc EXCEPT ![c] = to]
    BY <1>4 DEF RejectMalformed, RejectInScope
  <2>3. QED
    BY <1>3, <2>1, <2>2 DEF Points, Awaiting
<1>5. ASSUME Raise(c) \/ \E a : Return(c, a), UNCHANGED <<worldVars, historyVars>>
      PROVE  GapInv'
  <2>1. UNCHANGED <<startedAt, continuity, disturbed, applied>>
    BY <1>5 DEF Raise, Return, worldVars, historyVars
  <2>2. \E to \in {"answered", "raised"} : pc' = [pc EXCEPT ![c] = to]
    BY <1>5 DEF Raise, Return
  <2>3. QED
    BY <1>3, <2>1, <2>2 DEF Points, Awaiting
<1>6. ASSUME NEW to \in Awaiting \ {"waiting", "exiting"}, BeforeFill(c), Advance(c, to),
             UNCHANGED <<worldVars, historyVars>>
      PROVE  GapInv'
  <2>1. UNCHANGED <<startedAt, continuity, disturbed, applied>> /\ to # "idle" /\ to \in Points
    BY <1>6 DEF Advance, worldVars, historyVars, Points, Awaiting
  <2>2. QED
    BY <1>3, <1>6, <2>1 DEF Advance
<1>7. CASE Cancel(c) \/ WakeWaiter(c) \/ ScopeRefused(c) \/ LeaveScope(c)
  BY <1>5, <1>7 DEF Cancel, WakeWaiter, ScopeRefused, LeaveScope
<1>8. CASE Wake(c) \/ ReadBook(c) \/ ReadMarket(c)
  <2>1. BeforeFill(c) /\ UNCHANGED <<worldVars, historyVars>>
    BY <1>8 DEF Wake, ReadBook, ReadMarket, BeforeFill, Awaiting
  <2>2. Reject(c) \/ \E to \in Awaiting \ {"waiting", "exiting"} : Advance(c, to)
    BY <1>8 DEF Wake, ReadBook, ReadMarket, Awaiting
  <2>3. QED
    BY <1>5, <1>6, <2>1, <2>2 DEF Reject
<1>9. QED
  BY <1>1, <1>2, <1>4, <1>7, <1>8 DEF Progress

LEMMA GapStep ==
  ASSUME GapInv, ClaimInv, [BrokerNext]_brokerVars
  PROVE  GapInv'
<1>1. ASSUME NEW c \in Calls, Submit(c) \/ RejectMalformed(c) \/ Cancel(c) \/ Progress(c)
      PROVE  GapInv'
  BY <1>1, GapCall
<1>2. ASSUME NEW m \in Conditions, GapBegins(m) \/ GapRecovers(m) PROVE GapInv'
  BY <1>2, GapOpens, GapCloses
<1>3. CASE \/ \E m \in Conditions : Track(m)
           \/ \E m \in Conditions : \E w \in TokensOf(m) : ResolutionArrives(m, w)
           \/ Resolve
           \/ UNCHANGED brokerVars
  BY <1>3, GapUnchanged
  DEF Track, ResolutionArrives, Resolve, ApplyResolution, ResolutionFails, TellBot,
      brokerVars, callVars, worldVars, historyVars, gapVars
<1>4. QED
  BY <1>1, <1>2, <1>3 DEF BrokerNext

-----------------------------------------------------------------------------
(* Resolutions and the bot *)

UnderResolution == resolving.phase \in {"entering", "exiting"}

Resolutions ==
  {Quiet, [phase |-> "failed"]}
    \cup [phase : {"entering", "exiting"}, market : Conditions, winner : Tokens]

(* A condition that trades was not told, and is forgotten by the registry in  *)
(* the turn that settles it.                                                  *)
ToldInv ==
  /\ tracked \subseteq Conditions /\ settled \subseteq Conditions
  /\ resolving \in Resolutions
  /\ told \in [Conditions -> 0..1]
  /\ tracked \cap settled = {}
  /\ \A m \in Conditions : told[m] = 1 => m \in settled
  /\ UnderResolution =>
       /\ resolving.winner \in TokensOf(resolving.market)
       /\ resolving.phase = "entering" => resolving.market \in tracked
       /\ resolving.phase = "exiting" =>
            resolving.market \in settled /\ told[resolving.market] = 0

LEMMA ToldInitially == BrokerInit => ToldInv
<1> SUFFICES ASSUME BrokerInit PROVE ToldInv
  OBVIOUS
<1>1. /\ tracked = {} /\ settled = {} /\ resolving = Quiet
      /\ told = [m \in Conditions |-> 0]
  BY DEF BrokerInit, LedgerInit
<1>2. ~UnderResolution
  BY <1>1 DEF UnderResolution, Quiet
<1>3. QED
  BY <1>1, <1>2 DEF ToldInv, Resolutions

LEMMA ToldUnchanged ==
  ASSUME ToldInv, UNCHANGED <<tracked, settled, resolving, told>>
  PROVE  ToldInv'
BY DEF ToldInv, UnderResolution

LEMMA ResolutionShape ==
  ASSUME resolving \in Resolutions, UnderResolution
  PROVE  resolving \in [phase : {"entering", "exiting"}, market : Conditions, winner : Tokens]
BY DEF Resolutions, UnderResolution, Quiet

LEMMA ToldStep ==
  ASSUME ToldInv, [BrokerNext]_brokerVars
  PROVE  ToldInv'
<1> USE DEF ToldInv
<1>1. ASSUME NEW c \in Calls, Submit(c) \/ RejectMalformed(c) \/ Cancel(c) \/ Progress(c)
      PROVE  ToldInv'
  <2>1. CASE Apply(c)
    BY <2>1, ToldUnchanged DEF Apply, ApplyFill, worldVars
  <2>2. CASE \/ Submit(c) \/ RejectMalformed(c) \/ Cancel(c)
             \/ WakeWaiter(c) \/ Wake(c) \/ ReadBook(c) \/ ReadMarket(c)
             \/ ScopeRefused(c) \/ RejectInScope(c) \/ LeaveScope(c)
    <3>1. UNCHANGED <<ledgerVars, worldVars>>
      BY <2>2 DEF Submit, RejectMalformed, Cancel, WakeWaiter, Wake, ReadBook, ReadMarket,
         ScopeRefused, RejectInScope, LeaveScope
    <3>2. QED
      BY <3>1, ToldUnchanged DEF ledgerVars, worldVars
  <2>3. QED
    BY <1>1, <2>1, <2>2 DEF Progress
<1>2. CASE \E m \in Conditions : GapBegins(m) \/ GapRecovers(m)
  BY <1>2, ToldUnchanged DEF GapBegins, GapRecovers, ledgerVars
<1>3. ASSUME NEW m \in Conditions, Track(m) PROVE ToldInv'
  <2>1. /\ tracked' = tracked \cup {m} /\ m \notin settled
        /\ UNCHANGED <<settled, resolving, told>>
    BY <1>3 DEF Track, ledgerVars
  <2>2. QED
    BY <2>1 DEF UnderResolution
<1>4. ASSUME NEW m \in Conditions, NEW w \in TokensOf(m), ResolutionArrives(m, w)
      PROVE  ToldInv'
  <2>1. /\ m \in tracked /\ resolving' = [phase |-> "entering", market |-> m, winner |-> w]
        /\ UNCHANGED <<tracked, settled, told>>
    BY <1>4 DEF ResolutionArrives, ledgerVars
  <2>2. resolving' \in Resolutions
    BY <2>1 DEF Resolutions, TokensOf
  <2>3. resolving'.phase = "entering" /\ resolving'.market = m /\ resolving'.winner = w
    BY <2>1
  <2>4. QED
    BY <2>1, <2>2, <2>3 DEF UnderResolution
<1>5. CASE ApplyResolution
  <2> DEFINE m == resolving.market
  <2>1. /\ resolving.phase = "entering" /\ tracked' = tracked \ {m}
        /\ resolving' = [resolving EXCEPT !.phase = "exiting"] /\ told' = told
        /\ settled' = settled \cup {m}
    BY <1>5 DEF ApplyResolution, SettleMarket, ledgerVars
  <2>2. resolving \in [phase : {"entering", "exiting"}, market : Conditions, winner : Tokens]
    BY <2>1, ResolutionShape DEF UnderResolution
  <2>3. /\ resolving'.phase = "exiting" /\ resolving'.market = m
        /\ resolving'.winner = resolving.winner
    BY <2>1, <2>2
  <2>4. resolving' \in Resolutions
    BY <2>1, <2>2 DEF Resolutions
  <2>5. m \in Conditions /\ m \in tracked /\ m \notin settled
    BY <2>1, <2>2 DEF UnderResolution
  <2>6. told[m] = 0
    BY <2>5
  <2>7. resolving.winner \in TokensOf(m)
    BY <2>1 DEF UnderResolution
  <2>8. QED
    BY <2>1, <2>3, <2>4, <2>5, <2>6, <2>7 DEF UnderResolution, TokensOf
<1>6. CASE ResolutionFails
  <2>1. resolving' = [phase |-> "failed"] /\ UNCHANGED <<tracked, settled, told>>
    BY <1>6 DEF ResolutionFails, ledgerVars
  <2>2. ~UnderResolution'
    BY <2>1 DEF UnderResolution
  <2>3. QED
    BY <2>1, <2>2 DEF Resolutions
<1>7. CASE TellBot
  <2> DEFINE m == resolving.market
  <2>1. /\ resolving.phase = "exiting" /\ told' = [told EXCEPT ![m] = told[m] + 1]
        /\ resolving' = Quiet /\ UNCHANGED <<tracked, settled>>
    BY <1>7 DEF TellBot, ledgerVars
  <2>2. m \in settled /\ m \in Conditions /\ told[m] = 0
    BY <2>1 DEF UnderResolution
  <2>3. told' = [told EXCEPT ![m] = 1]
    BY <2>1, <2>2
  <2>4. ~UnderResolution'
    BY <2>1 DEF UnderResolution, Quiet
  <2>5. QED
    BY <2>1, <2>2, <2>3, <2>4 DEF Resolutions
<1>8. CASE UNCHANGED brokerVars
  BY <1>8, ToldUnchanged DEF brokerVars, ledgerVars, worldVars
<1>9. QED
  BY <1>1, <1>2, <1>3, <1>4, <1>5, <1>6, <1>7, <1>8 DEF BrokerNext, Resolve

-----------------------------------------------------------------------------
(* The theorems *)

BrokerInv == ClaimInv /\ GapInv /\ ToldInv

LEMMA BrokerInvariant == BrokerSpec => []BrokerInv
<1>1. BrokerInit => BrokerInv
  BY ClaimInitially, GapInitially, ToldInitially DEF BrokerInv
<1>2. BrokerInv /\ [BrokerNext]_brokerVars => BrokerInv'
  BY ClaimStep, GapStep, ToldStep DEF BrokerInv
<1>3. QED
  BY <1>1, <1>2, PTL DEF BrokerSpec

(* Two applied orders of one source id are one, and everybody is answered     *)
(* with its fill.                                                             *)
LEMMA AppliedOnce ==
  ASSUME ClaimInv
  PROVE  AppliedOncePerSource
<1> SUFFICES ASSUME NEW c \in applied, NEW d \in Calls, SameSource(c, d)
             PROVE  /\ d \in applied => d = c
                    /\ pc[d] = "answered" => answer[d] = Filled(c)
  BY DEF AppliedOncePerSource
<1>1. /\ c \in Calls /\ Shared(c) /\ Shared(d)
      /\ OrderOf[d].source = OrderOf[c].source /\ OrderOf[d].valid
  BY DEF ClaimInv, CallTypes, SameSource, Shared
<1>2. ASSUME NEW e \in Calls, Shared(e), e \in applied
      PROVE  claims[OrderOf[e].source] = e /\ outcome[e] \in {Pending, Filled(e)}
  <2>1. outcome[e] \in {Pending, Filled(e)}
    BY <1>2 DEF ClaimInv, CallInv, ReceiptOf
  <2>2. outcome[e] # Unset /\ outcome[e] # Broken
    BY <2>1, VerdictsAreFinal, FilledIsVerdict, UnsetIsNoOutcome
  <2>3. QED
    BY <2>1, <2>2 DEF ClaimInv, CallInv, ClaimOf
<1>3. claims[OrderOf[c].source] = c /\ outcome[c] \in {Pending, Filled(c)}
  BY <1>1, <1>2
<1>4. d \in applied => d = c
  BY <1>1, <1>2, <1>3
<1>5. ASSUME pc[d] = "answered" PROVE answer[d] = Filled(c)
  <2>1. outcome[c] = answer[d] /\ answer[d] \in Verdicts
    BY <1>1, <1>3, <1>5 DEF ClaimInv, CallInv, AnswerKept
  <2>2. QED
    BY <1>3, <2>1, VerdictsAreFinal
<1>6. QED
  BY <1>4, <1>5

(* Whatever is retried, duplicated, cancelled or fails, a source id stands    *)
(* for one order: at most one fill, one answer for everybody, and no          *)
(* duplicate waits for an owner that will not answer                          *)
(* (execution/paper/__init__.py 144-181, 323-327).                            *)
THEOREM OneOrderPerSourceId == BrokerSpec => []OneOrderPerSource
<1>1. BrokerInv => OneOrderPerSource
  <2> SUFFICES ASSUME BrokerInv PROVE OneOrderPerSource
    OBVIOUS
  <2> USE DEF BrokerInv
  <2>1. AppliedOncePerSource
    BY AppliedOnce
  <2>2. OneAnswerPerSource
    BY DEF OneAnswerPerSource, SameSource, ClaimInv, CallInv, AnswerKept, Shared
  <2>3. WaitersAnswered
    <3> SUFFICES ASSUME NEW c \in Calls, pc[c] = "waiting"
                 PROVE  \/ outcome[waitsOn[c]] \notin {Unset, Pending}
                        \/ /\ outcome[waitsOn[c]] = Pending
                           /\ pc[waitsOn[c]] \in Awaiting \ {"waiting"}
      BY DEF WaitersAnswered
    <3>1. waitsOn[c] \in Calls /\ outcome[waitsOn[c]] # Unset
      BY DEF ClaimInv, CallInv, WaitsForOwner
    <3>2. outcome[waitsOn[c]] = Pending => Active(waitsOn[c])
      BY <3>1 DEF ClaimInv, CallInv, UnderWay
    <3>3. QED
      BY <3>1, <3>2 DEF Active
  <2>4. BrokerTypeOK
    <3>1. Verdicts \cup {Unset, Pending, Broken} \subseteq Results
      BY DEF Verdicts, Filled, Rejected, Unset, Pending, Broken, Results, Statuses
    <3>2. /\ answer \in [Calls -> Results] /\ outcome \in [Calls -> Results]
          /\ receipt \in [Calls -> Results]
      BY <3>1 DEF ClaimInv, CallTypes
    <3>3. \A c \in Calls : pc[c] = "waiting" => waitsOn[c] # NoCall
      BY CallsAssumption DEF ClaimInv, CallInv, WaitsForOwner
    <3>4. /\ pc \in [Calls -> Awaiting \cup {"idle", "answered", "raised"}]
          /\ claims \in [Sources -> Calls \cup {NoCall}]
          /\ waitsOn \in [Calls -> Calls \cup {NoCall}] /\ applied \subseteq Calls
      BY DEF ClaimInv, CallTypes, Points
    <3>5. /\ startedAt \in [Calls -> Continuities] /\ continuity \in [Conditions -> Continuities]
          /\ disturbed \subseteq Calls
      BY DEF GapInv
    <3>6. tracked \subseteq Conditions /\ told \in [Conditions -> Nat]
      BY DEF ToldInv
    <3>7. QED
      BY <3>2, <3>3, <3>4, <3>5, <3>6 DEF BrokerTypeOK
  <2>5. QED
    BY <2>1, <2>2, <2>3, <2>4 DEF OneOrderPerSource
<1>2. QED
  BY <1>1, BrokerInvariant, PTL

(* No order is filled on a book the feed lost between its submission and its  *)
(* fill, however often it was lost and recovered in between                   *)
(* (paper/continuity.py 9-34 against state/blackouts.py 41-134).              *)
THEOREM NoFillSpansAGap == BrokerSpec => []NoFillAcrossGap
<1>1. BrokerInv => NoFillAcrossGap
  BY DEF BrokerInv, GapInv, NoFillAcrossGap
<1>2. QED
  BY <1>1, BrokerInvariant, PTL

(* The bot hears of the resolution of a market at most once, and only when    *)
(* the market is settled (cli/resolution/settlement.py 62-106).               *)
THEOREM BotHearsOnce == BrokerSpec => []BotToldOnce
<1>1. BrokerInv => BotToldOnce
  BY DEF BrokerInv, ToldInv, BotToldOnce
<1>2. QED
  BY <1>1, BrokerInvariant, PTL

(* Whatever its concurrent submissions do, the broker's books move only by a  *)
(* fill of a market that still trades or by the one settlement of a market:   *)
(* the broker implements the portfolio.                                       *)
THEOREM BrokerKeepsTheLedger == BrokerSpec => LedgerSpec
<1>1. BrokerInit => LedgerInit
  BY DEF BrokerInit
<1>2. BrokerInv /\ [BrokerNext]_brokerVars => [LedgerNext]_ledgerVars
  <2> SUFFICES ASSUME BrokerInv, [BrokerNext]_brokerVars, ~UNCHANGED ledgerVars
               PROVE  LedgerNext
    OBVIOUS
  <2>1. ASSUME NEW c \in Calls, Apply(c) PROVE Trade
    <3>1. /\ OrderOf[c].token \in Tokens /\ OrderOf[c].side \in Sides
          /\ ConditionOf[OrderOf[c].token] \notin settled
      BY <2>1, CallsAssumption DEF Apply, IsSettled, MarketOf
    <3>2. \E fill \in FillsOf[OrderOf[c].side], fee \in Fees :
            ApplyFill(OrderOf[c].token, OrderOf[c].side, fill, fee)
      BY <2>1 DEF Apply
    <3>3. QED
      BY <3>1, <3>2 DEF Trade
  <2>2. ASSUME ApplyResolution PROVE Settle
    <3>1. SettleMarket(resolving.market, resolving.winner) /\ UnderResolution
      BY <2>2 DEF ApplyResolution, UnderResolution
    <3>2. resolving.market \in Conditions /\ resolving.winner \in TokensOf(resolving.market)
      BY <3>1, ResolutionShape DEF BrokerInv, ToldInv
    <3>3. QED
      BY <3>1, <3>2 DEF Settle
  <2>3. ASSUME NEW c \in Calls,
               \/ Submit(c) \/ RejectMalformed(c) \/ Cancel(c) \/ WakeWaiter(c) \/ Wake(c)
               \/ ReadBook(c) \/ ReadMarket(c) \/ ScopeRefused(c) \/ RejectInScope(c)
               \/ LeaveScope(c)
        PROVE  FALSE
    BY <2>3 DEF Submit, RejectMalformed, Cancel, WakeWaiter, Wake, ReadBook, ReadMarket,
       ScopeRefused, RejectInScope, LeaveScope
  <2>4. CASE \/ \E m \in Conditions : Track(m) \/ GapBegins(m) \/ GapRecovers(m)
             \/ \E m \in Conditions : \E w \in TokensOf(m) : ResolutionArrives(m, w)
             \/ ResolutionFails \/ TellBot
             \/ UNCHANGED brokerVars
    BY <2>4 DEF Track, GapBegins, GapRecovers, ResolutionArrives, ResolutionFails, TellBot,
       brokerVars
  <2>5. QED
    BY <2>1, <2>2, <2>3, <2>4 DEF BrokerNext, Progress, Resolve, LedgerNext
<1>3. QED
  BY <1>1, <1>2, BrokerInvariant, PTL DEF BrokerSpec, LedgerSpec

-----------------------------------------------------------------------------
(* Induction and folds *)

LEMMA NatSetInduction ==
  ASSUME NEW S, 0 \in S, \A n \in Nat : n \in S => n + 1 \in S
  PROVE  Nat \subseteq S
<1> DEFINE T == {n \in Nat : n \notin S}
<1> SUFFICES ASSUME T # {} PROVE FALSE
  OBVIOUS
<1>1. PICK m \in T : \A k \in T : <<k, m>> \notin OpToRel(<, Nat)
  BY WFMin, NatLessThanWellFounded
<1>2. m # 0 /\ m - 1 \in Nat /\ m - 1 < m
  OBVIOUS
<1>3. m - 1 \notin T
  BY <1>1, <1>2 DEF OpToRel
<1>4. (m - 1) + 1 \in S
  BY <1>2, <1>3
<1> QED BY <1>2, <1>4

LEMMA MaxUpTo ==
  ASSUME NEW k \in Nat, NEW s, s \subseteq 1..k + 1, k + 1 \in s
  PROVE  Max(s) = k + 1
<1>1. \A y \in s : k + 1 >= y
  OBVIOUS
<1>2. \A x \in s : (\A y \in s : x >= y) => x = k + 1
  OBVIOUS
<1> QED BY <1>1, <1>2 DEF Max

LEMMA MaxOf ==
  ASSUME NEW n \in Nat, NEW s, s \subseteq 1..n, s # {}
  PROVE  Max(s) \in s /\ \A y \in s : Max(s) >= y
<1> DEFINE T == {k \in Nat : \A y \in s : y <= k}
<1>1. n \in T
  OBVIOUS
<1>2. PICK m \in T : \A k \in T : <<k, m>> \notin OpToRel(<, Nat)
  BY <1>1, WFMin, NatLessThanWellFounded
<1>3. m \in s
  <2> SUFFICES ASSUME m \notin s PROVE FALSE
    OBVIOUS
  <2>1. m # 0
    <3>1. PICK y \in s : y \in 1..n
      OBVIOUS
    <3>2. y <= m /\ y >= 1
      BY <3>1
    <3> QED BY <3>1, <3>2
  <2>2. m - 1 \in T /\ m - 1 < m /\ m - 1 \in Nat /\ m \in Nat
    BY <2>1
  <2> QED BY <1>2, <2>2 DEF OpToRel
<1>4. \A y \in s : m >= y
  OBVIOUS
<1> QED BY <1>3, <1>4 DEF Max

Iterations(A, n, F, base) ==
  {it \in [SUBSET (1..n) -> A] :
     \A s \in SUBSET (1..n) :
       it[s] = IF s = {} THEN base ELSE F[Max(s)][it[s \ {Max(s)}]]}

LEMMA Iterated ==
  ASSUME NEW A, NEW n \in Nat, NEW F \in [1..n -> [A -> A]], NEW base \in A
  PROVE  \E it : it \in Iterations(A, n, F, base)
<1> DEFINE Good(k, it) ==
             /\ it \in [SUBSET (1..k) -> A]
             /\ \A s \in SUBSET (1..k) :
                  it[s] = IF s = {} THEN base ELSE F[Max(s)][it[s \ {Max(s)}]]
           S == {k \in Nat : k <= n => \E it : Good(k, it)}
<1> HIDE DEF Good
<1>1. \A k \in Nat : k \in S <=> (k <= n => \E it : Good(k, it))
  OBVIOUS
<1> HIDE DEF S
<1>2. 0 \in S
  <2>1. \A s \in SUBSET (1..0) : s = {}
    OBVIOUS
  <2> DEFINE it0 == [s \in SUBSET (1..0) |-> base]
  <2>2. it0 \in [SUBSET (1..0) -> A]
    OBVIOUS
  <2>3. \A s \in SUBSET (1..0) : it0[s] = base
    OBVIOUS
  <2> HIDE DEF it0
  <2>4. Good(0, it0)
    BY <2>1, <2>2, <2>3 DEF Good
  <2> QED BY <2>4, <1>1
<1>3. ASSUME NEW k \in Nat, k \in S PROVE k + 1 \in S
  <2> SUFFICES ASSUME k + 1 <= n PROVE \E it : Good(k + 1, it)
    BY <1>1
  <2>1. PICK it : Good(k, it)
    BY <1>1, <1>3
  <2> DEFINE longer == [s \in SUBSET (1..k + 1) |->
                        IF k + 1 \in s THEN F[k + 1][it[s \ {k + 1}]] ELSE it[s]]
  <2>2. \A s \in SUBSET (1..k + 1) :
          /\ s \ {k + 1} \in SUBSET (1..k)
          /\ k + 1 \notin s => s \in SUBSET (1..k)
    OBVIOUS
  <2>3. longer \in [SUBSET (1..k + 1) -> A]
    <3>1. k + 1 \in 1..n /\ F[k + 1] \in [A -> A]
      OBVIOUS
    <3> QED BY <2>1, <2>2, <3>1 DEF Good
  <2> HIDE DEF longer
  <2>4. \A s \in SUBSET (1..k + 1) :
          longer[s] = IF k + 1 \in s THEN F[k + 1][it[s \ {k + 1}]] ELSE it[s]
    BY DEF longer
  <2>5. ASSUME NEW s \in SUBSET (1..k + 1)
        PROVE  longer[s] = IF s = {} THEN base ELSE F[Max(s)][longer[s \ {Max(s)}]]
    <3>1. CASE k + 1 \in s
      <4>1. Max(s) = k + 1
        BY <3>1, MaxUpTo
      <4>2. longer[s \ {k + 1}] = it[s \ {k + 1}]
        BY <2>2, <2>4
      <4> QED BY <3>1, <4>1, <4>2, <2>4
    <3>2. CASE k + 1 \notin s
      <4>1. s \in SUBSET (1..k) /\ s \ {Max(s)} \in SUBSET (1..k)
        BY <3>2, <2>2
      <4>2. longer[s] = it[s] /\ longer[s \ {Max(s)}] = it[s \ {Max(s)}]
        BY <3>2, <4>1, <2>4
      <4> QED BY <2>1, <4>1, <4>2 DEF Good
    <3> QED BY <3>1, <3>2
  <2> QED BY <2>3, <2>5 DEF Good
<1>4. n \in S
  BY <1>2, <1>3, NatSetInduction
<1>5. PICK it : Good(n, it)
  BY <1>1, <1>4
<1> QED BY <1>5 DEF Good, Iterations

(* The prefixes that a fold goes through are nested intervals. *)
LEMMA UpTo ==
  ASSUME NEW n \in Nat, NEW k \in Nat, k < n
  PROVE  /\ 1..k + 1 \in SUBSET (1..n) /\ 1..k + 1 # {}
         /\ Max(1..k + 1) = k + 1
         /\ (1..k + 1) \ {Max(1..k + 1)} = 1..k
<1>1. k + 1 \in 1..k + 1
  OBVIOUS
<1>2. Max(1..k + 1) = k + 1
  BY <1>1, MaxUpTo
<1>3. 1..k + 1 \subseteq 1..n
  OBVIOUS
<1>4. (1..k + 1) \ {k + 1} = 1..k
  OBVIOUS
<1> QED BY <1>1, <1>2, <1>3, <1>4

(* What is computed up to each position. *)
Steps(A, n, F, base) ==
  {v \in [0..n -> A] : v[0] = base /\ \A k \in 1..n : v[k] = F[k][v[k - 1]]}

PrefixValues(n, c) == [k \in 0..n |-> c[1..k]]

LEMMA StepsOf ==
  ASSUME NEW A, NEW n \in Nat, NEW F \in [1..n -> [A -> A]], NEW base \in A,
         NEW c, c[{}] = base,
         \A k \in Nat : k < n /\ c[1..k] \in A => c[1..k + 1] = F[k + 1][c[1..k]]
  PROVE  PrefixValues(n, c) \in Steps(A, n, F, base)
<1> DEFINE S == {k \in Nat : k <= n => c[1..k] \in A}
           v == PrefixValues(n, c)
<1>1. \A k \in Nat : k \in S <=> (k <= n => c[1..k] \in A)
  OBVIOUS
<1> HIDE DEF S
<1>2. 1..0 = {}
  OBVIOUS
<1>3. 0 \in S
  BY <1>1, <1>2
<1>4. ASSUME NEW k \in Nat, k \in S PROVE k + 1 \in S
  <2> SUFFICES ASSUME k + 1 <= n PROVE c[1..k + 1] \in A
    BY <1>1
  <2>1. c[1..k] \in A /\ k < n
    BY <1>1, <1>4
  <2>2. F[k + 1] \in [A -> A]
    OBVIOUS
  <2> QED BY <2>1, <2>2
<1>5. \A k \in 0..n : c[1..k] \in A
  <2>1. Nat \subseteq S
    BY <1>3, <1>4, NatSetInduction
  <2>2. \A k \in 0..n : k \in Nat /\ k <= n
    OBVIOUS
  <2> QED BY <1>1, <2>1, <2>2
<1>6. v \in [0..n -> A] /\ v[0] = base /\ \A k \in 0..n : v[k] = c[1..k]
  BY <1>2, <1>5 DEF PrefixValues
<1> HIDE DEF v
<1>7. ASSUME NEW k \in 1..n PROVE v[k] = F[k][v[k - 1]]
  <2>1. k - 1 \in Nat /\ k - 1 < n /\ (k - 1) + 1 = k /\ k - 1 \in 0..n
    OBVIOUS
  <2>2. c[1..(k - 1) + 1] = F[(k - 1) + 1][c[1..k - 1]]
    BY <2>1, <1>5
  <2> QED BY <1>6, <2>1, <2>2
<1> QED BY <1>6, <1>7 DEF Steps, v

-----------------------------------------------------------------------------
(* Sums do not depend on the order of their terms *)

(* A sum over a part of 1..n, whichever term is taken out of it. *)
SumsOf(n, f) ==
  {it \in [SUBSET (1..n) -> Int] :
     /\ it[{}] = 0
     /\ \A s \in SUBSET (1..n) : \A x \in s : it[s] = f[x] + it[s \ {x}]}

LEMMA SumsExist ==
  ASSUME NEW n \in Nat, NEW f \in [1..n -> Int]
  PROVE  \E it : it \in SumsOf(n, f)
<1> DEFINE F == [k \in 1..n |-> [x \in Int |-> f[k] + x]]
<1>1. F \in [1..n -> [Int -> Int]] /\ \A k \in 1..n, x \in Int : F[k][x] = f[k] + x
  OBVIOUS
<1>2. PICK it : it \in Iterations(Int, n, F, 0)
  <2>1. 0 \in Int
    OBVIOUS
  <2> HIDE DEF F
  <2> QED BY <1>1, <2>1, Iterated
<1> HIDE DEF F
<1>3. /\ it \in [SUBSET (1..n) -> Int]
      /\ \A s \in SUBSET (1..n) : it[s] = IF s = {} THEN 0 ELSE F[Max(s)][it[s \ {Max(s)}]]
  BY <1>2 DEF Iterations
<1>4. \A s \in SUBSET (1..n) :
        /\ it[s] \in Int
        /\ s # {} => Max(s) \in s /\ it[s] = f[Max(s)] + it[s \ {Max(s)}]
  <2> SUFFICES ASSUME NEW s \in SUBSET (1..n), s # {}
               PROVE  Max(s) \in s /\ it[s] = f[Max(s)] + it[s \ {Max(s)}]
    BY <1>3
  <2>1. Max(s) \in s /\ Max(s) \in 1..n
    BY MaxOf
  <2>2. it[s \ {Max(s)}] \in Int
    BY <1>3
  <2> QED BY <1>1, <1>3, <2>1, <2>2
<1> DEFINE Peels(s) == \A x \in s : it[s] = f[x] + it[s \ {x}]
           S == {k \in Nat : k <= n => \A s \in SUBSET (1..k) : Peels(s)}
<1> HIDE DEF Peels
<1>5. \A k \in Nat : k \in S <=> (k <= n => \A s \in SUBSET (1..k) : Peels(s))
  OBVIOUS
<1> HIDE DEF S
<1>6. 0 \in S
  <2>1. \A s \in SUBSET (1..0) : s = {}
    OBVIOUS
  <2> QED BY <1>5, <2>1 DEF Peels
<1>7. ASSUME NEW k \in Nat, k \in S
      PROVE  k + 1 \in S
  <2> SUFFICES ASSUME k + 1 <= n, NEW s \in SUBSET (1..k + 1), NEW x \in s
               PROVE  it[s] = f[x] + it[s \ {x}]
    <3>1. k + 1 \in Nat
      OBVIOUS
    <3>2. (k + 1 <= n => \A s \in SUBSET (1..k + 1) : Peels(s)) => k + 1 \in S
      BY <1>5, <3>1
    <3> QED BY <3>2 DEF Peels
  <2>1. \A u \in SUBSET (1..k) : Peels(u)
    <3>1. k <= n
      OBVIOUS
    <3> QED BY <1>5, <1>7, <3>1
  <2>2. s \in SUBSET (1..n) /\ s # {}
    <3>1. 1..k + 1 \subseteq 1..n
      OBVIOUS
    <3> QED BY <3>1
  <2>3. CASE k + 1 \notin s
    <3>1. s \in SUBSET (1..k)
      BY <2>3
    <3> QED BY <2>1, <3>1 DEF Peels
  <2>4. CASE k + 1 \in s /\ x = k + 1
    <3>1. Max(s) = k + 1
      BY <2>4, MaxUpTo
    <3> QED BY <1>4, <2>2, <2>4, <3>1
  <2>5. CASE k + 1 \in s /\ x # k + 1
    <3> DEFINE r == s \ {x}
               q == s \ {k + 1}
    <3>1. Max(s) = k + 1
      BY <2>5, MaxUpTo
    <3>2. r \subseteq 1..k + 1 /\ k + 1 \in r /\ r \in SUBSET (1..n) /\ r # {}
      BY <2>2, <2>5
    <3>3. q \in SUBSET (1..k) /\ q \in SUBSET (1..n) /\ x \in q /\ q \ {x} = r \ {k + 1}
      <4>1. \A y \in 1..k + 1 : y # k + 1 => y \in 1..k
        OBVIOUS
      <4> QED BY <2>2, <2>5, <4>1
    <3>4. it[s] = f[k + 1] + it[q]
      BY <1>4, <2>2, <3>1
    <3> HIDE DEF r, q
    <3>5. it[r] = f[k + 1] + it[r \ {k + 1}]
      <4>1. Max(r) = k + 1
        BY <3>2, MaxUpTo
      <4> QED BY <1>4, <3>2, <4>1
    <3>6. it[q] = f[x] + it[q \ {x}]
      BY <2>1, <3>3 DEF Peels
    <3>7. f[k + 1] \in Int /\ f[x] \in Int /\ it[q \ {x}] \in Int
      <4>1. k + 1 \in 1..n /\ x \in 1..n /\ q \ {x} \in SUBSET (1..n)
        BY <2>2, <3>3
      <4> QED BY <1>4, <4>1
    <3>8. f[k + 1] + (f[x] + it[q \ {x}]) = f[x] + (f[k + 1] + it[q \ {x}])
      BY <3>7
    <3>9. it[s \ {x}] = f[k + 1] + it[q \ {x}]
      BY <3>3, <3>5 DEF r
    <3> QED BY <3>4, <3>6, <3>8, <3>9
  <2> QED BY <2>3, <2>4, <2>5
<1>8. \A s \in SUBSET (1..n) : Peels(s)
  <2>1. Nat \subseteq S
    BY <1>6, <1>7, NatSetInduction
  <2> QED BY <1>5, <2>1
<1>9. it[{}] = 0
  <2>1. {} \in SUBSET (1..n)
    OBVIOUS
  <2> QED BY <1>3, <2>1
<1>10. it \in [SUBSET (1..n) -> Int]
  BY <1>3
<1>11. \A s \in SUBSET (1..n) : \A x \in s : it[s] = f[x] + it[s \ {x}]
  BY <1>8 DEF Peels
<1> QED BY <1>9, <1>10, <1>11 DEF SumsOf

LEMMA SumOfAll ==
  ASSUME NEW n \in Nat, NEW f \in [1..n -> Int], NEW it \in SumsOf(n, f)
  PROVE  SumFunction(f) = it[1..n]
<1> DEFINE One_(s) == CHOOSE x \in s : TRUE
           Step(g) == [s \in SUBSET (1..n) |->
                         IF s = {} THEN 0 ELSE f[One_(s)] + g[s \ {One_(s)}]]
           iter == CHOOSE g : g = Step(g)
<1>1. SumFunction(f) = iter[1..n]
  <2>1. DOMAIN f = 1..n
    OBVIOUS
  <2> QED BY <2>1 DEF SumFunction, SumFunctionOnSet, FoldFunctionOnSet, MapThenFoldSet
<1>2. /\ it \in [SUBSET (1..n) -> Int] /\ it[{}] = 0
      /\ \A s \in SUBSET (1..n) : \A x \in s : it[s] = f[x] + it[s \ {x}]
  BY DEF SumsOf
<1>3. it = Step(it)
  <2>1. \A s \in SUBSET (1..n) : s # {} => One_(s) \in s
    OBVIOUS
  <2> HIDE DEF One_
  <2> QED BY <1>2, <2>1
<1>4. iter = Step(iter)
  <2>1. \E g : g = Step(g)
    BY <1>3
  <2> QED BY <2>1, Zenon
<1> HIDE DEF iter
<1>5. \A s \in SUBSET (1..n) :
        /\ s = {} => iter[s] = 0
        /\ s # {} => One_(s) \in s /\ iter[s] = f[One_(s)] + iter[s \ {One_(s)}]
  BY <1>4
<1> HIDE DEF One_, Step
<1> DEFINE S == {k \in Nat : \A s \in SUBSET (1..n) : Cardinality(s) = k => iter[s] = it[s]}
<1>6. IsFiniteSet(1..n)
  BY FS_Interval
<1>7. 0 \in S
  <2> SUFFICES ASSUME NEW s \in SUBSET (1..n), Cardinality(s) = 0 PROVE iter[s] = it[s]
    OBVIOUS
  <2>1. s = {}
    BY <1>6, FS_Subset, FS_EmptySet
  <2> QED BY <1>2, <1>5, <2>1
<1>8. ASSUME NEW k \in Nat, k \in S PROVE k + 1 \in S
  <2> SUFFICES ASSUME NEW s \in SUBSET (1..n), Cardinality(s) = k + 1 PROVE iter[s] = it[s]
    OBVIOUS
  <2>1. s # {} /\ IsFiniteSet(s)
    <3>1. IsFiniteSet(s)
      BY <1>6, FS_Subset
    <3>2. Cardinality({}) = 0 /\ k + 1 # 0
      BY FS_EmptySet
    <3> QED BY <3>1, <3>2
  <2> DEFINE x == One_(s)
  <2>2. x \in s /\ iter[s] = f[x] + iter[s \ {x}]
    BY <1>5, <2>1
  <2>3. Cardinality(s \ {x}) = k
    <3>1. Cardinality(s \ {x}) = (k + 1) - 1
      <4> HIDE DEF x
      <4> QED BY <2>1, <2>2, FS_RemoveElement
    <3> QED BY <3>1
  <2>4. s \ {x} \in SUBSET (1..n)
    OBVIOUS
  <2>5. iter[s \ {x}] = it[s \ {x}]
    BY <1>8, <2>3, <2>4
  <2> QED BY <1>2, <2>2, <2>5
<1>9. Nat \subseteq S
  <2> HIDE DEF S
  <2> QED BY <1>7, <1>8, NatSetInduction
<1>10. 1..n \in SUBSET (1..n) /\ Cardinality(1..n) \in Nat
  BY <1>6, FS_CardinalityType
<1> QED BY <1>1, <1>9, <1>10

(* An order in which the terms of 1..n may be taken *)
Orderings(n) ==
  {ord \in [1..n -> 1..n] :
     /\ \A i, j \in 1..n : ord[i] = ord[j] => i = j
     /\ \A i \in 1..n : \E k \in 1..n : ord[k] = i}

LEMMA SumAlong ==
  ASSUME NEW n \in Nat, NEW f \in [1..n -> Int], NEW ord \in Orderings(n),
         NEW v \in [0..n -> Int], v[0] = 0, \A k \in 1..n : v[k] = v[k - 1] + f[ord[k]]
  PROVE  SumFunction(f) = v[n]
<1>1. PICK it : it \in SumsOf(n, f)
  BY SumsExist
<1>2. /\ it[{}] = 0
      /\ \A s \in SUBSET (1..n) : \A x \in s : it[s] = f[x] + it[s \ {x}]
  BY <1>1 DEF SumsOf
<1>3. /\ ord \in [1..n -> 1..n]
      /\ \A i, j \in 1..n : ord[i] = ord[j] => i = j
      /\ \A i \in 1..n : \E k \in 1..n : ord[k] = i
  BY DEF Orderings
<1> DEFINE Part(k) == {ord[j] : j \in 1..k}
           S == {k \in Nat : k <= n => it[Part(k)] = v[k]}
<1>4. 0 \in S
  <2>1. Part(0) = {}
    OBVIOUS
  <2> QED BY <1>2, <2>1
<1>5. ASSUME NEW k \in Nat, k \in S PROVE k + 1 \in S
  <2> SUFFICES ASSUME k + 1 <= n PROVE it[Part(k + 1)] = v[k + 1]
    OBVIOUS
  <2>1. k + 1 \in 1..n /\ k \in 0..n /\ (k + 1) - 1 = k
    OBVIOUS
  <2>2. ord[k + 1] \in 1..n
    BY <1>3, <2>1
  <2>3. \A j \in 1..k : j \in 1..n /\ ord[j] # ord[k + 1]
    <3>1. \A j \in 1..k : j \in 1..n /\ j # k + 1
      OBVIOUS
    <3> QED BY <1>3, <2>1, <3>1
  <2>4. /\ ord[k + 1] \in Part(k + 1)
        /\ Part(k + 1) \ {ord[k + 1]} = Part(k)
        /\ Part(k + 1) \in SUBSET (1..n)
    <3>1. \A j \in 1..k + 1 : j \in 1..k \/ j = k + 1
      OBVIOUS
    <3>2. k + 1 \in 1..k + 1 /\ \A j \in 1..k : j \in 1..k + 1
      OBVIOUS
    <3>3. Part(k + 1) = Part(k) \cup {ord[k + 1]}
      BY <3>1, <3>2
    <3>4. Part(k) \subseteq 1..n
      BY <1>3, <2>3
    <3>5. ord[k + 1] \notin Part(k)
      BY <2>3
    <3> HIDE DEF Part
    <3> QED BY <2>2, <3>3, <3>4, <3>5
  <2>5. it[Part(k + 1)] = f[ord[k + 1]] + it[Part(k)]
    <3> DEFINE s == Part(k + 1)
               x == ord[k + 1]
    <3>1. s \in SUBSET (1..n) /\ x \in s /\ s \ {x} = Part(k)
      BY <2>4
    <3> HIDE DEF s, x
    <3>2. it[s] = f[x] + it[s \ {x}]
      BY <1>2, <3>1
    <3> QED BY <3>1, <3>2 DEF s, x
  <2>6. it[Part(k)] = v[k] /\ f[ord[k + 1]] \in Int /\ v[k] \in Int
    <3>1. k <= n
      OBVIOUS
    <3>2. it[Part(k)] = v[k]
      BY <1>5, <3>1
    <3> HIDE DEF Part, S
    <3> QED BY <2>1, <2>2, <3>2
  <2>7. v[k + 1] = v[k] + f[ord[k + 1]]
    BY <2>1
  <2> HIDE DEF Part
  <2> QED BY <2>5, <2>6, <2>7
<1>6. Part(n) = 1..n
  BY <1>3
<1>7. n \in S
  <2> HIDE DEF S
  <2> QED BY <1>4, <1>5, NatSetInduction
<1>8. it[Part(n)] = v[n]
  BY <1>7
<1> HIDE DEF Part
<1> QED BY <1>1, <1>6, <1>8, SumOfAll

-----------------------------------------------------------------------------
(* The levels of a book, best first *)

LEMMA AheadIsAnOrder ==
  ASSUME NEW side, NEW book \in Seq(Level)
  PROVE  /\ \A i \in DOMAIN book : book[i].price \in Nat /\ book[i].size \in Nat
         /\ \A i \in DOMAIN book : ~Ahead(side, book, i, i)
         /\ \A i, j \in DOMAIN book : i # j => Ahead(side, book, i, j) \/ Ahead(side, book, j, i)
         /\ \A i, j, k \in DOMAIN book :
              Ahead(side, book, i, j) /\ Ahead(side, book, j, k) => Ahead(side, book, i, k)
<1>1. \A i \in DOMAIN book : i \in Nat /\ book[i].price \in Nat /\ book[i].size \in Nat
  <2>1. \A i \in DOMAIN book : i \in Nat /\ book[i] \in Level
    OBVIOUS
  <2>2. \A l \in Level : l.price \in Prices /\ l.size \in Sizes
    BY DEF Level
  <2> QED BY <2>1, <2>2, WalkAssumption
<1> DEFINE p == [i \in DOMAIN book |-> book[i].price]
<1>2. \A i \in DOMAIN book : i \in Nat /\ p[i] \in Nat
  BY <1>1
<1>3. \A i, j \in DOMAIN book :
        Ahead(side, book, i, j)
          <=> \/ side = "BUY" /\ p[i] < p[j]
              \/ side # "BUY" /\ p[i] > p[j]
              \/ p[i] = p[j] /\ i < j
  BY DEF Ahead
<1> HIDE DEF p
<1> QED BY <1>1, <1>2, <1>3

LEMMA RanksDiffer ==
  ASSUME NEW side, NEW book \in Seq(Level), NEW i \in DOMAIN book, NEW j \in DOMAIN book,
         Ahead(side, book, i, j)
  PROVE  Rank(side, book, i) < Rank(side, book, j)
<1> DEFINE A == {k \in DOMAIN book : Ahead(side, book, k, i)}
           B == {k \in DOMAIN book : Ahead(side, book, k, j)}
<1>1. A \subseteq B /\ i \in B /\ i \notin A
  BY AheadIsAnOrder
<1>2. IsFiniteSet(B)
  <2>1. DOMAIN book = 1..Len(book) /\ Len(book) \in Nat
    OBVIOUS
  <2>2. IsFiniteSet(DOMAIN book)
    BY <2>1, FS_Interval
  <2> QED BY <2>2, FS_Subset
<1>3. Rank(side, book, i) = Cardinality(A) /\ Rank(side, book, j) = Cardinality(B)
  BY DEF Rank
<1> HIDE DEF A, B
<1>4. Cardinality(A) <= Cardinality(B) /\ Cardinality(A) # Cardinality(B)
  BY <1>1, <1>2, FS_Subset
<1>5. Cardinality(A) \in Nat /\ Cardinality(B) \in Nat
  BY <1>1, <1>2, FS_Subset, FS_CardinalityType
<1> QED BY <1>3, <1>4, <1>5

LEMMA RankIsAPlace ==
  ASSUME NEW side, NEW book \in Seq(Level), NEW i \in DOMAIN book
  PROVE  Rank(side, book, i) \in Nat /\ Rank(side, book, i) + 1 \in 1..Len(book)
<1> DEFINE A == {k \in DOMAIN book : Ahead(side, book, k, i)}
           n == Len(book)
<1>1. DOMAIN book = 1..n /\ n \in Nat
  OBVIOUS
<1>2. IsFiniteSet(1..n) /\ Cardinality(1..n) = n
  <2> HIDE DEF n
  <2>1. /\ IsFiniteSet(1..n)
        /\ Cardinality(1..n) = IF 1 > n THEN 0 ELSE n - 1 + 1
    BY <1>1, FS_Interval
  <2> QED BY <1>1, <2>1
<1>3. A \subseteq 1..n /\ A # 1..n
  BY <1>1, AheadIsAnOrder
<1>4. Rank(side, book, i) = Cardinality(A)
  BY DEF Rank
<1> HIDE DEF A, n
<1>5. Cardinality(A) <= n /\ Cardinality(A) # n
  BY <1>2, <1>3, FS_Subset
<1>6. Cardinality(A) \in Nat
  BY <1>2, <1>3, FS_Subset, FS_CardinalityType
<1> QED BY <1>1, <1>4, <1>5, <1>6 DEF n

(* At each place of the walk there is one level, and prices get worse along it. *)
LEMMA LevelsAreSorted ==
  ASSUME NEW side, NEW book \in Seq(Level)
  PROVE  \E ord \in Orderings(Len(book)) :
           /\ ExecutableLevels(side, book) = [k \in 1..Len(book) |-> book[ord[k]]]
           /\ \A j, k \in 1..Len(book) :
                j < k => IF side = "BUY" THEN book[ord[j]].price <= book[ord[k]].price
                         ELSE book[ord[j]].price >= book[ord[k]].price
<1> DEFINE n == Len(book)
           place == [i \in 1..n |-> Rank(side, book, i) + 1]
           ord == [k \in 1..n |-> CHOOSE i \in 1..n : Rank(side, book, i) = k - 1]
<1>1. DOMAIN book = 1..n /\ n \in Nat
  OBVIOUS
<1>2. place \in [1..n -> 1..n]
  BY <1>1, RankIsAPlace
<1>3. \A i \in 1..n : place[i] = Rank(side, book, i) + 1 /\ Rank(side, book, i) \in Nat
  BY <1>1, RankIsAPlace
<1>4. \A i, j \in 1..n : Ahead(side, book, i, j) => place[i] < place[j]
  BY <1>1, <1>3, RanksDiffer
<1> HIDE DEF place
<1>5. \A i, j \in 1..n : place[i] = place[j] => i = j
  <2>1. \A i, j \in 1..n : i # j => place[i] < place[j] \/ place[j] < place[i]
    BY <1>1, <1>4, AheadIsAnOrder
  <2>2. \A i \in 1..n : place[i] \in Nat
    BY <1>2
  <2> QED BY <2>1, <2>2
<1>6. \A k \in 1..n : \E i \in 1..n : place[i] = k
  <2>1. place \in Injection(1..n, 1..n)
    BY <1>2, <1>5 DEF Injection, IsInjective
  <2>2. IsFiniteSet(1..n)
    <3> HIDE DEF n
    <3> QED BY <1>1, FS_Interval
  <2>3. place \in Surjection(1..n, 1..n)
    BY <2>1, <2>2, FS_Injection
  <2> QED BY <2>3 DEF Surjection
<1>7. \A k \in 1..n : ord[k] \in 1..n /\ place[ord[k]] = k
  <2> SUFFICES ASSUME NEW k \in 1..n PROVE ord[k] \in 1..n /\ place[ord[k]] = k
    OBVIOUS
  <2>1. PICK i \in 1..n : Rank(side, book, i) = k - 1
    <3>1. PICK i \in 1..n : place[i] = k
      BY <1>6
    <3>2. Rank(side, book, i) + 1 = k /\ Rank(side, book, i) \in Nat
      BY <1>3, <3>1
    <3> QED BY <3>2
  <2>2. ord[k] \in 1..n /\ Rank(side, book, ord[k]) = k - 1
    BY <2>1
  <2> QED BY <1>1, <1>3, <2>2
<1>8. ord \in [1..n -> 1..n]
  BY <1>7
<1>9. ExecutableLevels(side, book) = [k \in 1..n |-> book[ord[k]]]
  BY <1>1 DEF ExecutableLevels
<1> HIDE DEF ord
<1>10. ord \in Orderings(n)
  <2>1. \A i, j \in 1..n : ord[i] = ord[j] => i = j
    BY <1>7
  <2>2. \A i \in 1..n : ord[place[i]] = i /\ place[i] \in 1..n
    BY <1>2, <1>5, <1>7
  <2> QED BY <1>8, <2>1, <2>2 DEF Orderings
<1> DEFINE Sorted(j, k) == IF side = "BUY" THEN book[ord[j]].price <= book[ord[k]].price
                           ELSE book[ord[j]].price >= book[ord[k]].price
<1>11. ASSUME NEW j \in 1..n, NEW k \in 1..n, j < k
       PROVE  Sorted(j, k)
  <2>1. /\ ord[j] \in 1..n /\ ord[k] \in 1..n /\ place[ord[j]] = j /\ place[ord[k]] = k
    BY <1>7
  <2>2. ~Ahead(side, book, ord[k], ord[j])
    <3>1. ~(k < j)
      BY <1>11
    <3> QED BY <1>4, <2>1, <3>1
  <2>3. book[ord[j]].price \in Nat /\ book[ord[k]].price \in Nat
    BY <1>1, <2>1, AheadIsAnOrder
  <2> DEFINE p == book[ord[j]].price
             q == book[ord[k]].price
  <2>4. side = "BUY" => ~(q < p)
    BY <2>2 DEF Ahead
  <2>5. side # "BUY" => ~(q > p)
    BY <2>2 DEF Ahead
  <2>6. IF side = "BUY" THEN p <= q ELSE p >= q
    <3> HIDE DEF p, q
    <3>1. p \in Nat /\ q \in Nat
      BY <2>3 DEF p, q
    <3> QED BY <2>4, <2>5, <3>1
  <2> QED BY <2>6
<1>12. \A j, k \in 1..n : j < k => Sorted(j, k)
  <2> HIDE DEF Sorted
  <2> QED BY <1>11
<1> QED BY <1>9, <1>10, <1>12

-----------------------------------------------------------------------------
(* The walk, level by level *)

Walk == [remaining : Int, stopped : BOOLEAN, size : Int, notional : Int]

WalkStart(order) == [remaining |-> order.size, stopped |-> FALSE, size |-> 0, notional |-> 0]

Walks(order, n, levels) ==
  {v \in [0..n -> Walk] :
     /\ v[0] = WalkStart(order)
     /\ \A k \in 1..n : v[k] = ConsumeLevel(order, v[k - 1], levels[k])}

LEMMA SizesAreCounted ==
  /\ \A l \in Level : l.size \in Nat /\ l.price \in Nat
  /\ \A o \in Order : o.size \in Nat
<1>1. \A l \in Level : l.size \in Sizes /\ l.price \in Prices
  BY DEF Level
<1>2. \A o \in Order : o.size \in Requests
  BY DEF Order
<1> QED BY <1>1, <1>2, WalkAssumption

LEMMA ConsumeIsAWalk ==
  ASSUME NEW order \in Order, NEW walk \in Walk, NEW level \in Level
  PROVE  ConsumeLevel(order, walk, level) \in Walk
<1>1. /\ level.size \in Int /\ level.price \in Int
      /\ walk.remaining \in Int /\ walk.size \in Int /\ walk.notional \in Int
  BY SizesAreCounted DEF Walk
<1>2. Smaller(level.size, walk.remaining) \in Int
  BY <1>1 DEF Smaller
<1>3. Smaller(level.size, walk.remaining) * level.price \in Int
  BY <1>1, <1>2
<1> DEFINE t == Smaller(level.size, walk.remaining)
<1>4. /\ walk.remaining - t \in Int /\ walk.size + t \in Int
      /\ walk.notional + t * level.price \in Int
  BY <1>1, <1>2, <1>3
<1>5. [walk EXCEPT !.stopped = TRUE] \in Walk
  BY DEF Walk
<1>6. [walk EXCEPT !.remaining = @ - t, !.size = @ + t, !.notional = @ + t * level.price] \in Walk
  <2> HIDE DEF t
  <2> QED BY <1>4 DEF Walk
<1> QED BY <1>5, <1>6 DEF ConsumeLevel

LEMMA FillIsAWalk ==
  ASSUME NEW order \in Order, NEW book, NEW n \in Nat, NEW levels \in [1..n -> Level],
         ExecutableLevels(order.side, book) = levels
  PROVE  \E v \in Walks(order, n, levels) :
           SimulateFill(order, book) = [size |-> v[n].size, notional |-> v[n].notional]
<1> DEFINE F == [k \in 1..n |-> [w \in Walk |-> ConsumeLevel(order, w, levels[k])]]
           start == WalkStart(order)
           Step(it) == [s \in SUBSET DOMAIN levels |->
                          IF s = {} THEN start
                          ELSE ConsumeLevel(order, it[s \ {Max(s)}], levels[Max(s)])]
           iter == CHOOSE it : it = Step(it)
<1>1. DOMAIN levels = 1..n
  OBVIOUS
<1>2. start \in Walk
  <2>1. order.size \in Int
    BY SizesAreCounted
  <2> QED BY <2>1 DEF WalkStart, Walk
<1>3. F \in [1..n -> [Walk -> Walk]]
  BY ConsumeIsAWalk
<1>4. \A k \in 1..n, w \in Walk : F[k][w] = ConsumeLevel(order, w, levels[k])
  OBVIOUS
<1>5. SimulateFill(order, book)
        = [size |-> iter[1..n].size, notional |-> iter[1..n].notional]
  BY <1>1 DEF SimulateFill, FoldLeft, MapThenFoldSet, WalkStart
<1> HIDE DEF F, start
<1>6. \E it : it = Step(it)
  <2>1. PICK it : it \in Iterations(Walk, n, F, start)
    BY <1>2, <1>3, Iterated
  <2>2. /\ it \in [SUBSET (1..n) -> Walk]
        /\ \A s \in SUBSET (1..n) :
             it[s] = IF s = {} THEN start ELSE F[Max(s)][it[s \ {Max(s)}]]
    BY <2>1 DEF Iterations
  <2>3. \A s \in SUBSET (1..n) : s # {} =>
          F[Max(s)][it[s \ {Max(s)}]] = ConsumeLevel(order, it[s \ {Max(s)}], levels[Max(s)])
    BY <1>4, <2>2, MaxOf
  <2>4. it = Step(it)
    BY <1>1, <2>2, <2>3
  <2> QED BY <2>4
<1>7. iter = Step(iter)
  BY <1>6, Zenon
<1> HIDE DEF iter
<1>8. /\ iter[{}] = start
      /\ \A s \in SUBSET (1..n) : s # {} =>
           iter[s] = ConsumeLevel(order, iter[s \ {Max(s)}], levels[Max(s)])
  BY <1>1, <1>7
<1>9. ASSUME NEW k \in Nat, k < n, iter[1..k] \in Walk
      PROVE  iter[1..k + 1] = F[k + 1][iter[1..k]]
  <2>1. iter[1..k + 1] = ConsumeLevel(order, iter[1..k], levels[k + 1])
    <3>1. /\ 1..k + 1 \in SUBSET (1..n) /\ 1..k + 1 # {}
          /\ Max(1..k + 1) = k + 1 /\ (1..k + 1) \ {Max(1..k + 1)} = 1..k
      BY <1>9, UpTo
    <3> QED BY <1>8, <3>1
  <2>2. k + 1 \in 1..n
    BY <1>9
  <2> QED BY <2>1, <2>2, <1>4, <1>9
<1> DEFINE v == PrefixValues(n, iter)
<1>10. v \in Steps(Walk, n, F, start)
  <2>1. \A k \in Nat : k < n /\ iter[1..k] \in Walk => iter[1..k + 1] = F[k + 1][iter[1..k]]
    BY <1>9
  <2>2. iter[{}] = start
    BY <1>8
  <2> QED BY <1>2, <1>3, <2>1, <2>2, StepsOf
<1>11. v \in [0..n -> Walk] /\ v[0] = start /\ \A k \in 1..n : v[k] = F[k][v[k - 1]]
  BY <1>10 DEF Steps
<1>12. \A k \in 1..n : v[k] = ConsumeLevel(order, v[k - 1], levels[k])
  <2>1. \A k \in 1..n : k - 1 \in 0..n
    OBVIOUS
  <2> HIDE DEF v
  <2> QED BY <1>4, <1>11, <2>1
<1>13. v[n] = iter[1..n]
  BY DEF PrefixValues
<1> HIDE DEF v
<1>14. v \in Walks(order, n, levels)
  BY <1>11, <1>12 DEF Walks, start
<1> QED BY <1>5, <1>13, <1>14

(* What is taken from each level *)
Taken(n, v) == [k \in 1..n |-> v[k].size - v[k - 1].size]

Admits(order, level) == WithinSlippage(order, level.price)

(* The walk takes all of a level before it goes to the next, and stops only with *)
(* the order filled or at a level beyond the slippage limit.                     *)
Greedy(order, n, levels, v, k) ==
  LET taken == Taken(n, v) IN
  /\ v[k].remaining \in Nat /\ v[k].size \in Nat /\ v[k].size + v[k].remaining = order.size
  /\ \A j \in 1..k :
       /\ taken[j] \in Nat /\ taken[j] <= levels[j].size /\ taken[j] <= order.size
       /\ taken[j] > 0 => Admits(order, levels[j])
       /\ taken[j] # levels[j].size => v[k].stopped \/ v[k].remaining = 0
       /\ v[k].remaining > 0 /\ Admits(order, levels[j]) => taken[j] = levels[j].size
       /\ v[j].notional = v[j - 1].notional + taken[j] * levels[j].price
  /\ \A i, j \in 1..k : i < j /\ taken[i] # levels[i].size => taken[j] = 0
  /\ v[k].stopped /\ v[k].remaining > 0 => \E j \in 1..k : ~Admits(order, levels[j])

(* Whoever admits a level admits the better ones. *)
SortedFor(order, n, levels) ==
  \A j, k \in 1..n : j < k /\ Admits(order, levels[k]) => Admits(order, levels[j])

LEMMA WalkIsGreedy ==
  ASSUME NEW order \in Order, NEW n \in Nat, NEW levels \in [1..n -> Level],
         SortedFor(order, n, levels), NEW v \in Walks(order, n, levels)
  PROVE  Greedy(order, n, levels, v, n)
<1> DEFINE taken == Taken(n, v)
           S == {k \in Nat : k <= n => Greedy(order, n, levels, v, k)}
<1>1. /\ v \in [0..n -> Walk] /\ v[0] = WalkStart(order)
      /\ \A k \in 1..n : v[k] = ConsumeLevel(order, v[k - 1], levels[k])
  BY DEF Walks
<1>2. \A k \in 1..n : taken[k] = v[k].size - v[k - 1].size
  BY DEF Taken
<1>3. \A k \in 1..n : levels[k].size \in Nat /\ levels[k].price \in Nat
  BY SizesAreCounted
<1>4. order.size \in Nat
  BY SizesAreCounted
<1> HIDE DEF taken
<1>5. 0 \in S
  <2>1. v[0].remaining = order.size /\ v[0].size = 0 /\ v[0].stopped = FALSE
    BY <1>1 DEF WalkStart
  <2>2. 1..0 = {}
    OBVIOUS
  <2>3. Greedy(order, n, levels, v, 0)
    BY <1>4, <2>1, <2>2 DEF Greedy
  <2> QED BY <2>3
<1>6. ASSUME NEW k \in Nat, k \in S
      PROVE  k + 1 \in S
  <2> SUFFICES ASSUME k + 1 <= n
               PROVE  Greedy(order, n, levels, v, k + 1)
    OBVIOUS
  <2> DEFINE w == v[k]
             x == v[k + 1]
             l == levels[k + 1]
  <2>1. Greedy(order, n, levels, v, k)
    BY <1>6
  <2>2. k + 1 \in 1..n /\ (k + 1) - 1 = k /\ k \in 0..n /\ k + 1 \in 0..n
    OBVIOUS
  <2>3. /\ x = ConsumeLevel(order, w, l) /\ w \in Walk
        /\ taken[k + 1] = x.size - w.size
        /\ l.size \in Nat /\ l.price \in Nat
    BY <1>1, <1>2, <1>3, <2>2
  <2>4. /\ w.remaining \in Nat /\ w.size \in Nat /\ w.size + w.remaining = order.size
        /\ \A j \in 1..k :
             /\ taken[j] \in Nat /\ taken[j] <= levels[j].size /\ taken[j] <= order.size
             /\ taken[j] > 0 => Admits(order, levels[j])
             /\ taken[j] # levels[j].size => w.stopped \/ w.remaining = 0
             /\ w.remaining > 0 /\ Admits(order, levels[j]) => taken[j] = levels[j].size
             /\ v[j].notional = v[j - 1].notional + taken[j] * levels[j].price
        /\ \A i, j \in 1..k : i < j /\ taken[i] # levels[i].size => taken[j] = 0
        /\ w.stopped /\ w.remaining > 0 => \E j \in 1..k : ~Admits(order, levels[j])
    BY <2>1 DEF Greedy, taken
  <2>5. \A j \in 1..k + 1 : j \in 1..k \/ j = k + 1
    OBVIOUS
  <2>6. \A j \in 1..k : j \in 1..n /\ j \in 1..k + 1 /\ j < k + 1
    OBVIOUS
  <2>7. w.notional \in Int /\ w.stopped \in BOOLEAN
    BY <2>3 DEF Walk
  <2>8. CASE w.stopped \/ w.remaining <= 0 \/ ~Admits(order, l)
    <3>1. x = [w EXCEPT !.stopped = TRUE]
      BY <2>3, <2>8 DEF ConsumeLevel, Admits
    <3>2. /\ x.stopped = TRUE /\ x.remaining = w.remaining /\ x.size = w.size
          /\ x.notional = w.notional /\ taken[k + 1] = 0
      BY <2>3, <2>4, <3>1 DEF Walk
    <3>3. w.remaining > 0 => ~Admits(order, l)
      <4> SUFFICES ASSUME w.remaining > 0, w.stopped PROVE ~Admits(order, l)
        BY <2>4, <2>8
      <4>1. PICK j \in 1..k : ~Admits(order, levels[j])
        BY <2>4
      <4> QED BY <2>2, <2>6, <4>1 DEF SortedFor
    <3>4. x.notional = w.notional + taken[k + 1] * l.price
      BY <2>3, <2>7, <3>2
    <3> HIDE DEF w, x, l
    <3>5. /\ x.remaining \in Nat /\ x.size \in Nat /\ x.size + x.remaining = order.size
          /\ x.stopped /\ x.remaining > 0 => ~Admits(order, l)
      BY <2>4, <3>2, <3>3
    <3>6. \A j \in 1..k + 1 :
             /\ taken[j] \in Nat /\ taken[j] <= levels[j].size /\ taken[j] <= order.size
             /\ taken[j] > 0 => Admits(order, levels[j])
             /\ taken[j] # levels[j].size => x.stopped \/ x.remaining = 0
             /\ x.remaining > 0 /\ Admits(order, levels[j]) => taken[j] = levels[j].size
             /\ v[j].notional = v[j - 1].notional + taken[j] * levels[j].price
      <4>1. v[k + 1].notional = v[(k + 1) - 1].notional + taken[k + 1] * levels[k + 1].price
        BY <2>2, <3>4 DEF w, x, l
      <4>2. /\ taken[k + 1] \in Nat /\ taken[k + 1] <= levels[k + 1].size
            /\ taken[k + 1] <= order.size /\ ~(taken[k + 1] > 0)
        BY <1>4, <2>3, <3>2 DEF l
      <4>3. x.remaining > 0 => ~Admits(order, levels[k + 1])
        BY <3>2, <3>3 DEF l
      <4> QED BY <2>4, <2>5, <3>2, <4>1, <4>2, <4>3
    <3>7. \A i, j \in 1..k + 1 : i < j /\ taken[i] # levels[i].size => taken[j] = 0
      <4>1. \A i, j \in 1..k + 1 : i < j => i \in 1..k
        OBVIOUS
      <4> QED BY <2>4, <2>5, <3>2, <4>1
    <3>8. x.stopped /\ x.remaining > 0 => \E j \in 1..k + 1 : ~Admits(order, levels[j])
      BY <3>5 DEF l
    <3> QED BY <3>5, <3>6, <3>7, <3>8 DEF Greedy, taken, x
  <2>9. CASE ~(w.stopped \/ w.remaining <= 0 \/ ~Admits(order, l))
    <3> DEFINE t == Smaller(l.size, w.remaining)
    <3>1. x = [w EXCEPT !.remaining = @ - t, !.size = @ + t, !.notional = @ + t * l.price]
      BY <2>3, <2>9 DEF ConsumeLevel, Admits
    <3>2. /\ t \in Nat /\ t <= l.size /\ t <= w.remaining
          /\ t = l.size \/ t = w.remaining
      BY <2>3, <2>4 DEF Smaller
    <3>3. /\ x.stopped = w.stopped /\ x.remaining = w.remaining - t /\ x.size = w.size + t
          /\ x.notional = w.notional + t * l.price
      BY <2>3, <3>1 DEF Walk
    <3> HIDE DEF w, x, l, t
    <3>4. taken[k + 1] = t /\ w.remaining > 0 /\ ~w.stopped /\ Admits(order, l)
      BY <2>3, <2>4, <2>9, <3>2, <3>3
    <3>5. /\ x.remaining \in Nat /\ x.size \in Nat /\ x.size + x.remaining = order.size
          /\ ~x.stopped /\ t <= order.size
          /\ t # l.size => x.remaining = 0
      <4>1. /\ w.remaining \in Nat /\ w.size \in Nat /\ w.size + w.remaining = order.size
            /\ ~w.stopped
        BY <2>4, <3>4
      <4>2. x.remaining = w.remaining - t /\ x.size = w.size + t /\ x.stopped = w.stopped
        BY <3>3
      <4>3. x.remaining \in Nat /\ x.size \in Nat /\ t <= order.size
        BY <1>4, <3>2, <4>1, <4>2
      <4>4. x.size + x.remaining = order.size
        BY <3>2, <4>1, <4>2
      <4>5. t # l.size => x.remaining = 0
        BY <3>2, <4>1, <4>2
      <4> QED BY <4>1, <4>2, <4>3, <4>4, <4>5
    <3>6. \A j \in 1..k : taken[j] = levels[j].size
      BY <2>4, <3>4
    <3>7. \A j \in 1..k + 1 :
             /\ taken[j] \in Nat /\ taken[j] <= levels[j].size /\ taken[j] <= order.size
             /\ taken[j] > 0 => Admits(order, levels[j])
             /\ taken[j] # levels[j].size => x.stopped \/ x.remaining = 0
             /\ x.remaining > 0 /\ Admits(order, levels[j]) => taken[j] = levels[j].size
             /\ v[j].notional = v[j - 1].notional + taken[j] * levels[j].price
      <4>1. taken[k + 1] # levels[k + 1].size => x.remaining = 0
        BY <3>4, <3>5 DEF l
      <4>2. v[k + 1].notional = v[(k + 1) - 1].notional + taken[k + 1] * levels[k + 1].price
        BY <2>2, <3>3, <3>4 DEF w, x, l
      <4>3. /\ taken[k + 1] \in Nat /\ taken[k + 1] <= levels[k + 1].size
            /\ taken[k + 1] <= order.size /\ Admits(order, levels[k + 1])
        BY <3>2, <3>4, <3>5 DEF l
      <4>4. ASSUME NEW j \in 1..k
            PROVE  /\ taken[j] \in Nat /\ taken[j] <= levels[j].size /\ taken[j] <= order.size
                   /\ taken[j] > 0 => Admits(order, levels[j])
                   /\ taken[j] = levels[j].size
                   /\ v[j].notional = v[j - 1].notional + taken[j] * levels[j].price
        BY <2>4, <3>6
      <4> QED BY <2>5, <4>1, <4>2, <4>3, <4>4
    <3>8. \A i, j \in 1..k + 1 : i < j /\ taken[i] # levels[i].size => taken[j] = 0
      <4>1. \A i, j \in 1..k + 1 : i < j => i \in 1..k
        OBVIOUS
      <4> QED BY <3>6, <4>1
    <3> QED BY <3>5, <3>7, <3>8 DEF Greedy, taken, x
  <2> QED BY <2>8, <2>9
<1>7. n \in S
  <2> HIDE DEF S
  <2> QED BY <1>5, <1>6, NatSetInduction
<1> QED BY <1>7

-----------------------------------------------------------------------------
(* Comparing two ways of taking shares, level by level *)

PrefixSums(n, g) ==
  {v \in [0..n -> Int] : v[0] = 0 /\ \A k \in 1..n : v[k] = v[k - 1] + g[k]}

\* what s[k] shares at q[k] each come to
PrefixCosts(n, s, q) ==
  {v \in [0..n -> Int] : v[0] = 0 /\ \A k \in 1..n : v[k] = v[k - 1] + s[k] * q[k]}

LEMMA PrefixSumsExist ==
  ASSUME NEW n \in Nat, NEW g \in [1..n -> Int]
  PROVE  \E v : v \in PrefixSums(n, g)
<1>1. PICK it : it \in SumsOf(n, g)
  BY SumsExist
<1>2. /\ it \in [SUBSET (1..n) -> Int] /\ it[{}] = 0
      /\ \A s \in SUBSET (1..n) : \A x \in s : it[s] = g[x] + it[s \ {x}]
  BY <1>1 DEF SumsOf
<1> DEFINE v == PrefixValues(n, it)
<1>3. \A k \in 0..n : v[k] = it[1..k]
  BY DEF PrefixValues
<1>4. v \in [0..n -> Int]
  <2>1. \A k \in 0..n : 1..k \in SUBSET (1..n)
    OBVIOUS
  <2> QED BY <1>2, <2>1 DEF PrefixValues
<1>5. v[0] = 0
  <2>1. 1..0 = {} /\ 0 \in 0..n
    OBVIOUS
  <2> HIDE DEF v
  <2> QED BY <1>2, <1>3, <2>1
<1>6. ASSUME NEW k \in 1..n PROVE v[k] = v[k - 1] + g[k]
  <2>1. /\ 1..k \in SUBSET (1..n) /\ k \in 1..k /\ k \in 0..n /\ k - 1 \in 0..n
        /\ (1..k) \ {k} = 1..(k - 1)
    OBVIOUS
  <2>2. it[1..k] = g[k] + it[1..(k - 1)]
    <3> DEFINE s == 1..k
    <3>1. s \in SUBSET (1..n) /\ k \in s /\ s \ {k} = 1..(k - 1)
      BY <2>1
    <3> HIDE DEF s
    <3>2. it[s] = g[k] + it[s \ {k}]
      BY <1>2, <3>1
    <3> QED BY <3>1, <3>2 DEF s
  <2>3. g[k] \in Int /\ v[k - 1] \in Int /\ v[k] = it[1..k] /\ v[k - 1] = it[1..(k - 1)]
    <3> HIDE DEF v
    <3> QED BY <1>3, <1>4, <2>1
  <2> HIDE DEF v
  <2> QED BY <2>2, <2>3
<1> HIDE DEF v
<1> QED BY <1>4, <1>5, <1>6 DEF PrefixSums

LEMMA PrefixCostsExist ==
  ASSUME NEW n \in Nat, NEW s \in [1..n -> Int], NEW q \in [1..n -> Int]
  PROVE  \E v : v \in PrefixCosts(n, s, q)
<1> DEFINE g == [k \in 1..n |-> s[k] * q[k]]
<1>1. g \in [1..n -> Int] /\ \A k \in 1..n : g[k] = s[k] * q[k]
  OBVIOUS
<1> HIDE DEF g
<1>2. PICK v : v \in PrefixSums(n, g)
  BY <1>1, PrefixSumsExist
<1>3. v \in PrefixCosts(n, s, q)
  BY <1>1, <1>2 DEF PrefixSums, PrefixCosts
<1> QED BY <1>3

LEMMA NeverFalls ==
  ASSUME NEW n \in Nat, NEW w \in [0..n -> Int], \A k \in 1..n : w[k - 1] <= w[k]
  PROVE  w[0] <= w[n]
<1> DEFINE S == {k \in Nat : k <= n => w[0] <= w[k]}
<1>1. 0 \in S
  <2>1. w[0] \in Int
    OBVIOUS
  <2> QED BY <2>1
<1>2. ASSUME NEW k \in Nat, k \in S PROVE k + 1 \in S
  <2> SUFFICES ASSUME k + 1 <= n PROVE w[0] <= w[k + 1]
    OBVIOUS
  <2>1. k + 1 \in 1..n /\ (k + 1) - 1 = k /\ k \in 0..n /\ 0 \in 0..n /\ k + 1 \in 0..n
    OBVIOUS
  <2>2. w[k] <= w[k + 1] /\ w[0] <= w[k]
    BY <1>2, <2>1
  <2>3. w[0] \in Int /\ w[k] \in Int /\ w[k + 1] \in Int
    BY <2>1
  <2> HIDE DEF S
  <2> QED BY <2>2, <2>3
<1>3. n \in S
  <2> HIDE DEF S
  <2> QED BY <1>1, <1>2, NatSetInduction
<1> QED BY <1>3

LEMMA MoreOfEachIsMore ==
  ASSUME NEW n \in Nat, NEW s \in [1..n -> Int], NEW t \in [1..n -> Int],
         NEW a \in PrefixSums(n, s), NEW b \in PrefixSums(n, t),
         \A k \in 1..n : s[k] <= t[k]
  PROVE  a[n] <= b[n]
<1> DEFINE w == [k \in 0..n |-> b[k] - a[k]]
<1>1. /\ a \in [0..n -> Int] /\ a[0] = 0 /\ \A k \in 1..n : a[k] = a[k - 1] + s[k]
      /\ b \in [0..n -> Int] /\ b[0] = 0 /\ \A k \in 1..n : b[k] = b[k - 1] + t[k]
  BY DEF PrefixSums
<1>2. w \in [0..n -> Int] /\ \A k \in 0..n : w[k] = b[k] - a[k]
  BY <1>1
<1> HIDE DEF w
<1>3. ASSUME NEW k \in 1..n PROVE w[k - 1] <= w[k]
  <2>1. k \in 0..n /\ k - 1 \in 0..n
    OBVIOUS
  <2>2. w[k] = b[k] - a[k] /\ w[k - 1] = b[k - 1] - a[k - 1]
    BY <1>2, <2>1
  <2>3. /\ a[k - 1] \in Int /\ b[k - 1] \in Int /\ s[k] \in Int /\ t[k] \in Int
        /\ a[k] = a[k - 1] + s[k] /\ b[k] = b[k - 1] + t[k] /\ s[k] <= t[k]
    BY <1>1, <2>1
  <2> QED BY <2>2, <2>3
<1>4. w[0] <= w[n]
  BY <1>2, <1>3, NeverFalls
<1>5. 0 \in 0..n /\ n \in 0..n
  OBVIOUS
<1>6. w[0] = b[0] - a[0] /\ w[n] = b[n] - a[n] /\ a[n] \in Int /\ b[n] \in Int
  BY <1>1, <1>2, <1>5
<1> QED BY <1>1, <1>4, <1>6

LEMMA SignOfProduct ==
  ASSUME NEW x \in Int, NEW y \in Int, (x >= 0 /\ y >= 0) \/ (x <= 0 /\ y <= 0)
  PROVE  x * y >= 0
OBVIOUS

LEMMA Factored ==
  ASSUME NEW x \in Int, NEW y \in Int, NEW q \in Int, NEW r \in Int
  PROVE  (x * q - y * q) - r * (x - y) = (x - y) * (q - r)
OBVIOUS

(* Shares moved from below a price to above it are worth at least that price each. *)
LEMMA DearerShares ==
  ASSUME NEW n \in Nat, NEW s \in [1..n -> Int], NEW t \in [1..n -> Int],
         NEW q \in [1..n -> Int], NEW r \in Int,
         \A k \in 1..n : (s[k] - t[k]) * (q[k] - r) >= 0,
         NEW a \in PrefixSums(n, s), NEW b \in PrefixSums(n, t),
         NEW c \in PrefixCosts(n, s, q), NEW d \in PrefixCosts(n, t, q),
         a[n] = b[n]
  PROVE  d[n] <= c[n]
<1> DEFINE w == [k \in 0..n |-> (c[k] - d[k]) - r * (a[k] - b[k])]
<1>1. /\ a \in [0..n -> Int] /\ a[0] = 0 /\ \A k \in 1..n : a[k] = a[k - 1] + s[k]
      /\ b \in [0..n -> Int] /\ b[0] = 0 /\ \A k \in 1..n : b[k] = b[k - 1] + t[k]
      /\ c \in [0..n -> Int] /\ c[0] = 0 /\ \A k \in 1..n : c[k] = c[k - 1] + s[k] * q[k]
      /\ d \in [0..n -> Int] /\ d[0] = 0 /\ \A k \in 1..n : d[k] = d[k - 1] + t[k] * q[k]
  BY DEF PrefixSums, PrefixCosts
<1>2. w \in [0..n -> Int] /\ \A k \in 0..n : w[k] = (c[k] - d[k]) - r * (a[k] - b[k])
  <2>1. \A k \in 0..n : (c[k] - d[k]) - r * (a[k] - b[k]) \in Int
    BY <1>1
  <2> QED BY <2>1
<1> HIDE DEF w
<1>3. ASSUME NEW k \in 1..n PROVE w[k - 1] <= w[k]
  <2>1. k \in 0..n /\ k - 1 \in 0..n
    OBVIOUS
  <2> DEFINE x == s[k]
             y == t[k]
             p == q[k]
             a0 == a[k - 1]
             b0 == b[k - 1]
             c0 == c[k - 1]
             d0 == d[k - 1]
  <2>2. /\ w[k] = (c[k] - d[k]) - r * (a[k] - b[k])
        /\ w[k - 1] = (c0 - d0) - r * (a0 - b0)
    BY <1>2, <2>1
  <2>3. /\ x \in Int /\ y \in Int /\ p \in Int
        /\ a0 \in Int /\ b0 \in Int /\ c0 \in Int /\ d0 \in Int
    BY <1>1, <2>1
  <2>4. a[k] = a0 + x /\ b[k] = b0 + y /\ c[k] = c0 + x * p /\ d[k] = d0 + y * p
    BY <1>1, <2>1
  <2>5. (x - y) * (p - r) >= 0
    OBVIOUS
  <2> HIDE DEF x, y, p, a0, b0, c0, d0
  <2>6. (x * p - y * p) - r * (x - y) >= 0
    BY <2>3, <2>5, Factored
  <2>7. x * p \in Int /\ y * p \in Int /\ r * (x - y) \in Int /\ r * (a0 - b0) \in Int
    BY <2>3
  <2>8. r * ((a0 + x) - (b0 + y)) = r * (a0 - b0) + r * (x - y)
    BY <2>3
  <2>9. w[k] = ((c0 + x * p) - (d0 + y * p)) - (r * (a0 - b0) + r * (x - y))
    BY <2>2, <2>4, <2>8
  <2> QED BY <2>2, <2>3, <2>6, <2>7, <2>9
<1>4. w[0] <= w[n]
  BY <1>2, <1>3, NeverFalls
<1>5. 0 \in 0..n /\ n \in 0..n
  OBVIOUS
<1>6. /\ w[0] = (c[0] - d[0]) - r * (a[0] - b[0])
      /\ w[n] = (c[n] - d[n]) - r * (a[n] - b[n])
      /\ a[n] \in Int /\ b[n] \in Int /\ c[n] \in Int /\ d[n] \in Int
  BY <1>1, <1>2, <1>5
<1>7. r * 0 = 0
  OBVIOUS
<1> QED BY <1>1, <1>4, <1>6, <1>7

-----------------------------------------------------------------------------
(* The fill is the best taking *)

Sorted(order, n, levels) ==
  \A j, k \in 1..n :
    j < k => IF order.side = "BUY" THEN levels[j].price <= levels[k].price
             ELSE levels[j].price >= levels[k].price

LEMMA BestFirst ==
  ASSUME NEW order \in Order, NEW n \in Nat, NEW levels \in [1..n -> Level],
         Sorted(order, n, levels)
  PROVE  SortedFor(order, n, levels)
<1> SUFFICES ASSUME NEW j \in 1..n, NEW k \in 1..n, j < k, Admits(order, levels[k])
             PROVE  Admits(order, levels[j])
  BY DEF SortedFor
<1> DEFINE x == levels[j].price
           y == levels[k].price
           rise == order.price * (100 + SlippagePercent)
           fall == order.price * (100 - SlippagePercent)
<1>1. x \in Nat /\ y \in Nat
  BY SizesAreCounted
<1>2. rise \in Int /\ fall \in Int
  <2>1. order.price \in Nat
    BY WalkAssumption DEF Order
  <2>2. SlippagePercent \in Nat
    BY WalkAssumption
  <2> QED BY <2>1, <2>2
<1>3. IF order.side = "BUY" THEN x <= y ELSE x >= y
  BY DEF Sorted
<1>4. IF order.side = "BUY" THEN y * 100 <= rise ELSE y * 100 >= fall
  BY DEF Admits, WithinSlippage
<1>5. IF order.side = "BUY" THEN x * 100 <= rise ELSE x * 100 >= fall
  <2> HIDE DEF x, y, rise, fall
  <2> QED BY <1>1, <1>2, <1>3, <1>4
<1> QED BY <1>5 DEF Admits, WithinSlippage

(* Levels before the first that is left over are taken whole, those after it are left. *)
LEMMA MarginalLevel ==
  ASSUME NEW n \in Nat, n # 0, NEW t \in [1..n -> Nat], NEW size \in [1..n -> Nat],
         \A i, j \in 1..n : i < j /\ t[i] # size[i] => t[j] = 0
  PROVE  \E m \in 1..n : /\ \A j \in 1..n : j < m => t[j] = size[j]
                         /\ \A j \in 1..n : j > m => t[j] = 0
<1>1. CASE \A j \in 1..n : t[j] = size[j]
  <2>1. n \in 1..n /\ \A j \in 1..n : ~(j > n)
    OBVIOUS
  <2> QED BY <1>1, <2>1
<1>2. CASE ~(\A j \in 1..n : t[j] = size[j])
  <2> DEFINE T == {j \in 1..n : t[j] # size[j]}
  <2>1. T # {} /\ T \subseteq Nat
    <3>1. 1..n \subseteq Nat
      OBVIOUS
    <3> QED BY <1>2, <3>1
  <2>2. PICK m \in T : \A k \in T : <<k, m>> \notin OpToRel(<, Nat)
    <3> HIDE DEF T
    <3> QED BY <2>1, WFMin, NatLessThanWellFounded
  <2>3. \A j \in 1..n : j < m => t[j] = size[j]
    <3> SUFFICES ASSUME NEW j \in 1..n, j < m, j \in T PROVE FALSE
      OBVIOUS
    <3>1. j \in Nat /\ m \in Nat
      OBVIOUS
    <3> HIDE DEF T
    <3> QED BY <2>2, <3>1 DEF OpToRel
  <2>4. m \in 1..n /\ t[m] # size[m]
    OBVIOUS
  <2> HIDE DEF T
  <2> QED BY <2>3, <2>4
<1> QED BY <1>1, <1>2

(* What the walk has taken and paid after each level *)
PriceOf(n, levels) == [k \in 1..n |-> levels[k].price]

LEMMA PricesAreCounted ==
  ASSUME NEW n \in Nat, NEW levels \in [1..n -> Level]
  PROVE  /\ PriceOf(n, levels) \in [1..n -> Int]
         /\ \A k \in 1..n : PriceOf(n, levels)[k] = levels[k].price
BY SizesAreCounted DEF PriceOf

SizeAfter(n, v) == [k \in 0..n |-> v[k].size]
CostAfter(n, v) == [k \in 0..n |-> v[k].notional]

LEMMA WalkAddsUp ==
  ASSUME NEW order \in Order, NEW n \in Nat, NEW levels \in [1..n -> Level],
         NEW v \in Walks(order, n, levels), Greedy(order, n, levels, v, n)
  PROVE  /\ Taken(n, v) \in [1..n -> Nat]
         /\ SizeAfter(n, v) \in PrefixSums(n, Taken(n, v))
         /\ CostAfter(n, v) \in PrefixCosts(n, Taken(n, v), PriceOf(n, levels))
         /\ SizeAfter(n, v)[n] = v[n].size /\ CostAfter(n, v)[n] = v[n].notional
<1> DEFINE t == Taken(n, v)
           b == SizeAfter(n, v)
           d == CostAfter(n, v)
           q == PriceOf(n, levels)
<1>1. q \in [1..n -> Int] /\ \A k \in 1..n : q[k] = levels[k].price
  BY PricesAreCounted
<1>2. v \in [0..n -> Walk] /\ v[0] = WalkStart(order)
  BY DEF Walks
<1>3. \A k \in 0..n : v[k].size \in Int /\ v[k].notional \in Int
  BY <1>2 DEF Walk
<1>4. \A k \in 1..n : t[k] = v[k].size - v[k - 1].size
  BY DEF Taken
<1>5. \A j \in 1..n :
        t[j] \in Nat /\ v[j].notional = v[j - 1].notional + t[j] * levels[j].price
  BY DEF Greedy
<1>6. t \in [1..n -> Nat]
  BY <1>5 DEF Taken
<1>7. b \in [0..n -> Int] /\ \A k \in 0..n : b[k] = v[k].size
  BY <1>3 DEF SizeAfter
<1>8. d \in [0..n -> Int] /\ \A k \in 0..n : d[k] = v[k].notional
  BY <1>3 DEF CostAfter
<1> HIDE DEF t, b, d, q
<1>9. 0 \in 0..n /\ n \in 0..n
  OBVIOUS
<1>10. b[0] = 0 /\ d[0] = 0
  BY <1>2, <1>7, <1>8, <1>9 DEF WalkStart
<1>11. ASSUME NEW k \in 1..n PROVE b[k] = b[k - 1] + t[k] /\ d[k] = d[k - 1] + t[k] * q[k]
  <2>1. k \in 0..n /\ k - 1 \in 0..n
    OBVIOUS
  <2>2. b[k] = v[k].size /\ b[k - 1] = v[k - 1].size /\ t[k] = v[k].size - v[k - 1].size
    BY <1>4, <1>7, <2>1
  <2>3. v[k].size \in Int /\ v[k - 1].size \in Int
    BY <1>3, <2>1
  <2>4. d[k] = v[k].notional /\ d[k - 1] = v[k - 1].notional /\ q[k] = levels[k].price
    BY <1>1, <1>8, <2>1
  <2>5. v[k].notional = v[k - 1].notional + t[k] * levels[k].price
    BY <1>5
  <2>6. b[k] = b[k - 1] + t[k]
    BY <2>2, <2>3
  <2>7. d[k] = d[k - 1] + t[k] * q[k]
    BY <2>4, <2>5
  <2> QED BY <2>6, <2>7
<1>12. b \in PrefixSums(n, t) /\ d \in PrefixCosts(n, t, q)
  BY <1>7, <1>8, <1>10, <1>11 DEF PrefixSums, PrefixCosts
<1>13. b[n] = v[n].size /\ d[n] = v[n].notional
  BY <1>7, <1>8, <1>9
<1> QED BY <1>6, <1>12, <1>13 DEF t, b, d, q

(* Shares that the levels display, and within the slippage limit *)
Displayed(order, n, levels, s) ==
  /\ s \in [1..n -> Nat]
  /\ \A k \in 1..n : s[k] <= levels[k].size /\ (s[k] > 0 => Admits(order, levels[k]))

(* A taking in the order of the walk: s[k] shares of the k-th level walked. *)
LEMMA NoTakingBeatsTheWalk ==
  ASSUME NEW order \in Order, NEW n \in Nat, NEW levels \in [1..n -> Level],
         Sorted(order, n, levels),
         NEW v \in Walks(order, n, levels),
         NEW s, Displayed(order, n, levels, s),
         NEW a \in PrefixSums(n, s),
         NEW c \in PrefixCosts(n, s, PriceOf(n, levels)),
         a[n] <= order.size
  PROVE  /\ a[n] <= v[n].size
         /\ a[n] = v[n].size => IF order.side = "BUY" THEN v[n].notional <= c[n]
                                ELSE v[n].notional >= c[n]
<1> DEFINE t == Taken(n, v)
           size == [k \in 1..n |-> levels[k].size]
           b == SizeAfter(n, v)
           d == CostAfter(n, v)
           q == PriceOf(n, levels)
<1>1. Greedy(order, n, levels, v, n)
  BY BestFirst, WalkIsGreedy
<1>2. s \in [1..n -> Nat]
  BY DEF Displayed
<1>3. \A k \in 1..n : s[k] <= levels[k].size /\ (s[k] > 0 => Admits(order, levels[k]))
  BY DEF Displayed
<1>4. q \in [1..n -> Int]
  BY PricesAreCounted
<1>5. \A k \in 1..n : q[k] = levels[k].price
  BY PricesAreCounted
<1>6. /\ \A k \in 1..n : q[k] = levels[k].price
      /\ size \in [1..n -> Nat] /\ \A k \in 1..n : size[k] = levels[k].size
  BY <1>5, SizesAreCounted
<1>7. /\ v[n].remaining \in Nat /\ v[n].size \in Nat /\ v[n].size + v[n].remaining = order.size
      /\ \A j \in 1..n :
           /\ t[j] \in Nat /\ t[j] <= levels[j].size
           /\ v[n].remaining > 0 /\ Admits(order, levels[j]) => t[j] = levels[j].size
      /\ \A i, j \in 1..n : i < j /\ t[i] # levels[i].size => t[j] = 0
  BY <1>1 DEF Greedy
<1> HIDE DEF size
<1>8. /\ t \in [1..n -> Nat] /\ b \in PrefixSums(n, t) /\ d \in PrefixCosts(n, t, q)
      /\ b[n] = v[n].size /\ d[n] = v[n].notional
  BY <1>1, WalkAddsUp
<1> HIDE DEF t, b, d, q
<1>9. c \in PrefixCosts(n, s, q)
  BY DEF q
<1>10. t \in [1..n -> Int] /\ s \in [1..n -> Int]
  BY <1>2, <1>8
<1>11. a[n] \in Int
  BY DEF PrefixSums
<1>12. a[n] <= v[n].size
  <2>1. CASE v[n].remaining > 0
    <3>1. \A k \in 1..n : s[k] <= t[k]
      <4> SUFFICES ASSUME NEW k \in 1..n PROVE s[k] <= t[k]
        OBVIOUS
      <4>1. CASE s[k] > 0
        BY <1>3, <1>7, <2>1, <4>1
      <4>2. CASE ~(s[k] > 0)
        BY <1>2, <1>7, <4>2
      <4> QED BY <4>1, <4>2
    <3> QED BY <1>10, <1>8, <3>1, MoreOfEachIsMore
  <2>2. CASE ~(v[n].remaining > 0)
    BY <1>7, <1>11, <2>2
  <2> QED BY <2>1, <2>2
<1>13. ASSUME a[n] = v[n].size
       PROVE  IF order.side = "BUY" THEN d[n] <= c[n] ELSE d[n] >= c[n]
  <2>1. CASE n = 0
    BY <1>8, <1>9, <2>1 DEF PrefixCosts
  <2>2. CASE n # 0
    <3>1. \A i, j \in 1..n : i < j /\ t[i] # size[i] => t[j] = 0
      BY <1>6, <1>7
    <3>2. PICK m \in 1..n : /\ \A j \in 1..n : j < m => t[j] = size[j]
                            /\ \A j \in 1..n : j > m => t[j] = 0
      BY <1>6, <1>8, <2>2, <3>1, MarginalLevel
    <3> DEFINE r == q[m]
    <3>3. r \in Int
      BY <1>4
    <3>4. ASSUME NEW k \in 1..n
          PROVE  /\ s[k] \in Int /\ t[k] \in Int /\ q[k] \in Int
                 /\ k < m => s[k] <= t[k]
                 /\ k > m => s[k] >= t[k]
                 /\ k = m => q[k] = r
                 /\ order.side = "BUY" => (k < m => q[k] <= r) /\ (k > m => q[k] >= r)
                 /\ order.side # "BUY" => (k < m => q[k] >= r) /\ (k > m => q[k] <= r)
      <4>1. s[k] \in Nat /\ t[k] \in Nat /\ q[k] \in Int /\ s[k] <= size[k]
        BY <1>4, <1>2, <1>3, <1>6, <1>8
      <4>2. (k < m => s[k] <= t[k]) /\ (k > m => s[k] >= t[k])
        BY <3>2, <4>1
      <4>3. /\ order.side = "BUY" => (k < m => q[k] <= r) /\ (k > m => q[k] >= r)
            /\ order.side # "BUY" => (k < m => q[k] >= r) /\ (k > m => q[k] <= r)
        BY <1>6 DEF Sorted
      <4> QED BY <4>1, <4>2, <4>3
    <3> HIDE DEF r
    <3>5. CASE order.side = "BUY"
      <4>1. \A k \in 1..n : (s[k] - t[k]) * (q[k] - r) >= 0
        <5> SUFFICES ASSUME NEW k \in 1..n PROVE (s[k] - t[k]) * (q[k] - r) >= 0
          OBVIOUS
        <5> DEFINE x == s[k] - t[k]
                   y == q[k] - r
        <5>1. x \in Int /\ y \in Int
          BY <3>3, <3>4
        <5>2. \/ s[k] >= t[k] /\ q[k] >= r
              \/ s[k] <= t[k] /\ q[k] <= r
          <6>1. k < m \/ k > m \/ k = m
            OBVIOUS
          <6>2. s[k] >= t[k] \/ s[k] <= t[k]
            BY <3>4
          <6> QED BY <3>3, <3>4, <3>5, <6>1, <6>2
        <5>3. \/ x >= 0 /\ y >= 0
              \/ x <= 0 /\ y <= 0
          BY <3>3, <3>4, <5>2
        <5> HIDE DEF x, y
        <5>4. x * y >= 0
          BY <5>1, <5>3, SignOfProduct
        <5> QED BY <5>4 DEF x, y
      <4>2. a[n] = b[n]
        BY <1>8, <1>13
      <4>3. d[n] <= c[n]
        BY <1>4, <1>10, <1>8, <1>9, <3>3, <4>1, <4>2, DearerShares
      <4> QED BY <3>5, <4>3
    <3>6. CASE order.side # "BUY"
      <4>1. \A k \in 1..n : (t[k] - s[k]) * (q[k] - r) >= 0
        <5> SUFFICES ASSUME NEW k \in 1..n PROVE (t[k] - s[k]) * (q[k] - r) >= 0
          OBVIOUS
        <5> DEFINE x == t[k] - s[k]
                   y == q[k] - r
        <5>1. x \in Int /\ y \in Int
          BY <3>3, <3>4
        <5>2. \/ t[k] >= s[k] /\ q[k] >= r
              \/ t[k] <= s[k] /\ q[k] <= r
          <6>1. k < m \/ k > m \/ k = m
            OBVIOUS
          <6>2. t[k] >= s[k] \/ t[k] <= s[k]
            BY <3>4
          <6> QED BY <3>3, <3>4, <3>6, <6>1, <6>2
        <5>3. \/ x >= 0 /\ y >= 0
              \/ x <= 0 /\ y <= 0
          BY <3>3, <3>4, <5>2
        <5> HIDE DEF x, y
        <5>4. x * y >= 0
          BY <5>1, <5>3, SignOfProduct
        <5> QED BY <5>4 DEF x, y
      <4>2. b[n] = a[n]
        BY <1>8, <1>13
      <4>3. c[n] <= d[n]
        BY <1>4, <1>10, <1>8, <1>9, <3>3, <4>1, <4>2, DearerShares
      <4>4. c[n] \in Int /\ d[n] \in Int
        BY <1>8, <1>9 DEF PrefixCosts
      <4> QED BY <3>6, <4>3, <4>4
    <3> QED BY <3>5, <3>6
  <2> QED BY <2>1, <2>2
<1> QED BY <1>8, <1>12, <1>13

(* What belongs to each level of the book, in the order the levels are walked *)
Along(n, ord, f) == [k \in 1..n |-> f[ord[k]]]

LEMMA TakingIsWalked ==
  ASSUME NEW book \in Seq(Level), NEW n \in Nat, n = Len(book),
         NEW ord \in Orderings(n),
         NEW shares \in [1..n -> Int],
         NEW a \in PrefixSums(n, Along(n, ord, shares)),
         NEW c \in PrefixCosts(n, Along(n, ord, shares), PriceOf(n, Along(n, ord, book)))
  PROVE  SumFunction(shares) = a[n] /\ Cost(shares, book) = c[n]
<1>1. ord \in [1..n -> 1..n]
  BY DEF Orderings
<1>2. /\ a \in [0..n -> Int] /\ a[0] = 0 /\ \A k \in 1..n : a[k] = a[k - 1] + shares[ord[k]]
      /\ c \in [0..n -> Int] /\ c[0] = 0
      /\ \A k \in 1..n : c[k] = c[k - 1] + shares[ord[k]] * book[ord[k]].price
  BY <1>1 DEF Along, PriceOf, PrefixSums, PrefixCosts
<1> DEFINE worth == [i \in 1..n |-> shares[i] * book[i].price]
<1>3. worth \in [1..n -> Int]
  <2>1. \A i \in 1..n : book[i] \in Level
    OBVIOUS
  <2>2. \A i \in 1..n : book[i].price \in Int
    BY <2>1, SizesAreCounted
  <2> QED BY <2>2
<1>4. \A k \in 1..n : worth[ord[k]] = shares[ord[k]] * book[ord[k]].price
  BY <1>1
<1>5. Cost(shares, book) = SumFunction(worth)
  BY DEF Cost
<1> HIDE DEF worth
<1>6. SumFunction(shares) = a[n]
  <2>1. a \in [0..n -> Int] /\ a[0] = 0
    BY <1>2
  <2>2. \A k \in 1..n : a[k] = a[k - 1] + shares[ord[k]]
    BY <1>2
  <2> QED BY <2>1, <2>2, SumAlong, Zenon
<1>7. ASSUME NEW k \in 1..n PROVE c[k] = c[k - 1] + worth[ord[k]]
  <2>1. /\ c[k] = c[k - 1] + shares[ord[k]] * book[ord[k]].price
        /\ worth[ord[k]] = shares[ord[k]] * book[ord[k]].price
    BY <1>2, <1>4
  <2> QED BY <2>1
<1>8. SumFunction(worth) = c[n]
  <2>1. c \in [0..n -> Int] /\ c[0] = 0
    BY <1>2
  <2>2. \A k \in 1..n : c[k] = c[k - 1] + worth[ord[k]]
    BY <1>7
  <2> QED BY <1>3, <2>1, <2>2, SumAlong, Zenon
<1> QED BY <1>5, <1>6, <1>8

LEMMA TheWalkIsATaking ==
  ASSUME NEW order \in Order, NEW book \in Seq(Level), NEW n \in Nat, n = Len(book),
         NEW ord \in Orderings(n),
         NEW levels \in [1..n -> Level], levels = Along(n, ord, book),
         NEW v \in Walks(order, n, levels), Greedy(order, n, levels, v, n)
  PROVE  \E shares \in Takings(order, book) :
           SumFunction(shares) = v[n].size /\ Cost(shares, book) = v[n].notional
<1> DEFINE t == Taken(n, v)
           place == [i \in 1..n |-> CHOOSE k \in 1..n : ord[k] = i]
           shares == [i \in 1..n |-> t[place[i]]]
<1>1. /\ ord \in [1..n -> 1..n]
      /\ \A i, j \in 1..n : ord[i] = ord[j] => i = j
      /\ \A i \in 1..n : \E k \in 1..n : ord[k] = i
  BY DEF Orderings
<1>2. \A i \in 1..n : place[i] \in 1..n /\ ord[place[i]] = i
  BY <1>1
<1>3. \A i \in 1..n : shares[i] = t[place[i]]
  OBVIOUS
<1>4. /\ v[n].remaining \in Nat /\ v[n].size \in Nat /\ v[n].size + v[n].remaining = order.size
      /\ \A j \in 1..n :
           /\ t[j] \in Nat /\ t[j] <= levels[j].size /\ t[j] <= order.size
           /\ t[j] > 0 => Admits(order, levels[j])
  BY DEF Greedy
<1>5. \A i \in 1..n : levels[place[i]] = book[i]
  BY <1>1, <1>2 DEF Along
<1>6. order.size \in Nat
  BY SizesAreCounted
<1> HIDE DEF place
<1>7. /\ t \in [1..n -> Nat] /\ t \in [1..n -> Int]
      /\ SizeAfter(n, v) \in PrefixSums(n, t)
      /\ CostAfter(n, v) \in PrefixCosts(n, t, PriceOf(n, levels))
      /\ SizeAfter(n, v)[n] = v[n].size /\ CostAfter(n, v)[n] = v[n].notional
  BY WalkAddsUp
<1>8. t = Along(n, ord, shares)
  <2>1. \A k \in 1..n : shares[ord[k]] = t[k]
    <3> SUFFICES ASSUME NEW k \in 1..n PROVE place[ord[k]] = k
      BY <1>1, <1>3
    <3> QED BY <1>1, <1>2
  <2> HIDE DEF shares, t
  <2> QED BY <1>7, <2>1 DEF Along
<1> HIDE DEF t
<1>9. \A i \in 1..n :
         /\ shares[i] \in 0..order.size /\ shares[i] \in Int
         /\ shares[i] <= book[i].size
         /\ shares[i] > 0 => WithinSlippage(order, book[i].price)
  <2> SUFFICES ASSUME NEW i \in 1..n
               PROVE  /\ shares[i] \in 0..order.size /\ shares[i] \in Int
                      /\ shares[i] <= book[i].size
                      /\ shares[i] > 0 => WithinSlippage(order, book[i].price)
    OBVIOUS
  <2> DEFINE j == place[i]
  <2>1. j \in 1..n /\ shares[i] = t[j] /\ levels[j] = book[i]
    BY <1>2, <1>3, <1>5
  <2> HIDE DEF shares, j
  <2>2. /\ t[j] \in Nat /\ t[j] <= levels[j].size /\ t[j] <= order.size
        /\ t[j] > 0 => WithinSlippage(order, levels[j].price)
    BY <1>4, <2>1 DEF Admits
  <2>3. t[j] \in 0..order.size /\ t[j] \in Int
    BY <1>6, <2>2
  <2> QED BY <2>1, <2>2, <2>3
<1>10. /\ shares \in [1..n -> 0..order.size] /\ shares \in [1..n -> Int]
       /\ DOMAIN shares = 1..n
  BY <1>9
<1> HIDE DEF shares
<1>11. SumFunction(shares) = v[n].size /\ Cost(shares, book) = v[n].notional
  <2> DEFINE a == SizeAfter(n, v)
             c == CostAfter(n, v)
  <2>1. a \in PrefixSums(n, Along(n, ord, shares))
    BY <1>7, <1>8
  <2>2. c \in PrefixCosts(n, Along(n, ord, shares), PriceOf(n, Along(n, ord, book)))
    BY <1>7, <1>8
  <2>3. a[n] = v[n].size /\ c[n] = v[n].notional
    BY <1>7
  <2>4. shares \in [1..n -> Int]
    BY <1>10
  <2> HIDE DEF a, c
  <2> QED BY <2>1, <2>2, <2>3, <2>4, TakingIsWalked
<1>12. SumFunction(shares) <= order.size
  BY <1>4, <1>6, <1>11
<1>13. shares \in Takings(order, book)
  BY <1>9, <1>10, <1>12 DEF Takings
<1> QED BY <1>11, <1>13

LEMMA BestFill ==
  ASSUME NEW order \in Order, NEW book \in BoundedSeq(Level, MaxLevels)
  PROVE  LET fill == SimulateFill(order, book)
         IN /\ \E shares \in Takings(order, book) :
                 SumFunction(shares) = fill.size /\ Cost(shares, book) = fill.notional
            /\ \A shares \in Takings(order, book) :
                 /\ SumFunction(shares) <= fill.size
                 /\ SumFunction(shares) = fill.size =>
                      IF order.side = "BUY" THEN fill.notional <= Cost(shares, book)
                      ELSE fill.notional >= Cost(shares, book)
<1> DEFINE n == Len(book)
           fill == SimulateFill(order, book)
<1>1. book \in Seq(Level)
  <2>1. PICK m \in 0..MaxLevels : book \in [1..m -> Level]
    BY DEF BoundedSeq, SeqOf
  <2>2. m \in Nat
    BY WalkAssumption
  <2> QED BY <2>1, <2>2
<1>2. n \in Nat /\ book \in [1..n -> Level]
  BY <1>1
<1>3. PICK ord \in Orderings(n) :
        /\ ExecutableLevels(order.side, book) = [k \in 1..n |-> book[ord[k]]]
        /\ \A j, k \in 1..n :
             j < k => IF order.side = "BUY" THEN book[ord[j]].price <= book[ord[k]].price
                      ELSE book[ord[j]].price >= book[ord[k]].price
  <2> DEFINE side == order.side
  <2>1. \E ord \in Orderings(n) :
          /\ ExecutableLevels(side, book) = [k \in 1..n |-> book[ord[k]]]
          /\ \A j, k \in 1..n :
               j < k => IF side = "BUY" THEN book[ord[j]].price <= book[ord[k]].price
                        ELSE book[ord[j]].price >= book[ord[k]].price
    <3> HIDE DEF side
    <3> QED BY <1>1, LevelsAreSorted
  <2> HIDE DEF n
  <2> QED BY <2>1
<1>4. ord \in [1..n -> 1..n]
  BY DEF Orderings
<1> DEFINE levels == Along(n, ord, book)
<1>5. levels \in [1..n -> Level] /\ \A k \in 1..n : levels[k] = book[ord[k]]
  BY <1>2, <1>4 DEF Along
<1>6. Sorted(order, n, levels)
  <2> HIDE DEF levels, n
  <2> QED BY <1>3, <1>5 DEF Sorted
<1>7. levels = Along(n, ord, book) /\ n = Len(book)
  OBVIOUS
<1>8. ExecutableLevels(order.side, book) = levels
  BY <1>3 DEF Along
<1> HIDE DEF levels, n
<1>9. PICK v \in Walks(order, n, levels) : fill = [size |-> v[n].size, notional |-> v[n].notional]
  BY <1>2, <1>5, <1>8, FillIsAWalk
<1>10. fill.size = v[n].size /\ fill.notional = v[n].notional
  BY <1>9
<1> HIDE DEF fill
<1>11. Greedy(order, n, levels, v, n)
  BY <1>2, <1>5, <1>6, BestFirst, WalkIsGreedy
<1>12. \E shares \in Takings(order, book) :
         SumFunction(shares) = v[n].size /\ Cost(shares, book) = v[n].notional
  BY <1>1, <1>2, <1>5, <1>7, <1>11, TheWalkIsATaking
<1>13. ASSUME NEW shares \in Takings(order, book)
       PROVE  /\ SumFunction(shares) <= v[n].size
              /\ SumFunction(shares) = v[n].size =>
                   IF order.side = "BUY" THEN v[n].notional <= Cost(shares, book)
                   ELSE v[n].notional >= Cost(shares, book)
  <2> DEFINE s == Along(n, ord, shares)
  <2>1. /\ shares \in [1..n -> 0..order.size]
        /\ \A i \in 1..n : shares[i] <= book[i].size
        /\ \A i \in 1..n : shares[i] > 0 => WithinSlippage(order, book[i].price)
        /\ SumFunction(shares) <= order.size
    BY <1>7 DEF Takings
  <2>2. shares \in [1..n -> Int] /\ \A i \in 1..n : shares[i] \in Nat
    <3>1. order.size \in Nat
      BY SizesAreCounted
    <3>2. 0..order.size \subseteq Nat
      BY <3>1
    <3> QED BY <2>1, <3>2
  <2>3. s \in [1..n -> Nat] /\ \A k \in 1..n : s[k] = shares[ord[k]]
    BY <1>4, <2>2 DEF Along
  <2>4. \A k \in 1..n : s[k] <= levels[k].size /\ (s[k] > 0 => Admits(order, levels[k]))
    <3> SUFFICES ASSUME NEW k \in 1..n
                 PROVE  s[k] <= levels[k].size /\ (s[k] > 0 => Admits(order, levels[k]))
      OBVIOUS
    <3>1. s[k] = shares[ord[k]] /\ levels[k] = book[ord[k]] /\ ord[k] \in 1..n
      BY <1>4, <1>5, <2>3
    <3> HIDE DEF s
    <3> QED BY <2>1, <3>1 DEF Admits
  <2>5. s \in [1..n -> Int]
    BY <2>3
  <2>6. PICK a : a \in PrefixSums(n, s)
    <3> HIDE DEF s
    <3> QED BY <1>2, <2>5, PrefixSumsExist
  <2>7. PICK c : c \in PrefixCosts(n, s, PriceOf(n, levels))
    <3> HIDE DEF s
    <3> QED BY <1>2, <1>5, PricesAreCounted, <2>5, PrefixCostsExist
  <2>8. SumFunction(shares) = a[n] /\ Cost(shares, book) = c[n]
    <3>1. c \in PrefixCosts(n, s, PriceOf(n, Along(n, ord, book)))
      BY <1>7, <2>7
    <3> QED BY <1>1, <1>2, <1>7, <2>2, <2>6, <3>1, TakingIsWalked
  <2> HIDE DEF s
  <2>9. a[n] <= order.size
    BY <2>1, <2>8
  <2>10. Displayed(order, n, levels, s)
    BY <2>3, <2>4 DEF Displayed
  <2>11. /\ a[n] <= v[n].size
         /\ a[n] = v[n].size => IF order.side = "BUY" THEN v[n].notional <= c[n]
                                ELSE v[n].notional >= c[n]
    BY <1>2, <1>5, <1>6, <2>6, <2>7, <2>9, <2>10, NoTakingBeatsTheWalk
  <2> QED BY <2>8, <2>11
<1>14. /\ \E shares \in Takings(order, book) :
            SumFunction(shares) = fill.size /\ Cost(shares, book) = fill.notional
       /\ \A shares \in Takings(order, book) :
            /\ SumFunction(shares) <= fill.size
            /\ SumFunction(shares) = fill.size =>
                 IF order.side = "BUY" THEN fill.notional <= Cost(shares, book)
                 ELSE fill.notional >= Cost(shares, book)
  BY <1>10, <1>12, <1>13
<1> QED BY <1>14 DEF fill

LEMMA FillsAreBest == EveryFillIsBest
BY BestFill DEF EveryFillIsBest

(* An order is filled with what the displayed depth covers and with the best  *)
(* of it: no other way of taking admissible shares gives more, and none of as *)
(* many is cheaper to buy or dearer to sell, for any book, order and slippage *)
(* limit (paper/book.py 14-73, paper/fill_math.py 13-56).                     *)
THEOREM OrdersGetTheBestFill == BrokerSpec => []FillIsBestExecution
<1>1. FillIsBestExecution
  BY FillsAreBest DEF FillIsBestExecution
<1>2. QED
  BY <1>1, PTL

-----------------------------------------------------------------------------
(* Rationals in lowest terms *)

Positive == Nat \ {0}
Ratios == {Ratio(n, d) : n \in Int, d \in Positive}

(* The denominators that n/d can be written with *)
DenominatorsOf(n, d) == {q \in Positive : \E p \in Int : p * d = n * q}

LEMMA CancelFactor ==
  ASSUME NEW a \in Int, NEW b \in Int, NEW k \in Int, k # 0, k * a = k * b
  PROVE  a = b
<1>1. k * (a - b) = 0
  OBVIOUS
<1>2. a - b = 0
  <2> DEFINE c == a - b
  <2>1. c \in Int /\ k * c = 0
    BY <1>1
  <2> HIDE DEF c
  <2>2. c = 0
    BY <2>1
  <2> QED BY <2>2 DEF c
<1> QED BY <1>2

LEMMA DivisionWithRest ==
  ASSUME NEW q \in Int, NEW m \in Positive
  PROVE  /\ q \div m \in Int /\ q % m \in Nat /\ q % m < m
         /\ q = m * (q \div m) + (q % m)
<1>1. m \in Int /\ m > 0 /\ m \in Nat
  BY DEF Positive
<1> DEFINE z == q \div m
           r == q % m
<1>2. z \in Int /\ r \in Int /\ r >= 0 /\ r < m
  BY <1>1
<1>3. q - m * z = r
  BY <1>1
<1> HIDE DEF z, r
<1>4. m * z \in Int
  BY <1>1, <1>2
<1>5. q = m * z + r
  BY <1>2, <1>3, <1>4
<1>6. r \in Nat
  BY <1>2
<1> QED BY <1>2, <1>5, <1>6 DEF z, r

LEMMA DividesExactly ==
  ASSUME NEW k \in Positive, NEW x \in Int
  PROVE  (k * x) % k = 0 /\ (k * x) \div k = x
<1>1. k \in Int /\ k > 0
  BY DEF Positive
<1> DEFINE y == k * x
           z == y \div k
           r == y % k
<1>2. y \in Int
  BY <1>1
<1>3. z \in Int /\ r \in Int /\ 0 <= r /\ r < k /\ y = k * z + r
  <2> HIDE DEF y
  <2>1. z \in Int /\ r \in Nat /\ r < k /\ y = k * z + r
    BY <1>2, DivisionWithRest
  <2> QED BY <2>1
<1> HIDE DEF z, r
<1>4. k * (x - z) = r
  BY <1>1, <1>3
<1>5. x - z = 0
  <2> DEFINE c == x - z
  <2>1. c \in Int /\ k * c = r
    BY <1>3, <1>4
  <2> HIDE DEF c
  <2>2. ~(c >= 1)
    <3> SUFFICES ASSUME c >= 1 PROVE FALSE
      OBVIOUS
    <3>1. k * c >= k
      BY <1>1, <2>1
    <3> QED BY <1>1, <1>3, <2>1, <3>1
  <2>3. ~(c <= -1)
    <3> SUFFICES ASSUME c <= -1 PROVE FALSE
      OBVIOUS
    <3>1. k * c <= -k
      BY <1>1, <2>1
    <3> QED BY <1>1, <1>3, <2>1, <3>1
  <2>4. c = 0
    BY <2>1, <2>2, <2>3
  <2> QED BY <2>4 DEF c
<1>6. r = 0 /\ z = x
  BY <1>1, <1>3, <1>4, <1>5
<1> QED BY <1>6 DEF y, z, r

(* Every denominator is a multiple of the least one. *)
LEMMA LeastDenominator ==
  ASSUME NEW n \in Int, NEW d \in Positive
  PROVE  \E m \in DenominatorsOf(n, d) :
           \A q \in DenominatorsOf(n, d) : m <= q /\ \E k \in Positive : q = k * m
<1> DEFINE D == DenominatorsOf(n, d)
<1>1. d \in D /\ D \subseteq Nat
  <2>1. n * d = n * d /\ d \in Positive
    OBVIOUS
  <2> QED BY <2>1 DEF DenominatorsOf, Positive
<1>2. PICK m \in D : \A k \in D : <<k, m>> \notin OpToRel(<, Nat)
  <2> HIDE DEF D
  <2> QED BY <1>1, WFMin, NatLessThanWellFounded
<1>3. \A k \in D : ~(k < m)
  <2> HIDE DEF D
  <2> QED BY <1>1, <1>2 DEF OpToRel
<1>4. m \in Positive /\ m \in Int /\ m > 0
  BY DEF DenominatorsOf, Positive
<1>5. PICK p0 \in Int : p0 * d = n * m
  BY DEF DenominatorsOf
<1>6. d \in Int /\ d > 0
  BY DEF Positive
<1>7. ASSUME NEW q \in D
      PROVE  m <= q /\ \E k \in Positive : q = k * m
  <2>1. q \in Positive /\ q \in Int /\ q > 0
    BY DEF DenominatorsOf, Positive
  <2>2. PICK p \in Int : p * d = n * q
    BY DEF DenominatorsOf
  <2>3. m <= q
    BY <1>3, <1>4, <2>1
  <2> DEFINE k == q \div m
             r == q % m
  <2>4. k \in Int /\ r \in Nat /\ r < m /\ q = m * k + r
    BY <1>4, <2>1, DivisionWithRest
  <2> HIDE DEF k, r
  <2>5. (p - k * p0) * d = n * r
    <3>1. (p - k * p0) * d = p * d - k * (p0 * d)
      BY <1>6, <2>4
    <3>2. n * q - k * (n * m) = n * (q - m * k)
      BY <1>4, <2>1, <2>4
    <3>3. q - m * k = r
      BY <1>4, <2>4
    <3> QED BY <1>5, <2>2, <3>1, <3>2, <3>3
  <2>6. r = 0
    <3> SUFFICES ASSUME r # 0 PROVE FALSE
      OBVIOUS
    <3>1. r \in Positive /\ p - k * p0 \in Int
      BY <2>4 DEF Positive
    <3>2. r \in D
      BY <2>5, <3>1 DEF DenominatorsOf
    <3> QED BY <1>3, <2>4, <3>2
  <2>7. q = k * m
    BY <1>4, <2>4, <2>6
  <2>8. k > 0
    <3> SUFFICES ASSUME k <= 0 PROVE FALSE
      BY <2>4
    <3>1. k * m <= 0
      BY <1>4, <2>4
    <3> QED BY <2>1, <2>7, <3>1
  <2>9. k \in Positive
    BY <2>4, <2>8 DEF Positive
  <2> QED BY <2>3, <2>7, <2>9
<1> QED BY <1>2, <1>7

LEMMA RatioInLowestTerms ==
  ASSUME NEW n \in Int, NEW d \in Positive, NEW m \in DenominatorsOf(n, d),
         \A q \in DenominatorsOf(n, d) : \E k \in Positive : q = k * m,
         NEW p \in Int, p * d = n * m
  PROVE  Ratio(n, d) = [num |-> p, den |-> m]
<1> DEFINE S == {k \in 1..d : d % k = 0 /\ n % k = 0}
<1>1. m \in Positive /\ m \in Int /\ m > 0 /\ d \in Int /\ d > 0
  BY DEF DenominatorsOf, Positive
<1>2. d \in DenominatorsOf(n, d)
  <2>1. n * d = n * d
    OBVIOUS
  <2> QED BY <2>1 DEF DenominatorsOf
<1>3. PICK K \in Positive : d = K * m
  BY <1>2
<1>4. K \in Int /\ K > 0
  BY DEF Positive
<1>5. n = K * p
  <2>1. m * n = m * (K * p)
    <3>1. m * (K * p) = p * (K * m)
      BY <1>1, <1>4
    <3>2. m * n = n * m
      BY <1>1
    <3> QED BY <1>3, <3>1, <3>2
  <2>2. K * p \in Int
    BY <1>4
  <2> QED BY <1>1, <2>1, <2>2, CancelFactor
<1>6. d % K = 0 /\ d \div K = m /\ n % K = 0 /\ n \div K = p
  BY <1>1, <1>3, <1>5, DividesExactly
<1>7. K \in S
  <2>1. K <= d
    <3>1. K * m >= K
      BY <1>1, <1>4
    <3> QED BY <1>3, <3>1
  <2> QED BY <1>1, <1>4, <1>6, <2>1
<1>8. ASSUME NEW c \in S PROVE K >= c
  <2>1. c \in Positive /\ c \in Int /\ c > 0 /\ d % c = 0 /\ n % c = 0
    BY <1>1 DEF Positive
  <2> DEFINE d1 == d \div c
             n1 == n \div c
  <2>2. d1 \in Int /\ n1 \in Int /\ d = c * d1 /\ n = c * n1
    <3>1. d1 \in Int /\ d = c * d1 + (d % c)
      BY <1>1, <2>1, DivisionWithRest
    <3>2. n1 \in Int /\ n = c * n1 + (n % c)
      BY <2>1, DivisionWithRest
    <3> HIDE DEF d1, n1
    <3> QED BY <2>1, <3>1, <3>2
  <2> HIDE DEF d1, n1
  <2>3. d1 > 0
    <3> SUFFICES ASSUME d1 <= 0 PROVE FALSE
      BY <2>2
    <3>1. c * d1 <= 0
      BY <2>1, <2>2
    <3> QED BY <1>1, <2>2, <3>1
  <2>4. n1 * d = n * d1
    <3>1. n1 * (c * d1) = (c * n1) * d1
      BY <2>1, <2>2
    <3> QED BY <2>2, <3>1
  <2>5. d1 \in DenominatorsOf(n, d)
    BY <2>2, <2>3, <2>4 DEF DenominatorsOf, Positive
  <2>6. PICK k \in Positive : d1 = k * m
    BY <2>5
  <2>7. k \in Int /\ k > 0
    BY DEF Positive
  <2>8. K = c * k
    <3>1. m * K = m * (c * k)
      <4>1. c * (k * m) = m * (c * k)
        BY <1>1, <2>1, <2>7
      <4>2. m * K = K * m
        BY <1>1, <1>4
      <4> QED BY <1>3, <2>2, <2>6, <4>1, <4>2
    <3>2. c * k \in Int
      BY <2>1, <2>7
    <3> QED BY <1>1, <1>4, <3>1, <3>2, CancelFactor
  <2>9. c * k >= c
    BY <2>1, <2>7
  <2> QED BY <2>8, <2>9
<1>9. Max(S) = K
  <2>1. \A x \in S : x \in Int
    BY <1>1
  <2>2. \A x \in S : (\A y \in S : x >= y) => x = K
    <3> SUFFICES ASSUME NEW x \in S, \A y \in S : x >= y PROVE x = K
      OBVIOUS
    <3>1. x >= K /\ K >= x /\ x \in Int
      BY <1>7, <1>8, <2>1
    <3> HIDE DEF S
    <3> QED BY <1>4, <3>1
  <2> HIDE DEF S
  <2> QED BY <1>7, <1>8, <2>2 DEF Max
<1> HIDE DEF S
<1>10. Ratio(n, d) = [num |-> n \div K, den |-> d \div K]
  BY <1>9 DEF Ratio, S
<1> QED BY <1>6, <1>10

LEMMA RatioReduces ==
  ASSUME NEW n \in Int, NEW d \in Positive
  PROVE  \E p \in Int, m \in Positive :
           /\ Ratio(n, d) = [num |-> p, den |-> m] /\ p * d = n * m
           /\ m \in DenominatorsOf(n, d) /\ \A q \in DenominatorsOf(n, d) : m <= q
<1>1. PICK m \in DenominatorsOf(n, d) :
        \A q \in DenominatorsOf(n, d) : m <= q /\ \E k \in Positive : q = k * m
  BY LeastDenominator
<1>2. PICK p \in Int : p * d = n * m
  BY DEF DenominatorsOf
<1>3. Ratio(n, d) = [num |-> p, den |-> m]
  BY <1>1, <1>2, RatioInLowestTerms
<1>4. m \in Positive
  BY DEF DenominatorsOf
<1> QED BY <1>1, <1>2, <1>3, <1>4

(* Equal quotients are one rational. *)
LEMMA SameRatio ==
  ASSUME NEW n \in Int, NEW d \in Positive, NEW i \in Int, NEW j \in Positive,
         n * j = i * d
  PROVE  Ratio(n, d) = Ratio(i, j)
<1>1. d \in Int /\ d > 0 /\ d # 0 /\ j \in Int /\ j > 0 /\ j # 0
  BY DEF Positive
<1>2. ASSUME NEW p \in Int, NEW q \in Int
      PROVE  p * d = n * q <=> p * j = i * q
  <2>1. p * j \in Int /\ i * q \in Int /\ p * d \in Int /\ n * q \in Int
    BY <1>1
  <2>2. d * (p * j) = j * (p * d) /\ d * (i * q) = j * (n * q)
    <3>1. d * (p * j) = j * (p * d)
      BY <1>1
    <3>2. d * (i * q) = (i * d) * q
      BY <1>1
    <3>3. j * (n * q) = (n * j) * q
      BY <1>1
    <3> QED BY <3>1, <3>2, <3>3
  <2>3. ASSUME p * d = n * q PROVE p * j = i * q
    <3>1. d * (p * j) = d * (i * q)
      BY <2>2, <2>3
    <3> QED BY <1>1, <2>1, <3>1, CancelFactor
  <2>4. ASSUME p * j = i * q PROVE p * d = n * q
    <3>1. j * (p * d) = j * (n * q)
      BY <2>2, <2>4
    <3> QED BY <1>1, <2>1, <3>1, CancelFactor
  <2> QED BY <2>3, <2>4
<1>3. DenominatorsOf(n, d) = DenominatorsOf(i, j)
  <2>1. Positive \subseteq Int
    BY DEF Positive
  <2> QED BY <1>2, <2>1 DEF DenominatorsOf
<1>4. PICK p \in Int, m \in Positive :
        /\ Ratio(n, d) = [num |-> p, den |-> m] /\ p * d = n * m
        /\ m \in DenominatorsOf(n, d) /\ \A q \in DenominatorsOf(n, d) : m <= q
  BY RatioReduces
<1>5. PICK u \in Int, w \in Positive :
        /\ Ratio(i, j) = [num |-> u, den |-> w] /\ u * j = i * w
        /\ w \in DenominatorsOf(i, j) /\ \A q \in DenominatorsOf(i, j) : w <= q
  BY RatioReduces
<1>6. m = w
  <2>1. m <= w /\ w <= m
    BY <1>3, <1>4, <1>5
  <2>2. m \in Int /\ w \in Int
    BY DEF Positive
  <2> QED BY <2>1, <2>2
<1>7. m \in Int
  BY DEF Positive
<1>8. p * j = i * m
  BY <1>2, <1>4, <1>7
<1>9. p = u
  <2>1. j * p = p * j /\ j * u = u * j
    BY <1>1
  <2>2. j * p = j * u
    BY <1>5, <1>6, <1>8, <2>1
  <2> QED BY <1>1, <2>2, CancelFactor
<1> QED BY <1>4, <1>5, <1>6, <1>9

-----------------------------------------------------------------------------
(* What a rational comes to in units of 1/D *)

Worth(a, D, x) == a.num * D = x * a.den

LEMMA PositiveProduct ==
  ASSUME NEW a \in Positive, NEW b \in Positive
  PROVE  a * b \in Positive
<1>1. a \in Int /\ a > 0 /\ b \in Int /\ b > 0
  BY DEF Positive
<1>2. a * b \in Int /\ a * b > 0
  BY <1>1
<1> QED BY <1>2 DEF Positive

LEMMA RatiosHaveParts ==
  \A a \in Ratios : a.num \in Int /\ a.den \in Positive
<1> SUFFICES ASSUME NEW n \in Int, NEW d \in Positive
             PROVE  Ratio(n, d).num \in Int /\ Ratio(n, d).den \in Positive
  BY DEF Ratios
<1> QED BY RatioReduces

LEMMA IsRatio ==
  ASSUME NEW n \in Int, NEW d \in Positive
  PROVE  Ratio(n, d) \in Ratios
BY DEF Ratios

LEMMA WorthOfRatio ==
  ASSUME NEW n \in Int, NEW d \in Positive, NEW D \in Positive, NEW x \in Int
  PROVE  Worth(Ratio(n, d), D, x) <=> n * D = x * d
<1>1. PICK p \in Int, m \in Positive :
        Ratio(n, d) = [num |-> p, den |-> m] /\ p * d = n * m
  BY RatioReduces
<1>2. /\ d \in Int /\ d # 0 /\ m \in Int /\ m # 0 /\ D \in Int
  BY DEF Positive
<1>3. Worth(Ratio(n, d), D, x) <=> p * D = x * m
  BY <1>1 DEF Worth
<1>4. d * (p * D) = m * (n * D) /\ d * (x * m) = m * (x * d)
  <2>1. d * (p * D) = (p * d) * D
    BY <1>2
  <2>2. m * (n * D) = (n * m) * D
    BY <1>2
  <2>3. d * (x * m) = m * (x * d)
    BY <1>2
  <2> QED BY <1>1, <2>1, <2>2, <2>3
<1>5. p * D \in Int /\ x * m \in Int /\ n * D \in Int /\ x * d \in Int
  BY <1>2
<1>6. ASSUME p * D = x * m PROVE n * D = x * d
  <2>1. m * (n * D) = m * (x * d)
    BY <1>4, <1>6
  <2> QED BY <1>2, <1>5, <2>1, CancelFactor
<1>7. ASSUME n * D = x * d PROVE p * D = x * m
  <2>1. d * (p * D) = d * (x * m)
    BY <1>4, <1>7
  <2> QED BY <1>2, <1>5, <2>1, CancelFactor
<1> QED BY <1>3, <1>6, <1>7

(* A rational is known by what it comes to. *)
LEMMA SameWorth ==
  ASSUME NEW a \in Ratios, NEW b \in Ratios, NEW D \in Positive, NEW x \in Int,
         Worth(a, D, x), Worth(b, D, x)
  PROVE  a = b
<1>1. PICK n \in Int, d \in Positive : a = Ratio(n, d)
  BY DEF Ratios
<1>2. PICK i \in Int, j \in Positive : b = Ratio(i, j)
  BY DEF Ratios
<1>3. n * D = x * d /\ i * D = x * j
  BY <1>1, <1>2, WorthOfRatio
<1>4. D \in Int /\ D # 0 /\ d \in Int /\ j \in Int
  BY DEF Positive
<1>5. D * (n * j) = D * (i * d)
  <2>1. D * (n * j) = (n * D) * j
    BY <1>4
  <2>2. D * (i * d) = (i * D) * d
    BY <1>4
  <2>3. (x * d) * j = (x * j) * d
    BY <1>4
  <2> QED BY <1>3, <2>1, <2>2, <2>3
<1>6. n * j \in Int /\ i * d \in Int
  BY <1>4
<1>7. n * j = i * d
  BY <1>4, <1>5, <1>6, CancelFactor
<1> QED BY <1>1, <1>2, <1>7, SameRatio

LEMMA OneWorth ==
  ASSUME NEW a \in Ratios, NEW D \in Positive, NEW x \in Int, NEW y \in Int,
         Worth(a, D, x), Worth(a, D, y)
  PROVE  x = y
<1>1. a.den \in Int /\ a.den # 0
  BY RatiosHaveParts DEF Positive
<1>2. a.den * x = a.den * y
  BY <1>1 DEF Worth
<1> QED BY <1>1, <1>2, CancelFactor

LEMMA WorthExists ==
  ASSUME NEW a \in Ratios, NEW k \in Positive
  PROVE  \E x \in Int : Worth(a, k * a.den, x)
<1>1. a.num \in Int /\ a.den \in Int /\ k \in Int
  BY RatiosHaveParts DEF Positive
<1>2. a.num * (k * a.den) = (a.num * k) * a.den /\ a.num * k \in Int
  BY <1>1
<1> QED BY <1>2 DEF Worth

LEMMA WorthScales ==
  ASSUME NEW a \in Ratios, NEW D \in Positive, NEW x \in Int, NEW k \in Positive,
         Worth(a, D, x)
  PROVE  Worth(a, k * D, k * x)
<1>1. a.num \in Int /\ a.den \in Int /\ k \in Int /\ D \in Int
  BY RatiosHaveParts DEF Positive
<1>2. a.num * (k * D) = k * (a.num * D) /\ (k * x) * a.den = k * (x * a.den)
  BY <1>1
<1> QED BY <1>2 DEF Worth

LEMMA WorthOfPlus ==
  ASSUME NEW a \in Ratios, NEW b \in Ratios, NEW D \in Positive,
         NEW x \in Int, NEW y \in Int, Worth(a, D, x), Worth(b, D, y)
  PROVE  Plus(a, b) \in Ratios /\ Worth(Plus(a, b), D, x + y)
<1> DEFINE an == a.num
           ad == a.den
           bn == b.num
           bd == b.den
<1>1. an \in Int /\ ad \in Positive /\ bn \in Int /\ bd \in Positive
  BY RatiosHaveParts
<1>2. an * D = x * ad /\ bn * D = y * bd
  BY DEF Worth
<1>3. Plus(a, b) = Ratio(an * bd + bn * ad, ad * bd)
  BY DEF Plus
<1> HIDE DEF an, ad, bn, bd
<1>4. ad \in Int /\ bd \in Int /\ D \in Int
  BY <1>1 DEF Positive
<1>5. ad * bd \in Positive
  BY <1>1, PositiveProduct
<1>6. an * bd + bn * ad \in Int /\ x + y \in Int
  BY <1>1, <1>4
<1>7. (an * bd + bn * ad) * D = (x + y) * (ad * bd)
  <2>1. (an * bd + bn * ad) * D = (an * D) * bd + (bn * D) * ad
    BY <1>1, <1>4
  <2>2. (x * ad) * bd + (y * bd) * ad = (x + y) * (ad * bd)
    BY <1>4
  <2> QED BY <1>2, <2>1, <2>2
<1>8. Worth(Ratio(an * bd + bn * ad, ad * bd), D, x + y)
  BY <1>5, <1>6, <1>7, WorthOfRatio
<1> QED BY <1>3, <1>5, <1>6, <1>8, IsRatio

LEMMA WorthOfMinus ==
  ASSUME NEW a \in Ratios, NEW b \in Ratios, NEW D \in Positive,
         NEW x \in Int, NEW y \in Int, Worth(a, D, x), Worth(b, D, y)
  PROVE  Minus(a, b) \in Ratios /\ Worth(Minus(a, b), D, x - y)
<1> DEFINE an == a.num
           ad == a.den
           bn == b.num
           bd == b.den
<1>1. an \in Int /\ ad \in Positive /\ bn \in Int /\ bd \in Positive
  BY RatiosHaveParts
<1>2. an * D = x * ad /\ bn * D = y * bd
  BY DEF Worth
<1>3. Minus(a, b) = Ratio(an * bd - bn * ad, ad * bd)
  BY DEF Minus
<1> HIDE DEF an, ad, bn, bd
<1>4. ad \in Int /\ bd \in Int /\ D \in Int
  BY <1>1 DEF Positive
<1>5. ad * bd \in Positive
  BY <1>1, PositiveProduct
<1>6. an * bd - bn * ad \in Int /\ x - y \in Int
  BY <1>1, <1>4
<1>7. (an * bd - bn * ad) * D = (x - y) * (ad * bd)
  <2>1. (an * bd - bn * ad) * D = (an * D) * bd - (bn * D) * ad
    BY <1>1, <1>4
  <2>2. (x * ad) * bd - (y * bd) * ad = (x - y) * (ad * bd)
    BY <1>4
  <2> QED BY <1>2, <2>1, <2>2
<1>8. Worth(Ratio(an * bd - bn * ad, ad * bd), D, x - y)
  BY <1>5, <1>6, <1>7, WorthOfRatio
<1> QED BY <1>3, <1>5, <1>6, <1>8, IsRatio

LEMMA WorthOfTimes ==
  ASSUME NEW a \in Ratios, NEW D \in Positive, NEW n \in Int, NEW x \in Int, Worth(a, D, x)
  PROVE  Times(n, a) \in Ratios /\ Worth(Times(n, a), D, n * x)
<1>1. a.num \in Int /\ a.den \in Positive /\ a.den \in Int /\ D \in Int
  BY RatiosHaveParts DEF Positive
<1>2. n * a.num \in Int /\ n * x \in Int
  BY <1>1
<1>3. (n * a.num) * D = (n * x) * a.den
  <2>1. (n * a.num) * D = n * (a.num * D) /\ (n * x) * a.den = n * (x * a.den)
    BY <1>1
  <2> QED BY <2>1 DEF Worth
<1> QED BY <1>1, <1>2, <1>3, WorthOfRatio, IsRatio DEF Times

-----------------------------------------------------------------------------
(* One fill of a position *)

LEMMA SignsOfProduct ==
  ASSUME NEW a \in Int, NEW b \in Int
  PROVE  /\ a * b > 0 <=> (a > 0 /\ b > 0) \/ (a < 0 /\ b < 0)
         /\ a * b < 0 <=> (a > 0 /\ b < 0) \/ (a < 0 /\ b > 0)
OBVIOUS

LEMMA MinOfTwo ==
  ASSUME NEW a \in Int, NEW b \in Int
  PROVE  Min({a, b}) = IF a <= b THEN a ELSE b
<1> DEFINE c == IF a <= b THEN a ELSE b
<1>1. c \in {a, b} /\ \A y \in {a, b} : c <= y
  OBVIOUS
<1>2. \A x \in {a, b} : (\A y \in {a, b} : x <= y) => x = c
  OBVIOUS
<1> HIDE DEF c
<1>3. Min({a, b}) = c
  BY <1>1, <1>2 DEF Min
<1> QED BY <1>3 DEF c

LEMMA MagnitudeOf ==
  ASSUME NEW n \in Int
  PROVE  /\ Magnitude(n) \in Nat
         /\ n >= 0 => Magnitude(n) = n
         /\ n < 0 => Magnitude(n) = -n
BY DEF Magnitude

(* The basis after a fill, by what the fill does to the position *)
LEMMA BasisByCase ==
  ASSUME NEW held, held.shares \in Int, NEW f \in Int, f # 0, NEW price
  PROVE  LET next == held.shares + f
             basis == NextBasis(held, f, price)
         IN /\ next = 0 => basis = Ratio(0, 1)
            /\ held.shares = 0 => basis = price
            /\ held.shares * next < 0 => basis = price
            /\ held.shares * f > 0 =>
                 basis = Ratio(Magnitude(held.shares) * held.basis.num * price.den
                                 + Magnitude(f) * price.num * held.basis.den,
                               held.basis.den * price.den * Magnitude(next))
            /\ next # 0 /\ held.shares * f < 0 /\ ~(held.shares * next < 0) =>
                 basis = held.basis
<1> DEFINE s == held.shares
           next == s + f
<1>1. s \in Int /\ next \in Int
  OBVIOUS
<1>2. next = s + f
  OBVIOUS
<1>3. NextBasis(held, f, price) =
        CASE next = 0 -> Ratio(0, 1)
          [] s = 0 \/ s * next < 0 -> price
          [] s * f > 0 ->
               Ratio(Magnitude(s) * held.basis.num * price.den
                       + Magnitude(f) * price.num * held.basis.den,
                     held.basis.den * price.den * Magnitude(next))
          [] OTHER -> held.basis
  BY DEF NextBasis, Flat
<1> HIDE DEF s, next
<1>4. /\ s = 0 => next # 0 /\ ~(s * f > 0) /\ ~(s * f < 0) /\ ~(s * next < 0)
      /\ s * next < 0 => next # 0 /\ s # 0 /\ ~(s * f > 0)
      /\ s * f > 0 => next # 0 /\ s # 0 /\ ~(s * next < 0)
      /\ next = 0 => s # 0 /\ ~(s * next < 0) /\ ~(s * f > 0)
  BY <1>1, <1>2, SignsOfProduct
<1>5. s * f < 0 => s # 0 /\ ~(s * f > 0)
  BY <1>1, SignsOfProduct
<1>6. /\ next = 0 => NextBasis(held, f, price) = Ratio(0, 1)
      /\ s = 0 => NextBasis(held, f, price) = price
      /\ s * next < 0 => NextBasis(held, f, price) = price
      /\ s * f > 0 =>
           NextBasis(held, f, price) =
             Ratio(Magnitude(s) * held.basis.num * price.den
                     + Magnitude(f) * price.num * held.basis.den,
                   held.basis.den * price.den * Magnitude(next))
      /\ next # 0 /\ s * f < 0 /\ ~(s * next < 0) => NextBasis(held, f, price) = held.basis
  BY <1>3, <1>4, <1>5
<1> QED BY <1>6 DEF s, next

\* The average of what was held and what is bought, at their costs x and p
Average(s, basis, f, price) ==
  Ratio(Magnitude(s) * basis.num * price.den + Magnitude(f) * price.num * basis.den,
        basis.den * price.den * Magnitude(s + f))

LEMMA AverageBalances ==
  ASSUME NEW basis \in Ratios, NEW price \in Ratios, NEW s \in Int, NEW f \in Int, s * f > 0,
         NEW D \in Positive, NEW x \in Int, NEW p \in Int, NEW y \in Int,
         Worth(basis, D, x), Worth(price, D, p)
  PROVE  /\ Average(s, basis, f, price) \in Ratios
         /\ Worth(Average(s, basis, f, price), D, y) => (s + f) * y = s * x + f * p
<1> DEFINE bn == basis.num
           bd == basis.den
           pn == price.num
           pd == price.den
           a == Magnitude(s)
           c == Magnitude(f)
           e == Magnitude(s + f)
           n == a * bn * pd + c * pn * bd
           d == bd * pd * e
<1>1. bn \in Int /\ bd \in Positive /\ pn \in Int /\ pd \in Positive
  BY RatiosHaveParts
<1>2. bn * D = x * bd /\ pn * D = p * pd
  BY DEF Worth
<1>3. bd \in Int /\ pd \in Int /\ D \in Int
  BY <1>1 DEF Positive
<1>4. (s > 0 /\ f > 0) \/ (s < 0 /\ f < 0)
  BY SignsOfProduct
<1>5. /\ a \in Positive /\ c \in Positive /\ e \in Positive
      /\ s > 0 => a = s /\ c = f /\ e = s + f
      /\ s < 0 => a = -s /\ c = -f /\ e = -(s + f)
  BY <1>4 DEF Magnitude, Positive
<1> HIDE DEF bn, bd, pn, pd, a, c, e
<1>6. a \in Int /\ c \in Int /\ e \in Int
  BY <1>5 DEF Positive
<1>7. bd * pd \in Positive /\ bd * pd \in Int /\ bd * pd # 0
  BY <1>1, PositiveProduct DEF Positive
<1>8. d \in Positive
  BY <1>5, <1>7, PositiveProduct
<1>9. n \in Int
  BY <1>1, <1>3, <1>6
<1>10. n * D = (bd * pd) * (a * x + c * p)
  <2>1. n * D = (a * pd) * (bn * D) + (c * bd) * (pn * D)
    BY <1>1, <1>3, <1>6
  <2>2. (a * pd) * (x * bd) + (c * bd) * (p * pd) = (bd * pd) * (a * x + c * p)
    BY <1>3, <1>6
  <2> QED BY <1>2, <2>1, <2>2
<1>11. y * d = (bd * pd) * (e * y)
  BY <1>3, <1>6
<1> HIDE DEF n, d
<1>12. ASSUME Worth(Ratio(n, d), D, y)
       PROVE  (s + f) * y = s * x + f * p
  <2>1. n * D = y * d
    BY <1>8, <1>9, <1>12, WorthOfRatio
  <2>2. a * x + c * p \in Int /\ e * y \in Int
    BY <1>6
  <2>3. a * x + c * p = e * y
    BY <1>7, <1>10, <1>11, <2>1, <2>2, CancelFactor
  <2>4. CASE s > 0
    BY <1>5, <2>3, <2>4
  <2>5. CASE s < 0
    <3>1. (-s) * x + (-f) * p = (-(s + f)) * y
      BY <1>5, <2>3, <2>5
    <3>2. /\ (-s) * x + (-f) * p = -(s * x + f * p)
          /\ (-(s + f)) * y = -((s + f) * y)
      OBVIOUS
    <3>3. s * x + f * p \in Int /\ (s + f) * y \in Int
      OBVIOUS
    <3> QED BY <3>1, <3>2, <3>3
  <2> QED BY <1>4, <2>4, <2>5
<1>13. Ratio(n, d) \in Ratios
  BY <1>8, <1>9, IsRatio
<1> QED BY <1>12, <1>13 DEF Average, n, d, bn, bd, pn, pd, a, c, e

LEMMA SignedSize ==
  ASSUME NEW side \in Sides, NEW size \in Positive
  PROVE  /\ Signed(side, size) \in Int /\ Signed(side, size) # 0
         /\ Magnitude(Signed(side, size)) = size
         /\ Signed(side, size) = size \/ Signed(side, size) = -size
<1>1. size \in Int /\ size > 0
  BY DEF Positive
<1> QED BY <1>1 DEF Signed, Magnitude

LEMMA BasisIsRatio ==
  ASSUME NEW held, held.shares \in Int, held.basis \in Ratios,
         NEW f \in Int, f # 0, NEW price \in Ratios
  PROVE  NextBasis(held, f, price) \in Ratios
<1> DEFINE s == held.shares
           next == s + f
           basis == held.basis
<1>1. Ratio(0, 1) \in Ratios
  <2>1. 1 \in Positive /\ 0 \in Int
    BY DEF Positive
  <2> QED BY <2>1, IsRatio
<1>2. s \in Int /\ next \in Int /\ basis \in Ratios
  OBVIOUS
<1>3. \/ next = 0 \/ s = 0 \/ s * next < 0 \/ s * f > 0
      \/ next # 0 /\ s * f < 0 /\ ~(s * next < 0)
  <2> HIDE DEF next
  <2>1. s # 0 => s * f > 0 \/ s * f < 0
    <3> HIDE DEF s
    <3> QED BY <1>2, SignsOfProduct
  <2> QED BY <2>1
<1>4. s * f > 0 => NextBasis(held, f, price) \in Ratios
  <2> SUFFICES ASSUME s * f > 0 PROVE NextBasis(held, f, price) \in Ratios
    OBVIOUS
  <2> DEFINE average == Average(s, basis, f, price)
  <2>1. NextBasis(held, f, price) = average
    BY BasisByCase DEF Average
  <2>2. average \in Ratios
    <3> DEFINE D == price.den * basis.den
    <3>1. price.den \in Positive /\ basis.den \in Positive
      BY <1>2, RatiosHaveParts
    <3>2. D \in Positive
      BY <3>1, PositiveProduct
    <3>3. PICK x \in Int : Worth(basis, D, x)
      BY <1>2, <3>1, WorthExists
    <3>4. PICK p \in Int : Worth(price, basis.den * price.den, p)
      BY <3>1, WorthExists
    <3>5. basis.den * price.den = D
      <4>1. price.den \in Int /\ basis.den \in Int
        BY <3>1 DEF Positive
      <4> QED BY <4>1
    <3>6. Worth(price, D, p)
      BY <3>4, <3>5
    <3> HIDE DEF s, basis, D
    <3> QED BY <1>2, <3>2, <3>3, <3>6, AverageBalances
  <2> QED BY <2>1, <2>2
<1>5. /\ next = 0 => NextBasis(held, f, price) \in Ratios
      /\ s = 0 => NextBasis(held, f, price) \in Ratios
      /\ s * next < 0 => NextBasis(held, f, price) \in Ratios
      /\ next # 0 /\ s * f < 0 /\ ~(s * next < 0) => NextBasis(held, f, price) \in Ratios
  BY <1>1, <1>2, BasisByCase
<1> QED BY <1>3, <1>4, <1>5

LEMMA UnitProfitWorth ==
  ASSUME NEW held, held.basis \in Ratios, NEW price \in Ratios,
         NEW D \in Positive, NEW x \in Int, NEW p \in Int,
         Worth(held.basis, D, x), Worth(price, D, p)
  PROVE  /\ UnitProfit(held, price) \in Ratios
         /\ held.shares > 0 => Worth(UnitProfit(held, price), D, p - x)
         /\ ~(held.shares > 0) => Worth(UnitProfit(held, price), D, x - p)
BY WorthOfMinus DEF UnitProfit

LEMMA NothingIsWorthNothing ==
  ASSUME NEW D \in Positive
  PROVE  Ratio(0, 1) \in Ratios /\ Worth(Ratio(0, 1), D, 0)
<1>1. 1 \in Positive /\ 0 \in Int /\ D \in Int
  BY DEF Positive
<1>2. 0 * D = 0 * 1
  BY <1>1
<1> QED BY <1>1, <1>2, IsRatio, WorthOfRatio

(* What a fill adds to the cost held is what it costs and what it realizes. *)
LEMMA FillBalances ==
  ASSUME NEW held, held.shares \in Int, held.basis \in Ratios,
         NEW side \in Sides, NEW size \in Positive, NEW price \in Ratios,
         NEW D \in Positive, NEW x \in Int, NEW p \in Int, NEW y \in Int,
         Worth(held.basis, D, x), Worth(price, D, p),
         Worth(NextBasis(held, Signed(side, size), price), D, y)
  PROVE  LET f == Signed(side, size)
             profit == ((held.shares + f) * y - held.shares * x) - f * p
         IN /\ RealizedBy(held, side, size, price) \in Ratios
            /\ profit \in Int /\ Worth(RealizedBy(held, side, size, price), D, profit)
<1> DEFINE s == held.shares
           f == Signed(side, size)
           profit == ((s + f) * y - s * x) - f * p
           basis == held.basis
           gained == RealizedBy(held, side, size, price)
           m == Min({Magnitude(s), size})
           unit == UnitProfit(held, price)
<1>1. s \in Int /\ f \in Int /\ f # 0 /\ basis \in Ratios /\ Worth(basis, D, x)
  BY SignedSize
<1>2. /\ s * f >= 0 => gained = Ratio(0, 1)
      /\ s * f < 0 => gained = Times(m, unit)
  <2>1. gained = IF s * f >= 0 THEN Ratio(0, 1) ELSE Times(m, unit)
    BY DEF RealizedBy
  <2>2. s * f \in Int
    <3> HIDE DEF s, f
    <3> QED BY <1>1
  <2> HIDE DEF s, f, gained, m, unit
  <2> QED BY <2>1, <2>2
<1>3. /\ unit \in Ratios
      /\ s > 0 => Worth(unit, D, p - x)
      /\ ~(s > 0) => Worth(unit, D, x - p)
  BY UnitProfitWorth
<1>4. /\ s + f = 0 => NextBasis(held, f, price) = Ratio(0, 1)
      /\ s = 0 => NextBasis(held, f, price) = price
      /\ s * (s + f) < 0 => NextBasis(held, f, price) = price
      /\ s * f > 0 =>
           NextBasis(held, f, price) =
             Ratio(Magnitude(s) * basis.num * price.den + Magnitude(f) * price.num * basis.den,
                   basis.den * price.den * Magnitude(s + f))
      /\ s + f # 0 /\ s * f < 0 /\ ~(s * (s + f) < 0) => NextBasis(held, f, price) = basis
  <2> HIDE DEF f
  <2> QED BY <1>1, BasisByCase
<1>5. size \in Int /\ size > 0 /\ (f = size \/ f = -size)
  BY SignedSize DEF Positive
<1>6. /\ Magnitude(s) \in Nat
      /\ s >= 0 => Magnitude(s) = s
      /\ s < 0 => Magnitude(s) = -s
  BY MagnitudeOf
<1>7. m = IF Magnitude(s) <= size THEN Magnitude(s) ELSE size
  <2>1. Magnitude(s) \in Int
    BY MagnitudeOf
  <2> QED BY <1>5, <2>1, MinOfTwo
<1> DEFINE after == NextBasis(held, f, price)
<1>8. Worth(after, D, y)
  OBVIOUS
<1> HIDE DEF s, f, profit, basis, gained, m, unit, after
<1>9. profit = ((s + f) * y - s * x) - f * p /\ profit \in Int
  <2>1. profit = ((s + f) * y - s * x) - f * p
    BY DEF profit
  <2> QED BY <1>1, <2>1
<1>10. gained \in Ratios /\ Worth(gained, D, profit)
  <2>1. CASE s = 0
    <3>1. s * f >= 0
      BY <1>1, <2>1
    <3>2. gained = Ratio(0, 1)
      BY <1>2, <3>1
    <3>3. after = price
      BY <1>4, <2>1 DEF after
    <3>4. after \in Ratios /\ y = p
      BY <1>8, <3>3, OneWorth
    <3>5. profit = 0
      BY <1>1, <1>9, <2>1, <3>4
    <3> QED BY <3>2, <3>5, NothingIsWorthNothing
  <2>2. CASE s * f > 0
    <3>1. s * f >= 0
      BY <1>1, <2>2
    <3>2. gained = Ratio(0, 1)
      BY <1>2, <3>1
    <3> DEFINE average == Average(s, basis, f, price)
    <3>3. after = average
      BY <1>4, <2>2 DEF after, Average
    <3>4. Worth(average, D, y) => (s + f) * y = s * x + f * p
      BY <1>1, <2>2, AverageBalances
    <3> HIDE DEF average
    <3>5. (s + f) * y = s * x + f * p
      BY <1>8, <3>3, <3>4
    <3>6. s * x \in Int /\ f * p \in Int
      BY <1>1
    <3>7. profit = 0
      BY <1>9, <3>5, <3>6
    <3> QED BY <3>2, <3>7, NothingIsWorthNothing
  <2>3. CASE s * f < 0
    <3>1. gained = Times(m, unit)
      BY <1>2, <2>3
    <3>2. (s > 0 /\ f = -size) \/ (s < 0 /\ f = size)
      BY <1>1, <1>5, <2>3, SignsOfProduct
    <3>3. m \in Int
      BY <1>1, <1>5, <1>7, MagnitudeOf
    <3> DEFINE u == IF s > 0 THEN p - x ELSE x - p
    <3>4. u \in Int /\ Worth(unit, D, u)
      BY <1>1, <1>3
    <3>5. u = IF s > 0 THEN p - x ELSE x - p
      OBVIOUS
    <3> HIDE DEF u
    <3>6. gained \in Ratios /\ Worth(gained, D, m * u)
      BY <1>3, <3>1, <3>3, <3>4, WorthOfTimes
    <3>7. m * u = profit
      <4>1. CASE s + f = 0
        <5>1. m * u = s * (p - x)
          <6>1. CASE s > 0
            <7>1. m = s /\ u = p - x
              BY <1>1, <1>5, <1>6, <1>7, <3>2, <3>5, <4>1, <6>1
            <7> QED BY <7>1
          <6>2. CASE s < 0
            <7>1. m = -s /\ u = x - p
              BY <1>1, <1>5, <1>6, <1>7, <3>2, <3>5, <4>1, <6>2
            <7>2. (-s) * (x - p) = s * (p - x)
              BY <1>1
            <7> QED BY <7>1, <7>2
          <6> QED BY <3>2, <6>1, <6>2
        <5>2. f = -s
          BY <1>1, <4>1
        <5>3. profit = (0 * y - s * x) - (-s) * p
          BY <1>9, <4>1, <5>2
        <5>4. (0 * y - s * x) - (-s) * p = s * (p - x)
          BY <1>1
        <5> QED BY <5>1, <5>3, <5>4
      <4>2. CASE s * (s + f) < 0
        <5>1. after = price
          BY <1>4, <4>2 DEF after
        <5>2. y = p
          BY <1>8, <5>1, OneWorth
        <5>3. (s > 0 /\ s + f < 0) \/ (s < 0 /\ s + f > 0)
          BY <1>1, <4>2, SignsOfProduct
        <5>4. m * u = s * (p - x)
          <6>1. CASE s > 0
            <7>1. m = s /\ u = p - x
              BY <1>1, <1>5, <1>6, <1>7, <3>2, <3>5, <5>3, <6>1
            <7> QED BY <7>1
          <6>2. CASE s < 0
            <7>1. m = -s /\ u = x - p
              BY <1>1, <1>5, <1>6, <1>7, <3>2, <3>5, <5>3, <6>2
            <7>2. (-s) * (x - p) = s * (p - x)
              BY <1>1
            <7> QED BY <7>1, <7>2
          <6> QED BY <3>2, <6>1, <6>2
        <5>5. ((s + f) * p - s * x) - f * p = s * (p - x)
          BY <1>1
        <5> QED BY <1>9, <5>2, <5>4, <5>5
      <4>3. CASE s + f # 0 /\ ~(s * (s + f) < 0)
        <5>1. after = basis
          BY <1>4, <2>3, <4>3 DEF after
        <5>2. y = x
          BY <1>1, <1>8, <5>1, OneWorth
        <5>3. ~(s > 0 /\ s + f < 0) /\ ~(s < 0 /\ s + f > 0)
          BY <1>1, <4>3, SignsOfProduct
        <5>4. m * u = f * (x - p)
          <6>1. CASE s > 0
            <7>1. m = size /\ u = p - x /\ f = -size
              BY <1>1, <1>5, <1>6, <1>7, <3>2, <3>5, <5>3, <6>1
            <7>2. size * (p - x) = (-size) * (x - p)
              BY <1>5
            <7> QED BY <7>1, <7>2
          <6>2. CASE s < 0
            <7>1. m = size /\ u = x - p /\ f = size
              BY <1>1, <1>5, <1>6, <1>7, <3>2, <3>5, <5>3, <6>2
            <7> QED BY <7>1
          <6> QED BY <3>2, <6>1, <6>2
        <5>5. ((s + f) * x - s * x) - f * p = f * (x - p)
          BY <1>1
        <5> QED BY <1>9, <5>2, <5>4, <5>5
      <4> QED BY <4>1, <4>2, <4>3
    <3> QED BY <3>6, <3>7
  <2>4. s = 0 \/ s * f > 0 \/ s * f < 0
    BY <1>1, SignsOfProduct
  <2> QED BY <2>1, <2>2, <2>3, <2>4
<1> QED BY <1>9, <1>10 DEF s, f, profit, gained

-----------------------------------------------------------------------------
(* Sums over the parts of a finite set *)

Adds(T, f) ==
  {it \in [SUBSET T -> Int] :
     it[{}] = 0 /\ \A s \in SUBSET T : \A x \in s : it[s] = f[x] + it[s \ {x}]}

LEMMA AddsExist ==
  ASSUME NEW T, IsFiniteSet(T), NEW f \in [T -> Int]
  PROVE  \E it : it \in Adds(T, f)
<1>1. PICK n \in Nat : ExistsBijection(1..n, T)
  BY FS_NatBijection
<1>2. PICK b : b \in Bijection(1..n, T)
  BY <1>1 DEF ExistsBijection
<1>3. /\ b \in [1..n -> T]
      /\ \A i, j \in 1..n : b[i] = b[j] => i = j
      /\ \A x \in T : \E i \in 1..n : b[i] = x
  BY <1>2 DEF Bijection, Injection, IsInjective, Surjection
<1> DEFINE g == [i \in 1..n |-> f[b[i]]]
<1>4. g \in [1..n -> Int] /\ \A i \in 1..n : g[i] = f[b[i]]
  BY <1>3
<1> HIDE DEF g
<1>5. PICK sum : sum \in SumsOf(n, g)
  BY <1>4, SumsExist
<1>6. /\ sum \in [SUBSET (1..n) -> Int] /\ sum[{}] = 0
      /\ \A s \in SUBSET (1..n) : \A i \in s : sum[s] = g[i] + sum[s \ {i}]
  BY <1>5 DEF SumsOf
<1> DEFINE At(s) == {i \in 1..n : b[i] \in s}
           it == [s \in SUBSET T |-> sum[At(s)]]
<1>7. \A s : At(s) \in SUBSET (1..n)
  OBVIOUS
<1>8. it \in [SUBSET T -> Int] /\ \A s \in SUBSET T : it[s] = sum[At(s)]
  <2> HIDE DEF At
  <2> QED BY <1>6, <1>7
<1>9. it[{}] = 0
  <2>1. At({}) = {} /\ {} \in SUBSET T
    OBVIOUS
  <2> HIDE DEF it, At
  <2> QED BY <1>6, <1>8, <2>1
<1>10. ASSUME NEW s \in SUBSET T, NEW x \in s PROVE it[s] = f[x] + it[s \ {x}]
  <2>1. PICK i \in 1..n : b[i] = x
    BY <1>3
  <2>2. i \in At(s) /\ At(s \ {x}) = At(s) \ {i}
    BY <1>3, <2>1
  <2>3. s \ {x} \in SUBSET T
    OBVIOUS
  <2> HIDE DEF it, At
  <2>4. sum[At(s)] = g[i] + sum[At(s) \ {i}]
    BY <1>6, <1>7, <2>2
  <2>5. g[i] = f[x]
    BY <1>4, <2>1
  <2> QED BY <1>8, <2>2, <2>3, <2>4, <2>5
<1> HIDE DEF it
<1>11. it \in Adds(T, f)
  BY <1>8, <1>9, <1>10 DEF Adds
<1> QED BY <1>11

\* one term changed by d
Changed(T, f, t, d) == [x \in T |-> IF x = t THEN f[x] + d ELSE f[x]]

LEMMA AddsChanged ==
  ASSUME NEW T, NEW f \in [T -> Int], NEW it \in Adds(T, f), NEW t \in T, NEW d \in Int
  PROVE  \E sum \in Adds(T, Changed(T, f, t, d)) : sum[T] = it[T] + d
<1> DEFINE sum == [s \in SUBSET T |-> IF t \in s THEN it[s] + d ELSE it[s]]
           g == Changed(T, f, t, d)
<1>1. g \in [T -> Int] /\ \A x \in T : g[x] = IF x = t THEN f[x] + d ELSE f[x]
  BY DEF Changed
<1> HIDE DEF g
<1>2. /\ it \in [SUBSET T -> Int] /\ it[{}] = 0
      /\ \A s \in SUBSET T : \A x \in s : it[s] = f[x] + it[s \ {x}]
  BY DEF Adds
<1>3. sum \in [SUBSET T -> Int]
  BY <1>2
<1>4. sum[{}] = 0 /\ sum[T] = it[T] + d
  BY <1>2
<1>5. ASSUME NEW s \in SUBSET T, NEW x \in s PROVE sum[s] = g[x] + sum[s \ {x}]
  <2>1. s \ {x} \in SUBSET T /\ x \in T
    OBVIOUS
  <2>2. it[s] = f[x] + it[s \ {x}] /\ it[s \ {x}] \in Int /\ f[x] \in Int /\ it[s] \in Int
    BY <1>2, <2>1
  <2>3. /\ sum[s] = IF t \in s THEN it[s] + d ELSE it[s]
        /\ sum[s \ {x}] = IF t \in s \ {x} THEN it[s \ {x}] + d ELSE it[s \ {x}]
    BY <2>1
  <2> HIDE DEF sum
  <2>4. CASE x = t
    BY <1>1, <2>1, <2>2, <2>3, <2>4
  <2>5. CASE x # t
    BY <1>1, <2>1, <2>2, <2>3, <2>5
  <2> QED BY <2>4, <2>5
<1> HIDE DEF sum
<1>6. sum \in Adds(T, g)
  BY <1>3, <1>4, <1>5 DEF Adds
<1> QED BY <1>4, <1>6 DEF g

\* every term times k
LEMMA AddsScaled ==
  ASSUME NEW T, NEW f \in [T -> Int], NEW it \in Adds(T, f), NEW k \in Int,
         NEW g \in [T -> Int], \A x \in T : g[x] = k * f[x]
  PROVE  \E sum \in Adds(T, g) : \A s \in SUBSET T : sum[s] = k * it[s]
<1> DEFINE sum == [s \in SUBSET T |-> k * it[s]]
<1>1. /\ it \in [SUBSET T -> Int] /\ it[{}] = 0
      /\ \A s \in SUBSET T : \A x \in s : it[s] = f[x] + it[s \ {x}]
  BY DEF Adds
<1>2. sum \in [SUBSET T -> Int] /\ \A s \in SUBSET T : sum[s] = k * it[s]
  BY <1>1
<1>3. sum[{}] = 0
  <2>1. {} \in SUBSET T /\ k * 0 = 0
    OBVIOUS
  <2> HIDE DEF sum
  <2> QED BY <1>1, <1>2, <2>1
<1> HIDE DEF sum
<1>4. ASSUME NEW s \in SUBSET T, NEW x \in s PROVE sum[s] = g[x] + sum[s \ {x}]
  <2>1. s \ {x} \in SUBSET T /\ x \in T
    OBVIOUS
  <2>2. it[s] = f[x] + it[s \ {x}] /\ it[s \ {x}] \in Int /\ f[x] \in Int
    BY <1>1, <2>1
  <2>3. sum[s] = k * it[s] /\ sum[s \ {x}] = k * it[s \ {x}] /\ g[x] = k * f[x]
    BY <1>2, <2>1
  <2>4. k * (f[x] + it[s \ {x}]) = k * f[x] + k * it[s \ {x}]
    BY <2>2
  <2> QED BY <2>2, <2>3, <2>4
<1>5. sum \in Adds(T, g)
  BY <1>2, <1>3, <1>4 DEF Adds
<1> QED BY <1>2, <1>5

\* the terms of a part set to zero
LEMMA AddsCleared ==
  ASSUME NEW T, IsFiniteSet(T), NEW f \in [T -> Int], NEW it \in Adds(T, f), NEW C \in SUBSET T,
         NEW g \in [T -> Int], \A x \in T : g[x] = IF x \in C THEN 0 ELSE f[x]
  PROVE  \E sum \in Adds(T, g) : sum[T] = it[T] - it[C]
<1> DEFINE sum == [s \in SUBSET T |-> it[s \ C]]
<1>1. /\ it \in [SUBSET T -> Int] /\ it[{}] = 0
      /\ \A s \in SUBSET T : \A x \in s : it[s] = f[x] + it[s \ {x}]
  BY DEF Adds
<1>2. \A s \in SUBSET T : s \ C \in SUBSET T
  OBVIOUS
<1>3. sum \in [SUBSET T -> Int] /\ \A s \in SUBSET T : sum[s] = it[s \ C]
  BY <1>1, <1>2
<1> HIDE DEF sum
<1>4. sum[{}] = 0
  <2>1. {} \in SUBSET T /\ {} \ C = {}
    OBVIOUS
  <2> QED BY <1>1, <1>3, <2>1
<1>5. ASSUME NEW s \in SUBSET T, NEW x \in s PROVE sum[s] = g[x] + sum[s \ {x}]
  <2>1. s \ {x} \in SUBSET T /\ x \in T /\ s \ C \in SUBSET T /\ (s \ {x}) \ C \in SUBSET T
    OBVIOUS
  <2>2. sum[s] = it[s \ C] /\ sum[s \ {x}] = it[(s \ {x}) \ C] /\ it[(s \ {x}) \ C] \in Int
    BY <1>1, <1>3, <2>1
  <2>3. CASE x \in C
    <3>1. (s \ {x}) \ C = s \ C /\ g[x] = 0
      BY <2>1, <2>3
    <3> QED BY <2>2, <3>1
  <2>4. CASE x \notin C
    <3>1. (s \ {x}) \ C = (s \ C) \ {x} /\ x \in s \ C /\ g[x] = f[x]
      BY <2>1, <2>4
    <3>2. it[s \ C] = f[x] + it[(s \ C) \ {x}]
      BY <1>1, <2>1, <3>1
    <3> QED BY <2>2, <3>1, <3>2
  <2> QED BY <2>3, <2>4
<1>6. sum \in Adds(T, g)
  BY <1>3, <1>4, <1>5 DEF Adds
<1> DEFINE S == {k \in Nat : \A u \in SUBSET C : Cardinality(u) = k => it[T] = it[T \ u] + it[u]}
<1>7. 0 \in S
  <2> SUFFICES ASSUME NEW u \in SUBSET C, Cardinality(u) = 0 PROVE it[T] = it[T \ u] + it[u]
    OBVIOUS
  <2>1. u = {}
    BY FS_Subset, FS_EmptySet
  <2>2. T \ {} = T /\ it[T] \in Int
    BY <1>1
  <2> QED BY <1>1, <2>1, <2>2
<1>8. ASSUME NEW k \in Nat, k \in S PROVE k + 1 \in S
  <2> SUFFICES ASSUME NEW u \in SUBSET C, Cardinality(u) = k + 1 PROVE it[T] = it[T \ u] + it[u]
    OBVIOUS
  <2>1. u # {} /\ IsFiniteSet(u) /\ u \in SUBSET T
    <3>1. u \in SUBSET T
      OBVIOUS
    <3>2. IsFiniteSet(u)
      BY <3>1, FS_Subset
    <3>3. Cardinality({}) = 0 /\ k + 1 # 0
      BY FS_EmptySet
    <3> QED BY <3>1, <3>2, <3>3
  <2>2. PICK x \in u : TRUE
    BY <2>1
  <2> DEFINE w == u \ {x}
  <2>3. Cardinality(w) = k
    <3>1. Cardinality(u \ {x}) = (k + 1) - 1
      BY <2>1, <2>2, FS_RemoveElement
    <3> QED BY <3>1
  <2>4. w \in SUBSET C /\ w \in SUBSET T /\ T \ w \in SUBSET T /\ x \in T \ w
        /\ (T \ w) \ {x} = T \ u /\ x \in T /\ T \ u \in SUBSET T
    BY <2>1
  <2>5. it[u] = f[x] + it[w]
    BY <1>1, <2>1
  <2> HIDE DEF w
  <2>6. it[T] = it[T \ w] + it[w]
    BY <1>8, <2>3, <2>4
  <2> DEFINE r == T \ w
  <2>7. r \in SUBSET T /\ x \in r /\ r \ {x} = T \ u
    BY <2>4
  <2>8. r = T \ w
    OBVIOUS
  <2> HIDE DEF r
  <2>9. it[r] = f[x] + it[r \ {x}]
    BY <1>1, <2>7
  <2>10. it[T \ w] = f[x] + it[T \ u]
    BY <2>7, <2>8, <2>9
  <2>11. it[T \ u] \in Int /\ it[w] \in Int /\ f[x] \in Int
    BY <1>1, <2>4
  <2> QED BY <2>5, <2>6, <2>10, <2>11
<1>9. Nat \subseteq S
  <2> HIDE DEF S
  <2> QED BY <1>7, <1>8, NatSetInduction
<1>10. it[T] = it[T \ C] + it[C]
  <2>1. Cardinality(C) \in Nat
    BY FS_Subset, FS_CardinalityType
  <2> QED BY <1>9, <2>1
<1>11. sum[T] = it[T] - it[C]
  <2>1. T \in SUBSET T /\ T \ C \in SUBSET T
    OBVIOUS
  <2>2. sum[T] = it[T \ C] /\ it[T \ C] \in Int /\ it[C] \in Int
    BY <1>1, <1>3, <2>1
  <2> QED BY <1>10, <2>2
<1> QED BY <1>6, <1>11

-----------------------------------------------------------------------------
(* Folding Plus over a finite set of tokens *)

Pick(s) == CHOOSE x \in s : TRUE

RatioStep(S, V, start, g) ==
  [s \in SUBSET S |-> IF s = {} THEN start ELSE Plus(g[s \ {Pick(s)}], V[Pick(s)])]

\* What each part of S comes to in units of 1/D, from a start that comes to b
Priced(S, V, D, h) ==
  \A t \in S : V[t] \in Ratios /\ h[t] \in Int /\ Worth(V[t], D, h[t])

LEMMA PickIsIn ==
  \A S : \A s \in SUBSET S : s # {} =>
    Pick(s) \in s /\ Pick(s) \in S /\ s \ {Pick(s)} \in SUBSET S
BY DEF Pick

LEMMA FoldAdvances ==
  ASSUME NEW S, NEW s \in SUBSET S, s # {}, NEW V, NEW D \in Positive, NEW T,
         NEW h \in [T -> Int], NEW it \in Adds(T, h), S \subseteq T, Priced(S, V, D, h),
         NEW b \in Int, NEW r \in Ratios, Worth(r, D, b + it[s \ {Pick(s)}])
  PROVE  /\ Plus(r, V[Pick(s)]) \in Ratios
         /\ Worth(Plus(r, V[Pick(s)]), D, b + it[s])
<1> DEFINE x == Pick(s)
           u == s \ {x}
<1>1. x \in s /\ x \in S /\ u \in SUBSET S
  BY PickIsIn
<1>2. /\ it \in [SUBSET T -> Int]
      /\ \A q \in SUBSET T : \A y \in q : it[q] = h[y] + it[q \ {y}]
  BY DEF Adds
<1>3. s \in SUBSET T /\ u \in SUBSET T
  BY <1>1
<1>4. it[s] = h[x] + it[u] /\ it[u] \in Int
  BY <1>1, <1>2, <1>3
<1>5. V[x] \in Ratios /\ h[x] \in Int /\ Worth(V[x], D, h[x])
  BY <1>1 DEF Priced
<1>6. Worth(r, D, b + it[u])
  OBVIOUS
<1> HIDE DEF x, u
<1> DEFINE v == b + it[u]
           z == V[x]
<1>7. v \in Int /\ Worth(r, D, v) /\ z \in Ratios /\ Worth(z, D, h[x])
  BY <1>4, <1>5, <1>6
<1>8. v + h[x] = b + it[s]
  BY <1>4, <1>5
<1> HIDE DEF v
<1>9. Plus(r, z) \in Ratios /\ Worth(Plus(r, z), D, v + h[x])
  <2> HIDE DEF z
  <2> QED BY <1>5, <1>7, WorthOfPlus
<1> QED BY <1>8, <1>9 DEF x

LEMMA FoldExists ==
  ASSUME NEW S, NEW V, NEW D \in Positive, NEW T,
         NEW h \in [T -> Int], NEW it \in Adds(T, h), S \subseteq T, Priced(S, V, D, h),
         NEW b \in Int, NEW start \in Ratios, Worth(start, D, b)
  PROVE  \E g : g = RatioStep(S, V, start, g)
<1> DEFINE g == [s \in SUBSET S |-> IF s = {} THEN start ELSE Ratio(b + it[s], D)]
<1>1. it \in [SUBSET T -> Int] /\ it[{}] = 0 /\ SUBSET S \subseteq SUBSET T
  BY DEF Adds
<1>2. ASSUME NEW s \in SUBSET S PROVE g[s] \in Ratios /\ Worth(g[s], D, b + it[s])
  <2>1. g[s] = IF s = {} THEN start ELSE Ratio(b + it[s], D)
    OBVIOUS
  <2>2. b + it[s] \in Int /\ it[s] \in Int
    BY <1>1
  <2> HIDE DEF g
  <2>3. CASE s = {}
    <3>1. b + it[s] = b
      BY <1>1, <2>3
    <3> QED BY <2>1, <2>3, <3>1
  <2>4. CASE s # {}
    BY <2>1, <2>2, <2>4, IsRatio, WorthOfRatio
  <2> QED BY <2>3, <2>4
<1>3. ASSUME NEW s \in SUBSET S, s # {} PROVE g[s] = Plus(g[s \ {Pick(s)}], V[Pick(s)])
  <2> DEFINE u == s \ {Pick(s)}
             r == g[u]
             sum == Plus(r, V[Pick(s)])
  <2>1. u \in SUBSET S
    BY <1>3, PickIsIn
  <2>2. r \in Ratios /\ Worth(r, D, b + it[s \ {Pick(s)}])
    <3> HIDE DEF g
    <3> QED BY <1>2, <2>1
  <2>3. b + it[s] \in Int
    BY <1>1
  <2>4. g[s] \in Ratios /\ Worth(g[s], D, b + it[s])
    BY <1>2
  <2> HIDE DEF g, r
  <2>5. sum \in Ratios /\ Worth(sum, D, b + it[s])
    BY <1>3, <2>2, FoldAdvances
  <2> HIDE DEF sum
  <2>6. g[s] = sum
    BY <2>3, <2>4, <2>5, SameWorth
  <2> QED BY <2>6 DEF sum, r
<1>4. g = RatioStep(S, V, start, g)
  <2>1. g = [s \in SUBSET S |-> g[s]] /\ g[{}] = start
    OBVIOUS
  <2> HIDE DEF g
  <2> QED BY <1>3, <2>1 DEF RatioStep
<1> HIDE DEF g
<1> QED BY <1>4

LEMMA FoldWorth ==
  ASSUME NEW S, IsFiniteSet(S), NEW V, NEW D \in Positive, NEW T,
         NEW h \in [T -> Int], NEW it \in Adds(T, h), S \subseteq T, Priced(S, V, D, h),
         NEW b \in Int, NEW start \in Ratios, Worth(start, D, b),
         NEW g, g = RatioStep(S, V, start, g)
  PROVE  g[S] \in Ratios /\ Worth(g[S], D, b + it[S])
<1>1. it \in [SUBSET T -> Int] /\ it[{}] = 0 /\ SUBSET S \subseteq SUBSET T
  BY DEF Adds
<1>2. \A s \in SUBSET S :
        g[s] = IF s = {} THEN start ELSE Plus(g[s \ {Pick(s)}], V[Pick(s)])
  BY Zenon DEF RatioStep
<1> DEFINE Right(s) == g[s] \in Ratios /\ Worth(g[s], D, b + it[s])
           N == {k \in Nat : \A s \in SUBSET S : Cardinality(s) = k => Right(s)}
<1>3. 0 \in N
  <2> SUFFICES ASSUME NEW s \in SUBSET S, Cardinality(s) = 0 PROVE Right(s)
    OBVIOUS
  <2>1. s = {}
    BY FS_Subset, FS_EmptySet
  <2>2. g[s] = start
    BY <1>2, <2>1, Zenon
  <2>3. b + it[s] = b
    BY <1>1, <2>1
  <2> QED BY <2>2, <2>3
<1>4. ASSUME NEW k \in Nat, k \in N PROVE k + 1 \in N
  <2> SUFFICES ASSUME NEW s \in SUBSET S, Cardinality(s) = k + 1 PROVE Right(s)
    OBVIOUS
  <2>1. IsFiniteSet(s)
    BY FS_Subset
  <2>2. s # {}
    <3>1. Cardinality({}) = 0 /\ k + 1 # 0
      BY FS_EmptySet
    <3> QED BY <3>1
  <2>3. Pick(s) \in s /\ s \ {Pick(s)} \in SUBSET S
    BY <2>2, PickIsIn
  <2>4. Cardinality(s \ {Pick(s)}) = k
    <3> DEFINE x == Pick(s)
    <3>1. x \in s
      BY <2>3
    <3> HIDE DEF x
    <3>2. Cardinality(s \ {x}) = Cardinality(s) - 1
      BY <2>1, <3>1, FS_RemoveElement
    <3>3. Cardinality(s \ {x}) = k
      BY <1>4, <3>2
    <3> QED BY <3>3 DEF x
  <2>5. Right(s \ {Pick(s)})
    BY <1>4, <2>3, <2>4
  <2> DEFINE r == g[s \ {Pick(s)}]
             sum == Plus(r, V[Pick(s)])
  <2>6. r \in Ratios /\ Worth(r, D, b + it[s \ {Pick(s)}])
    BY <2>5
  <2>7. g[s] = sum
    BY <1>2, <2>2
  <2> HIDE DEF r
  <2>8. sum \in Ratios /\ Worth(sum, D, b + it[s])
    BY <2>2, <2>6, FoldAdvances
  <2> HIDE DEF sum
  <2> QED BY <2>7, <2>8
<1>5. Nat \subseteq N
  <2> HIDE DEF N
  <2> QED BY <1>3, <1>4, NatSetInduction
<1>6. Cardinality(S) \in Nat
  BY FS_CardinalityType
<1> QED BY <1>5, <1>6

Combined(T, k, p, f) == [x \in T |-> k * p[x] - f[x]]

LEMMA AddsCombined ==
  ASSUME NEW T, NEW f \in [T -> Int], NEW it \in Adds(T, f),
         NEW p \in [T -> Int], NEW c \in Adds(T, p), NEW k \in Int
  PROVE  \E sum \in Adds(T, Combined(T, k, p, f)) :
           \A s \in SUBSET T : sum[s] = k * c[s] - it[s]
<1> DEFINE sum == [s \in SUBSET T |-> k * c[s] - it[s]]
           e == Combined(T, k, p, f)
<1>1. e \in [T -> Int] /\ \A x \in T : e[x] = k * p[x] - f[x]
  BY DEF Combined
<1> HIDE DEF e
<1>2. /\ it \in [SUBSET T -> Int] /\ it[{}] = 0
      /\ \A s \in SUBSET T : \A x \in s : it[s] = f[x] + it[s \ {x}]
  BY DEF Adds
<1>3. /\ c \in [SUBSET T -> Int] /\ c[{}] = 0
      /\ \A s \in SUBSET T : \A x \in s : c[s] = p[x] + c[s \ {x}]
  BY DEF Adds
<1>4. sum \in [SUBSET T -> Int] /\ \A s \in SUBSET T : sum[s] = k * c[s] - it[s]
  BY <1>2, <1>3
<1> HIDE DEF sum
<1>5. sum[{}] = 0
  <2>1. {} \in SUBSET T /\ k * 0 - 0 = 0
    OBVIOUS
  <2> QED BY <1>2, <1>3, <1>4, <2>1
<1>6. ASSUME NEW s \in SUBSET T, NEW x \in s PROVE sum[s] = e[x] + sum[s \ {x}]
  <2>1. s \ {x} \in SUBSET T /\ x \in T
    OBVIOUS
  <2>2. /\ it[s] = f[x] + it[s \ {x}] /\ it[s \ {x}] \in Int /\ f[x] \in Int
        /\ c[s] = p[x] + c[s \ {x}] /\ c[s \ {x}] \in Int /\ p[x] \in Int
    BY <1>2, <1>3, <2>1
  <2>3. /\ sum[s] = k * c[s] - it[s] /\ sum[s \ {x}] = k * c[s \ {x}] - it[s \ {x}]
        /\ e[x] = k * p[x] - f[x]
    BY <1>4, <1>1, <2>1
  <2>4. k * (p[x] + c[s \ {x}]) = k * p[x] + k * c[s \ {x}]
        /\ k * p[x] \in Int /\ k * c[s \ {x}] \in Int
    BY <2>2
  <2> QED BY <2>2, <2>3, <2>4
<1>7. sum \in Adds(T, e)
  BY <1>4, <1>5, <1>6 DEF Adds
<1> QED BY <1>4, <1>7 DEF e

IntStep(S, V, g) ==
  [s \in SUBSET S |-> IF s = {} THEN 0 ELSE V[Pick(s)] + g[s \ {Pick(s)}]]

LEMMA IntFoldExists ==
  ASSUME NEW T, NEW V \in [T -> Int], NEW c \in Adds(T, V), NEW S, S \subseteq T
  PROVE  \E g : g = IntStep(S, V, g)
<1> DEFINE g == [s \in SUBSET S |-> c[s]]
<1>1. /\ c[{}] = 0 /\ \A s \in SUBSET T : \A x \in s : c[s] = V[x] + c[s \ {x}]
  BY DEF Adds
<1>2. ASSUME NEW s \in SUBSET S, s # {} PROVE g[s] = V[Pick(s)] + g[s \ {Pick(s)}]
  <2>1. Pick(s) \in s /\ s \ {Pick(s)} \in SUBSET S /\ s \in SUBSET T
    BY <1>2, PickIsIn
  <2> QED BY <1>1, <2>1
<1>3. g = IntStep(S, V, g)
  <2>1. g = [s \in SUBSET S |-> g[s]] /\ g[{}] = 0
    BY <1>1
  <2> HIDE DEF g
  <2> QED BY <1>2, <2>1 DEF IntStep
<1> HIDE DEF g
<1> QED BY <1>3

LEMMA IntFoldAdds ==
  ASSUME NEW T, NEW V \in [T -> Int], NEW c \in Adds(T, V), NEW S, S \subseteq T,
         IsFiniteSet(S), NEW g, g = IntStep(S, V, g)
  PROVE  g[S] = c[S]
<1>1. /\ c[{}] = 0 /\ \A s \in SUBSET T : \A x \in s : c[s] = V[x] + c[s \ {x}]
  BY DEF Adds
<1>2. \A s \in SUBSET S :
        g[s] = IF s = {} THEN 0 ELSE V[Pick(s)] + g[s \ {Pick(s)}]
  BY Zenon DEF IntStep
<1> DEFINE N == {k \in Nat : \A s \in SUBSET S : Cardinality(s) = k => g[s] = c[s]}
<1>3. 0 \in N
  <2> SUFFICES ASSUME NEW s \in SUBSET S, Cardinality(s) = 0 PROVE g[s] = c[s]
    OBVIOUS
  <2>1. s = {}
    BY FS_Subset, FS_EmptySet
  <2>2. g[s] = 0
    BY <1>2, <2>1, Zenon
  <2> QED BY <1>1, <2>1, <2>2
<1>4. ASSUME NEW k \in Nat, k \in N PROVE k + 1 \in N
  <2> SUFFICES ASSUME NEW s \in SUBSET S, Cardinality(s) = k + 1 PROVE g[s] = c[s]
    OBVIOUS
  <2>1. IsFiniteSet(s) /\ s \in SUBSET T
    BY FS_Subset
  <2>2. s # {}
    <3>1. Cardinality({}) = 0 /\ k + 1 # 0
      BY FS_EmptySet
    <3> QED BY <3>1
  <2> DEFINE x == Pick(s)
  <2>3. x \in s /\ s \ {x} \in SUBSET S
    BY <2>2, PickIsIn
  <2>4. g[s] = V[x] + g[s \ {x}]
    BY <1>2, <2>2
  <2> HIDE DEF x
  <2>5. Cardinality(s \ {x}) = Cardinality(s) - 1
    BY <2>1, <2>3, FS_RemoveElement
  <2>6. Cardinality(s \ {x}) = k
    BY <1>4, <2>5
  <2>7. g[s \ {x}] = c[s \ {x}]
    BY <1>4, <2>3, <2>6
  <2>8. c[s] = V[x] + c[s \ {x}]
    BY <1>1, <2>1, <2>3
  <2> QED BY <2>4, <2>7, <2>8
<1>5. Nat \subseteq N
  <2> HIDE DEF N
  <2> QED BY <1>3, <1>4, NatSetInduction
<1>6. Cardinality(S) \in Nat
  BY FS_CardinalityType
<1> QED BY <1>5, <1>6

-----------------------------------------------------------------------------
(* The folds of the ledger *)

HeldAtCost(held) ==
  FoldSet(LAMBDA t, sum : Plus(sum, Times(held[t].shares, held[t].basis)),
          Ratio(0, 1), Tokens)

\* Positions, what their bases come to in units of 1/D, and the cost of each
CostedAt(held, D, w, h) ==
  /\ h \in [Tokens -> Int]
  /\ \A t \in Tokens : /\ held[t].shares \in Int /\ held[t].basis \in Ratios /\ w[t] \in Int
                       /\ Worth(held[t].basis, D, w[t]) /\ h[t] = held[t].shares * w[t]

LEMMA HeldAtCostWorth ==
  ASSUME IsFiniteSet(Tokens), NEW held, NEW D \in Positive, NEW w, NEW h,
         CostedAt(held, D, w, h), NEW it \in Adds(Tokens, h)
  PROVE  HeldAtCost(held) \in Ratios /\ Worth(HeldAtCost(held), D, it[Tokens])
<1> DEFINE V == [t \in Tokens |-> Times(held[t].shares, held[t].basis)]
           Step(g) == [s \in SUBSET Tokens |->
                         IF s = {} THEN Ratio(0, 1)
                         ELSE Plus(g[s \ {Pick(s)}],
                                   Times(held[Pick(s)].shares, held[Pick(s)].basis))]
           iter == CHOOSE g : g = Step(g)
<1>1. HeldAtCost(held) = iter[Tokens]
  BY DEF HeldAtCost, FoldSet, MapThenFoldSet, Pick
<1>2. \A g : Step(g) = RatioStep(Tokens, V, Ratio(0, 1), g)
  <2> SUFFICES ASSUME NEW g PROVE Step(g) = RatioStep(Tokens, V, Ratio(0, 1), g)
    OBVIOUS
  <2>1. \A t \in Tokens : V[t] = Times(held[t].shares, held[t].basis)
    OBVIOUS
  <2>2. \A s \in SUBSET Tokens : s # {} => Pick(s) \in Tokens
    BY PickIsIn
  <2> HIDE DEF V
  <2> QED BY <2>1, <2>2 DEF RatioStep
<1>3. h \in [Tokens -> Int]
  BY DEF CostedAt
<1>4. Priced(Tokens, V, D, h)
  <2> SUFFICES ASSUME NEW t \in Tokens
               PROVE  V[t] \in Ratios /\ h[t] \in Int /\ Worth(V[t], D, h[t])
    BY DEF Priced
  <2>1. /\ held[t].shares \in Int /\ held[t].basis \in Ratios /\ w[t] \in Int
        /\ Worth(held[t].basis, D, w[t]) /\ h[t] = held[t].shares * w[t] /\ h[t] \in Int
    BY DEF CostedAt
  <2>2. V[t] = Times(held[t].shares, held[t].basis)
    OBVIOUS
  <2> HIDE DEF V
  <2> QED BY <2>1, <2>2, WorthOfTimes
<1> HIDE DEF V
<1>5. Ratio(0, 1) \in Ratios /\ Worth(Ratio(0, 1), D, 0)
  BY NothingIsWorthNothing
<1> DEFINE start == Ratio(0, 1)
<1>6. start \in Ratios /\ Worth(start, D, 0) /\ 0 \in Int
  BY <1>5
<1>7. \A g : Step(g) = RatioStep(Tokens, V, start, g)
  BY <1>2
<1> HIDE DEF start
<1>8. \E g : g = RatioStep(Tokens, V, start, g)
  BY <1>3, <1>4, <1>6, FoldExists
<1>9. \E g : g = Step(g)
  <2> HIDE DEF Step
  <2> QED BY <1>7, <1>8
<1>10. iter = Step(iter)
  <2> HIDE DEF Step
  <2> QED BY <1>9, Zenon
<1> HIDE DEF iter, Step
<1>11. iter = RatioStep(Tokens, V, start, iter)
  BY <1>7, <1>10
<1>12. iter[Tokens] \in Ratios /\ Worth(iter[Tokens], D, 0 + it[Tokens])
  BY <1>3, <1>4, <1>6, <1>11, FoldWorth
<1>13. 0 + it[Tokens] = it[Tokens]
  BY DEF Adds
<1> QED BY <1>1, <1>12, <1>13

Receipts(held, winner, open) ==
  MapThenSumSet(LAMBDA t : held[t].shares * PayoutFor(t, winner), open)

ResolvedProfit(held, winner, start, open) ==
  FoldSet(LAMBDA t, sum : Plus(sum, RealizedByResolution(held[t], PayoutFor(t, winner))),
          start, open)

\* What each token pays when the winner is known
PaidBy(held, winner, pay) ==
  /\ pay \in [Tokens -> Int]
  /\ \A t \in Tokens : pay[t] = held[t].shares * PayoutFor(t, winner)

LEMMA ReceiptsAdd ==
  ASSUME IsFiniteSet(Tokens), NEW held, NEW winner, NEW pay, PaidBy(held, winner, pay),
         NEW c \in Adds(Tokens, pay), NEW open \in SUBSET Tokens
  PROVE  Receipts(held, winner, open) = c[open]
<1> DEFINE Step(g) == [s \in SUBSET open |->
                         IF s = {} THEN 0
                         ELSE held[Pick(s)].shares * PayoutFor(Pick(s), winner)
                                + g[s \ {Pick(s)}]]
           iter == CHOOSE g : g = Step(g)
<1>1. Receipts(held, winner, open) = iter[open]
  BY DEF Receipts, MapThenSumSet, MapThenFoldSet, Pick
<1>2. pay \in [Tokens -> Int]
      /\ \A t \in Tokens : pay[t] = held[t].shares * PayoutFor(t, winner)
  BY DEF PaidBy
<1>3. \A g : Step(g) = IntStep(open, pay, g)
  <2> SUFFICES ASSUME NEW g PROVE Step(g) = IntStep(open, pay, g)
    OBVIOUS
  <2>1. \A s \in SUBSET open : s # {} => Pick(s) \in Tokens
    BY PickIsIn
  <2> QED BY <1>2, <2>1 DEF IntStep
<1>4. \E g : g = IntStep(open, pay, g)
  BY <1>2, IntFoldExists
<1>5. \E g : g = Step(g)
  <2> HIDE DEF Step
  <2> QED BY <1>3, <1>4
<1>6. iter = Step(iter)
  <2> HIDE DEF Step
  <2> QED BY <1>5, Zenon
<1> HIDE DEF iter, Step
<1>7. iter = IntStep(open, pay, iter)
  BY <1>3, <1>6
<1>8. IsFiniteSet(open)
  BY FS_Subset
<1>9. iter[open] = c[open]
  BY <1>2, <1>7, <1>8, IntFoldAdds
<1> QED BY <1>1, <1>9

LEMMA ResolutionWorth ==
  ASSUME NEW held, held.shares \in Int, held.basis \in Ratios, NEW payout \in Int,
         NEW D \in Positive, NEW x \in Int, Worth(held.basis, D, x)
  PROVE  /\ RealizedByResolution(held, payout) \in Ratios
         /\ Worth(RealizedByResolution(held, payout), D,
                  D * (held.shares * payout) - held.shares * x)
<1> DEFINE s == held.shares
           price == Ratio(payout, 1)
           unit == UnitProfit(held, price)
           p == payout * D
           u == IF s > 0 THEN p - x ELSE x - p
           m == Magnitude(s)
           gained == RealizedByResolution(held, payout)
<1>1. s \in Int /\ D \in Int /\ 1 \in Positive
  BY DEF Positive
<1>2. p \in Int /\ price \in Ratios /\ Worth(price, D, p)
  <2>1. p \in Int /\ payout * D = p * 1
    BY <1>1
  <2> QED BY <1>1, <2>1, IsRatio, WorthOfRatio
<1>3. gained = Times(m, unit)
  BY DEF RealizedByResolution
<1>4. m \in Int /\ (s >= 0 => m = s) /\ (s < 0 => m = -s)
  BY <1>1, MagnitudeOf
<1> HIDE DEF price, p
<1>5. /\ unit \in Ratios
      /\ s > 0 => Worth(unit, D, p - x)
      /\ ~(s > 0) => Worth(unit, D, x - p)
  BY <1>2, UnitProfitWorth
<1> HIDE DEF unit
<1>6. u \in Int /\ Worth(unit, D, u)
  BY <1>1, <1>2, <1>5
<1>7. Times(m, unit) \in Ratios /\ Worth(Times(m, unit), D, m * u)
  <2> HIDE DEF m, u
  <2> QED BY <1>4, <1>5, <1>6, WorthOfTimes
<1>8. m * u = s * (p - x)
  <2>1. CASE s > 0
    <3>1. m = s /\ u = p - x
      BY <1>1, <1>4, <2>1
    <3> QED BY <3>1
  <2>2. CASE ~(s > 0)
    <3>1. m = -s /\ u = x - p
      BY <1>1, <1>4, <2>2
    <3>2. (-s) * (x - p) = s * (p - x)
      BY <1>1, <1>2
    <3> QED BY <3>1, <3>2
  <2> QED BY <2>1, <2>2
<1> HIDE DEF s, m, u
<1>9. s * (p - x) = D * (s * payout) - s * x
  <2>1. p = payout * D
    BY DEF p
  <2>2. s * (payout * D - x) = D * (s * payout) - s * x
    BY <1>1
  <2> QED BY <2>1, <2>2
<1> HIDE DEF gained
<1>10. gained \in Ratios /\ Worth(gained, D, D * (s * payout) - s * x)
  BY <1>3, <1>7, <1>8, <1>9
<1> QED BY <1>10 DEF gained, s

LEMMA ResolvedProfitWorth ==
  ASSUME IsFiniteSet(Tokens), NEW held, NEW D \in Positive, NEW w, NEW h,
         CostedAt(held, D, w, h), NEW it \in Adds(Tokens, h),
         NEW winner, NEW pay, PaidBy(held, winner, pay), NEW c \in Adds(Tokens, pay),
         NEW open \in SUBSET Tokens, NEW start \in Ratios, NEW b \in Int, Worth(start, D, b)
  PROVE  /\ ResolvedProfit(held, winner, start, open) \in Ratios
         /\ Worth(ResolvedProfit(held, winner, start, open), D,
                  b + (D * c[open] - it[open]))
<1> DEFINE V == [t \in open |-> RealizedByResolution(held[t], PayoutFor(t, winner))]
           e == Combined(Tokens, D, pay, h)
           Step(g) == [s \in SUBSET open |->
                         IF s = {} THEN start
                         ELSE Plus(g[s \ {Pick(s)}],
                                   RealizedByResolution(held[Pick(s)],
                                                        PayoutFor(Pick(s), winner)))]
           iter == CHOOSE g : g = Step(g)
<1>1. ResolvedProfit(held, winner, start, open) = iter[open]
  BY DEF ResolvedProfit, FoldSet, MapThenFoldSet, Pick
<1>2. \A g : Step(g) = RatioStep(open, V, start, g)
  <2> SUFFICES ASSUME NEW g PROVE Step(g) = RatioStep(open, V, start, g)
    OBVIOUS
  <2>1. \A t \in open : V[t] = RealizedByResolution(held[t], PayoutFor(t, winner))
    OBVIOUS
  <2>2. \A s \in SUBSET open : s # {} => Pick(s) \in open
    BY PickIsIn
  <2> HIDE DEF V
  <2> QED BY <2>1, <2>2 DEF RatioStep
<1>3. /\ h \in [Tokens -> Int] /\ pay \in [Tokens -> Int] /\ D \in Int
      /\ \A t \in Tokens : pay[t] = held[t].shares * PayoutFor(t, winner)
  BY DEF CostedAt, PaidBy, Positive
<1>4. e \in [Tokens -> Int] /\ \A t \in Tokens : e[t] = D * pay[t] - h[t]
  BY <1>3 DEF Combined
<1>5. PICK sum \in Adds(Tokens, e) : \A s \in SUBSET Tokens : sum[s] = D * c[s] - it[s]
  <2>1. h \in [Tokens -> Int] /\ pay \in [Tokens -> Int] /\ D \in Int
    BY <1>3
  <2> QED BY <2>1, AddsCombined
<1> HIDE DEF e
<1>6. Priced(open, V, D, e)
  <2> SUFFICES ASSUME NEW t \in open
               PROVE  V[t] \in Ratios /\ e[t] \in Int /\ Worth(V[t], D, e[t])
    BY DEF Priced
  <2>1. /\ held[t].shares \in Int /\ held[t].basis \in Ratios /\ w[t] \in Int
        /\ Worth(held[t].basis, D, w[t]) /\ h[t] = held[t].shares * w[t]
    BY DEF CostedAt
  <2>2. PayoutFor(t, winner) \in Int
    BY OneAssumption DEF PayoutFor
  <2>3. V[t] = RealizedByResolution(held[t], PayoutFor(t, winner))
    OBVIOUS
  <2>4. e[t] = D * (held[t].shares * PayoutFor(t, winner)) - held[t].shares * w[t]
    BY <1>3, <1>4, <2>1
  <2> HIDE DEF V
  <2>5. e[t] \in Int
    BY <1>4
  <2> DEFINE q == PayoutFor(t, winner)
             hd == held[t]
             x == w[t]
  <2>6. /\ q \in Int /\ hd.shares \in Int /\ hd.basis \in Ratios /\ x \in Int
        /\ Worth(hd.basis, D, x)
        /\ V[t] = RealizedByResolution(hd, q) /\ e[t] = D * (hd.shares * q) - hd.shares * x
    BY <2>1, <2>2, <2>3, <2>4
  <2> HIDE DEF q, hd, x
  <2> QED BY <2>5, <2>6, ResolutionWorth
<1> HIDE DEF V
<1>7. \E g : g = RatioStep(open, V, start, g)
  BY <1>4, <1>6, FoldExists
<1>8. \E g : g = Step(g)
  <2> HIDE DEF Step
  <2> QED BY <1>2, <1>7
<1>9. iter = Step(iter)
  <2> HIDE DEF Step
  <2> QED BY <1>8, Zenon
<1> HIDE DEF iter, Step
<1>10. iter = RatioStep(open, V, start, iter)
  BY <1>2, <1>9
<1>11. IsFiniteSet(open)
  BY FS_Subset
<1>12. iter[open] \in Ratios /\ Worth(iter[open], D, b + sum[open])
  BY <1>4, <1>6, <1>10, <1>11, FoldWorth
<1> QED BY <1>1, <1>5, <1>12

-----------------------------------------------------------------------------
(* The books balance *)

Held == [shares : Int, basis : Ratios]

\* `money` is what was taken in; with the cost held it makes what was gained.
Balances(held, gained, money, D, w, h, it) ==
  /\ D \in Positive /\ CostedAt(held, D, w, h) /\ it \in Adds(Tokens, h)
  /\ Worth(gained, D, it[Tokens] + money * D)

Explained(held, gained, money) ==
  /\ held \in [Tokens -> Held] /\ gained \in Ratios /\ money \in Int
  /\ \E D, w, h, it : Balances(held, gained, money, D, w, h, it)

LEMMA TotalIsCounted ==
  ASSUME NEW h \in [Tokens -> Int], NEW it \in Adds(Tokens, h)
  PROVE  it[Tokens] \in Int
BY DEF Adds

LEMMA ExplainedFromTheStart ==
  Explained([t \in Tokens |-> Flat], Ratio(0, 1), 0)
<1> DEFINE held == [t \in Tokens |-> Flat]
           w == [t \in Tokens |-> 0]
           it == [s \in SUBSET Tokens |-> 0]
<1>1. 1 \in Positive /\ Ratio(0, 1) \in Ratios /\ Worth(Ratio(0, 1), 1, 0)
  <2>1. 1 \in Positive
    BY DEF Positive
  <2> QED BY <2>1, NothingIsWorthNothing
<1>2. \A t \in Tokens : held[t] = Flat
  OBVIOUS
<1>3. Flat \in Held /\ Flat.shares = 0 /\ Flat.basis = Ratio(0, 1)
  BY <1>1 DEF Flat, Held
<1>4. held \in [Tokens -> Held]
  BY <1>3
<1>5. w \in [Tokens -> Int] /\ \A t \in Tokens : w[t] = 0 /\ 0 * 0 = 0
  OBVIOUS
<1> HIDE DEF held, w
<1>6. CostedAt(held, 1, w, w)
  BY <1>1, <1>2, <1>3, <1>5 DEF CostedAt
<1>7. it \in Adds(Tokens, w) /\ it[Tokens] = 0
  BY <1>5 DEF Adds
<1>8. it[Tokens] + 0 * 1 = 0
  BY <1>7
<1> HIDE DEF it
<1>9. Balances(held, Ratio(0, 1), 0, 1, w, w, it)
  BY <1>1, <1>6, <1>7, <1>8 DEF Balances
<1>10. Explained(held, Ratio(0, 1), 0)
  BY <1>1, <1>4, <1>9 DEF Explained
<1> QED BY <1>10 DEF held

LEMMA BalancesScale ==
  ASSUME NEW held, NEW gained, gained \in Ratios, NEW money \in Int,
         NEW D, NEW w, NEW h, NEW it, Balances(held, gained, money, D, w, h, it),
         NEW k \in Positive
  PROVE  \E w2, h2, it2 : Balances(held, gained, money, k * D, w2, h2, it2)
<1> DEFINE w2 == [t \in Tokens |-> k * w[t]]
           h2 == [t \in Tokens |-> k * h[t]]
<1>1. /\ D \in Positive /\ CostedAt(held, D, w, h) /\ it \in Adds(Tokens, h)
      /\ Worth(gained, D, it[Tokens] + money * D)
  BY DEF Balances
<1>2. k \in Int /\ D \in Int /\ k * D \in Positive
  BY <1>1, PositiveProduct DEF Positive
<1>3. /\ h \in [Tokens -> Int]
      /\ \A t \in Tokens : /\ held[t].shares \in Int /\ held[t].basis \in Ratios /\ w[t] \in Int
                           /\ Worth(held[t].basis, D, w[t]) /\ h[t] = held[t].shares * w[t]
  BY <1>1 DEF CostedAt
<1>4. h2 \in [Tokens -> Int] /\ \A t \in Tokens : h2[t] = k * h[t]
  BY <1>2, <1>3
<1>5. \A t \in Tokens : w2[t] = k * w[t]
  OBVIOUS
<1> HIDE DEF w2, h2
<1>6. CostedAt(held, k * D, w2, h2)
  <2> SUFFICES ASSUME NEW t \in Tokens
               PROVE  /\ held[t].shares \in Int /\ held[t].basis \in Ratios /\ w2[t] \in Int
                      /\ Worth(held[t].basis, k * D, w2[t])
                      /\ h2[t] = held[t].shares * w2[t]
    BY <1>4 DEF CostedAt
  <2>1. /\ held[t].shares \in Int /\ held[t].basis \in Ratios /\ w[t] \in Int
        /\ Worth(held[t].basis, D, w[t]) /\ h[t] = held[t].shares * w[t]
    BY <1>3
  <2>2. w2[t] = k * w[t] /\ h2[t] = k * h[t] /\ w2[t] \in Int
    BY <1>2, <1>4, <1>5, <2>1
  <2>3. Worth(held[t].basis, k * D, k * w[t])
    BY <1>1, <2>1, WorthScales
  <2>4. k * (held[t].shares * w[t]) = held[t].shares * (k * w[t])
    BY <1>2, <2>1
  <2> QED BY <2>1, <2>2, <2>3, <2>4
<1>7. PICK it2 \in Adds(Tokens, h2) : \A s \in SUBSET Tokens : it2[s] = k * it[s]
  BY <1>1, <1>2, <1>3, <1>4, AddsScaled
<1>8. it[Tokens] \in Int /\ it[Tokens] + money * D \in Int /\ it2[Tokens] = k * it[Tokens]
  BY <1>1, <1>2, <1>3, <1>7, TotalIsCounted
<1>9. Worth(gained, k * D, k * (it[Tokens] + money * D))
  BY <1>1, <1>8, WorthScales
<1>10. k * (it[Tokens] + money * D) = it2[Tokens] + money * (k * D)
  BY <1>2, <1>8
<1>11. Balances(held, gained, money, k * D, w2, h2, it2)
  BY <1>2, <1>6, <1>7, <1>9, <1>10 DEF Balances
<1> QED BY <1>11

\* The fill of one position, once every amount is whole in units of 1/D
LEMMA FillStepBalances ==
  ASSUME NEW held \in [Tokens -> Held], NEW gained \in Ratios, NEW money \in Int,
         NEW D, NEW w, NEW h, NEW it, Balances(held, gained, money, D, w, h, it),
         NEW t \in Tokens, NEW side \in Sides, NEW size \in Positive, NEW notional \in Int,
         NEW p \in Int, Worth(Ratio(notional, size), D, p),
         NEW next \in Held, next = AfterFill(held[t], side, size, Ratio(notional, size)),
         NEW y \in Int, Worth(next.basis, D, y)
  PROVE  Explained([held EXCEPT ![t] = next],
                   Plus(gained, RealizedBy(held[t], side, size, Ratio(notional, size))),
                   money - Signed(side, notional))
<1> DEFINE price == Ratio(notional, size)
           f == Signed(side, size)
           s == held[t].shares
           x == w[t]
           d == (s + f) * y - s * x
           profit == ((s + f) * y - s * x) - f * p
           delta == RealizedBy(held[t], side, size, price)
           held2 == [held EXCEPT ![t] = next]
           w2 == [u \in Tokens |-> IF u = t THEN y ELSE w[u]]
           h2 == Changed(Tokens, h, t, d)
           paid == Signed(side, notional)
           total == it[Tokens]
<1>1. /\ D \in Positive /\ CostedAt(held, D, w, h) /\ it \in Adds(Tokens, h)
      /\ Worth(gained, D, total + money * D)
  BY DEF Balances
<1>2. /\ h \in [Tokens -> Int]
      /\ \A u \in Tokens : /\ held[u].shares \in Int /\ held[u].basis \in Ratios /\ w[u] \in Int
                           /\ Worth(held[u].basis, D, w[u]) /\ h[u] = held[u].shares * w[u]
  BY <1>1 DEF CostedAt
<1>3. /\ s \in Int /\ x \in Int /\ held[t].basis \in Ratios /\ Worth(held[t].basis, D, x)
      /\ h[t] = s * x /\ h[t] \in Int
  BY <1>2
<1>4. /\ f \in Int /\ size \in Int /\ D \in Int /\ paid \in Int
      /\ (f = size /\ paid = notional) \/ (f = -size /\ paid = -notional)
  BY <1>1 DEF Positive, Signed, Sides
<1>5. price \in Ratios /\ Worth(price, D, p)
  BY IsRatio
<1>6. next.shares = s + f /\ next.basis = NextBasis(held[t], f, price)
      /\ next.shares \in Int /\ next.basis \in Ratios
  BY DEF AfterFill, Held
<1>7. Worth(NextBasis(held[t], f, price), D, y)
  BY <1>6
<1>8. delta \in Ratios /\ profit \in Int /\ Worth(delta, D, profit)
  <2> DEFINE hd == held[t]
  <2>1. hd.shares \in Int /\ hd.basis \in Ratios /\ Worth(hd.basis, D, x)
        /\ Worth(NextBasis(hd, Signed(side, size), price), D, y)
    BY <1>3, <1>7
  <2> HIDE DEF price, hd, x
  <2>2. LET g == Signed(side, size)
            gain == ((hd.shares + g) * y - hd.shares * x) - g * p
        IN /\ RealizedBy(hd, side, size, price) \in Ratios
           /\ gain \in Int /\ Worth(RealizedBy(hd, side, size, price), D, gain)
    BY <1>1, <1>3, <1>5, <2>1, FillBalances
  <2> QED BY <2>2 DEF hd
<1>9. notional * D = p * size
  BY <1>1, WorthOfRatio
<1>10. total \in Int
  BY <1>1, <1>2, TotalIsCounted
<1>11. /\ held2 \in [Tokens -> Held] /\ held2[t] = next
       /\ \A u \in Tokens : u # t => held2[u] = held[u]
  OBVIOUS
<1>12. \A u \in Tokens : w2[u] = IF u = t THEN y ELSE w[u]
  OBVIOUS
<1>13. (s + f) * y \in Int /\ s * x \in Int /\ d \in Int
  BY <1>3, <1>4
<1>14. d = (s + f) * y - s * x
  OBVIOUS
<1> HIDE DEF d
<1>15. h2 \in [Tokens -> Int] /\ \A u \in Tokens : h2[u] = IF u = t THEN h[u] + d ELSE h[u]
  BY <1>2, <1>13 DEF Changed
<1>16. profit = ((s + f) * y - s * x) - f * p
  OBVIOUS
<1>17. PICK sum \in Adds(Tokens, h2) : sum[Tokens] = it[Tokens] + d
  BY <1>1, <1>2, <1>13, AddsChanged
<1> HIDE DEF price, f, s, x, profit, delta, held2, w2, h2, paid, total
<1>18. CostedAt(held2, D, w2, h2)
  <2> SUFFICES ASSUME NEW u \in Tokens
               PROVE  /\ held2[u].shares \in Int /\ held2[u].basis \in Ratios /\ w2[u] \in Int
                      /\ Worth(held2[u].basis, D, w2[u])
                      /\ h2[u] = held2[u].shares * w2[u]
    BY <1>15 DEF CostedAt
  <2>1. CASE u = t
    <3>1. held2[u] = next /\ w2[u] = y /\ h2[u] = s * x + d
      BY <1>3, <1>11, <1>12, <1>15, <2>1
    <3>2. s * x + d = (s + f) * y
      BY <1>13, <1>14
    <3> QED BY <1>6, <3>1, <3>2
  <2>2. CASE u # t
    <3>1. held2[u] = held[u] /\ w2[u] = w[u] /\ h2[u] = h[u]
      BY <1>11, <1>12, <1>15, <2>2
    <3> QED BY <1>2, <3>1
  <2> QED BY <2>1, <2>2
<1>19. sum[Tokens] = total + d
  BY <1>17 DEF total
<1>20. money * D \in Int /\ total + money * D \in Int
  BY <1>4, <1>10
<1>21. Plus(gained, delta) \in Ratios /\ Worth(Plus(gained, delta), D, (total + money * D) + profit)
  BY <1>1, <1>8, <1>20, WorthOfPlus
<1>22. paid * D = f * p
  <2>1. CASE f = size /\ paid = notional
    <3>1. size * p = p * size
      BY <1>4
    <3> QED BY <1>9, <2>1, <3>1
  <2>2. CASE f = -size /\ paid = -notional
    <3>1. (-size) * p = -(p * size) /\ (-notional) * D = -(notional * D)
      BY <1>4
    <3> QED BY <1>9, <2>2, <3>1
  <2> QED BY <1>4, <2>1, <2>2
<1>23. (total + money * D) + profit = sum[Tokens] + (money - paid) * D
  <2>1. (money - paid) * D = money * D - paid * D /\ f * p \in Int
    BY <1>4
  <2>2. profit = d - f * p
    BY <1>14, <1>16
  <2> QED BY <1>10, <1>13, <1>19, <1>20, <1>22, <2>1, <2>2
<1>24. Balances(held2, Plus(gained, delta), money - paid, D, w2, h2, sum)
  BY <1>1, <1>18, <1>17, <1>21, <1>23 DEF Balances
<1>25. money - paid \in Int
  BY <1>4
<1>26. Explained(held2, Plus(gained, delta), money - paid)
  BY <1>11, <1>21, <1>24, <1>25 DEF Explained
<1> QED BY <1>26 DEF held2, delta, paid, price

LEMMA FillIsExplained ==
  ASSUME NEW held, NEW gained, NEW money, Explained(held, gained, money),
         NEW t \in Tokens, NEW side \in Sides, NEW size \in Positive, NEW notional \in Int
  PROVE  Explained([held EXCEPT ![t] = AfterFill(@, side, size, Ratio(notional, size))],
                   Plus(gained, RealizedBy(held[t], side, size, Ratio(notional, size))),
                   money - Signed(side, notional))
<1> DEFINE price == Ratio(notional, size)
           next == AfterFill(held[t], side, size, price)
<1>1. held \in [Tokens -> Held] /\ gained \in Ratios /\ money \in Int
  BY DEF Explained
<1>2. PICK D, w, h, it : Balances(held, gained, money, D, w, h, it)
  BY DEF Explained
<1>3. D \in Positive
  BY <1>2 DEF Balances
<1>4. price \in Ratios
  BY IsRatio
<1>5. held[t].shares \in Int /\ held[t].basis \in Ratios
  BY <1>1 DEF Held
<1>6. Signed(side, size) \in Int /\ Signed(side, size) # 0
  BY SignedSize
<1>7. next \in Held
  <2>1. NextBasis(held[t], Signed(side, size), price) \in Ratios
    <3> DEFINE f == Signed(side, size)
               hd == held[t]
    <3>1. f \in Int /\ f # 0 /\ hd.shares \in Int /\ hd.basis \in Ratios
      BY <1>5, <1>6
    <3> HIDE DEF price, f, hd
    <3>2. NextBasis(hd, f, price) \in Ratios
      BY <1>4, <3>1, BasisIsRatio
    <3> QED BY <3>2 DEF f, hd
  <2>2. held[t].shares + Signed(side, size) \in Int
    BY <1>5, <1>6
  <2> HIDE DEF price
  <2> QED BY <2>1, <2>2 DEF AfterFill, Held
<1> HIDE DEF price
<1>8. next.basis \in Ratios
  BY <1>7 DEF Held
<1> DEFINE a == price.den
           b == next.basis.den
           k == a * b
           E == k * D
<1>9. a \in Positive /\ b \in Positive
  BY <1>4, <1>8, RatiosHaveParts
<1> HIDE DEF a, b
<1>10. k \in Positive /\ E \in Positive /\ b * D \in Positive /\ a * D \in Positive
  BY <1>3, <1>9, PositiveProduct
<1>11. E = (b * D) * a /\ E = (a * D) * b
  BY <1>3, <1>9 DEF Positive
<1> DEFINE F == b * D
           G == a * D
<1>12. F \in Positive /\ G \in Positive /\ E = F * a /\ E = G * b
  BY <1>10, <1>11
<1> HIDE DEF next, E, F, G, k
<1>13. PICK p \in Int : Worth(price, E, p)
  <2>1. \E p \in Int : Worth(price, F * a, p)
    BY <1>4, <1>12, WorthExists DEF a
  <2> QED BY <1>12, <2>1
<1>14. PICK y \in Int : Worth(next.basis, E, y)
  <2>1. \E y \in Int : Worth(next.basis, G * b, y)
    BY <1>8, <1>12, WorthExists DEF b
  <2> QED BY <1>12, <2>1
<1>15. PICK w2, h2, it2 : Balances(held, gained, money, E, w2, h2, it2)
  <2>1. \E w2, h2, it2 : Balances(held, gained, money, k * D, w2, h2, it2)
    BY <1>1, <1>2, <1>10, BalancesScale
  <2> QED BY <2>1 DEF E
<1>16. Worth(Ratio(notional, size), E, p)
       /\ next = AfterFill(held[t], side, size, Ratio(notional, size))
  BY <1>13 DEF price, next
<1>17. Explained([held EXCEPT ![t] = next],
                 Plus(gained, RealizedBy(held[t], side, size, Ratio(notional, size))),
                 money - Signed(side, notional))
  BY <1>1, <1>7, <1>14, <1>15, <1>16, FillStepBalances
<1>18. [held EXCEPT ![t] = next]
         = [held EXCEPT ![t] = AfterFill(@, side, size, Ratio(notional, size))]
  BY <1>1, <1>16
<1> QED BY <1>17, <1>18

LEMMA SettlementIsExplained ==
  ASSUME IsFiniteSet(Tokens), NEW held, NEW gained, NEW money, Explained(held, gained, money),
         NEW winner, NEW open \in SUBSET Tokens
  PROVE  Explained([t \in Tokens |-> IF t \in open THEN Flat ELSE held[t]],
                   ResolvedProfit(held, winner, gained, open),
                   money + Receipts(held, winner, open))
<1>1. held \in [Tokens -> Held] /\ gained \in Ratios /\ money \in Int
  BY DEF Explained
<1>2. PICK D, w, h, it : Balances(held, gained, money, D, w, h, it)
  BY DEF Explained
<1>3. /\ D \in Positive /\ CostedAt(held, D, w, h) /\ it \in Adds(Tokens, h)
      /\ Worth(gained, D, it[Tokens] + money * D)
  BY <1>2 DEF Balances
<1>4. /\ h \in [Tokens -> Int]
      /\ \A t \in Tokens : /\ held[t].shares \in Int /\ held[t].basis \in Ratios /\ w[t] \in Int
                           /\ Worth(held[t].basis, D, w[t]) /\ h[t] = held[t].shares * w[t]
  BY <1>3 DEF CostedAt
<1> DEFINE pay == [t \in Tokens |-> held[t].shares * PayoutFor(t, winner)]
<1>5. pay \in [Tokens -> Int] /\ PaidBy(held, winner, pay)
  <2>1. \A t : PayoutFor(t, winner) \in Int
    BY OneAssumption DEF PayoutFor
  <2>2. pay \in [Tokens -> Int]
    BY <1>4, <2>1
  <2>3. \A t \in Tokens : pay[t] = held[t].shares * PayoutFor(t, winner)
    OBVIOUS
  <2> HIDE DEF pay
  <2> QED BY <2>2, <2>3 DEF PaidBy
<1> HIDE DEF pay
<1>6. PICK c : c \in Adds(Tokens, pay)
  BY <1>5, AddsExist
<1>7. c[open] \in Int /\ it[open] \in Int /\ it[Tokens] \in Int /\ D \in Int
  BY <1>3, <1>6 DEF Adds, Positive
<1> DEFINE took == Receipts(held, winner, open)
           b == it[Tokens] + money * D
           won == ResolvedProfit(held, winner, gained, open)
           next == [t \in Tokens |-> IF t \in open THEN Flat ELSE held[t]]
           w2 == [t \in Tokens |-> IF t \in open THEN 0 ELSE w[t]]
           h2 == [t \in Tokens |-> IF t \in open THEN 0 ELSE h[t]]
<1>8. took = c[open]
  BY <1>5, <1>6, ReceiptsAdd
<1>9. b \in Int /\ Worth(gained, D, b)
  BY <1>1, <1>3, <1>7
<1>10. b = it[Tokens] + money * D
  OBVIOUS
<1> HIDE DEF b
<1>11. won \in Ratios /\ Worth(won, D, b + (D * c[open] - it[open]))
  BY <1>1, <1>3, <1>5, <1>6, <1>9, ResolvedProfitWorth
<1>12. h2 \in [Tokens -> Int] /\ \A t \in Tokens : h2[t] = IF t \in open THEN 0 ELSE h[t]
  BY <1>4
<1>13. \A t \in Tokens : /\ next[t] = IF t \in open THEN Flat ELSE held[t]
                         /\ w2[t] = IF t \in open THEN 0 ELSE w[t]
  OBVIOUS
<1>14. /\ Flat \in Held /\ Flat.shares = 0 /\ Flat.basis \in Ratios
       /\ Worth(Flat.basis, D, 0)
  BY <1>3, NothingIsWorthNothing DEF Flat, Held
<1>15. next \in [Tokens -> Held]
  BY <1>1, <1>14
<1> HIDE DEF took, won, next, w2, h2
<1>16. PICK sum \in Adds(Tokens, h2) : sum[Tokens] = it[Tokens] - it[open]
  BY <1>3, <1>4, <1>12, AddsCleared
<1>17. CostedAt(next, D, w2, h2)
  <2> SUFFICES ASSUME NEW t \in Tokens
               PROVE  /\ next[t].shares \in Int /\ next[t].basis \in Ratios /\ w2[t] \in Int
                      /\ Worth(next[t].basis, D, w2[t]) /\ h2[t] = next[t].shares * w2[t]
    BY <1>12 DEF CostedAt
  <2>1. CASE t \in open
    <3>1. next[t] = Flat /\ w2[t] = 0 /\ h2[t] = 0
      BY <1>12, <1>13, <2>1
    <3> QED BY <1>14, <3>1
  <2>2. CASE t \notin open
    <3>1. next[t] = held[t] /\ w2[t] = w[t] /\ h2[t] = h[t]
      BY <1>12, <1>13, <2>2
    <3> QED BY <1>4, <3>1
  <2> QED BY <2>1, <2>2
<1>18. b + (D * c[open] - it[open]) = sum[Tokens] + (money + took) * D
  <2>1. (money + c[open]) * D = money * D + D * c[open] /\ money * D \in Int /\ D * c[open] \in Int
    BY <1>1, <1>7
  <2> QED BY <1>7, <1>8, <1>10, <1>16, <2>1
<1>19. money + took \in Int
  BY <1>1, <1>7, <1>8
<1>20. Balances(next, won, money + took, D, w2, h2, sum)
  BY <1>3, <1>11, <1>16, <1>17, <1>18 DEF Balances
<1>21. Explained(next, won, money + took)
  BY <1>11, <1>15, <1>19, <1>20 DEF Explained
<1> QED BY <1>21 DEF next, won, took

LEMMA FillsAreCounted ==
  ASSUME NEW side \in Sides, NEW fill \in FillsOf[side]
  PROVE  fill.size \in Positive /\ fill.notional \in Int
<1>1. PICK order \in Orders, book \in Books : fill = SimulateFill(order, book)
  BY DEF FillsOf
<1>2. fill.size > 0
  BY DEF FillsOf
<1>3. order \in Order /\ book \in Seq(Level)
  BY OrdersAssumption
<1> DEFINE n == Len(book)
<1>4. n \in Nat /\ book \in [1..n -> Level]
  BY <1>3
<1>5. PICK ord \in Orderings(n) :
        ExecutableLevels(order.side, book) = [k \in 1..n |-> book[ord[k]]]
  <2> DEFINE way == order.side
  <2>1. \E ord \in Orderings(n) : ExecutableLevels(way, book) = [k \in 1..n |-> book[ord[k]]]
    <3> HIDE DEF way
    <3> QED BY <1>3, LevelsAreSorted
  <2> HIDE DEF n
  <2> QED BY <2>1
<1>6. ord \in [1..n -> 1..n]
  BY DEF Orderings
<1> DEFINE levels == [k \in 1..n |-> book[ord[k]]]
<1>7. levels \in [1..n -> Level] /\ ExecutableLevels(order.side, book) = levels
  BY <1>4, <1>5, <1>6
<1> HIDE DEF levels, n
<1>8. PICK v \in Walks(order, n, levels) :
        SimulateFill(order, book) = [size |-> v[n].size, notional |-> v[n].notional]
  BY <1>3, <1>4, <1>7, FillIsAWalk
<1>9. v[n] \in Walk
  BY <1>4, <1>8 DEF Walks
<1>10. fill.size = v[n].size /\ fill.notional = v[n].notional
  BY <1>1, <1>8
<1>11. fill.size \in Int /\ fill.notional \in Int
  BY <1>9, <1>10 DEF Walk
<1> QED BY <1>2, <1>11 DEF Positive

LedgerInv ==
  LedgerTypeOK /\ Explained(positions, realized, cash + fees - InitialCash)

LEMMA EquityFromTheBooks ==
  ASSUME LedgerInv
  PROVE  ProfitExplainsEquity
<1> DEFINE money == cash + fees - InitialCash
           held == HeldAtCost(positions)
           taken == Ratio(money, 1)
<1>1. Explained(positions, realized, money) /\ LedgerTypeOK
  BY DEF LedgerInv
<1>2. realized \in Ratios /\ money \in Int
  BY <1>1 DEF Explained
<1> HIDE DEF money
<1>3. PICK D, w, h, it : Balances(positions, realized, money, D, w, h, it)
  BY <1>1 DEF Explained
<1>4. /\ D \in Positive /\ CostedAt(positions, D, w, h) /\ it \in Adds(Tokens, h)
      /\ Worth(realized, D, it[Tokens] + money * D)
  BY <1>3 DEF Balances
<1>5. h \in [Tokens -> Int]
  BY <1>4 DEF CostedAt
<1>6. it[Tokens] \in Int /\ D \in Int /\ money * D \in Int /\ 1 \in Positive
      /\ it[Tokens] + money * D \in Int
  BY <1>2, <1>4, <1>5, TotalIsCounted DEF Positive
<1>7. held \in Ratios /\ Worth(held, D, it[Tokens])
  BY <1>4, AmountsAssumption, HeldAtCostWorth
<1>8. taken \in Ratios /\ Worth(taken, D, money * D)
  <2>1. money * D = (money * D) * 1
    BY <1>6
  <2> QED BY <1>2, <1>4, <1>6, <2>1, IsRatio, WorthOfRatio
<1> HIDE DEF held, taken
<1>9. Plus(held, taken) \in Ratios /\ Worth(Plus(held, taken), D, it[Tokens] + money * D)
  BY <1>4, <1>6, <1>7, <1>8, WorthOfPlus
<1>10. Plus(held, taken) = realized
  BY <1>2, <1>4, <1>6, <1>9, SameWorth
<1> QED BY <1>1, <1>10 DEF ProfitExplainsEquity, held, taken, money, HeldAtCost

LEMMA BooksStartBalanced == LedgerInit => LedgerInv
<1> SUFFICES ASSUME LedgerInit PROVE LedgerInv
  OBVIOUS
<1>1. cash + fees - InitialCash = 0 /\ cash \in Int /\ fees \in Nat /\ fills \in 0..MaxFills
  BY AmountsAssumption DEF LedgerInit
<1>2. Explained(positions, realized, 0)
  BY ExplainedFromTheStart DEF LedgerInit
<1>3. LedgerTypeOK
  BY <1>1 DEF LedgerInit, LedgerTypeOK, Flat
<1> QED BY <1>1, <1>2, <1>3 DEF LedgerInv

LEMMA SharesAreCounted ==
  \A held, gained, money : Explained(held, gained, money) =>
    \A t \in Tokens : held[t].shares \in Int
BY DEF Explained, Held

LEMMA FillKeepsTheBooks ==
  ASSUME LedgerInv, NEW t \in Tokens, NEW side \in Sides, NEW fee \in Fees,
         NEW fill \in FillsOf[side], ApplyFill(t, side, fill, fee)
  PROVE  LedgerInv'
<1> DEFINE paid == Signed(side, fill.notional)
           money == cash + fees - InitialCash
<1>1. fill.size \in Positive /\ fill.notional \in Int
  BY FillsAreCounted
<1>2. fee \in Nat /\ InitialCash \in Int /\ MaxFills \in Nat
  BY OrdersAssumption, AmountsAssumption
<1>3. paid \in Int
  BY <1>1 DEF Signed
<1>4. /\ cash \in Int /\ fees \in Nat /\ fills \in 0..MaxFills /\ settled \subseteq Conditions
      /\ Explained(positions, realized, money)
  BY DEF LedgerInv, LedgerTypeOK
<1>5. /\ cash' = cash - paid - fee /\ fees' = fees + fee
      /\ fills < MaxFills /\ fills' = fills + 1 /\ settled' = settled
  BY DEF ApplyFill
<1> HIDE DEF paid
<1>6. cash' + fees' - InitialCash = money - paid /\ cash' \in Int /\ fees' \in Nat
  BY <1>2, <1>3, <1>4, <1>5
<1>7. fills' \in 0..MaxFills
  BY <1>2, <1>4, <1>5
<1>8. Explained(positions', realized', money - paid)
  <2> DEFINE n == fill.notional
             z == fill.size
  <2>1. n \in Int /\ z \in Positive
    BY <1>1
  <2>2. /\ realized' = Plus(realized, RealizedBy(positions[t], side, z, Ratio(n, z)))
        /\ positions' = [positions EXCEPT ![t] = AfterFill(@, side, z, Ratio(n, z))]
    BY DEF ApplyFill, AveragePrice
  <2>3. paid = Signed(side, n)
    BY DEF paid
  <2> HIDE DEF n, z, money
  <2>4. Explained([positions EXCEPT ![t] = AfterFill(@, side, z, Ratio(n, z))],
                  Plus(realized, RealizedBy(positions[t], side, z, Ratio(n, z))),
                  money - Signed(side, n))
    BY <1>4, <2>1, FillIsExplained
  <2> QED BY <2>2, <2>3, <2>4
<1>9. \A u \in Tokens : positions'[u].shares \in Int
  BY <1>8, SharesAreCounted
<1>10. LedgerTypeOK'
  BY <1>4, <1>5, <1>6, <1>7, <1>9 DEF LedgerTypeOK
<1>11. Explained(positions', realized', cash' + fees' - InitialCash)
  BY <1>6, <1>8
<1> QED BY <1>10, <1>11 DEF LedgerInv

LEMMA SettlementKeepsTheBooks ==
  ASSUME LedgerInv, NEW condition \in Conditions, NEW winner, SettleMarket(condition, winner)
  PROVE  LedgerInv'
<1> DEFINE open == {t \in TokensOf(condition) : positions[t] # Flat}
           money == cash + fees - InitialCash
           took == Receipts(positions, winner, open)
<1>1. /\ cash \in Int /\ fees \in Nat /\ fills \in 0..MaxFills /\ settled \subseteq Conditions
      /\ Explained(positions, realized, money) /\ money \in Int /\ InitialCash \in Int
  BY AmountsAssumption DEF LedgerInv, LedgerTypeOK
<1>2. open \in SUBSET Tokens
  BY DEF TokensOf
<1>3. /\ cash' = took + cash /\ fees' = fees /\ fills' = fills
      /\ settled' = settled \union {condition}
      /\ realized' = ResolvedProfit(positions, winner, realized, open)
      /\ positions' = [t \in Tokens |-> IF ConditionOf[t] = condition THEN Flat
                                        ELSE positions[t]]
  BY DEF SettleMarket, Receipts, ResolvedProfit
<1>4. positions' = [t \in Tokens |-> IF t \in open THEN Flat ELSE positions[t]]
  <2>1. \A t \in Tokens : (IF ConditionOf[t] = condition THEN Flat ELSE positions[t])
                            = (IF t \in open THEN Flat ELSE positions[t])
    BY DEF TokensOf
  <2> HIDE DEF open
  <2> QED BY <1>3, <2>1
<1> HIDE DEF open, took
<1>5. Explained(positions', realized', money + took)
  <2> HIDE DEF money
  <2>1. Explained([t \in Tokens |-> IF t \in open THEN Flat ELSE positions[t]],
                  ResolvedProfit(positions, winner, realized, open),
                  money + Receipts(positions, winner, open))
    BY <1>1, <1>2, AmountsAssumption, SettlementIsExplained
  <2> QED BY <1>3, <1>4, <2>1 DEF took
<1>6. took \in Int
  <2>1. money + took \in Int /\ positions \in [Tokens -> Held]
    BY <1>1, <1>5 DEF Explained
  <2> DEFINE pay == [t \in Tokens |-> positions[t].shares * PayoutFor(t, winner)]
  <2>2. pay \in [Tokens -> Int] /\ PaidBy(positions, winner, pay)
    <3>1. \A t : PayoutFor(t, winner) \in Int
      BY OneAssumption DEF PayoutFor
    <3>2. \A t \in Tokens : positions[t].shares \in Int
      BY <2>1 DEF Held
    <3>3. pay \in [Tokens -> Int]
      BY <3>1, <3>2
    <3>4. \A t \in Tokens : pay[t] = positions[t].shares * PayoutFor(t, winner)
      OBVIOUS
    <3> HIDE DEF pay
    <3> QED BY <3>3, <3>4 DEF PaidBy
  <2> HIDE DEF pay
  <2>3. PICK c : c \in Adds(Tokens, pay)
    BY <2>2, AmountsAssumption, AddsExist
  <2>4. took = c[open]
    BY <1>2, <2>2, <2>3, AmountsAssumption, ReceiptsAdd DEF took
  <2> QED BY <1>2, <2>3, <2>4 DEF Adds
<1>7. cash' + fees' - InitialCash = money + took /\ cash' \in Int
  BY <1>1, <1>3, <1>6
<1>8. \A t \in Tokens : positions'[t].shares \in Int
  BY <1>5, SharesAreCounted
<1>9. LedgerTypeOK'
  BY <1>1, <1>3, <1>7, <1>8 DEF LedgerTypeOK
<1>10. Explained(positions', realized', cash' + fees' - InitialCash)
  BY <1>5, <1>7
<1> QED BY <1>9, <1>10 DEF LedgerInv

LEMMA StepKeepsTheBooks == LedgerInv /\ [LedgerNext]_ledgerVars => LedgerInv'
<1> SUFFICES ASSUME LedgerInv, [LedgerNext]_ledgerVars PROVE LedgerInv'
  OBVIOUS
<1>1. CASE Trade
  <2>1. PICK t \in Tokens, side \in Sides, fee \in Fees :
          \E fill \in FillsOf[side] : ApplyFill(t, side, fill, fee)
    BY <1>1 DEF Trade
  <2> QED BY <2>1, FillKeepsTheBooks
<1>2. CASE Settle
  BY <1>2, SettlementKeepsTheBooks DEF Settle
<1>3. CASE UNCHANGED ledgerVars
  BY <1>3 DEF ledgerVars, LedgerInv, LedgerTypeOK
<1> QED BY <1>1, <1>2, <1>3 DEF LedgerNext

LEMMA BooksBalance == LedgerSpec => []ProfitExplainsEquity
<1>1. LedgerInv => ProfitExplainsEquity
  BY EquityFromTheBooks
<1> QED BY <1>1, BooksStartBalanced, StepKeepsTheBooks, PTL DEF LedgerSpec

(* Whatever fills and settlements the broker makes, in any interleaving of the *)
(* concurrent submissions, the profit it realized is what its cash, the fees   *)
(* it paid and the cost of what it holds add up to (paper/portfolio.py 42-165, *)
(* framework/position_transition.py 21-103).                                   *)
THEOREM MoneyIsConserved == BrokerSpec => []ProfitExplainsEquity
BY BooksBalance, BrokerKeepsTheLedger, PTL

=============================================================================
