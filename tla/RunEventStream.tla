--------------------------- MODULE RunEventStream ---------------------------
(***************************************************************************)
(* The durable events of one run on their way to its viewers.  Writers     *)
(* append rows under the run's row lock (events/writer.py, runs/terminal.py)*)
(* and publish a best-effort wake after the commit.  One API process keeps *)
(* a hub (http/sse/hub.py) whose lane (subscriptions.py) owns a Redis      *)
(* Pub/Sub connection; each viewer (http/sse/__init__.py) replays rows     *)
(* after its cursor, attaches to the hub, and replays again on a wake or   *)
(* when its reconciliation deadline passes.  Live frames are advisory and  *)
(* end with the terminal event.                                            *)
(***************************************************************************)
EXTENDS Integers, Sequences, SequencesExt, FiniteSets

CONSTANTS Viewer,
          PageLimit,    \* MAX_EVENT_PAGE_LIMIT
          MaxEvents,    \* bound on the rows inserted
          MaxFailures   \* bound on lost connections

ASSUME StreamAssumption ==
  /\ PageLimit \in Nat \ {0} /\ MaxEvents \in Nat /\ MaxFailures \in Nat

VARIABLES
  \* PostgreSQL and the writers
  nextId,       \* the identity sequence of run events
  open,         \* inserted rows whose transaction is open
  committed,    \* rows others can read
  unpublished,  \* committed rows whose wake is still to be published
  \* the lane and its connection
  desired,      \* the run's channel is in _desired
  requested,    \* and in requested, local to _serve
  subscribed,   \* and in _subscribed
  commands,     \* written to the socket
  atRedis,      \* the subscription Redis holds
  wire,         \* replies and messages on their way back
  \* the hub and its viewers
  attached,     \* _viewers[run]
  terminal,     \* the run is in _terminal
  pc, cursor, page, more,
  wake, live,   \* the mailbox of each viewer
  failures,
  \* history
  start,        \* the cursor a viewer came with
  sent,         \* ids of the durable frames sent to it
  final,        \* viewers attached when a viewer was sent the terminal event
  outdated      \* those among them that were sent a live frame later

dbVars == <<nextId, open, committed, unpublished>>
laneVars == <<requested, subscribed, commands, atRedis, wire>>
hubVars == <<desired, attached, terminal>>
mailVars == <<wake, live>>
viewerVars == <<pc, cursor, page, more>>
historyVars == <<start, sent, final, outdated>>
vars == <<dbVars, laneVars, hubVars, mailVars, viewerVars, failures, historyVars>>

Ids == 1..MaxEvents
IdsOf(rows) == {e.id : e \in rows}
After(c) == {e \in committed : e.id > c}

\* The rows in the order of their ids, without a gap, as far as the page reaches.
IsPage(next, rows) ==
  /\ \A i, j \in DOMAIN next : i < j => next[i].id < next[j].id
  /\ \A e \in rows :
       (\A i \in DOMAIN next : next[i] # e)
         => Len(next) = PageLimit /\ next[PageLimit].id < e.id

Init ==
  /\ nextId = 1 /\ open = {} /\ committed = {} /\ unpublished = {}
  /\ desired = FALSE /\ requested = FALSE /\ subscribed = FALSE
  /\ commands = <<>> /\ atRedis = FALSE /\ wire = <<>>
  /\ attached = {} /\ terminal = FALSE
  /\ pc = [v \in Viewer |-> "away"]
  /\ cursor = [v \in Viewer |-> 0]
  /\ page = [v \in Viewer |-> <<>>]
  /\ more = [v \in Viewer |-> FALSE]
  /\ wake = [v \in Viewer |-> FALSE] /\ live = [v \in Viewer |-> FALSE]
  /\ failures = 0
  /\ start = cursor
  /\ sent = page
  /\ final = {} /\ outdated = {}

-----------------------------------------------------------------------------
(* Writers *)

Closed == \E e \in committed : e.terminal

\* Mutant: the row of the run is not locked before the event is inserted.
InsertEvent_Unlocked(isTerminal) ==
  /\ ~Closed
  /\ nextId <= MaxEvents
  /\ open' = open \union {[id |-> nextId, terminal |-> isTerminal]}
  /\ nextId' = nextId + 1
  /\ UNCHANGED <<committed, unpublished, laneVars, hubVars, mailVars, viewerVars,
                 failures, historyVars>>

\* The writer holds the row lock of the run, and the run has not ended.
InsertEvent(isTerminal) ==
  /\ open = {}
  /\ ~Closed
  /\ nextId <= MaxEvents
  /\ open' = {[id |-> nextId, terminal |-> isTerminal]}
  /\ nextId' = nextId + 1
  /\ UNCHANGED <<committed, unpublished, laneVars, hubVars, mailVars, viewerVars,
                 failures, historyVars>>

Commit(e) ==
  /\ e \in open
  /\ open' = open \ {e}
  /\ committed' = committed \union {e}
  /\ unpublished' = unpublished \union {e.id}
  /\ UNCHANGED <<nextId, laneVars, hubVars, mailVars, viewerVars, failures, historyVars>>

\* The id of an aborted transaction is never used again.
Rollback(e) ==
  /\ e \in open
  /\ open' = open \ {e}
  /\ UNCHANGED <<nextId, committed, unpublished, laneVars, hubVars, mailVars,
                 viewerVars, failures, historyVars>>

\* Redis keeps nothing for those who are not subscribed; a wake may be lost.
PublishWake(id) ==
  /\ id \in unpublished
  /\ unpublished' = unpublished \ {id}
  /\ \/ atRedis /\ wire' = Append(wire, "wake")
     \/ UNCHANGED wire
  /\ UNCHANGED <<nextId, open, committed, requested, subscribed, commands, atRedis,
                 hubVars, mailVars, viewerVars, failures, historyVars>>

-----------------------------------------------------------------------------
(* SubscriptionLane *)

\* Membership is reconciled after a change; a process that watches other runs
\* unsubscribes from a run it does not watch any more.
WriteCommand ==
  /\ requested # desired
  /\ commands' = Append(commands, IF desired THEN "subscribe" ELSE "unsubscribe")
  /\ requested' = desired
  /\ UNCHANGED <<dbVars, subscribed, atRedis, wire, hubVars, mailVars, viewerVars,
                 failures, historyVars>>

RedisApplies ==
  /\ commands # <<>>
  /\ commands' = Tail(commands)
  /\ atRedis' = (Head(commands) = "subscribe")
  /\ wire' = Append(wire, Head(commands))
  /\ UNCHANGED <<dbVars, requested, subscribed, hubVars, mailVars, viewerVars,
                 failures, historyVars>>

\* _message: acknowledgements move _subscribed, wakes go to every viewer.
ReadReply ==
  /\ wire # <<>>
  /\ wire' = Tail(wire)
  /\ \/ /\ Head(wire) = "wake"
        /\ wake' = [v \in Viewer |-> wake[v] \/ v \in attached]
        /\ UNCHANGED subscribed
     \/ /\ Head(wire) # "wake"
        /\ subscribed' = (Head(wire) = "subscribe")
        /\ UNCHANGED wake
  /\ UNCHANGED <<dbVars, requested, commands, atRedis, hubVars, live, viewerVars,
                 failures, historyVars>>

Disconnect ==
  /\ subscribed' = FALSE /\ atRedis' = FALSE
  /\ commands' = <<>> /\ wire' = <<>>

\* A process that watches no run any more closes its connection.
LaneIdles ==
  /\ ~desired
  /\ requested
  /\ requested' = FALSE
  /\ Disconnect
  /\ UNCHANGED <<dbVars, hubVars, mailVars, viewerVars, failures, historyVars>>

\* Mutant: the next connection does not ask for the channels again.
LaneFails_KeepsRequested ==
  /\ failures < MaxFailures
  /\ failures' = failures + 1
  /\ Disconnect
  /\ wake' = [v \in Viewer |-> wake[v] \/ v \in attached]
  /\ UNCHANGED <<dbVars, requested, hubVars, live, viewerVars, historyVars>>

\* The connection fails: every viewer is woken, the lane starts over.
LaneFails ==
  /\ failures < MaxFailures
  /\ failures' = failures + 1
  /\ requested' = FALSE
  /\ Disconnect
  /\ wake' = [v \in Viewer |-> wake[v] \/ v \in attached]
  /\ UNCHANGED <<dbVars, hubVars, live, viewerVars, historyVars>>

-----------------------------------------------------------------------------
(* RunEventStreamer: a viewer, its replay and its mailbox *)

Goto(v, point) == pc' = [pc EXCEPT ![v] = point]

\* The cursor is 0, the last id of an earlier stream, or that of a history page.
Connect(v, c) ==
  /\ pc[v] = "away"
  /\ c \in {0} \union IdsOf(committed)
  /\ start' = [start EXCEPT ![v] = c]
  /\ cursor' = [cursor EXCEPT ![v] = c]
  /\ Goto(v, "read")
  /\ UNCHANGED <<dbVars, laneVars, hubVars, mailVars, page, more, failures,
                 sent, final, outdated>>

Replayed(v) == IF v \in attached THEN "waiting" ELSE "attach"

\* read_deliveries: the next page after the cursor
ReadPage(v) ==
  /\ pc[v] = "read"
  /\ \E next \in BoundedSeq(After(cursor[v]), PageLimit) :
       /\ IsPage(next, After(cursor[v]))
       /\ page' = [page EXCEPT ![v] = next]
       /\ more' = [more EXCEPT ![v] = Len(next) = PageLimit]
       /\ Goto(v, IF next = <<>> THEN Replayed(v) ELSE "send")
  /\ UNCHANGED <<dbVars, laneVars, hubVars, mailVars, cursor, failures, historyVars>>

\* LiveSubscriptionHub.terminal: live state ends for every viewer of the run.
AnnounceTerminal ==
  /\ terminal' = (attached # {})
  /\ wake' = [v \in Viewer |-> wake[v] \/ v \in attached]
  /\ live' = [v \in Viewer |-> live[v] /\ v \notin attached]

\* A row is sent; the terminal one ends the stream.
SendDurable(v) ==
  LET e == Head(page[v])
      rest == Tail(page[v])
  IN /\ pc[v] = "send"
     /\ cursor' = [cursor EXCEPT ![v] = e.id]
     /\ sent' = [sent EXCEPT ![v] = Append(@, e.id)]
     /\ page' = [page EXCEPT ![v] = rest]
     /\ \/ /\ e.terminal
           /\ AnnounceTerminal
           /\ final' = final \union attached
           /\ Goto(v, "leaving")
        \/ /\ ~e.terminal
           /\ Goto(v, IF rest # <<>> THEN "send"
                      ELSE IF more[v] THEN "read" ELSE Replayed(v))
           /\ UNCHANGED <<terminal, wake, live, final>>
     /\ UNCHANGED <<dbVars, laneVars, desired, attached, more, failures, start, outdated>>

\* The session was revoked: the hub learns of the terminal event all the same.
WithholdTerminal(v) ==
  /\ pc[v] = "send"
  /\ Head(page[v]).terminal
  /\ AnnounceTerminal
  /\ Goto(v, "leaving")
  /\ UNCHANGED <<dbVars, laneVars, desired, attached, cursor, page, more, failures,
                 historyVars>>

\* hub.attach up to its wait for the lane
Attach(v) ==
  /\ pc[v] = "attach"
  /\ attached' = attached \union {v}
  /\ desired' = TRUE
  /\ wake' = [wake EXCEPT ![v] = terminal]
  /\ live' = [live EXCEPT ![v] = FALSE]
  /\ Goto(v, "attaching")
  /\ UNCHANGED <<dbVars, laneVars, terminal, cursor, page, more, failures, historyVars>>

Move(v, from, to) ==
  /\ pc[v] = from
  /\ Goto(v, to)
  /\ UNCHANGED <<dbVars, laneVars, hubVars, mailVars, cursor, page, more, failures,
                 historyVars>>

\* lane.ready returns: the channel is in _subscribed.
LaneReady(v) == subscribed /\ Move(v, "attaching", "joining")

\* The live lane is ready too, or the run is known to have ended; the rows are
\* read again before the first wait.
JoinLive(v) == Move(v, "joining", "read")

\* mailbox.next: a wake comes before the live frame of the same turn.
TakeMail(v) ==
  /\ pc[v] = "waiting"
  /\ wake[v] \/ live[v]
  /\ Goto(v, IF wake[v] THEN "read" ELSE "show")
  /\ wake' = [wake EXCEPT ![v] = FALSE]
  /\ live' = [live EXCEPT ![v] = FALSE]
  /\ UNCHANGED <<dbVars, laneVars, hubVars, cursor, page, more, failures, historyVars>>

\* The reconciliation deadline has passed.
Reconcile(v) == Move(v, "waiting", "read")

OfferLive ==
  /\ ~terminal
  /\ attached # {}
  /\ live' = [v \in Viewer |-> live[v] \/ v \in attached]
  /\ UNCHANGED <<dbVars, laneVars, hubVars, wake, viewerVars, failures, historyVars>>

\* A frame taken from the mailbox is yielded or dropped.
Show(v, yielded) ==
  /\ pc[v] = "show"
  /\ outdated' = IF v \in final /\ yielded THEN outdated \union {v} ELSE outdated
  /\ Goto(v, "waiting")
  /\ UNCHANGED <<dbVars, laneVars, hubVars, mailVars, cursor, page, more, failures,
                 start, sent, final>>

\* Mutant: the run is not looked at again after the authorization of the frame.
ShowLive_Unchecked(v) == Show(v, TRUE)

\* While the frame was authorized another viewer may have ended the run.
ShowLive(v) == Show(v, ~terminal)

\* detach by the last viewer
Forget == desired' = FALSE /\ terminal' = FALSE

\* The stream ends: terminal event, disconnect, revoked session, timeout of a
\* send or of attach, failed query.
Leave(v) ==
  /\ pc[v] \notin {"away", "gone"}
  /\ Goto(v, "gone")
  /\ attached' = attached \ {v}
  /\ \/ attached = {v} /\ Forget
     \/ attached # {v} /\ UNCHANGED <<terminal, desired>>
  /\ wake' = [wake EXCEPT ![v] = FALSE]
  /\ live' = [live EXCEPT ![v] = FALSE]
  /\ page' = [page EXCEPT ![v] = <<>>]
  /\ UNCHANGED <<dbVars, laneVars, cursor, more, failures, historyVars>>

-----------------------------------------------------------------------------
Writers ==
  \/ \E isTerminal \in BOOLEAN : InsertEvent(isTerminal)
  \/ \E e \in open : Commit(e) \/ Rollback(e)
  \/ \E id \in unpublished : PublishWake(id)

Lane == WriteCommand \/ RedisApplies \/ ReadReply

Serve(v) ==
  \/ ReadPage(v) \/ SendDurable(v) \/ Attach(v)
  \/ LaneReady(v) \/ JoinLive(v)
  \/ TakeMail(v) \/ ShowLive(v)

Next ==
  \/ Writers
  \/ Lane \/ LaneIdles \/ LaneFails
  \/ OfferLive
  \/ \E v \in Viewer : \/ \E c \in 0..MaxEvents : Connect(v, c)
                       \/ Serve(v) \/ Reconcile(v)
                       \/ WithholdTerminal(v) \/ Leave(v)

Spec == Init /\ [][Next]_vars

-----------------------------------------------------------------------------
Points == {"away", "read", "send", "attach", "attaching", "joining", "waiting", "show",
           "leaving", "gone"}

TypeOK ==
  /\ open \subseteq [id : Ids, terminal : BOOLEAN]
  /\ committed \subseteq [id : Ids, terminal : BOOLEAN]
  /\ unpublished \subseteq Ids
  /\ desired \in BOOLEAN /\ requested \in BOOLEAN /\ subscribed \in BOOLEAN
  /\ atRedis \in BOOLEAN
  /\ attached \subseteq Viewer /\ pc \in [Viewer -> Points]
  /\ terminal => attached # {}
  /\ cursor \in [Viewer -> 0..MaxEvents]
  /\ \A v \in Viewer : pc[v] = "send" => page[v] # <<>>
  /\ wake \in [Viewer -> BOOLEAN] /\ live \in [Viewer -> BOOLEAN]

\* A stream sends the committed events after its cursor in the order of their
\* ids, each once and none skipped, although rows commit while pages are read:
\* the row lock makes a run's ids commit in order (runs/lease.py 22-32,
\* events/store.py read_deliveries).
SentIsTheLog ==
  \A v \in Viewer :
    /\ \A i, j \in DOMAIN sent[v] : i < j => sent[v][i] < sent[v][j]
    /\ {sent[v][i] : i \in DOMAIN sent[v]}
         = {id \in IdsOf(committed) : start[v] < id /\ id <= cursor[v]}

\* The hub holds the run's channel exactly while the run has viewers, failed and
\* cancelled attachments included (hub.py attach, detach).
ChannelFollowsViewers == desired <=> attached # {}

\* What the lane has asked for last is what the replies still to come will leave it
\* with, and _subscribed already is when none is to come: a viewer that attaches
\* never waits for a subscription nobody requests, whatever the connection goes
\* through, and a subscription outlives no request (subscriptions.py 83-130).
LaneInStep ==
  LET inFlight == wire \o commands
      replies == {i \in DOMAIN inFlight : inFlight[i] # "wake"}
  IN \/ replies = {} /\ (requested <=> subscribed)
     \/ \E i \in replies : /\ \A j \in replies : j <= i
                           /\ requested <=> inFlight[i] = "subscribe"

HubConsistent == TypeOK /\ ChannelFollowsViewers /\ LaneInStep

\* No viewer is shown a live frame after a viewer beside it was sent the terminal
\* event, not even one it had taken from its mailbox before (__init__.py 44-53).
TerminalIsFinal == outdated = {}

=============================================================================
