------------------------------- MODULE Events -------------------------------
(***************************************************************************)
(* The events of SynchronizedClient (src/src/lifecycle.rs): a broadcast    *)
(* channel of bounded capacity next to the state and snapshot watches, and *)
(* subscribers who join and receive at their own pace.  The task stores a  *)
(* value in a watch and then sends the event: a subscriber on another      *)
(* thread can run between the two.                                         *)
(*                                                                         *)
(* The task appears by what it publishes, and when; Lifecycle.tla has the  *)
(* rest of it.  Snapshots are numbers in the order they were read, 0 for   *)
(* none; only how many events are unread matters to a subscriber, never a  *)
(* position in the channel.  The channel is tokio's, modelled from its use *)
(* in recv: it keeps the last EventCapacity events for everybody.          *)
(***************************************************************************)
EXTENDS Naturals, Sequences

CONSTANTS
  Subscribers,    \* subscriptions, each made at most once
  EventCapacity,  \* EVENT_CAPACITY, the bound of the broadcast channel
  MaxSnapshots    \* bound: the snapshots the task publishes

ASSUME EventsAssumption ==
  EventCapacity \in Nat \ {0} /\ MaxSnapshots \in Nat \ {0}

VARIABLES
  \* the task
  at,        \* where run() is
  attempt,   \* whether attempts have failed since the last session
  outbox,    \* the event to send next, its watch already set: at most one
  writable,  \* compatibility().writes_allowed() of the connection
  \* shared
  state,     \* the state watch
  snapshot,  \* the snapshot watch
  ring,      \* the events the channel still holds, oldest first
  shutdown,  \* the shutdown watch
  client,    \* whether any clone of the client, a sender of events, is held
  \* the subscribers
  sub,       \* what each does
  unread,    \* how many events were sent since it last received one
  seen,      \* history: the snapshot, the state and the end it knows
  lagged     \* history: it was told that it lagged

taskVars == <<at, attempt, outbox, writable>>
sharedVars == <<state, snapshot, ring, shutdown, client>>
subVars  == <<sub, unread, seen, lagged>>
vars     == <<taskVars, sharedVars, subVars>>

Connected == {"Ready", "ReadOnlyUnknownRevision"}
States == Connected \union {"Disconnected", "Connecting", "Synchronizing",
                            "Reconnecting", "Shutdown"}

StateChanged(s) == [kind |-> "StateChanged", state |-> s]
Read(kind, n)   == [kind |-> kind, snapshot |-> n]
ShutdownEvent   == [kind |-> "Shutdown"]

SnapshotKinds == {"Snapshot", "Resynchronized"}
Event == [kind : {"StateChanged"}, state : States]
         \union [kind : SnapshotKinds, snapshot : 1..MaxSnapshots]
         \union [kind : {"Shutdown"}]

Points == {"top", "connecting", "backoff", "syncing", "published", "select",
           "notified", "ending", "stopping", "done"}

\* Unread events beyond the capacity are lost, however many they are.
Unread == 0..(EventCapacity + 1)

\* snapshot, state: the latest it knows.  current: a snapshot came after the last
\* Synchronizing.  first: whether the event Snapshot came, as the first of all.
Seen == [snapshot : 0..MaxSnapshots, state : States, current : BOOLEAN,
         first : {"none", "late", "Snapshot", "wrong"},
         end : {"none", "Shutdown", "Closed"}]

TypeOK ==
  /\ at \in Points
  /\ attempt \in BOOLEAN
  /\ outbox \in Seq(Event) /\ Len(outbox) <= 1
  /\ writable \in BOOLEAN
  /\ state \in States
  /\ snapshot \in 0..MaxSnapshots
  /\ ring \in Seq(Event) /\ Len(ring) <= EventCapacity
  /\ shutdown \in BOOLEAN
  /\ client \in {"held", "dropped"}
  /\ sub \in [Subscribers -> {"none", "receiving", "lagging", "over"}]
  /\ unread \in [Subscribers -> Unread]
  /\ seen \in [Subscribers -> Seen]
  /\ lagged \in [Subscribers -> BOOLEAN]

\* spawn: channels and watches are there before the task is.
Init ==
  /\ at = "top" /\ attempt = FALSE /\ outbox = <<>> /\ writable = FALSE
  /\ state = "Disconnected" /\ snapshot = 0 /\ ring = <<>>
  /\ shutdown = FALSE /\ client = "held"
  /\ sub = [u \in Subscribers |-> "none"]
  /\ unread = [u \in Subscribers |-> 0]
  /\ seen = [u \in Subscribers |-> [snapshot |-> 0, state |-> "Disconnected",
                                    current |-> TRUE, first |-> "none", end |-> "none"]]
  /\ lagged = [u \in Subscribers |-> FALSE]

------------------------------------------------------------------------------
(* The task.                                                               *)

Subscribed(u) == sub[u] \in {"receiving", "lagging"}

MutantKeep(events) == events   \* nothing is ever forgotten

\* The oldest event is forgotten when the ring is full.
Keep(events) ==
  IF Len(events) > EventCapacity THEN Tail(events) ELSE events

\* events.send: without a subscriber it keeps nothing.
Send ==
  /\ outbox # <<>> /\ outbox' = <<>>
  /\ ring' = IF \E u \in Subscribers : Subscribed(u)
             THEN Keep(Append(ring, Head(outbox))) ELSE <<>>
  /\ unread' = [u \in Subscribers |->
                  IF Subscribed(u) /\ unread[u] <= EventCapacity
                  THEN unread[u] + 1 ELSE unread[u]]
  /\ UNCHANGED <<at, attempt, writable, state, snapshot, shutdown, client, sub, seen, lagged>>

\* The task goes on when its event is out.
Go(from, to) ==
  /\ at \in from /\ outbox = <<>> /\ at' = to
  /\ UNCHANGED <<ring, shutdown, client, subVars>>

Silently(from, to) == Go(from, to) /\ UNCHANGED <<attempt, outbox, writable, state, snapshot>>

\* The watch alone.
MutantTransition(s) ==
  /\ state' = s
  /\ outbox' = <<>>

\* transition: the watch, then the event.
transition(s) ==
  /\ state' = s
  /\ outbox' = <<StateChanged(s)>>

Announce(from, to, s) ==
  Go(from, to) /\ transition(s) /\ UNCHANGED <<attempt, writable, snapshot>>

LoopHead ==
  \/ ~shutdown /\ Announce({"top"}, "connecting", IF attempt THEN "Reconnecting" ELSE "Connecting")
  \/ shutdown /\ Announce({"top"}, "ending", "Shutdown")

ConnectFails == Silently({"connecting"}, "backoff")

BackoffElapses ==
  /\ Go({"backoff"}, "top")
  /\ attempt' = TRUE
  /\ UNCHANGED <<outbox, writable, state, snapshot>>

BackoffShutdown ==
  (shutdown \/ client = "dropped") /\ Announce({"backoff"}, "ending", "Shutdown")

ConnectSucceeds ==
  /\ Go({"connecting"}, "syncing")
  /\ writable' \in BOOLEAN
  /\ transition("Synchronizing")
  /\ UNCHANGED <<attempt, snapshot>>

\* Every snapshot of a new connection is announced as the first.
MutantKind == IF at = "syncing" THEN "Snapshot" ELSE "Resynchronized"

\* publish_snapshot: the first snapshot ever is a Snapshot, all others resynchronize.
Kind == IF snapshot = 0 THEN "Snapshot" ELSE "Resynchronized"

\* The event overtakes the watch.
MutantPublish(kind) ==
  /\ snapshot < MaxSnapshots
  /\ snapshot' = IF snapshot = 0 THEN 1 ELSE snapshot
  /\ outbox' = <<Read(kind, snapshot + 1)>>

\* The watch, then the event.
Publish(kind) ==
  /\ snapshot < MaxSnapshots
  /\ snapshot' = snapshot + 1
  /\ outbox' = <<Read(kind, snapshot + 1)>>

\* A notification is answered by the state alone.
MutantSnapshotArrives ==
  \/ Go({"syncing"}, "published") /\ Publish(Kind) /\ UNCHANGED <<attempt, writable, state>>
  \/ Silently({"notified"}, "published")

\* The snapshot after a connect or a notification.
SnapshotArrives ==
  /\ Go({"syncing", "notified"}, "published")
  /\ Publish(Kind)
  /\ UNCHANGED <<attempt, writable, state>>

BecomeReady ==
  /\ Go({"published"}, "select")
  /\ transition(IF writable THEN "Ready" ELSE "ReadOnlyUnknownRevision")
  /\ attempt' = FALSE
  /\ UNCHANGED <<writable, snapshot>>

FirstSnapshotFails == Silently({"syncing"}, "top")

Notified == Announce({"select"}, "notified", "Synchronizing")

\* resnapshot_client: a command ends with a snapshot, the state does not change.
Resnapshot ==
  /\ Go({"select"}, "select")
  /\ Publish("Resynchronized")
  /\ UNCHANGED <<attempt, writable, state>>

LoseConnection == Announce({"select", "notified"}, "top", "Reconnecting")

\* The last event goes out before the state.
MutantSelectShutdown ==
  /\ shutdown \/ client = "dropped"
  /\ Go({"select"}, "ending")
  /\ outbox' = <<ShutdownEvent>>
  /\ UNCHANGED <<attempt, writable, state, snapshot>>

SelectShutdown ==
  (shutdown \/ client = "dropped") /\ Announce({"select"}, "ending", "Shutdown")

\* The last event is left out.
MutantAnnounceEnd == Silently({"ending"}, "done")

\* Event::Shutdown, the last one; run() returns.
AnnounceEnd ==
  /\ Go({"ending"}, "stopping")
  /\ outbox' = <<ShutdownEvent>>
  /\ UNCHANGED <<attempt, writable, state, snapshot>>

Return == Silently({"stopping"}, "done")

\* commands.recv() is None: the task returns without another word.
ExitWithoutClient == client = "dropped" /\ Silently({"select"}, "done")

------------------------------------------------------------------------------
(* The clients.                                                            *)

\* The first event of a snapshot is still to be sent.
FirstToCome == snapshot = 0 \/ (outbox # <<>> /\ outbox[1].kind = "Snapshot")

\* subscribe: a receiver of the events from here on, and one of the snapshot watch.
\* The history takes what state() and snapshot() say at this moment as known.
Subscribe(u) ==
  /\ client = "held" /\ sub[u] = "none"
  /\ sub' = [sub EXCEPT ![u] = "receiving"]
  /\ seen' = [seen EXCEPT ![u].snapshot = snapshot, ![u].state = state,
                          ![u].first = IF FirstToCome THEN "none" ELSE "late"]
  /\ UNCHANGED <<taskVars, sharedVars, unread, lagged>>

SignalShutdown ==
  /\ client = "held" /\ ~shutdown
  /\ shutdown' = TRUE
  /\ UNCHANGED <<taskVars, state, snapshot, ring, client, subVars>>

DropClient ==
  /\ client = "held"
  /\ client' = "dropped"
  /\ UNCHANGED <<taskVars, state, snapshot, ring, shutdown, subVars>>

\* What a subscriber that knows s knows after event e.
Learn(s, e) ==
  CASE e.kind = "StateChanged" ->
         [s EXCEPT !.state = e.state, !.current = @ /\ e.state # "Synchronizing"]
    [] e.kind = "Snapshot" ->
         [s EXCEPT !.snapshot = e.snapshot, !.current = TRUE,
                   !.first = IF @ = "none" THEN "Snapshot" ELSE "wrong"]
    [] e.kind = "Resynchronized" ->
         [s EXCEPT !.snapshot = e.snapshot, !.current = TRUE,
                   !.first = IF @ = "none" THEN "wrong" ELSE @]
    [] e.kind = "Shutdown" -> [s EXCEPT !.end = "Shutdown"]

\* recv: the oldest unread event that the channel holds.
ReceiveEvent(u) ==
  /\ sub[u] = "receiving" /\ unread[u] \in 1..EventCapacity
  /\ seen' = [seen EXCEPT ![u] = Learn(@, ring[Len(ring) - unread[u] + 1])]
  /\ unread' = [unread EXCEPT ![u] = @ - 1]
  /\ UNCHANGED <<taskVars, sharedVars, sub, lagged>>

\* recv: Lagged.  The receiver is moved to the oldest event that is left.
ReceiveLagged(u) ==
  /\ sub[u] = "receiving" /\ unread[u] = EventCapacity + 1
  /\ sub' = [sub EXCEPT ![u] = "lagging"]
  /\ unread' = [unread EXCEPT ![u] = EventCapacity]
  /\ lagged' = [lagged EXCEPT ![u] = TRUE]
  /\ UNCHANGED <<taskVars, sharedVars, seen>>

\* A subscriber that lags is not told what it missed.
MutantResynchronize(u) ==
  /\ sub[u] = "lagging"
  /\ sub' = [sub EXCEPT ![u] = "receiving"]
  /\ UNCHANGED <<taskVars, sharedVars, unread, seen, lagged>>

\* recv: LaggedAndResynchronized with what the watch holds, or an error if that is
\* nothing; the subscriber can go on in both cases.
Resynchronize(u) ==
  /\ sub[u] = "lagging"
  /\ sub' = [sub EXCEPT ![u] = "receiving"]
  /\ seen' = IF snapshot = 0 THEN seen
             ELSE [seen EXCEPT ![u].snapshot = snapshot, ![u].current = TRUE]
  /\ UNCHANGED <<taskVars, sharedVars, unread, lagged>>

\* recv: Closed, when the task and every client are gone and nothing is unread.
ReceiveClosed(u) ==
  /\ sub[u] = "receiving" /\ unread[u] = 0
  /\ at = "done" /\ client = "dropped"
  /\ sub' = [sub EXCEPT ![u] = "over"]
  /\ seen' = [seen EXCEPT ![u].end = IF @ = "none" THEN "Closed" ELSE @]
  /\ UNCHANGED <<taskVars, sharedVars, unread, lagged>>

Receive(u) == ReceiveEvent(u) \/ ReceiveLagged(u) \/ Resynchronize(u) \/ ReceiveClosed(u)

------------------------------------------------------------------------------
Task ==
  \/ Send
  \/ LoopHead \/ ConnectFails \/ BackoffElapses \/ BackoffShutdown \/ ConnectSucceeds
  \/ SnapshotArrives \/ BecomeReady \/ FirstSnapshotFails
  \/ Notified \/ Resnapshot \/ LoseConnection
  \/ SelectShutdown \/ AnnounceEnd \/ Return \/ ExitWithoutClient

\* The task and the clients are gone, and every subscriber knows.
Ended ==
  /\ at = "done" /\ client = "dropped"
  /\ \A u \in Subscribers : sub[u] \in {"none", "over"}
  /\ UNCHANGED vars

Next ==
  \/ Task
  \/ \E u \in Subscribers : Subscribe(u) \/ Receive(u)
  \/ SignalShutdown \/ DropClient
  \/ Ended

Spec == Init /\ [][Next]_vars

\* The task runs, and a subscriber calls recv in a loop.
FairSpec == Spec /\ WF_vars(Task) /\ \A u \in Subscribers : WF_vars(Receive(u))

------------------------------------------------------------------------------
(* What the events promise.                                                *)

\* An event never runs ahead of the watch: who receives it finds that snapshot, or
\* a later one, in snapshot().
NeverAhead == \A u \in Subscribers : seen[u].snapshot <= snapshot

\* A subscriber with nothing left to receive is up to date: with the latest snapshot,
\* however far it lagged, and with the state, if it never lagged.  (A state that is
\* lost to a lag is not told again.)
CaughtUp ==
  \A u \in Subscribers :
    sub[u] = "receiving" /\ unread[u] = 0 /\ outbox = <<>> =>
      /\ seen[u].snapshot = snapshot
      /\ lagged[u] \/ seen[u].state = state

\* Ready, for a subscriber as for the watches, comes after a snapshot of the session:
\* no Synchronizing is followed by Ready without a snapshot in between, also across
\* a lag.
ReadyAfterSnapshot ==
  \A u \in Subscribers : seen[u].state \in Connected => seen[u].current

\* Snapshot is the first snapshot and no other, over all connections.
FirstIsSnapshot == \A u \in Subscribers : lagged[u] \/ seen[u].first # "wrong"

\* Event::Shutdown is the last event of all.
ShutdownIsLast ==
  \A u \in Subscribers :
    seen[u].end = "Shutdown" => unread[u] = 0 /\ at \in {"stopping", "done"} /\ outbox = <<>>

\* A subscriber that keeps receiving gets to every snapshot, or a later one.
KeepsUp ==
  \A u \in Subscribers, n \in 1..MaxSnapshots :
    Subscribed(u) /\ snapshot >= n ~> seen[u].snapshot >= n

\* It learns of the end of the client: by Event::Shutdown when the task announces it,
\* by the closed channel when the task left in silence.  (Who subscribes to a client
\* that was shut down, and holds on to it, is never told.)
EndIsSeen ==
  \A u \in Subscribers :
    Subscribed(u) /\ (at = "ending" \/ (at = "done" /\ client = "dropped"))
      ~> seen[u].end # "none"

==============================================================================
