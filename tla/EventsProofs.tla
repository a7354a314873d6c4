---------------------------- MODULE EventsProofs ----------------------------
(***************************************************************************)
(* What subscribers are told, for every capacity of the channel and any    *)
(* number of subscribers, however far they lag.                            *)
(***************************************************************************)
EXTENDS Events, SequenceTheorems, TLAPS

\* The unread events of a subscriber are in the ring, or it lags behind a full one, and
\* who resynchronizes was told so.
WindowInv ==
  \A u \in Subscribers :
    /\ sub[u] = "none" => unread[u] = 0
    /\ sub[u] = "lagging" => lagged[u]
    /\ Subscribed(u) => \/ unread[u] <= Len(ring)
                        \/ unread[u] = EventCapacity + 1 /\ Len(ring) = EventCapacity

\* No event is about a snapshot that is not in the watch, or was not before.
Covered(e) == e.kind \in SnapshotKinds => e.snapshot <= snapshot

ToldInv ==
  /\ \A i \in DOMAIN ring : Covered(ring[i])
  /\ \A i \in DOMAIN outbox : Covered(outbox[i])
  /\ NeverAhead

\* Shutdown is sent when nothing comes after it.
LastInv ==
  /\ \A i \in DOMAIN ring : ring[i].kind = "Shutdown" =>
       i = Len(ring) /\ at \in {"stopping", "done"} /\ outbox = <<>>
  /\ \A i \in DOMAIN outbox : outbox[i].kind = "Shutdown" => at = "stopping"
  /\ ShutdownIsLast

IInv == TypeOK /\ WindowInv /\ ToldInv /\ LastInv

\* What an event and a subscriber say of either watch.
Topics      == {"snapshot", "state"}
Watch(t)    == IF t = "snapshot" THEN snapshot ELSE state
Of(x, t)    == IF t = "snapshot" THEN x.snapshot ELSE x.state
Tells(e, t) == IF t = "snapshot" THEN e.kind \in SnapshotKinds ELSE e.kind = "StateChanged"
News(e, t)  == Tells(e, t) /\ Of(e, t) = Watch(t)
Pending(t)  == \E i \in DOMAIN outbox : News(outbox[i], t)

\* No event of the channel is the last word unless it says what the watch holds; and who
\* does not know that yet still has it to read, or has lost events and is told so next.
LastWord(t) ==
  /\ \A i \in DOMAIN outbox : Tells(outbox[i], t) => News(outbox[i], t)
  /\ \A i \in DOMAIN ring : Tells(ring[i], t) =>
       Pending(t) \/ \E j \in i .. Len(ring) : News(ring[j], t)

StillToRead(u, t) ==
  \/ Of(seen[u], t) = Watch(t)
  \/ Pending(t)
  \/ \E j \in Len(ring) - unread[u] + 1 .. Len(ring) : News(ring[j], t)

Kept(u, t) == sub[u] = "receiving" /\ unread[u] <= EventCapacity /\ (t = "state" => ~lagged[u])

NewestInv ==
  \A t \in Topics : LastWord(t) /\ \A u \in Subscribers : Kept(u, t) => StillToRead(u, t)

\* What the events say of a session.
Connects(e)     == e.kind = "StateChanged" /\ e.state \in Connected
Synchronizes(e) == e.kind = "StateChanged" /\ e.state = "Synchronizing"
Snapshots(e)    == e.kind \in SnapshotKinds

\* The next event, or the one after it, says that the session is ready.
Closing == (at = "published" /\ outbox = <<>>) \/ (outbox # <<>> /\ Connects(outbox[1]))

\* From place p of the ring on, readiness comes after a snapshot.
Resolved(p) ==
  /\ \A j \in p + 1 .. Len(ring) : Connects(ring[j]) => \E k \in p + 1 .. j : Snapshots(ring[k])
  /\ Closing => \E k \in p + 1 .. Len(ring) : Snapshots(ring[k])

\* A subscriber that has lost no event it was not told of, and the last place it read.
InStep(u) == sub[u] = "receiving" /\ unread[u] <= EventCapacity
Place(u)  == Len(ring) - unread[u]

\* Nothing says that a session is ready before the first snapshot.
NotYet ==
  /\ at \notin {"published", "select", "notified"}
  /\ \A i \in DOMAIN ring : ~Connects(ring[i])
  /\ \A i \in DOMAIN outbox : ~Connects(outbox[i])

ReadyInv ==
  /\ at = "published" /\ outbox # <<>> => Snapshots(outbox[1])
  /\ snapshot = 0 => NotYet
  /\ \A i \in DOMAIN ring : Synchronizes(ring[i]) => Resolved(i)
  /\ \A u \in Subscribers : sub[u] = "none" => seen[u].current
  /\ \A u \in Subscribers : InStep(u) /\ ~seen[u].current => Resolved(Place(u))
  /\ ReadyAfterSnapshot

\* Who has not had the first snapshot has it to come, or next of all snapshots to read;
\* who had it, or came late, has none to read.
FirstAhead(p) ==
  \/ FirstToCome /\ \A i \in p + 1 .. Len(ring) : ~Snapshots(ring[i])
  \/ /\ ~FirstToCome
     /\ \E j \in p + 1 .. Len(ring) :
          /\ ring[j].kind = "Snapshot"
          /\ \A i \in p + 1 .. j - 1 : ~Snapshots(ring[i])
          /\ \A i \in j + 1 .. Len(ring) : ring[i].kind # "Snapshot"

FirstPast(p) ==
  ~FirstToCome /\ \A i \in p + 1 .. Len(ring) : ring[i].kind # "Snapshot"

FirstAt(first, p) == IF first = "none" THEN FirstAhead(p) ELSE FirstPast(p)

FirstInv ==
  /\ FirstIsSnapshot
  /\ \A u \in Subscribers : InStep(u) /\ ~lagged[u] => FirstAt(seen[u].first, Place(u))

------------------------------------------------------------------------------
(* Events and the ring.                                                    *)

\* The fields of the events.
LEMMA EventFields ==
  /\ \A s \in States : StateChanged(s) \in Event /\ StateChanged(s).kind = "StateChanged"
  /\ \A n \in 1..MaxSnapshots, k \in SnapshotKinds :
       Read(k, n) \in Event /\ Read(k, n).kind = k /\ Read(k, n).snapshot = n
  /\ ShutdownEvent \in Event /\ ShutdownEvent.kind = "Shutdown"
  /\ \A e \in Event :
       /\ e.kind \in SnapshotKinds \union {"StateChanged", "Shutdown"}
       /\ e.kind = "StateChanged" => e.state \in States
       /\ e.kind \in SnapshotKinds => e.snapshot \in 1..MaxSnapshots
BY DEF StateChanged, Read, ShutdownEvent, Event, SnapshotKinds

\* A sequence of at most one event, with an event in it.
LEMMA OneEvent ==
  ASSUME NEW e \in Event
  PROVE  <<e>> \in Seq(Event) /\ Len(<<e>>) = 1 /\ <<e>>[1] = e /\ <<e>> # <<>>
OBVIOUS

\* Sending keeps the ring within its capacity: it ends with the new event, behind the
\* ones it had, moved by one place at the capacity, where the oldest is gone.
LEMMA SendKeeps ==
  ASSUME ring \in Seq(Event), Len(ring) <= EventCapacity, NEW e \in Event
  PROVE  LET kept == Keep(Append(ring, e))
             d == Len(ring) + 1 - Len(kept)
         IN /\ kept \in Seq(Event)
            /\ Len(kept) = (IF Len(ring) < EventCapacity THEN Len(ring) + 1 ELSE EventCapacity)
            /\ kept[Len(kept)] = e
            /\ \A i \in 1 .. Len(kept) - 1 : i + d \in DOMAIN ring /\ kept[i] = ring[i + d]
<1> DEFINE more == Append(ring, e)
<1>1. /\ more \in Seq(Event) /\ Len(more) = Len(ring) + 1 /\ Len(ring) \in Nat
      /\ \A i \in 1..Len(ring) : more[i] = ring[i]
      /\ more[Len(ring) + 1] = e
  OBVIOUS
<1>2. CASE Len(ring) < EventCapacity
  <2>1. Keep(more) = more
    BY <1>1, <1>2, EventsAssumption DEF Keep
  <2> QED
    BY <1>1, <1>2, <2>1, EventsAssumption
<1>3. CASE ~(Len(ring) < EventCapacity)
  <2>1. Len(ring) = EventCapacity /\ EventCapacity \in Nat \ {0}
    BY <1>1, <1>3, EventsAssumption
  <2>2. Keep(more) = Tail(more)
    BY <1>1, <2>1 DEF Keep
  <2> HIDE DEF more
  <2>3. /\ Tail(more) \in Seq(Event) /\ Len(Tail(more)) = EventCapacity
        /\ \A i \in 1 .. Len(Tail(more)) : Tail(more)[i] = more[i + 1]
    BY <1>1, <2>1, HeadTailProperties
  <2>4. Tail(more)[EventCapacity] = e
    BY <1>1, <2>1, <2>3
  <2>5. \A i \in 1 .. EventCapacity - 1 : i + 1 \in DOMAIN ring /\ Tail(more)[i] = ring[i + 1]
    BY <1>1, <2>1, <2>3
  <2>6. Keep(Append(ring, e)) = Tail(more)
    BY <2>2 DEF more
  <2>7. Len(ring) + 1 - Len(Tail(more)) = 1
    BY <2>1, <2>3
  <2> QED
    BY <1>3, <2>3, <2>4, <2>5, <2>6, <2>7
<1> QED
  BY <1>2, <1>3

------------------------------------------------------------------------------
(* The steps of the task.                                                  *)

\* Every step of the task but the sending of an event.
Control ==
  \/ LoopHead \/ ConnectFails \/ BackoffElapses \/ BackoffShutdown \/ ConnectSucceeds
  \/ SnapshotArrives \/ BecomeReady \/ FirstSnapshotFails
  \/ Notified \/ Resnapshot \/ LoseConnection
  \/ SelectShutdown \/ AnnounceEnd \/ Return \/ ExitWithoutClient

\* An event that may be waiting when the task is at point p and snapshot n is in the watch.
Fits(e, p, n) ==
  /\ e \in Event
  /\ e.kind \in SnapshotKinds => e.snapshot <= n
  /\ e.kind = "Shutdown" <=> p = "stopping"

\* What such a step does to what the invariant is about: it leaves channel and
\* subscribers alone, and the event it makes is one the watch already covers.
Effect ==
  /\ UNCHANGED <<ring, shutdown, client, subVars>>
  /\ outbox = <<>>
  /\ at' \in Points /\ attempt' \in BOOLEAN /\ writable' \in BOOLEAN
  /\ state' \in States
  /\ snapshot' \in 0..MaxSnapshots /\ snapshot <= snapshot'
  /\ \/ outbox' = <<>> /\ at' # "stopping"
     \/ at' # "done" /\ \E e : outbox' = <<e>> /\ Fits(e, at', snapshot')
  /\ at # "done"
  /\ at = "stopping" => at' = "done" /\ outbox' = <<>>

\* The events of transition, of publish_snapshot and of the end fit.
LEMMA EventsFit ==
  /\ \A s \in States : \A p, n : p # "stopping" => Fits(StateChanged(s), p, n)
  /\ \A k \in SnapshotKinds, n \in 1..MaxSnapshots : \A p :
       p # "stopping" => Fits(Read(k, n), p, n)
  /\ \A n : Fits(ShutdownEvent, "stopping", n)
<1>1. ASSUME NEW s \in States, NEW p, NEW n, p # "stopping"
      PROVE  Fits(StateChanged(s), p, n)
  BY <1>1, EventFields DEF Fits, SnapshotKinds
<1>2. ASSUME NEW k \in SnapshotKinds, NEW n \in 1..MaxSnapshots, NEW p, p # "stopping"
      PROVE  Fits(Read(k, n), p, n)
  <2>1. Read(k, n) \in Event /\ Read(k, n).kind = k /\ Read(k, n).snapshot = n
    BY EventFields
  <2>2. k # "Shutdown" /\ n <= n
    BY DEF SnapshotKinds
  <2> QED
    BY <1>2, <2>1, <2>2 DEF Fits
<1>3. ASSUME NEW n
      PROVE  Fits(ShutdownEvent, "stopping", n)
  BY EventFields DEF Fits, SnapshotKinds
<1> QED
  BY <1>1, <1>2, <1>3

\* A step of the task that says nothing.
LEMMA SilentEffect ==
  ASSUME TypeOK, NEW from, NEW to \in Points \ {"stopping"}, Silently(from, to),
         "done" \notin from, "stopping" \in from => to = "done"
  PROVE  Effect
BY EventsAssumption DEF TypeOK, Silently, Go, Effect

\* A step of the task that announces a state.
LEMMA AnnounceEffect ==
  ASSUME TypeOK, NEW from, NEW to \in Points \ {"stopping", "done"}, NEW s \in States,
         Announce(from, to, s), "done" \notin from, "stopping" \notin from
  PROVE  Effect
<1>1. Fits(StateChanged(s), to, snapshot)
  BY EventsFit
<1>2. outbox' = <<StateChanged(s)>> /\ at' = to /\ snapshot' = snapshot
  BY DEF Announce, Go, transition
<1> QED
  BY <1>1, <1>2, EventsAssumption DEF TypeOK, Announce, Go, transition, Effect

\* A step of the task that publishes a snapshot.
LEMMA PublishEffect ==
  ASSUME TypeOK, NEW from, NEW to \in Points \ {"stopping", "done"}, NEW k \in SnapshotKinds,
         Go(from, to), Publish(k), UNCHANGED <<attempt, writable, state>>,
         "done" \notin from, "stopping" \notin from
  PROVE  Effect
<1>1. /\ snapshot \in Nat /\ snapshot + 1 \in 1..MaxSnapshots
      /\ snapshot' = snapshot + 1 /\ outbox' = <<Read(k, snapshot + 1)>> /\ at' = to
  BY EventsAssumption DEF TypeOK, Publish, Go
<1>2. Fits(Read(k, snapshot + 1), to, snapshot + 1)
  BY <1>1, EventsFit
<1>3. \E e : outbox' = <<e>> /\ Fits(e, at', snapshot')
  BY <1>1, <1>2
<1> QED
  BY <1>1, <1>3, EventsAssumption DEF TypeOK, Go, Effect

\* Every step of the task but a sending has that effect.
LEMMA ControlEffect ==
  ASSUME TypeOK, Control
  PROVE  Effect
<1>1. CASE LoopHead
  BY <1>1, AnnounceEffect DEF LoopHead, Points, States
<1>2. CASE ConnectFails
  BY <1>2, SilentEffect DEF ConnectFails, Points
<1>3. CASE BackoffElapses
  BY <1>3, EventsAssumption DEF BackoffElapses, Go, TypeOK, Points, Effect
<1>4. CASE BackoffShutdown
  BY <1>4, AnnounceEffect DEF BackoffShutdown, Points, States
<1>5. CASE ConnectSucceeds
  <2>1. Fits(StateChanged("Synchronizing"), "syncing", snapshot)
    BY EventsFit DEF States
  <2>2. /\ outbox' = <<StateChanged("Synchronizing")>> /\ at' = "syncing"
        /\ snapshot' = snapshot
    BY <1>5 DEF ConnectSucceeds, Go, transition
  <2> QED
    BY <1>5, <2>1, <2>2, EventsAssumption
    DEF ConnectSucceeds, Go, transition, TypeOK, Points, States, Effect
<1>6. CASE SnapshotArrives
  <2>1. Kind \in SnapshotKinds
    BY DEF Kind, SnapshotKinds
  <2> QED
    BY <1>6, <2>1, PublishEffect DEF SnapshotArrives, Points
<1>7. CASE BecomeReady
  <2> DEFINE s == IF writable THEN "Ready" ELSE "ReadOnlyUnknownRevision"
  <2>1. s \in States
    BY DEF States, Connected
  <2>2. Fits(StateChanged(s), "select", snapshot)
    BY <2>1, EventsFit
  <2>3. outbox' = <<StateChanged(s)>> /\ state' = s /\ at' = "select" /\ snapshot' = snapshot
    BY <1>7 DEF BecomeReady, Go, transition
  <2>4. \E e : outbox' = <<e>> /\ Fits(e, at', snapshot')
    BY <2>2, <2>3
  <2>5. attempt' = FALSE /\ writable' = writable /\ at = "published" /\ outbox = <<>>
    BY <1>7 DEF BecomeReady, Go
  <2>6. UNCHANGED <<ring, shutdown, client, subVars>>
    BY <1>7 DEF BecomeReady, Go
  <2>7. attempt' \in BOOLEAN /\ writable' \in BOOLEAN
    BY <2>5 DEF TypeOK
  <2>8. snapshot' \in 0..MaxSnapshots /\ snapshot <= snapshot'
    BY <2>3, EventsAssumption DEF TypeOK
  <2>9. at' \in Points /\ at' # "done" /\ at # "done" /\ at # "stopping"
    BY <2>3, <2>5 DEF Points
  <2>10. state' \in States
    BY <2>1, <2>3
  <2> HIDE DEF s
  <2> QED
    BY <2>4, <2>5, <2>6, <2>7, <2>8, <2>9, <2>10 DEF Effect
<1>8. CASE FirstSnapshotFails
  BY <1>8, SilentEffect DEF FirstSnapshotFails, Points
<1>9. CASE Notified
  BY <1>9, AnnounceEffect DEF Notified, Points, States
<1>10. CASE Resnapshot
  BY <1>10, PublishEffect DEF Resnapshot, Points, SnapshotKinds
<1>11. CASE LoseConnection
  BY <1>11, AnnounceEffect DEF LoseConnection, Points, States
<1>12. CASE SelectShutdown
  BY <1>12, AnnounceEffect DEF SelectShutdown, Points, States
<1>13. CASE AnnounceEnd
  <2>1. Fits(ShutdownEvent, "stopping", snapshot)
    BY EventsFit
  <2>2. outbox' = <<ShutdownEvent>> /\ at' = "stopping" /\ snapshot' = snapshot
    BY <1>13 DEF AnnounceEnd, Go
  <2> QED
    BY <1>13, <2>1, <2>2, EventsAssumption DEF AnnounceEnd, Go, TypeOK, Points, Effect
<1>14. CASE Return
  BY <1>14, SilentEffect DEF Return, Points
<1>15. CASE ExitWithoutClient
  BY <1>15, SilentEffect DEF ExitWithoutClient, Points
<1> QED
  BY <1>1, <1>2, <1>3, <1>4, <1>5, <1>6, <1>7, <1>8, <1>9, <1>10, <1>11, <1>12, <1>13,
     <1>14, <1>15 DEF Control

------------------------------------------------------------------------------
(* The invariant.                                                          *)

\* The initial state satisfies the invariant: nothing was published, nobody subscribed.
LEMMA InitHolds == Init => IInv
<1> SUFFICES ASSUME Init PROVE IInv
  OBVIOUS
<1>1. TypeOK
  <2>1. seen \in [Subscribers -> Seen]
    BY EventsAssumption DEF Init, Seen, States
  <2>2. /\ sub \in [Subscribers -> {"none", "receiving", "lagging", "over"}]
        /\ unread \in [Subscribers -> Unread]
    BY EventsAssumption DEF Init, Unread
  <2>3. /\ attempt \in BOOLEAN /\ writable \in BOOLEAN /\ shutdown \in BOOLEAN
        /\ lagged \in [Subscribers -> BOOLEAN]
    BY DEF Init
  <2>4. /\ outbox \in Seq(Event) /\ Len(outbox) <= 1
        /\ ring \in Seq(Event) /\ Len(ring) <= EventCapacity
    BY EventsAssumption DEF Init
  <2>5. /\ at \in Points /\ state \in States /\ client \in {"held", "dropped"}
        /\ snapshot \in 0..MaxSnapshots
    BY EventsAssumption DEF Init, Points, States
  <2> QED
    BY <2>1, <2>2, <2>3, <2>4, <2>5 DEF TypeOK
<1>2. WindowInv
  BY DEF Init, WindowInv, Subscribed
<1>3. ToldInv
  BY DEF Init, ToldInv, NeverAhead
<1>4. LastInv
  BY DEF Init, LastInv, ShutdownIsLast
<1> QED
  BY <1>1, <1>2, <1>3, <1>4 DEF IInv

\* What a subscriber knows after an event: its snapshot is the one it knew or the
\* event's, and the end comes with Shutdown alone.
LEMMA LearnKeeps ==
  ASSUME NEW s \in Seen, NEW e \in Event
  PROVE  /\ Learn(s, e) \in Seen
         /\ \/ Learn(s, e).snapshot = s.snapshot
            \/ e.kind \in SnapshotKinds /\ Learn(s, e).snapshot = e.snapshot
         /\ e.kind # "Shutdown" => Learn(s, e).end = s.end
<1> USE DEF Seen
<1>1. e.kind \in {"StateChanged", "Snapshot", "Resynchronized", "Shutdown"}
  BY EventFields DEF SnapshotKinds
<1>2. CASE e.kind = "StateChanged"
  <2>1. e.state \in States
    BY <1>2, EventFields
  <2>2. Learn(s, e) = [s EXCEPT !.state = e.state,
                                !.current = @ /\ e.state # "Synchronizing"]
    BY <1>2 DEF Learn
  <2>3. (s.current /\ e.state # "Synchronizing") \in BOOLEAN
    OBVIOUS
  <2> QED
    BY <1>2, <2>1, <2>2, <2>3
<1>3. CASE e.kind = "Snapshot"
  <2>1. e.snapshot \in 0..MaxSnapshots
    BY <1>3, EventFields, EventsAssumption DEF SnapshotKinds
  <2> QED
    BY <1>3, <2>1 DEF Learn, SnapshotKinds
<1>4. CASE e.kind = "Resynchronized"
  <2>1. e.snapshot \in 0..MaxSnapshots
    BY <1>4, EventFields, EventsAssumption DEF SnapshotKinds
  <2> QED
    BY <1>4, <2>1 DEF Learn, SnapshotKinds
<1>5. CASE e.kind = "Shutdown"
  BY <1>5 DEF Learn
<1> QED
  BY <1>1, <1>2, <1>3, <1>4, <1>5

\* A step of the task keeps the invariant: channel and subscribers stay, the watch only
\* goes forward, and after Shutdown there is no other event.
LEMMA ControlKeeps ==
  ASSUME IInv, Control
  PROVE  IInv'
<1>1. Effect
  BY ControlEffect DEF IInv
<1>2. UNCHANGED <<ring, shutdown, client, sub, unread, seen, lagged>>
  BY <1>1 DEF Effect, subVars
<1>3. /\ outbox' \in Seq(Event) /\ Len(outbox') <= 1
      /\ \A i \in DOMAIN outbox' : Fits(outbox'[i], at', snapshot')
  <2>1. CASE outbox' = <<>>
    BY <2>1
  <2>2. CASE \E e : outbox' = <<e>> /\ Fits(e, at', snapshot')
    <3>1. PICK e : outbox' = <<e>> /\ Fits(e, at', snapshot')
      BY <2>2
    <3>2. e \in Event
      BY <3>1 DEF Fits
    <3> QED
      BY <3>1, <3>2
  <2> QED
    BY <1>1, <2>1, <2>2 DEF Effect
<1>4. TypeOK'
  BY <1>1, <1>2, <1>3 DEF IInv, TypeOK, Effect
<1>5. WindowInv'
  BY <1>2 DEF IInv, WindowInv, Subscribed
<1>6. ToldInv'
  <2>1. snapshot \in Nat /\ snapshot' \in Nat /\ snapshot <= snapshot'
    BY <1>1, EventsAssumption DEF IInv, TypeOK, Effect
  <2>2. \A i \in DOMAIN ring : ring[i] \in Event
    BY DEF IInv, TypeOK
  <2>3. \A i \in DOMAIN ring' : Covered(ring[i])'
    <3>1. \A i \in DOMAIN ring : ring[i].kind \in SnapshotKinds => ring[i].snapshot \in Nat
      BY <2>2, EventFields, EventsAssumption
    <3> QED
      BY <1>2, <2>1, <3>1 DEF IInv, ToldInv, Covered
  <2>4. \A i \in DOMAIN outbox' : Covered(outbox[i])'
    BY <1>3 DEF Fits, Covered
  <2>5. NeverAhead'
    <3>1. \A u \in Subscribers : seen[u].snapshot \in Nat
      BY EventsAssumption DEF IInv, TypeOK, Seen
    <3> QED
      BY <1>2, <2>1, <3>1 DEF IInv, ToldInv, NeverAhead
  <2> QED
    BY <2>3, <2>4, <2>5 DEF ToldInv
<1>7. LastInv'
  <2>1. \A i \in DOMAIN ring' : ring'[i].kind = "Shutdown" =>
          i = Len(ring') /\ at' \in {"stopping", "done"} /\ outbox' = <<>>
    <3> SUFFICES ASSUME NEW i \in DOMAIN ring, ring[i].kind = "Shutdown"
                 PROVE  i = Len(ring) /\ at' = "done" /\ outbox' = <<>>
      BY <1>2
    <3>1. i = Len(ring) /\ at \in {"stopping", "done"}
      BY DEF IInv, LastInv
    <3>2. at = "stopping"
      BY <1>1, <3>1 DEF Effect
    <3> QED
      BY <1>1, <3>1, <3>2 DEF Effect
  <2>2. \A i \in DOMAIN outbox' : outbox'[i].kind = "Shutdown" => at' = "stopping"
    BY <1>3 DEF Fits
  <2>3. ShutdownIsLast'
    BY <1>1, <1>2 DEF IInv, LastInv, ShutdownIsLast, Effect
  <2> QED
    BY <2>1, <2>2, <2>3 DEF LastInv
<1> QED
  BY <1>4, <1>5, <1>6, <1>7 DEF IInv

\* Sending an event keeps the invariant: who had lost none has lost none or lags, and
\* Shutdown, when it enters the ring, is the last in it for good.
LEMMA SendKeepsInv ==
  ASSUME IInv, Send
  PROVE  IInv'
<1> DEFINE e == Head(outbox)
           anybody == \E u \in Subscribers : Subscribed(u)
<1>1. /\ UNCHANGED <<at, attempt, writable, state, snapshot, shutdown, client, sub, seen, lagged>>
      /\ outbox # <<>> /\ outbox' = <<>>
  BY DEF Send
<1>2. e \in Event /\ e = outbox[1] /\ 1 \in DOMAIN outbox
  BY <1>1 DEF IInv, TypeOK
<1>3. Covered(e) /\ (e.kind = "Shutdown" => at = "stopping")
  BY <1>2 DEF IInv, ToldInv, LastInv
<1>4. ring \in Seq(Event) /\ Len(ring) \in Nat /\ Len(ring) <= EventCapacity
  BY DEF IInv, TypeOK
<1> HIDE DEF e
<1>5. /\ ring' \in Seq(Event) /\ Len(ring') <= EventCapacity
      /\ \A i \in DOMAIN ring' :
           \/ i = Len(ring') /\ ring'[i] = e
           \/ \E j \in DOMAIN ring : ring'[i] = ring[j]
      /\ anybody => Len(ring') = IF Len(ring) < EventCapacity THEN Len(ring) + 1 ELSE EventCapacity
  <2>1. CASE anybody
    <3>1. ring' = Keep(Append(ring, e))
      BY <2>1 DEF Send, e
    <3> HIDE DEF anybody
    <3>2. /\ ring' \in Seq(Event) /\ Len(ring') <= EventCapacity
          /\ ring'[Len(ring')] = e
          /\ Len(ring') = IF Len(ring) < EventCapacity THEN Len(ring) + 1 ELSE EventCapacity
      BY <1>2, <1>4, <3>1, SendKeeps, EventsAssumption
    <3>3. \A i \in 1 .. Len(ring') - 1 : \E j \in DOMAIN ring : ring'[i] = ring[j]
      BY <1>2, <1>4, <3>1, SendKeeps
    <3>4. \A i \in DOMAIN ring' : i = Len(ring') \/ i \in 1 .. Len(ring') - 1
      BY <3>2
    <3> QED
      BY <3>2, <3>3, <3>4
  <2>2. CASE ~anybody
    <3>1. ring' = <<>>
      BY <2>2 DEF Send
    <3> QED
      BY <2>2, <3>1, EventsAssumption
  <2> QED
    BY <2>1, <2>2
<1>6. \A u \in Subscribers :
        /\ unread[u] \in Unread
        /\ unread'[u] = IF Subscribed(u) /\ unread[u] <= EventCapacity
                        THEN unread[u] + 1 ELSE unread[u]
  BY DEF Send, IInv, TypeOK
<1>7. TypeOK'
  <2>1. unread' \in [Subscribers -> Unread]
    <3>1. \A u \in Subscribers : unread'[u] \in Unread
      BY <1>6, EventsAssumption DEF Unread
    <3> QED
      BY <3>1 DEF Send
  <2> QED
    BY <1>1, <1>5, <2>1 DEF IInv, TypeOK
<1>8. WindowInv'
  <2> SUFFICES ASSUME NEW u \in Subscribers
               PROVE  /\ sub[u] = "none" => unread'[u] = 0
                      /\ sub[u] = "lagging" => lagged[u]
                      /\ Subscribed(u) => \/ unread'[u] <= Len(ring')
                                          \/ unread'[u] = EventCapacity + 1
                                             /\ Len(ring') = EventCapacity
    BY <1>1 DEF WindowInv, Subscribed
  <2>1. CASE ~Subscribed(u)
    BY <1>6, <2>1 DEF IInv, WindowInv
  <2>2. CASE Subscribed(u)
    <3>1. Len(ring') = IF Len(ring) < EventCapacity THEN Len(ring) + 1 ELSE EventCapacity
      BY <1>5, <2>2
    <3>2. \/ unread[u] <= Len(ring)
          \/ unread[u] = EventCapacity + 1 /\ Len(ring) = EventCapacity
      BY <2>2 DEF IInv, WindowInv
    <3>3. sub[u] # "none"
      BY <2>2 DEF Subscribed
    <3>4. sub[u] # "lagging" \/ lagged[u]
      BY DEF IInv, WindowInv
    <3>5. \/ unread'[u] <= Len(ring')
          \/ unread'[u] = EventCapacity + 1 /\ Len(ring') = EventCapacity
      BY <1>4, <1>6, <2>2, <3>1, <3>2, EventsAssumption DEF Unread
    <3> QED
      BY <3>3, <3>4, <3>5
  <2> QED
    BY <2>1, <2>2
<1>9. ToldInv'
  <2>1. \A i \in DOMAIN ring' : Covered(ring[i])'
    BY <1>1, <1>3, <1>5 DEF IInv, ToldInv, Covered
  <2>2. NeverAhead'
    BY <1>1 DEF IInv, ToldInv, NeverAhead
  <2> QED
    BY <1>1, <2>1, <2>2 DEF ToldInv
<1>10. LastInv'
  <2>1. \A j \in DOMAIN ring : ring[j].kind # "Shutdown"
    BY <1>1 DEF IInv, LastInv
  <2>2. \A i \in DOMAIN ring' : ring'[i].kind = "Shutdown" =>
          i = Len(ring') /\ at' \in {"stopping", "done"} /\ outbox' = <<>>
    BY <1>1, <1>3, <1>5, <2>1
  <2>3. \A u \in Subscribers : seen[u].end # "Shutdown"
    BY <1>1 DEF IInv, LastInv, ShutdownIsLast
  <2>4. ShutdownIsLast'
    BY <1>1, <2>3 DEF ShutdownIsLast
  <2> QED
    BY <1>1, <2>2, <2>4 DEF LastInv
<1> QED
  BY <1>7, <1>8, <1>9, <1>10 DEF IInv

\* What the steps of subscribers and clients keep without looking at them: the channel
\* and the watches do not change.
LEMMA SubscriberKeepsInv ==
  ASSUME IInv, UNCHANGED <<at, attempt, outbox, writable, state, snapshot, ring>>,
         shutdown' \in BOOLEAN, client' \in {"held", "dropped"},
         sub' \in [Subscribers -> {"none", "receiving", "lagging", "over"}],
         unread' \in [Subscribers -> Unread], seen' \in [Subscribers -> Seen],
         lagged' \in [Subscribers -> BOOLEAN],
         WindowInv', NeverAhead', ShutdownIsLast'
  PROVE  IInv'
<1>1. TypeOK'
  BY DEF IInv, TypeOK
<1>2. ToldInv'
  BY DEF IInv, ToldInv, Covered
<1>3. LastInv'
  BY DEF IInv, LastInv
<1> QED
  BY <1>1, <1>2, <1>3 DEF IInv

\* The types of the subscribers and clients.
LEMMA SubscriberTypes ==
  ASSUME IInv
  PROVE  /\ sub \in [Subscribers -> {"none", "receiving", "lagging", "over"}]
         /\ unread \in [Subscribers -> Unread]
         /\ seen \in [Subscribers -> Seen]
         /\ lagged \in [Subscribers -> BOOLEAN]
         /\ shutdown \in BOOLEAN /\ client \in {"held", "dropped"}
         /\ snapshot \in 0..MaxSnapshots
         /\ state \in States
BY DEF IInv, TypeOK

\* Subscribing keeps the invariant: all that is sent is read already.
LEMMA SubscribeKeeps ==
  ASSUME IInv, NEW u \in Subscribers, Subscribe(u)
  PROVE  IInv'
<1> USE SubscriberTypes
<1>1. /\ UNCHANGED <<at, attempt, outbox, writable, state, snapshot, ring, shutdown, client,
                     unread, lagged>>
      /\ sub[u] = "none" /\ sub' = [sub EXCEPT ![u] = "receiving"]
      /\ seen' = [seen EXCEPT ![u].snapshot = snapshot, ![u].state = state,
                              ![u].first = IF FirstToCome THEN "none" ELSE "late"]
  BY DEF Subscribe, taskVars, sharedVars
<1>2. \A w \in Subscribers :
        /\ seen'[w] \in Seen
        /\ seen'[w].end = seen[w].end
        /\ seen'[w].snapshot = IF w = u THEN snapshot ELSE seen[w].snapshot
  BY <1>1 DEF Seen
<1>3. seen' \in [Subscribers -> Seen]
  BY <1>1, <1>2
<1>4. sub' \in [Subscribers -> {"none", "receiving", "lagging", "over"}]
  BY <1>1
<1>5. WindowInv'
  <2>1. unread[u] = 0 /\ 0 <= Len(ring)
    BY <1>1 DEF IInv, WindowInv, TypeOK
  <2> QED
    BY <1>1, <2>1 DEF IInv, WindowInv, Subscribed
<1>6. NeverAhead'
  BY <1>1, <1>2, EventsAssumption DEF IInv, ToldInv, NeverAhead
<1>7. ShutdownIsLast'
  BY <1>1, <1>2 DEF IInv, LastInv, ShutdownIsLast
<1> QED
  BY <1>1, <1>3, <1>4, <1>5, <1>6, <1>7, SubscriberKeepsInv

\* Receiving an event keeps the invariant: it is one of the ring, so the watch covers it,
\* and if it is Shutdown it is the last.
LEMMA ReceiveEventKeeps ==
  ASSUME IInv, NEW u \in Subscribers, ReceiveEvent(u)
  PROVE  IInv'
<1> USE SubscriberTypes
<1> DEFINE i == Len(ring) - unread[u] + 1
           s == Learn(seen[u], ring[i])
<1>1. /\ UNCHANGED <<at, attempt, outbox, writable, state, snapshot, ring, shutdown, client,
                     sub, lagged>>
      /\ sub[u] = "receiving" /\ unread[u] \in 1..EventCapacity
      /\ seen' = [seen EXCEPT ![u] = s]
      /\ unread' = [unread EXCEPT ![u] = @ - 1]
  BY DEF ReceiveEvent, taskVars, sharedVars
<1>2. i \in DOMAIN ring /\ (i = Len(ring) => unread[u] = 1) /\ ring[i] \in Event
  <2>1. ring \in Seq(Event) /\ Len(ring) \in Nat
    BY DEF IInv, TypeOK
  <2>2. unread[u] <= Len(ring)
    BY <1>1, EventsAssumption DEF IInv, WindowInv, Subscribed
  <2>3. i \in 1..Len(ring) /\ (i = Len(ring) => unread[u] = 1)
    BY <1>1, <2>1, <2>2, EventsAssumption
  <2> QED
    BY <2>1, <2>3
<1>3. /\ s \in Seen
      /\ \/ s.snapshot = seen[u].snapshot
         \/ ring[i].kind \in SnapshotKinds /\ s.snapshot = ring[i].snapshot
      /\ ring[i].kind # "Shutdown" => s.end = seen[u].end
  BY <1>2, LearnKeeps
<1>4. Covered(ring[i])
  BY <1>2 DEF IInv, ToldInv
<1>5. ring[i].kind = "Shutdown" => unread[u] = 1 /\ at \in {"stopping", "done"} /\ outbox = <<>>
  BY <1>2 DEF IInv, LastInv
<1> HIDE DEF i, s
<1>6. seen' \in [Subscribers -> Seen]
  BY <1>1, <1>3
<1>7. unread' \in [Subscribers -> Unread]
  BY <1>1, EventsAssumption DEF Unread
<1>8. WindowInv'
  <2>1. ring \in Seq(Event) /\ Len(ring) \in Nat
    BY DEF IInv, TypeOK
  <2> QED
    BY <1>1, <2>1, EventsAssumption DEF IInv, WindowInv, Subscribed
<1>9. NeverAhead'
  BY <1>1, <1>3, <1>4 DEF IInv, ToldInv, NeverAhead, Covered
<1>10. ShutdownIsLast'
  <2> SUFFICES ASSUME NEW w \in Subscribers, seen'[w].end = "Shutdown"
               PROVE  unread'[w] = 0 /\ at \in {"stopping", "done"} /\ outbox = <<>>
    BY <1>1 DEF ShutdownIsLast
  <2>1. CASE w = u
    <3>1. seen[u].end # "Shutdown"
      BY <1>1 DEF IInv, LastInv, ShutdownIsLast
    <3>2. ring[i].kind = "Shutdown"
      BY <1>1, <1>3, <2>1, <3>1
    <3> QED
      BY <1>1, <1>5, <2>1, <3>2
  <2>2. CASE w # u
    BY <1>1, <2>2 DEF IInv, LastInv, ShutdownIsLast
  <2> QED
    BY <2>1, <2>2
<1> QED
  BY <1>1, <1>6, <1>7, <1>8, <1>9, <1>10, SubscriberKeepsInv

\* Being told of a lag keeps the invariant: the whole ring is unread from here on.
LEMMA ReceiveLaggedKeeps ==
  ASSUME IInv, NEW u \in Subscribers, ReceiveLagged(u)
  PROVE  IInv'
<1> USE SubscriberTypes
<1>1. /\ UNCHANGED <<at, attempt, outbox, writable, state, snapshot, ring, shutdown, client, seen>>
      /\ sub[u] = "receiving" /\ unread[u] = EventCapacity + 1
      /\ sub' = [sub EXCEPT ![u] = "lagging"]
      /\ unread' = [unread EXCEPT ![u] = EventCapacity]
      /\ lagged' = [lagged EXCEPT ![u] = TRUE]
  BY DEF ReceiveLagged, taskVars, sharedVars
<1>2. sub' \in [Subscribers -> {"none", "receiving", "lagging", "over"}]
  BY <1>1
<1>3. unread' \in [Subscribers -> Unread] /\ lagged' \in [Subscribers -> BOOLEAN]
  BY <1>1, EventsAssumption DEF Unread
<1>4. WindowInv'
  <2>1. Len(ring) \in Nat /\ Len(ring) <= EventCapacity
    BY DEF IInv, TypeOK
  <2>2. Len(ring) = EventCapacity
    BY <1>1, <2>1, EventsAssumption DEF IInv, WindowInv, Subscribed
  <2> QED
    BY <1>1, <2>2, EventsAssumption DEF IInv, WindowInv, Subscribed
<1>5. NeverAhead'
  BY <1>1 DEF IInv, ToldInv, NeverAhead
<1>6. ShutdownIsLast'
  <2>1. seen[u].end # "Shutdown"
    BY <1>1, EventsAssumption DEF IInv, LastInv, ShutdownIsLast
  <2> QED
    BY <1>1, <2>1 DEF IInv, LastInv, ShutdownIsLast
<1> QED
  BY <1>1, <1>2, <1>3, <1>4, <1>5, <1>6, SubscriberKeepsInv

\* Resynchronizing keeps the invariant: what it takes is what the watch holds.
LEMMA ResynchronizeKeeps ==
  ASSUME IInv, NEW u \in Subscribers, Resynchronize(u)
  PROVE  IInv'
<1> USE SubscriberTypes
<1>1. /\ UNCHANGED <<at, attempt, outbox, writable, state, snapshot, ring, shutdown, client,
                     unread, lagged>>
      /\ sub[u] = "lagging" /\ sub' = [sub EXCEPT ![u] = "receiving"]
      /\ seen' = IF snapshot = 0 THEN seen
                 ELSE [seen EXCEPT ![u].snapshot = snapshot, ![u].current = TRUE]
  BY DEF Resynchronize, taskVars, sharedVars
<1>2. \A w \in Subscribers :
        /\ seen'[w] \in Seen
        /\ seen'[w].end = seen[w].end
        /\ seen'[w].snapshot \in {seen[w].snapshot, snapshot}
  BY <1>1 DEF Seen
<1>3. seen' \in [Subscribers -> Seen]
  BY <1>1, <1>2
<1>4. sub' \in [Subscribers -> {"none", "receiving", "lagging", "over"}]
  BY <1>1
<1>5. WindowInv'
  BY <1>1 DEF IInv, WindowInv, Subscribed
<1>6. NeverAhead'
  BY <1>1, <1>2, EventsAssumption DEF IInv, ToldInv, NeverAhead
<1>7. ShutdownIsLast'
  BY <1>1, <1>2 DEF IInv, LastInv, ShutdownIsLast
<1> QED
  BY <1>1, <1>3, <1>4, <1>5, <1>6, <1>7, SubscriberKeepsInv

\* Finding the channel closed keeps the invariant.
LEMMA ReceiveClosedKeeps ==
  ASSUME IInv, NEW u \in Subscribers, ReceiveClosed(u)
  PROVE  IInv'
<1> USE SubscriberTypes
<1>1. /\ UNCHANGED <<at, attempt, outbox, writable, state, snapshot, ring, shutdown, client,
                     unread, lagged>>
      /\ sub[u] = "receiving" /\ sub' = [sub EXCEPT ![u] = "over"]
      /\ seen' = [seen EXCEPT ![u].end = IF @ = "none" THEN "Closed" ELSE @]
  BY DEF ReceiveClosed, taskVars, sharedVars
<1>2. \A w \in Subscribers :
        /\ seen'[w] \in Seen
        /\ seen'[w].end \in {seen[w].end, "Closed"}
        /\ seen'[w].snapshot = seen[w].snapshot
  BY <1>1 DEF Seen
<1>3. seen' \in [Subscribers -> Seen]
  BY <1>1, <1>2
<1>4. sub' \in [Subscribers -> {"none", "receiving", "lagging", "over"}]
  BY <1>1
<1>5. WindowInv'
  BY <1>1 DEF IInv, WindowInv, Subscribed
<1>6. NeverAhead'
  BY <1>1, <1>2 DEF IInv, ToldInv, NeverAhead
<1>7. ShutdownIsLast'
  BY <1>1, <1>2 DEF IInv, LastInv, ShutdownIsLast
<1> QED
  BY <1>1, <1>3, <1>4, <1>5, <1>6, <1>7, SubscriberKeepsInv

\* So do the clients, who touch neither, and a stuttering step.
LEMMA ClientKeeps ==
  ASSUME IInv, SignalShutdown \/ DropClient \/ UNCHANGED vars
  PROVE  IInv'
<1> USE SubscriberTypes
<1>1. UNCHANGED <<at, attempt, outbox, writable, state, snapshot, ring, sub, unread, seen, lagged>>
  BY DEF SignalShutdown, DropClient, vars, taskVars, sharedVars, subVars
<1>2. shutdown' \in BOOLEAN /\ client' \in {"held", "dropped"}
  BY DEF SignalShutdown, DropClient, vars, sharedVars
<1>3. WindowInv' /\ NeverAhead' /\ ShutdownIsLast'
  BY <1>1 DEF IInv, ToldInv, LastInv, WindowInv, Subscribed, NeverAhead, ShutdownIsLast
<1> QED
  BY <1>1, <1>2, <1>3, SubscriberKeepsInv

\* Every step keeps the invariant.
LEMMA NextHolds == IInv /\ [Next]_vars => IInv'
<1> SUFFICES ASSUME IInv, [Next]_vars
             PROVE  IInv'
  OBVIOUS
<1>1. CASE Send
  BY <1>1, SendKeepsInv
<1>2. CASE Control
  BY <1>2, ControlKeeps
<1>3. ASSUME NEW u \in Subscribers, Subscribe(u) \/ Receive(u)
      PROVE  IInv'
  BY <1>3, SubscribeKeeps, ReceiveEventKeeps, ReceiveLaggedKeeps, ResynchronizeKeeps,
     ReceiveClosedKeeps DEF Receive
<1>4. CASE SignalShutdown \/ DropClient \/ Ended \/ UNCHANGED vars
  BY <1>4, ClientKeeps DEF Ended
<1> QED
  BY <1>1, <1>2, <1>3, <1>4 DEF Next, Task, Control

------------------------------------------------------------------------------
(* Who reads on knows what the watches hold.                               *)

\* The initial state: nothing to tell, and nobody to tell it to.
LEMMA NewestInit == Init => NewestInv
BY DEF Init, NewestInv, LastWord, Kept

\* A step of the task changes a watch only together with the event that says so.
LEMMA ControlTells ==
  ASSUME TypeOK, Control
  PROVE  \/ UNCHANGED <<snapshot, state>> /\ outbox' \in {<<>>, <<ShutdownEvent>>}
         \/ snapshot' = snapshot /\ state' \in States /\ outbox' = <<StateChanged(state')>>
         \/ /\ state' = state /\ snapshot' \in 1..MaxSnapshots
            /\ \E k \in SnapshotKinds : outbox' = <<Read(k, snapshot')>>
<1>1. ASSUME NEW k, Publish(k)
      PROVE  snapshot' \in 1..MaxSnapshots /\ outbox' = <<Read(k, snapshot')>>
  BY <1>1, EventsAssumption DEF Publish, TypeOK
<1>2. CASE SnapshotArrives
  BY <1>1, <1>2 DEF SnapshotArrives, Kind, SnapshotKinds
<1>3. CASE Resnapshot
  BY <1>1, <1>3 DEF Resnapshot, SnapshotKinds
<1>4. CASE LoopHead \/ BackoffShutdown \/ Notified \/ LoseConnection \/ SelectShutdown
  BY <1>4 DEF LoopHead, BackoffShutdown, Notified, LoseConnection, SelectShutdown,
              Announce, transition, States
<1>5. CASE ConnectSucceeds \/ BecomeReady
  BY <1>5 DEF ConnectSucceeds, BecomeReady, transition, States, Connected
<1>6. CASE ConnectFails \/ BackoffElapses \/ FirstSnapshotFails \/ Return \/ ExitWithoutClient
  BY <1>6 DEF ConnectFails, BackoffElapses, FirstSnapshotFails, Return, ExitWithoutClient,
              Silently, Go
<1>7. CASE AnnounceEnd
  BY <1>7 DEF AnnounceEnd
<1> QED
  BY <1>2, <1>3, <1>4, <1>5, <1>6, <1>7 DEF Control

\* A step of the task keeps NewestInv: what it changes is pending.
LEMMA NewestControl ==
  ASSUME IInv, NewestInv, Control
  PROVE  NewestInv'
<1>1. outbox = <<>> /\ UNCHANGED <<ring, sub, unread, seen, lagged>>
  BY ControlEffect DEF IInv, Effect, subVars
<1> SUFFICES ASSUME NEW t \in Topics
             PROVE  LastWord(t)' /\ \A u \in Subscribers : Kept(u, t)' => StillToRead(u, t)'
  BY DEF NewestInv
<1>2. /\ \A i \in DOMAIN outbox' : Tells(outbox[i], t)' => News(outbox[i], t)'
      /\ Watch(t)' = Watch(t) \/ Pending(t)'
  <2>1. CASE UNCHANGED <<snapshot, state>> /\ outbox' \in {<<>>, <<ShutdownEvent>>}
    BY <2>1, EventFields DEF Tells, Watch, Topics, SnapshotKinds
  <2>2. CASE snapshot' = snapshot /\ state' \in States /\ outbox' = <<StateChanged(state')>>
    BY <2>2, EventFields DEF Tells, News, Of, Pending, Watch, Topics, SnapshotKinds, StateChanged
  <2>3. CASE /\ state' = state /\ snapshot' \in 1..MaxSnapshots
             /\ \E k \in SnapshotKinds : outbox' = <<Read(k, snapshot')>>
    BY <2>3, EventFields DEF Tells, News, Of, Pending, Watch, Topics, SnapshotKinds, Read
  <2> QED
    BY <2>1, <2>2, <2>3, ControlTells DEF IInv
<1>3. ~Pending(t)
  BY <1>1 DEF Pending
<1>4. Watch(t)' = Watch(t) => \A e : News(e, t)' <=> News(e, t)
  BY DEF News, Tells, Watch, Of
<1>5. LastWord(t)'
  BY <1>1, <1>2, <1>3 DEF NewestInv, LastWord, News, Of, Tells
<1>6. ASSUME NEW u \in Subscribers, Kept(u, t)'
      PROVE  StillToRead(u, t)'
  BY <1>1, <1>2, <1>3, <1>6 DEF NewestInv, Kept, StillToRead, Of, News, Tells
<1> QED
  BY <1>5, <1>6

\* Sending keeps NewestInv: what was pending is the last of the ring, and within what is
\* unread; the others have moved by as much as the ring has.
LEMMA NewestSend ==
  ASSUME IInv, NewestInv, Send
  PROVE  NewestInv'
<1> SUFFICES ASSUME NEW t \in Topics
             PROVE  LastWord(t)' /\ \A u \in Subscribers : Kept(u, t)' => StillToRead(u, t)'
  BY DEF NewestInv
<1> DEFINE e == Head(outbox)
           L == Len(ring)
           M == Len(ring')
           d == L + 1 - M
           Told(i) == News(ring'[i], t)
<1>1. /\ UNCHANGED <<snapshot, state, sub, seen, lagged>>
      /\ outbox # <<>> /\ outbox' = <<>>
  BY DEF Send
<1>2. /\ DOMAIN outbox = {1} /\ e = outbox[1] /\ e \in Event
      /\ ring \in Seq(Event) /\ L \in Nat /\ L <= EventCapacity
      /\ EventCapacity \in Nat \ {0}
  <2>1. outbox \in Seq(Event) /\ Len(outbox) <= 1 /\ 1 \in DOMAIN outbox
    BY <1>1 DEF IInv, TypeOK
  <2>2. DOMAIN outbox = 1..Len(outbox) /\ Len(outbox) \in Nat
    BY <2>1
  <2>3. DOMAIN outbox = {1}
    BY <2>1, <2>2
  <2>4. e = outbox[1] /\ e \in Event
    BY <2>1
  <2>5. ring \in Seq(Event) /\ L \in Nat /\ L <= EventCapacity
    BY DEF IInv, TypeOK
  <2> QED
    BY <2>3, <2>4, <2>5, EventsAssumption
<1>3. /\ Tells(e, t) => News(e, t)
      /\ Pending(t) => News(e, t)
  BY <1>2 DEF NewestInv, LastWord, Pending
<1>4. /\ \A x : News(x, t)' <=> News(x, t)
      /\ \A x : Tells(x, t)' <=> Tells(x, t)
      /\ \A u : Of(seen[u], t)' = Of(seen[u], t)
      /\ Watch(t)' = Watch(t)
  BY <1>1 DEF News, Tells, Watch, Of
<1>5. CASE ~ \E u \in Subscribers : Subscribed(u)
  <2>1. ring' = <<>>
    BY <1>5 DEF Send
  <2>2. LastWord(t)'
    BY <1>1, <2>1 DEF LastWord
  <2>3. \A u \in Subscribers : ~Kept(u, t)'
    BY <1>1, <1>5 DEF Kept, Subscribed
  <2> QED
    BY <2>2, <2>3
<1>6. CASE \E u \in Subscribers : Subscribed(u)
  <2>1. ring' = Keep(Append(ring, e))
    BY <1>6 DEF Send
  <2> HIDE DEF e
  <2>2. /\ ring' \in Seq(Event)
        /\ M = IF L < EventCapacity THEN L + 1 ELSE EventCapacity
        /\ ring'[M] = e
        /\ \A i \in 1 .. M - 1 : i + d \in DOMAIN ring /\ ring'[i] = ring[i + d]
    BY <1>2, <2>1, SendKeeps
  <2>3. M \in Nat \ {0} /\ d \in {0, 1} /\ M = L + 1 - d
        /\ DOMAIN ring' = 1..M /\ DOMAIN ring = 1..L
    BY <1>2, <2>2
  <2> HIDE DEF d, L, M
  <2>4. \A j \in 1..L : j - d >= 1 /\ News(ring[j], t) => j - d \in 1 .. M - 1 /\ Told(j - d)
    <3> SUFFICES ASSUME NEW j \in 1..L, j - d >= 1, News(ring[j], t)
                 PROVE  j - d \in 1 .. M - 1 /\ Told(j - d)
      OBVIOUS
    <3>1. j - d \in 1 .. M - 1
      BY <1>2, <2>3
    <3>2. ring'[j - d] = ring[j]
      <4>1. (j - d) + d = j
        BY <1>2, <2>3
      <4> QED
        BY <2>2, <3>1, <4>1
    <3> QED
      BY <3>1, <3>2
  <2>5. Pending(t) => Told(M)
    BY <1>3, <2>2
  <2>6. ASSUME NEW i \in 1..M, Tells(ring'[i], t)
        PROVE  \E j \in i..M : Told(j)
    <3>1. CASE i = M
      BY <1>3, <2>2, <2>3, <2>6, <3>1
    <3>2. CASE i # M
      <4>1. i \in 1 .. M - 1 /\ i + d \in 1..L /\ ring'[i] = ring[i + d]
        BY <2>2, <2>3, <3>2
      <4>2. Pending(t) \/ \E j \in i + d .. L : News(ring[j], t)
        BY <2>3, <2>6, <4>1 DEF NewestInv, LastWord, L
      <4>3. CASE Pending(t)
        BY <2>3, <2>5, <4>3
      <4>4. CASE \E j \in i + d .. L : News(ring[j], t)
        <5>1. PICK j \in i + d .. L : News(ring[j], t)
          BY <4>4
        <5>2. j \in 1..L /\ j - d >= i /\ j - d >= 1
          BY <1>2, <2>3, <4>1
        <5>3. j - d \in i..M /\ Told(j - d)
          BY <1>2, <2>3, <2>4, <5>1, <5>2
        <5> QED
          BY <5>3
      <4> QED
        BY <4>2, <4>3, <4>4
    <3> QED
      BY <3>1, <3>2
  <2>7. LastWord(t)'
    BY <1>1, <1>4, <2>3, <2>6 DEF LastWord, M
  <2>8. ASSUME NEW u \in Subscribers, Kept(u, t)'
        PROVE  StillToRead(u, t)'
    <3>1. sub[u] = "receiving" /\ unread'[u] <= EventCapacity /\ (t = "state" => ~lagged[u])
      BY <1>1, <2>8 DEF Kept
    <3>2. unread[u] \in Nat /\ unread'[u] = unread[u] + 1 /\ unread[u] + 1 <= EventCapacity
      BY <1>2, <3>1 DEF Send, IInv, TypeOK, Unread, Subscribed
    <3>3. unread[u] <= L
      BY <1>2, <3>1, <3>2 DEF IInv, WindowInv, Subscribed, L
    <3>4. Kept(u, t)
      BY <1>2, <3>1, <3>2 DEF Kept
    <3>5. StillToRead(u, t)
      BY <3>4 DEF NewestInv
    <3>6. CASE Of(seen[u], t) = Watch(t)
      BY <1>4, <3>6 DEF StillToRead
    <3>7. CASE Pending(t)
      <4>1. M \in M - unread'[u] + 1 .. M
        BY <2>3, <3>2
      <4> QED
        BY <1>4, <2>5, <3>7, <4>1 DEF StillToRead, M
    <3>8. CASE \E j \in L - unread[u] + 1 .. L : News(ring[j], t)
      <4>1. PICK j \in L - unread[u] + 1 .. L : News(ring[j], t)
        BY <3>8
      <4>2. j \in 1..L
        BY <1>2, <3>2, <3>3
      <4>3. j - d >= 1 /\ j - d \in M - unread'[u] + 1 .. M
        BY <1>2, <2>2, <2>3, <3>2, <3>3, <4>2 DEF d
      <4>4. Told(j - d)
        BY <2>4, <4>1, <4>2, <4>3
      <4> QED
        BY <1>4, <4>3, <4>4 DEF StillToRead, M
    <3> QED
      BY <3>5, <3>6, <3>7, <3>8 DEF StillToRead, L
  <2> QED
    BY <2>7, <2>8
<1> QED
  BY <1>5, <1>6

\* What a subscriber knows of a topic after an event: what the event tells, if it tells
\* something, or else what it knew.
LEMMA LearnTells ==
  ASSUME NEW s \in Seen, NEW e \in Event, NEW t \in Topics
  PROVE  Of(Learn(s, e), t) = IF Tells(e, t) THEN Of(e, t) ELSE Of(s, t)
<1> USE DEF Seen, Of, Tells, SnapshotKinds, Topics
<1>1. e.kind \in {"StateChanged", "Snapshot", "Resynchronized", "Shutdown"}
  BY EventFields
<1>2. CASE e.kind = "StateChanged"
  <2>1. Learn(s, e) = [s EXCEPT !.state = e.state,
                                !.current = @ /\ e.state # "Synchronizing"]
    BY <1>2 DEF Learn
  <2> QED
    BY <1>2, <2>1
<1>3. CASE e.kind = "Snapshot"
  BY <1>3 DEF Learn
<1>4. CASE e.kind = "Resynchronized"
  BY <1>4 DEF Learn
<1>5. CASE e.kind = "Shutdown"
  BY <1>5 DEF Learn
<1> QED
  BY <1>1, <1>2, <1>3, <1>4, <1>5

\* A step that leaves channel and watches alone keeps NewestInv if every subscriber still
\* has to read what it does not know, as far as the step concerns it.
LEMMA NewestSubscriber ==
  ASSUME NewestInv, UNCHANGED <<outbox, ring, snapshot, state>>,
         \A u \in Subscribers, t \in Topics : Kept(u, t)' =>
           \/ StillToRead(u, t)'
           \/ Kept(u, t) /\ UNCHANGED <<seen[u], unread[u]>>
  PROVE  NewestInv'
<1>1. \A t \in Topics : LastWord(t)'
  BY DEF NewestInv, LastWord, Pending, News, Of, Tells, Watch
<1>2. ASSUME NEW u \in Subscribers, NEW t \in Topics, Kept(u, t),
             UNCHANGED <<seen[u], unread[u]>>
      PROVE  StillToRead(u, t)'
  BY <1>2 DEF NewestInv, StillToRead, Pending, News, Of, Tells, Watch
<1> QED
  BY <1>1, <1>2 DEF NewestInv

\* Receiving an event keeps NewestInv: what it tells is the latest, or a later event of
\* the ring, which is not read yet, tells the latest.
LEMMA NewestReceive ==
  ASSUME IInv, NewestInv, NEW u \in Subscribers, ReceiveEvent(u)
  PROVE  NewestInv'
<1> DEFINE L == Len(ring)
           i == L - unread[u] + 1
<1>1. /\ UNCHANGED <<outbox, state, snapshot, ring, sub, lagged>>
      /\ sub[u] = "receiving" /\ unread[u] \in 1..EventCapacity
      /\ seen' = [seen EXCEPT ![u] = Learn(@, ring[i])]
      /\ unread' = [unread EXCEPT ![u] = @ - 1]
  BY DEF ReceiveEvent, taskVars, sharedVars
<1>2. /\ ring \in Seq(Event) /\ L \in Nat /\ seen \in [Subscribers -> Seen]
      /\ unread \in [Subscribers -> Unread] /\ EventCapacity \in Nat
  BY EventsAssumption DEF IInv, TypeOK
<1>3. i \in 1..L
  <2>1. unread[u] <= L
    BY <1>1, <1>2 DEF IInv, WindowInv, Subscribed
  <2> QED
    BY <1>1, <1>2, <2>1
<1>4. /\ seen'[u] = Learn(seen[u], ring[i]) /\ unread'[u] = unread[u] - 1
      /\ \A w \in Subscribers \ {u} : UNCHANGED <<seen[w], unread[w]>>
  BY <1>1, <1>2
<1>5. L - unread'[u] + 1 = i + 1
  BY <1>1, <1>2, <1>4
<1>6. ring[i] \in Event /\ seen[u] \in Seen
  BY <1>2, <1>3
<1> HIDE DEF i
<1>7. ASSUME NEW t \in Topics, Kept(u, t)'
      PROVE  StillToRead(u, t)'
  <2>1. Kept(u, t)
    BY <1>1, <1>7 DEF Kept
  <2>2. /\ \A x : News(x, t)' <=> News(x, t)
        /\ Watch(t)' = Watch(t) /\ Pending(t)' = Pending(t)
        /\ Of(seen[u], t)' = Of(seen'[u], t)
    BY <1>1 DEF News, Tells, Watch, Of, Pending
  <2> HIDE DEF L
  <2>3. \/ Of(seen'[u], t) = Watch(t)
        \/ Pending(t)
        \/ \E j \in i + 1 .. L : News(ring[j], t)
    <3>1. CASE Tells(ring[i], t)
      <4>1. Of(seen'[u], t) = Of(ring[i], t)
        BY <1>4, <1>6, <3>1, LearnTells
      <4>2. Pending(t) \/ \E j \in i .. L : News(ring[j], t)
        BY <1>2, <1>3, <3>1 DEF NewestInv, LastWord, L
      <4>3. ASSUME NEW j \in i .. L, News(ring[j], t)
            PROVE  News(ring[i], t) \/ j \in i + 1 .. L
        BY <1>2, <1>3, <4>3
      <4>4. News(ring[i], t) => Of(ring[i], t) = Watch(t)
        BY DEF News
      <4> QED
        BY <4>1, <4>2, <4>3, <4>4
    <3>2. CASE ~Tells(ring[i], t)
      <4>1. Of(seen'[u], t) = Of(seen[u], t)
        BY <1>4, <1>6, <3>2, LearnTells
      <4>2. ~News(ring[i], t)
        BY <3>2 DEF News
      <4>3. \/ Of(seen[u], t) = Watch(t)
            \/ Pending(t)
            \/ \E j \in i .. L : News(ring[j], t)
        BY <2>1 DEF NewestInv, StillToRead, i, L
      <4>4. ASSUME NEW j \in i .. L, News(ring[j], t)
            PROVE  j \in i + 1 .. L
        <5>1. j # i
          BY <4>2, <4>4
        <5> QED
          BY <1>2, <1>3, <5>1 DEF L
      <4> QED
        BY <4>1, <4>3, <4>4
    <3> QED
      BY <3>1, <3>2
  <2> QED
    BY <1>1, <1>5, <2>2, <2>3 DEF StillToRead, L
<1>8. ASSUME NEW w \in Subscribers \ {u}, NEW t \in Topics, Kept(w, t)'
      PROVE  Kept(w, t) /\ UNCHANGED <<seen[w], unread[w]>>
  BY <1>1, <1>4, <1>8 DEF Kept
<1> QED
  BY <1>1, <1>7, <1>8, NewestSubscriber

\* The other steps of subscribers and clients keep NewestInv: who starts or resynchronizes
\* knows what the watch holds, of the state only if it never lagged.
LEMMA NewestOthers ==
  ASSUME IInv, NewestInv,
         \/ \E u \in Subscribers :
              Subscribe(u) \/ ReceiveLagged(u) \/ Resynchronize(u) \/ ReceiveClosed(u)
         \/ SignalShutdown \/ DropClient \/ UNCHANGED vars
  PROVE  NewestInv'
<1> USE SubscriberTypes
<1>1. ASSUME NEW u \in Subscribers, Subscribe(u)
      PROVE  NewestInv'
  <2>1. /\ UNCHANGED <<outbox, ring, snapshot, state, unread, lagged>>
        /\ sub' = [sub EXCEPT ![u] = "receiving"]
        /\ seen' = [seen EXCEPT ![u].snapshot = snapshot, ![u].state = state,
                                ![u].first = IF FirstToCome THEN "none" ELSE "late"]
    BY <1>1 DEF Subscribe, taskVars, sharedVars
  <2>2. seen'[u].snapshot = snapshot /\ seen'[u].state = state
    BY <2>1 DEF Seen
  <2>3. \A t \in Topics : StillToRead(u, t)'
    BY <2>1, <2>2 DEF StillToRead, Of, Watch
  <2>4. \A w \in Subscribers \ {u}, t \in Topics :
          Kept(w, t)' => Kept(w, t) /\ UNCHANGED <<seen[w], unread[w]>>
    BY <2>1 DEF Kept
  <2> QED
    BY <2>1, <2>3, <2>4, NewestSubscriber
<1>2. ASSUME NEW u \in Subscribers, ReceiveLagged(u)
      PROVE  NewestInv'
  <2>1. /\ UNCHANGED <<outbox, ring, snapshot, state, seen>>
        /\ sub' = [sub EXCEPT ![u] = "lagging"]
        /\ unread' = [unread EXCEPT ![u] = EventCapacity]
        /\ lagged' = [lagged EXCEPT ![u] = TRUE]
    BY <1>2 DEF ReceiveLagged, taskVars, sharedVars
  <2>2. \A w \in Subscribers, t \in Topics :
          Kept(w, t)' => Kept(w, t) /\ UNCHANGED <<seen[w], unread[w]>>
    BY <2>1 DEF Kept
  <2> QED
    BY <2>1, <2>2, NewestSubscriber
<1>3. ASSUME NEW u \in Subscribers, Resynchronize(u)
      PROVE  NewestInv'
  <2>1. /\ UNCHANGED <<outbox, ring, snapshot, state, unread, lagged>>
        /\ sub' = [sub EXCEPT ![u] = "receiving"]
        /\ seen' = IF snapshot = 0 THEN seen
                   ELSE [seen EXCEPT ![u].snapshot = snapshot, ![u].current = TRUE]
    BY <1>3 DEF Resynchronize, taskVars, sharedVars
  <2>2. seen'[u].snapshot = snapshot
    BY <2>1, EventsAssumption DEF Seen, IInv, ToldInv, NeverAhead
  <2>3. StillToRead(u, "snapshot")'
    BY <2>1, <2>2 DEF StillToRead, Of, Watch
  <2>4. ~Kept(u, "state")'
    BY <1>3, <2>1 DEF Resynchronize, Kept, IInv, WindowInv
  <2>5. \A w \in Subscribers \ {u}, t \in Topics :
          Kept(w, t)' => Kept(w, t) /\ UNCHANGED <<seen[w], unread[w]>>
    BY <2>1 DEF Kept
  <2> QED
    BY <2>1, <2>3, <2>4, <2>5, NewestSubscriber DEF Topics
<1>4. ASSUME NEW u \in Subscribers, ReceiveClosed(u)
      PROVE  NewestInv'
  <2>1. /\ UNCHANGED <<outbox, ring, snapshot, state, unread, lagged>>
        /\ sub' = [sub EXCEPT ![u] = "over"]
        /\ \A w \in Subscribers \ {u} : seen'[w] = seen[w]
    BY <1>4 DEF ReceiveClosed, taskVars, sharedVars
  <2>2. \A w \in Subscribers, t \in Topics :
          Kept(w, t)' => Kept(w, t) /\ UNCHANGED <<seen[w], unread[w]>>
    BY <2>1 DEF Kept
  <2> QED
    BY <2>1, <2>2, NewestSubscriber
<1>5. CASE SignalShutdown \/ DropClient \/ UNCHANGED vars
  <2>1. UNCHANGED <<outbox, ring, snapshot, state, sub, unread, seen, lagged>>
    BY <1>5 DEF SignalShutdown, DropClient, vars, taskVars, sharedVars, subVars
  <2> QED
    BY <2>1, NewestSubscriber DEF Kept
<1> QED
  BY <1>1, <1>2, <1>3, <1>4, <1>5

------------------------------------------------------------------------------
(* Readiness comes after a snapshot, and the first snapshot is Snapshot.   *)

\* A step of the task announces readiness only where a snapshot was published last.
LEMMA ControlReady ==
  ASSUME TypeOK, Control, snapshot = 0 => NotYet
  PROVE  /\ outbox = <<>> /\ UNCHANGED <<ring, sub, unread, seen, lagged>>
         /\ Closing' => Closing
         /\ at' = "published" /\ outbox' # <<>> => Snapshots(outbox'[1])
         /\ snapshot' = 0 => NotYet'
         /\ FirstToCome' <=> FirstToCome
<1> USE EventsAssumption DEF States, Connected, SnapshotKinds, EventsAssumption
<1>1. outbox = <<>> /\ UNCHANGED <<ring, sub, unread, seen, lagged>>
  BY ControlEffect DEF Effect, subVars
<1>2. ASSUME NEW k \in SnapshotKinds, Publish(k)
      PROVE  /\ snapshot \in Nat /\ snapshot' = snapshot + 1 /\ outbox' = <<Read(k, snapshot + 1)>>
             /\ outbox'[1].kind = k /\ Snapshots(outbox'[1]) /\ ~Connects(outbox'[1])
             /\ outbox' # <<>>
  BY <1>2 DEF Publish, TypeOK, Read, Snapshots, Connects
<1>3. CASE SnapshotArrives
  <2>1. /\ Kind \in SnapshotKinds /\ Publish(Kind) /\ at' = "published"
        /\ Kind = "Snapshot" <=> snapshot = 0
    BY <1>3 DEF SnapshotArrives, Go, Kind
  <2>2. /\ snapshot \in Nat /\ snapshot' = snapshot + 1 /\ outbox' # <<>>
        /\ outbox'[1].kind = Kind /\ Snapshots(outbox'[1]) /\ ~Connects(outbox'[1])
    BY <1>2, <2>1
  <2> QED
    BY <1>1, <2>1, <2>2 DEF Closing, FirstToCome
<1>4. CASE Resnapshot
  <2>1. Publish("Resynchronized") /\ at' = "select" /\ at = "select"
    BY <1>4 DEF Resnapshot, Go
  <2>2. /\ snapshot \in Nat /\ snapshot' = snapshot + 1 /\ outbox' # <<>>
        /\ outbox'[1].kind = "Resynchronized" /\ ~Connects(outbox'[1])
    BY <1>2, <2>1
  <2>3. snapshot # 0
    BY <2>1 DEF NotYet
  <2> QED
    BY <1>1, <2>1, <2>2, <2>3 DEF Closing, FirstToCome
<1>5. CASE BecomeReady
  <2>1. /\ at = "published" /\ at' = "select" /\ snapshot' = snapshot /\ snapshot # 0
        /\ \E s \in Connected : outbox' = <<StateChanged(s)>>
    BY <1>5 DEF BecomeReady, Go, transition, NotYet
  <2>2. outbox'[1].kind = "StateChanged"
    BY <2>1 DEF StateChanged
  <2> QED
    BY <1>1, <2>1, <2>2 DEF Closing, FirstToCome
<1>6. CASE ~SnapshotArrives /\ ~Resnapshot /\ ~BecomeReady
  <2>1. /\ snapshot' = snapshot
        /\ at' # "published"
        /\ at' \in {"select", "notified"} => at = "select"
        /\ \/ outbox' = <<>> \/ outbox' = <<ShutdownEvent>>
           \/ \E s \in States \ Connected : outbox' = <<StateChanged(s)>>
    BY <1>1, <1>6
       DEF Control, LoopHead, ConnectFails, BackoffElapses, BackoffShutdown, ConnectSucceeds,
           FirstSnapshotFails, Notified, LoseConnection, SelectShutdown, AnnounceEnd, Return,
           ExitWithoutClient, Announce, Silently, Go, transition
  <2>2. outbox' # <<>> => ~Connects(outbox'[1]) /\ outbox'[1].kind # "Snapshot"
    BY <2>1 DEF StateChanged, ShutdownEvent, Connects
  <2>3. DOMAIN outbox' \subseteq {1} /\ (outbox' = <<>> => DOMAIN outbox' = {})
    BY <2>1
  <2>4. snapshot' = 0 => NotYet'
    BY <1>1, <2>1, <2>2, <2>3 DEF NotYet, Connects
  <2>5. ~Closing'
    BY <2>1, <2>2 DEF Closing, Connects
  <2>6. FirstToCome' <=> FirstToCome
    BY <1>1, <2>1, <2>2 DEF FirstToCome
  <2> QED
    BY <1>1, <2>1, <2>4, <2>5, <2>6
<1> QED
  BY <1>3, <1>4, <1>5, <1>6

\* How sending moves the events, and what a subscriber has read of them.
LEMMA SendWindow ==
  ASSUME IInv, Send, \E u \in Subscribers : Subscribed(u)
  PROVE  \E d \in {0, 1} :
           /\ Len(ring) \in Nat /\ Len(ring') \in Nat \ {0} /\ Len(ring') = Len(ring) + 1 - d
           /\ DOMAIN ring = 1..Len(ring) /\ DOMAIN ring' = 1..Len(ring')
           /\ ring'[Len(ring')] = outbox[1]
           /\ \A i \in 1 .. Len(ring') - 1 : i + d \in 1..Len(ring) /\ ring'[i] = ring[i + d]
           /\ \A u \in Subscribers : InStep(u)' =>
                /\ InStep(u) /\ Place(u) \in 0..Len(ring)
                /\ Place(u)' = Place(u) - d /\ Place(u) - d >= 0
<1> DEFINE e == Head(outbox)
           L == Len(ring)
           M == Len(ring')
           d == L + 1 - M
<1>1. outbox # <<>> /\ ring' = Keep(Append(ring, e)) /\ UNCHANGED <<sub, lagged>>
  BY DEF Send
<1>2. e \in Event /\ e = outbox[1] /\ ring \in Seq(Event) /\ L \in Nat /\ L <= EventCapacity
  BY <1>1 DEF IInv, TypeOK
<1>3. EventCapacity \in Nat \ {0}
  BY EventsAssumption
<1> HIDE DEF e
<1>4. /\ ring' \in Seq(Event)
      /\ M = IF L < EventCapacity THEN L + 1 ELSE EventCapacity
      /\ ring'[M] = e
      /\ \A i \in 1 .. M - 1 : i + d \in DOMAIN ring /\ ring'[i] = ring[i + d]
  BY <1>1, <1>2, SendKeeps
<1>5. M \in Nat \ {0} /\ d \in {0, 1} /\ M = L + 1 - d /\ DOMAIN ring = 1..L /\ DOMAIN ring' = 1..M
  BY <1>2, <1>3, <1>4
<1>6. ASSUME NEW u \in Subscribers, InStep(u)'
      PROVE  InStep(u) /\ Place(u) \in 0..L /\ Place(u)' = Place(u) - d /\ Place(u) - d >= 0
  <2>1. sub[u] = "receiving" /\ unread'[u] <= EventCapacity /\ unread[u] \in Nat
    BY <1>1, <1>3, <1>6 DEF InStep, IInv, TypeOK, Unread
  <2>2. unread'[u] = unread[u] + 1 /\ unread[u] + 1 <= EventCapacity
    BY <1>3, <2>1 DEF Send, Subscribed, IInv, TypeOK
  <2>3. unread[u] <= L
    BY <1>3, <2>1, <2>2 DEF IInv, WindowInv, Subscribed
  <2>4. InStep(u) /\ Place(u) = L - unread[u] /\ Place(u)' = M - unread'[u]
    BY <1>3, <2>1, <2>2 DEF InStep, Place
  <2>5. L - unread[u] \in 0..L
    BY <1>2, <2>1, <2>3
  <2>6. M - (unread[u] + 1) = (L - unread[u]) - d /\ M - (unread[u] + 1) >= 0
    <3> HIDE DEF L, M, d
    <3>1. unread[u] + 1 <= M
      BY <1>2, <1>3, <1>4, <2>1, <2>2, <2>3
    <3> QED
      BY <1>2, <1>5, <2>1, <3>1
  <2> QED
    BY <2>2, <2>4, <2>5, <2>6
<1> HIDE DEF L, M, d
<1>7. \A i \in 1 .. M - 1 : i + d \in 1..L /\ ring'[i] = ring[i + d]
  BY <1>4, <1>5
<1> QED
  BY <1>2, <1>4, <1>5, <1>6, <1>7 DEF L, M

\* Sending keeps a place resolved: readiness is sent only after a snapshot was.
LEMMA ResolvedSend ==
  ASSUME IInv, ReadyInv, Send, NEW d \in {0, 1},
         Len(ring) \in Nat, Len(ring') \in Nat \ {0}, Len(ring') = Len(ring) + 1 - d,
         ring'[Len(ring')] = outbox[1],
         \A i \in 1 .. Len(ring') - 1 : i + d \in 1..Len(ring) /\ ring'[i] = ring[i + d],
         NEW q \in Nat, q + d <= Len(ring), Resolved(q + d)
  PROVE  Resolved(q)'
<1> DEFINE L == Len(ring)
           M == Len(ring')
           p == q + d
<1>1. outbox # <<>> /\ outbox' = <<>> /\ at' = at
  BY DEF Send
<1>2. /\ \A j \in p + 1 .. L : Connects(ring[j]) => \E k \in p + 1 .. j : Snapshots(ring[k])
      /\ Closing => \E k \in p + 1 .. L : Snapshots(ring[k])
  BY DEF Resolved
<1>3. L \in Nat /\ M \in Nat \ {0} /\ M = L + 1 - d /\ ring'[M] = outbox[1] /\ q + d <= L
  OBVIOUS
<1>4. \A i \in 1 .. M - 1 : i + d \in 1..L /\ ring'[i] = ring[i + d]
  OBVIOUS
<1> HIDE DEF L, M
<1>5. \A k \in p + 1 .. L : k - d \in q + 1 .. M - 1 /\ k - d \in 1 .. M - 1
      /\ ring'[k - d] = ring[k]
  <2> SUFFICES ASSUME NEW k \in p + 1 .. L
               PROVE  k - d \in q + 1 .. M - 1 /\ k - d \in 1 .. M - 1 /\ ring'[k - d] = ring[k]
    OBVIOUS
  <2>1. k - d \in q + 1 .. M - 1 /\ k - d \in 1 .. M - 1 /\ (k - d) + d = k
    BY <1>3
  <2> QED
    BY <1>4, <2>1
<1>6. ASSUME NEW j \in q + 1 .. M, Connects(ring'[j])
      PROVE  \E k \in q + 1 .. j : Snapshots(ring'[k])
  <2>1. CASE j = M
    <3>1. Closing
      BY <1>1, <1>3, <1>6, <2>1 DEF Closing
    <3>2. PICK k \in p + 1 .. L : Snapshots(ring[k])
      BY <1>2, <3>1
    <3>3. k - d \in q + 1 .. j /\ Snapshots(ring'[k - d])
      BY <1>3, <1>5, <2>1, <3>2
    <3> QED
      BY <3>3
  <2>2. CASE j # M
    <3>1. j \in 1 .. M - 1 /\ j + d \in p + 1 .. L /\ ring'[j] = ring[j + d]
      BY <1>3, <1>4, <2>2
    <3>2. PICK k \in p + 1 .. j + d : Snapshots(ring[k])
      BY <1>2, <1>6, <3>1
    <3>3. k \in Int /\ j \in Int /\ p + 1 <= k /\ k <= j + d /\ j + d <= L
      BY <1>3, <3>1
    <3>4. k \in p + 1 .. L /\ k - d <= j
      <4> HIDE DEF p
      <4>1. p \in Int
        BY DEF p
      <4> QED
        BY <1>3, <3>3, <4>1
    <3>5. k - d \in q + 1 .. j /\ Snapshots(ring'[k - d])
      BY <1>3, <1>5, <3>2, <3>3, <3>4
    <3> QED
      BY <3>5
  <2> QED
    BY <2>1, <2>2
<1>7. ASSUME Closing' PROVE \E k \in q + 1 .. M : Snapshots(ring'[k])
  <2>1. Snapshots(ring'[M])
    BY <1>1, <1>3, <1>7 DEF Closing, ReadyInv
  <2>2. M \in q + 1 .. M
    BY <1>3
  <2> QED
    BY <2>1, <2>2
<1> QED
  BY <1>6, <1>7 DEF Resolved, M, Snapshots, Connects

\* Sending an event keeps readiness behind its snapshot, in the ring and for all
\* subscribers.
LEMMA ReadySend ==
  ASSUME IInv, ReadyInv, Send
  PROVE  ReadyInv'
<1>1. /\ UNCHANGED <<at, snapshot, sub, seen, lagged>> /\ outbox # <<>> /\ outbox' = <<>>
  BY DEF Send
<1>2. outbox[1] \in Event /\ 1 \in DOMAIN outbox
  BY <1>1 DEF IInv, TypeOK
<1>3. ReadyAfterSnapshot' /\ \A u \in Subscribers : sub'[u] = "none" => seen'[u].current
  BY <1>1 DEF ReadyInv, ReadyAfterSnapshot
<1>4. CASE ~ \E u \in Subscribers : Subscribed(u)
  <2>1. ring' = <<>>
    BY <1>4 DEF Send
  <2>2. \A u \in Subscribers : ~InStep(u)'
    BY <1>1, <1>4 DEF InStep, Subscribed
  <2> QED
    BY <1>1, <1>3, <2>1, <2>2 DEF ReadyInv, NotYet
<1>5. CASE \E u \in Subscribers : Subscribed(u)
  <2>1. PICK d \in {0, 1} :
           /\ Len(ring) \in Nat /\ Len(ring') \in Nat \ {0} /\ Len(ring') = Len(ring) + 1 - d
           /\ DOMAIN ring = 1..Len(ring) /\ DOMAIN ring' = 1..Len(ring')
           /\ ring'[Len(ring')] = outbox[1]
           /\ \A i \in 1 .. Len(ring') - 1 : i + d \in 1..Len(ring) /\ ring'[i] = ring[i + d]
           /\ \A u \in Subscribers : InStep(u)' =>
                /\ InStep(u) /\ Place(u) \in 0..Len(ring)
                /\ Place(u)' = Place(u) - d /\ Place(u) - d >= 0
    BY <1>5, SendWindow
  <2>2. snapshot' = 0 => NotYet'
    <3>1. ASSUME NotYet PROVE NotYet'
      <4>1. \A i \in DOMAIN ring' : i = Len(ring') \/ i \in 1 .. Len(ring') - 1
        BY <2>1
      <4>2. \A i \in DOMAIN ring' : ~Connects(ring'[i])
        BY <1>2, <2>1, <3>1, <4>1 DEF NotYet
      <4> QED
        BY <1>1, <3>1, <4>2 DEF NotYet, Connects
    <3> QED
      BY <1>1, <3>1 DEF ReadyInv
  <2>3. ASSUME NEW i \in DOMAIN ring', Synchronizes(ring'[i]) PROVE Resolved(i)'
    <3>1. CASE i = Len(ring')
      <4>1. ~Closing'
        BY <1>1, <2>1, <2>3, <3>1 DEF Closing, ReadyInv, Synchronizes, Snapshots, SnapshotKinds
      <4>2. \A k \in Nat : k + 1 .. k = {}
        OBVIOUS
      <4> QED
        BY <2>1, <3>1, <4>1, <4>2 DEF Resolved
    <3>2. CASE i # Len(ring')
      <4>1. i \in 1 .. Len(ring') - 1 /\ i \in Nat
        BY <2>1, <3>2
      <4>2. i + d \in 1..Len(ring) /\ Synchronizes(ring[i + d])
        BY <2>1, <2>3, <4>1
      <4>3. Resolved(i + d) /\ i + d <= Len(ring)
        BY <2>1, <4>2 DEF ReadyInv
      <4> QED
        BY <2>1, <4>1, <4>3, ResolvedSend
    <3> QED
      BY <3>1, <3>2
  <2>4. ASSUME NEW u \in Subscribers, InStep(u)', ~seen'[u].current PROVE Resolved(Place(u))'
    <3>1. /\ InStep(u) /\ Place(u) \in 0..Len(ring) /\ Place(u)' = Place(u) - d
          /\ Place(u) - d >= 0
      BY <2>1, <2>4
    <3>2. Resolved(Place(u))
      BY <1>1, <2>4, <3>1 DEF ReadyInv
    <3>3. Place(u)' \in Nat /\ Place(u)' + d = Place(u) /\ Place(u)' + d <= Len(ring)
      BY <2>1, <3>1
    <3>4. \A q \in Nat : q + d = Place(u) => Resolved(q)'
      BY <2>1, <3>1, <3>2, ResolvedSend
    <3>5. \A q \in Nat : q = Place(u)' => Resolved(q)'
      BY <3>3, <3>4
    <3> QED
      BY <3>3, <3>5 DEF Resolved
  <2> QED
    BY <1>1, <1>3, <2>2, <2>3, <2>4 DEF ReadyInv, Synchronizes
<1> QED
  BY <1>4, <1>5

\* So does every other step of the task.
LEMMA ReadyControl ==
  ASSUME IInv, ReadyInv, Control
  PROVE  ReadyInv'
<1>1. /\ UNCHANGED <<ring, sub, unread, seen, lagged>> /\ (Closing' => Closing)
      /\ at' = "published" /\ outbox' # <<>> => Snapshots(outbox'[1])
      /\ snapshot' = 0 => NotYet'
  BY ControlReady DEF IInv, ReadyInv
<1>2. \A p : Resolved(p) => Resolved(p)'
  BY <1>1 DEF Resolved, Connects, Snapshots
<1>3. \A u \in Subscribers : Place(u)' = Place(u) /\ (InStep(u)' <=> InStep(u))
  BY <1>1 DEF Place, InStep
<1>4. \A u \in Subscribers : Resolved(Place(u)) => Resolved(Place(u))'
  BY <1>1 DEF Resolved, Place, Connects, Snapshots
<1> QED
  BY <1>1, <1>2, <1>3, <1>4 DEF ReadyInv, ReadyAfterSnapshot, Synchronizes

\* What a subscriber knows of the session, and of the first snapshot, after an event.
LEMMA LearnReady ==
  ASSUME NEW s \in Seen, NEW e \in Event
  PROVE  /\ Snapshots(e) => Learn(s, e).current /\ Learn(s, e).state = s.state
         /\ Synchronizes(e) => ~Learn(s, e).current /\ Learn(s, e).state = "Synchronizing"
         /\ ~Snapshots(e) /\ ~Synchronizes(e) => Learn(s, e).current = s.current
         /\ ~Snapshots(e) => Learn(s, e).first = s.first
         /\ Learn(s, e).state \in Connected => s.state \in Connected \/ Connects(e)
         /\ e.kind = "Snapshot"
            => Learn(s, e).first = IF s.first = "none" THEN "Snapshot" ELSE "wrong"
         /\ e.kind = "Resynchronized"
            => Learn(s, e).first = IF s.first = "none" THEN "wrong" ELSE s.first
<1> USE DEF Seen, Snapshots, Synchronizes, Connects, SnapshotKinds
<1>1. e.kind \in {"StateChanged", "Snapshot", "Resynchronized", "Shutdown"}
  BY EventFields
<1>2. CASE e.kind = "StateChanged"
  <2>1. Learn(s, e) = [s EXCEPT !.state = e.state,
                                !.current = @ /\ e.state # "Synchronizing"]
    BY <1>2 DEF Learn
  <2>2. (s.current /\ e.state # "Synchronizing") \in BOOLEAN /\ s.current \in BOOLEAN
    OBVIOUS
  <2> QED
    BY <1>2, <2>1, <2>2
<1>3. CASE e.kind = "Snapshot"
  BY <1>3 DEF Learn
<1>4. CASE e.kind = "Resynchronized"
  BY <1>4 DEF Learn
<1>5. CASE e.kind = "Shutdown"
  BY <1>5 DEF Learn
<1> QED
  BY <1>1, <1>2, <1>3, <1>4, <1>5

\* A step that leaves the channel and the task alone keeps ReadyInv if it does for the
\* subscribers that it concerns.
LEMMA ReadySubscriber ==
  ASSUME ReadyInv, UNCHANGED <<at, outbox, ring, snapshot>>,
         \A u \in Subscribers :
           \/ UNCHANGED <<sub[u], unread[u], seen[u]>>
           \/ /\ sub'[u] # "none"
              /\ seen'[u].state \in Connected => seen'[u].current
              /\ InStep(u)' /\ ~seen'[u].current => Resolved(Len(ring) - unread'[u])
  PROVE  ReadyInv'
<1>1. Closing' = Closing
  BY DEF Closing
<1>2. \A p : Resolved(p)' <=> Resolved(p)
  BY <1>1 DEF Resolved
<1>3. \A u \in Subscribers : Resolved(Place(u))' <=> Resolved(Len(ring) - unread'[u])
  BY <1>1 DEF Resolved, Place
<1>4. ASSUME NEW u \in Subscribers
      PROVE  /\ sub'[u] = "none" => seen'[u].current
             /\ InStep(u)' /\ ~seen'[u].current => Resolved(Place(u))'
             /\ seen'[u].state \in Connected => seen'[u].current
  <2>1. CASE UNCHANGED <<sub[u], unread[u], seen[u]>>
    BY <1>3, <2>1 DEF ReadyInv, ReadyAfterSnapshot, InStep, Place
  <2> QED
    BY <1>3, <2>1
<1> QED
  BY <1>2, <1>4 DEF ReadyInv, ReadyAfterSnapshot, NotYet

\* The place of a subscriber that receives the next event, and that event.
LEMMA NextEvent ==
  ASSUME IInv, NEW u \in Subscribers, ReceiveEvent(u)
  PROVE  LET p == Place(u)
         IN /\ InStep(u) /\ p \in Nat /\ Len(ring) \in Nat /\ p + 1 <= Len(ring)
            /\ p + 1 \in DOMAIN ring /\ DOMAIN ring = 1..Len(ring)
            /\ ring[p + 1] \in Event
            /\ seen[u] \in Seen /\ seen'[u] = Learn(seen[u], ring[p + 1])
            /\ Len(ring) - unread'[u] = p + 1
            /\ UNCHANGED <<at, outbox, ring, snapshot, sub, lagged>>
            /\ \A w \in Subscribers : w # u => UNCHANGED <<sub[w], unread[w], seen[w]>>
<1> DEFINE p == Place(u)
<1>1. /\ UNCHANGED <<at, outbox, ring, snapshot, sub, lagged>>
      /\ sub[u] = "receiving" /\ unread[u] \in 1..EventCapacity
      /\ seen' = [seen EXCEPT ![u] = Learn(@, ring[Len(ring) - unread[u] + 1])]
      /\ unread' = [unread EXCEPT ![u] = @ - 1]
  BY DEF ReceiveEvent, taskVars, sharedVars
<1>2. /\ ring \in Seq(Event) /\ Len(ring) \in Nat /\ seen \in [Subscribers -> Seen]
      /\ unread \in [Subscribers -> Unread] /\ EventCapacity \in Nat
  BY EventsAssumption DEF IInv, TypeOK
<1>3. unread[u] <= Len(ring)
  BY <1>1, <1>2 DEF IInv, WindowInv, Subscribed
<1>4. p = Len(ring) - unread[u]
  BY DEF Place
<1> HIDE DEF p
<1>5. p \in Nat /\ p + 1 <= Len(ring) /\ p + 1 \in 1..Len(ring)
  BY <1>1, <1>2, <1>3, <1>4
<1>6. ring[p + 1] \in Event /\ DOMAIN ring = 1..Len(ring)
  BY <1>2, <1>5
<1>7. /\ seen'[u] = Learn(seen[u], ring[p + 1]) /\ unread'[u] = unread[u] - 1
      /\ \A w \in Subscribers : w # u => UNCHANGED <<sub[w], unread[w], seen[w]>>
  BY <1>1, <1>2, <1>4
<1>8. Len(ring) - unread'[u] = p + 1
  BY <1>1, <1>2, <1>4, <1>7
<1>9. InStep(u)
  BY <1>1, <1>2 DEF InStep
<1> QED
  BY <1>1, <1>2, <1>5, <1>6, <1>7, <1>8, <1>9 DEF p

\* Receiving an event keeps it: readiness is not read before the snapshot.
LEMMA ReadyReceive ==
  ASSUME IInv, ReadyInv, NEW u \in Subscribers, ReceiveEvent(u)
  PROVE  ReadyInv'
<1> DEFINE p == Place(u)
           e == ring[p + 1]
<1>1. /\ InStep(u) /\ p \in Nat /\ Len(ring) \in Nat /\ p + 1 <= Len(ring)
      /\ p + 1 \in DOMAIN ring /\ e \in Event
      /\ seen[u] \in Seen /\ seen'[u] = Learn(seen[u], e)
      /\ Len(ring) - unread'[u] = p + 1
      /\ UNCHANGED <<at, outbox, ring, snapshot, sub>>
      /\ \A w \in Subscribers : w # u => UNCHANGED <<sub[w], unread[w], seen[w]>>
  BY NextEvent
<1>2. ~seen[u].current => Resolved(p)
  BY <1>1 DEF ReadyInv
<1>3. Synchronizes(e) => Resolved(p + 1)
  BY <1>1 DEF ReadyInv
<1>4. seen[u].state \in Connected => seen[u].current
  BY DEF ReadyInv, ReadyAfterSnapshot
<1> HIDE DEF p
<1>5. ASSUME Resolved(p), ~Snapshots(e) PROVE Resolved(p + 1) /\ ~Connects(e)
  <2>1. ~Connects(e)
    <3>1. p + 1 \in p + 1 .. Len(ring) /\ \A k \in p + 1 .. p + 1 : k = p + 1
      BY <1>1
    <3> QED
      BY <1>5, <3>1 DEF Resolved
  <2>2. ASSUME NEW j \in p + 1 .. Len(ring), NEW k \in p + 1 .. j, Snapshots(ring[k])
        PROVE  k \in p + 1 + 1 .. j
    <3>1. k # p + 1
      BY <1>5, <2>2
    <3> QED
      BY <1>1, <3>1
  <2>3. \A j \in p + 1 + 1 .. Len(ring) : j \in p + 1 .. Len(ring)
    BY <1>1
  <2>4. Closing => \E k \in p + 1 + 1 .. Len(ring) : Snapshots(ring[k])
    <3>1. Len(ring) \in p + 1 .. Len(ring)
      BY <1>1
    <3> QED
      BY <1>5, <2>2, <3>1 DEF Resolved
  <2>5. \A j \in p + 1 + 1 .. Len(ring) :
          Connects(ring[j]) => \E k \in p + 1 + 1 .. j : Snapshots(ring[k])
    BY <1>5, <2>2, <2>3 DEF Resolved
  <2> QED
    BY <2>1, <2>4, <2>5 DEF Resolved
<1>6. sub'[u] # "none"
  BY <1>1 DEF InStep
<1>7. ~Synchronizes(e) /\ ~Snapshots(e) => seen'[u].current = seen[u].current
  BY <1>1, LearnReady
<1>8. Snapshots(e) => seen'[u].current
  BY <1>1, LearnReady
<1>9. ~seen'[u].current => Resolved(p + 1)
  BY <1>2, <1>3, <1>5, <1>7, <1>8
<1>10. seen'[u].state \in Connected => seen'[u].current
  <2>1. CASE Synchronizes(e)
    BY <1>1, <2>1, LearnReady DEF Connected
  <2>2. CASE ~Synchronizes(e) /\ ~Snapshots(e)
    <3>1. seen'[u].state \in Connected => seen[u].state \in Connected \/ Connects(e)
      BY <1>1, LearnReady
    <3> QED
      BY <1>2, <1>4, <1>5, <1>7, <2>2, <3>1
  <2> QED
    BY <1>8, <2>1, <2>2
<1> QED
  BY <1>1, <1>6, <1>9, <1>10, ReadySubscriber

\* And so do subscribing, lagging and resynchronizing.
LEMMA ReadyOthers ==
  ASSUME IInv, ReadyInv,
         \/ \E u \in Subscribers :
              Subscribe(u) \/ ReceiveLagged(u) \/ Resynchronize(u) \/ ReceiveClosed(u)
         \/ SignalShutdown \/ DropClient \/ UNCHANGED vars
  PROVE  ReadyInv'
<1> USE SubscriberTypes
<1>0. \A u \in Subscribers : seen[u].state \in Connected => seen[u].current
  BY DEF ReadyInv, ReadyAfterSnapshot
<1>1. ASSUME NEW u \in Subscribers, Subscribe(u)
      PROVE  ReadyInv'
  <2>1. /\ UNCHANGED <<at, outbox, ring, snapshot, unread>>
        /\ sub[u] = "none" /\ sub' = [sub EXCEPT ![u] = "receiving"]
        /\ seen' = [seen EXCEPT ![u].snapshot = snapshot, ![u].state = state,
                                ![u].first = IF FirstToCome THEN "none" ELSE "late"]
    BY <1>1 DEF Subscribe, taskVars, sharedVars
  <2>2. seen'[u].current = seen[u].current /\ seen[u].current /\ sub'[u] # "none"
    BY <2>1 DEF Seen, ReadyInv
  <2>3. \A w \in Subscribers : w # u => UNCHANGED <<sub[w], unread[w], seen[w]>>
    BY <2>1
  <2> QED
    BY <2>1, <2>2, <2>3, ReadySubscriber
<1>2. ASSUME NEW u \in Subscribers, ReceiveLagged(u) \/ ReceiveClosed(u)
      PROVE  ReadyInv'
  <2>1. /\ UNCHANGED <<at, outbox, ring, snapshot>>
        /\ sub'[u] \in {"lagging", "over"}
        /\ \A w \in Subscribers : w # u => UNCHANGED <<sub[w], unread[w], seen[w]>>
    BY <1>2 DEF ReceiveLagged, ReceiveClosed, taskVars, sharedVars
  <2>2. seen'[u].current = seen[u].current /\ seen'[u].state = seen[u].state
    BY <1>2 DEF ReceiveLagged, ReceiveClosed, Seen
  <2>3. ~InStep(u)' /\ sub'[u] # "none"
    BY <2>1 DEF InStep
  <2> QED
    BY <1>0, <2>1, <2>2, <2>3, ReadySubscriber
<1>3. ASSUME NEW u \in Subscribers, Resynchronize(u)
      PROVE  ReadyInv'
  <2>1. /\ UNCHANGED <<at, outbox, ring, snapshot, unread>>
        /\ sub' = [sub EXCEPT ![u] = "receiving"]
        /\ seen' = IF snapshot = 0 THEN seen
                   ELSE [seen EXCEPT ![u].snapshot = snapshot, ![u].current = TRUE]
    BY <1>3 DEF Resynchronize, taskVars, sharedVars
  <2>2. \A w \in Subscribers : w # u => UNCHANGED <<sub[w], unread[w], seen[w]>>
    BY <2>1
  <2>3. sub'[u] # "none"
    BY <2>1
  <2>4. CASE snapshot # 0
    <3>1. seen'[u].current
      BY <2>1, <2>4 DEF Seen
    <3> QED
      BY <2>1, <2>2, <2>3, <3>1, ReadySubscriber
  <2>5. CASE snapshot = 0
    <3>1. NotYet /\ seen' = seen
      BY <2>1, <2>5 DEF ReadyInv
    <3>2. InStep(u)' => Resolved(Len(ring) - unread'[u])
      <4>1. ASSUME InStep(u)' PROVE Len(ring) - unread'[u] \in Nat
        <5>1. Len(ring) \in Nat /\ unread[u] \in Nat /\ unread[u] <= EventCapacity
          BY <2>1, <4>1, EventsAssumption DEF InStep, IInv, TypeOK, Unread
        <5>2. unread[u] <= Len(ring)
          BY <1>3, <5>1, EventsAssumption DEF Resynchronize, IInv, WindowInv, Subscribed
        <5> QED
          BY <2>1, <5>1, <5>2
      <4>2. \A q \in Nat : \A j \in q + 1 .. Len(ring) : j \in DOMAIN ring
        BY DEF IInv, TypeOK
      <4>3. ~Closing
        <5>1. outbox # <<>> => 1 \in DOMAIN outbox
          BY DEF IInv, TypeOK
        <5> QED
          BY <3>1, <5>1 DEF NotYet, Closing
      <4> QED
        BY <3>1, <4>1, <4>2, <4>3 DEF NotYet, Resolved
    <3> QED
      BY <1>0, <2>1, <2>2, <2>3, <3>1, <3>2, ReadySubscriber
  <2> QED
    BY <2>4, <2>5
<1>4. CASE SignalShutdown \/ DropClient \/ UNCHANGED vars
  <2>1. UNCHANGED <<at, outbox, ring, snapshot, sub, unread, seen>>
    BY <1>4 DEF SignalShutdown, DropClient, vars, taskVars, sharedVars, subVars
  <2> QED
    BY <2>1, ReadySubscriber
<1> QED
  BY <1>1, <1>2, <1>3, <1>4

\* At the start nothing has been said.
LEMMA ReadyInit == Init => ReadyInv
<1> SUFFICES ASSUME Init PROVE ReadyInv
  OBVIOUS
<1>1. /\ at = "top" /\ outbox = <<>> /\ ring = <<>>
      /\ \A u \in Subscribers :
           sub[u] = "none" /\ seen[u].current /\ seen[u].state = "Disconnected"
  BY DEF Init
<1>2. DOMAIN ring = {} /\ DOMAIN outbox = {}
  BY <1>1
<1> QED
  BY <1>1, <1>2 DEF ReadyInv, ReadyAfterSnapshot, NotYet, InStep, Connected

\* At the start there is nobody to tell.
LEMMA FirstInit == Init => FirstInv
BY DEF Init, FirstInv, FirstIsSnapshot, InStep

\* No snapshot is in the channel before the first is published.
LEMMA NoneYet ==
  ASSUME IInv, snapshot = 0
  PROVE  /\ \A i \in DOMAIN ring : ~Snapshots(ring[i])
         /\ \A i \in DOMAIN outbox : ~Snapshots(outbox[i])
<1>1. /\ \A i \in DOMAIN ring : ring[i] \in Event
      /\ \A i \in DOMAIN outbox : outbox[i] \in Event
  BY DEF IInv, TypeOK
<1>2. \A e \in Event : Covered(e) => ~Snapshots(e)
  BY EventFields, EventsAssumption DEF Covered, Snapshots
<1> QED
  BY <1>1, <1>2 DEF IInv, ToldInv

\* Sending the first snapshot puts it last in the channel; sending anything else leaves
\* the first where it was.
LEMMA FirstSend ==
  ASSUME IInv, FirstInv, Send, \E u \in Subscribers : Subscribed(u)
  PROVE  FirstInv'
<1> DEFINE e == outbox[1]
           L == Len(ring)
           M == Len(ring')
<1>1. /\ outbox # <<>> /\ outbox' = <<>> /\ UNCHANGED <<snapshot, sub, seen, lagged>>
      /\ 1 \in DOMAIN outbox
  BY DEF Send, IInv, TypeOK
<1>2. PICK d \in {0, 1} :
         /\ L \in Nat /\ M \in Nat \ {0} /\ M = L + 1 - d
         /\ DOMAIN ring = 1..L /\ DOMAIN ring' = 1..M
         /\ ring'[M] = e
         /\ \A i \in 1 .. M - 1 : i + d \in 1..L /\ ring'[i] = ring[i + d]
         /\ \A u \in Subscribers : InStep(u)' =>
              /\ InStep(u) /\ Place(u) \in 0..L
              /\ Place(u)' = Place(u) - d /\ Place(u) - d >= 0
  BY SendWindow
<1>3. /\ ~FirstToCome' <=> snapshot # 0
      /\ e.kind = "Snapshot" => FirstToCome /\ snapshot # 0
      /\ snapshot = 0 => ~Snapshots(e)
      /\ ~Snapshots(e) => e.kind # "Snapshot"
  BY <1>1, NoneYet DEF FirstToCome, Snapshots, SnapshotKinds
<1> HIDE DEF e, L, M
<1>4. ASSUME NEW q \in Nat, NEW p \in Nat, p = q + d, p <= L, NEW first, FirstAt(first, p)
      PROVE  FirstAt(first, q)'
  <2>1. \A i \in q + 1 .. M - 1 : i + d \in p + 1 .. L /\ ring'[i] = ring[i + d]
    <3> SUFFICES ASSUME NEW i \in q + 1 .. M - 1
                 PROVE  i + d \in p + 1 .. L /\ ring'[i] = ring[i + d]
      OBVIOUS
    <3>1. i \in 1 .. M - 1
      BY <1>2
    <3> QED
      BY <1>2, <1>4, <3>1
  <2>2. \A k \in p + 1 .. L : k - d \in q + 1 .. M - 1 /\ ring'[k - d] = ring[k]
    <3> SUFFICES ASSUME NEW k \in p + 1 .. L
                 PROVE  k - d \in q + 1 .. M - 1 /\ ring'[k - d] = ring[k]
      OBVIOUS
    <3>1. k - d \in 1 .. M - 1 /\ k - d \in q + 1 .. M - 1 /\ (k - d) + d = k
      BY <1>2, <1>4
    <3> QED
      BY <1>2, <3>1
  <2>3. \A i \in q + 1 .. M : i = M \/ i \in q + 1 .. M - 1
    BY <1>2
  <2>4. M \in q + 1 .. M
    BY <1>2, <1>4
  <2>5. CASE first # "none"
    <3>1. /\ ~FirstToCome /\ e.kind # "Snapshot"
          /\ \A k \in p + 1 .. L : ring[k].kind # "Snapshot"
      BY <1>3, <1>4, <2>5 DEF FirstAt, FirstPast, L
    <3>2. \A i \in q + 1 .. M : ring'[i].kind # "Snapshot"
      BY <1>2, <2>1, <2>3, <3>1
    <3>3. ~FirstToCome'
      BY <1>3, <3>1 DEF FirstToCome
    <3> QED
      BY <2>5, <3>2, <3>3 DEF FirstAt, FirstPast, M
  <2>6. CASE first = "none" /\ FirstToCome
    <3>1. \A k \in p + 1 .. L : ~Snapshots(ring[k])
      BY <1>4, <2>6 DEF FirstAt, FirstAhead, L
    <3>2. \A i \in q + 1 .. M - 1 : ~Snapshots(ring'[i])
      BY <2>1, <3>1
    <3>3. CASE e.kind = "Snapshot"
      <4>1. ring'[M].kind = "Snapshot" /\ ~FirstToCome'
        BY <1>2, <1>3, <3>3
      <4>2. M + 1 .. M = {}
        BY <1>2
      <4> QED
        BY <2>4, <2>6, <3>2, <4>1, <4>2 DEF FirstAt, FirstAhead, M, Snapshots
    <3>4. CASE e.kind # "Snapshot"
      <4>1. snapshot = 0
        BY <2>6, <3>4 DEF FirstToCome, e
      <4>2. FirstToCome' /\ ~Snapshots(e)
        BY <1>3, <4>1
      <4>3. \A i \in q + 1 .. M : ~Snapshots(ring'[i])
        BY <1>2, <2>3, <3>2, <4>2
      <4> QED
        BY <2>6, <4>2, <4>3 DEF FirstAt, FirstAhead, M, Snapshots
    <3> QED
      BY <3>3, <3>4
  <2>7. CASE first = "none" /\ ~FirstToCome
    <3>1. PICK j \in p + 1 .. L :
             /\ ring[j].kind = "Snapshot"
             /\ \A i \in p + 1 .. j - 1 : ~Snapshots(ring[i])
             /\ \A i \in j + 1 .. L : ring[i].kind # "Snapshot"
      BY <1>4, <2>7 DEF FirstAt, FirstAhead, L
    <3>2. e.kind # "Snapshot" /\ ~FirstToCome'
      BY <1>3, <2>7 DEF FirstToCome
    <3>3. j - d \in q + 1 .. M /\ ring'[j - d].kind = "Snapshot"
      BY <1>2, <2>2, <3>1
    <3>4. ASSUME NEW i \in q + 1 .. (j - d) - 1 PROVE ~Snapshots(ring'[i])
      <4>1. i \in q + 1 .. M - 1 /\ i + d \in p + 1 .. j - 1
        BY <1>2, <1>4
      <4> QED
        BY <2>1, <3>1, <4>1
    <3>5. ASSUME NEW i \in (j - d) + 1 .. M PROVE ring'[i].kind # "Snapshot"
      <4>1. CASE i = M
        BY <1>2, <3>2, <4>1
      <4>2. CASE i # M
        <5>1. i \in q + 1 .. M - 1 /\ i + d \in j + 1 .. L
          BY <1>2, <1>4, <4>2
        <5> QED
          BY <2>1, <3>1, <5>1
      <4> QED
        BY <4>1, <4>2
    <3> QED
      BY <2>7, <3>2, <3>3, <3>4, <3>5 DEF FirstAt, FirstAhead, M, Snapshots
  <2> QED
    BY <2>5, <2>6, <2>7
<1>5. ASSUME NEW u \in Subscribers, InStep(u)', ~lagged'[u]
      PROVE  FirstAt(seen[u].first, Place(u))'
  <2>1. InStep(u) /\ Place(u) \in 0..L /\ Place(u)' = Place(u) - d /\ Place(u) - d >= 0
    BY <1>2, <1>5
  <2>2. FirstAt(seen[u].first, Place(u))
    BY <1>1, <1>5, <2>1 DEF FirstInv
  <2>3. Place(u)' \in Nat /\ Place(u) \in Nat /\ Place(u) <= L /\ Place(u) = Place(u)' + d
    BY <1>2, <2>1
  <2>4. \A first : first = seen[u].first =>
          \A p, q \in Nat : p = Place(u) /\ p = q + d => FirstAt(first, q)'
    BY <1>4, <2>2, <2>3
  <2>5. \A first : first = seen'[u].first => \A q \in Nat : q = Place(u)' => FirstAt(first, q)'
    BY <1>1, <2>3, <2>4
  <2> QED
    BY <2>3, <2>5 DEF FirstAt, FirstAhead, FirstPast
<1> QED
  BY <1>1, <1>5 DEF FirstInv, FirstIsSnapshot

\* The other steps of the task leave them as they are.
LEMMA FirstControl ==
  ASSUME IInv, ReadyInv, FirstInv, Control
  PROVE  FirstInv'
<1>1. UNCHANGED <<ring, sub, unread, seen, lagged>> /\ (FirstToCome' <=> FirstToCome)
  BY ControlReady DEF IInv, ReadyInv
<1>2. \A u \in Subscribers :
        /\ InStep(u)' <=> InStep(u)
        /\ FirstAt(seen[u].first, Place(u)) => FirstAt(seen[u].first, Place(u))'
  BY <1>1 DEF InStep, Place, FirstAt, FirstAhead, FirstPast, Snapshots
<1> QED
  BY <1>1, <1>2 DEF FirstInv, FirstIsSnapshot

\* A step that leaves the channel and the task alone keeps FirstInv if it does for the
\* subscribers that it concerns.
LEMMA FirstSubscriber ==
  ASSUME FirstInv, UNCHANGED <<outbox, ring, snapshot>>,
         \A u \in Subscribers :
           \/ UNCHANGED <<sub[u], unread[u], seen[u], lagged[u]>>
           \/ lagged'[u]
           \/ /\ seen'[u].first # "wrong"
              /\ InStep(u)' => FirstAt(seen'[u].first, Len(ring) - unread'[u])
  PROVE  FirstInv'
<1>1. FirstToCome' = FirstToCome
  BY DEF FirstToCome
<1>2. \A first, p : FirstAt(first, p)' <=> FirstAt(first, p)
  BY <1>1 DEF FirstAt, FirstAhead, FirstPast
<1>3. \A u \in Subscribers :
        FirstAt(seen[u].first, Place(u))' <=> FirstAt(seen'[u].first, Len(ring) - unread'[u])
  BY <1>1 DEF FirstAt, FirstAhead, FirstPast, Place
<1>4. ASSUME NEW u \in Subscribers
      PROVE  /\ lagged'[u] \/ seen'[u].first # "wrong"
             /\ InStep(u)' /\ ~lagged'[u] => FirstAt(seen[u].first, Place(u))'
  <2>1. CASE UNCHANGED <<sub[u], unread[u], seen[u], lagged[u]>>
    BY <1>3, <2>1 DEF FirstInv, FirstIsSnapshot, InStep, Place
  <2> QED
    BY <1>3, <2>1
<1> QED
  BY <1>4 DEF FirstInv, FirstIsSnapshot

\* Receiving an event keeps it: the next of all snapshots to read is the first.
LEMMA FirstReceive ==
  ASSUME IInv, FirstInv, NEW u \in Subscribers, ReceiveEvent(u)
  PROVE  FirstInv'
<1> DEFINE p == Place(u)
           e == ring[p + 1]
           L == Len(ring)
<1>1. /\ InStep(u) /\ p \in Nat /\ L \in Nat /\ p + 1 <= L
      /\ p + 1 \in DOMAIN ring /\ e \in Event
      /\ seen[u] \in Seen /\ seen'[u] = Learn(seen[u], e)
      /\ L - unread'[u] = p + 1
      /\ UNCHANGED <<outbox, ring, snapshot, sub, lagged>>
      /\ \A w \in Subscribers : w # u => UNCHANGED <<sub[w], unread[w], seen[w]>>
  BY NextEvent
<1>2. ~lagged[u] => FirstAt(seen[u].first, p) /\ seen[u].first # "wrong"
  BY <1>1 DEF FirstInv, FirstIsSnapshot
<1> HIDE DEF p
<1>3. /\ p + 1 \in p + 1 .. L
      /\ \A i \in p + 1 + 1 .. L : i \in p + 1 .. L
      /\ e.kind = "Snapshot" => Snapshots(e)
      /\ Snapshots(e) => e.kind \in {"Snapshot", "Resynchronized"}
  BY <1>1 DEF Snapshots, SnapshotKinds
<1>4. ASSUME FirstAt(seen[u].first, p), seen[u].first # "wrong"
      PROVE  seen'[u].first # "wrong" /\ FirstAt(seen'[u].first, p + 1)
  <2>1. CASE seen[u].first # "none"
    <3>1. ~FirstToCome /\ \A i \in p + 1 .. L : ring[i].kind # "Snapshot"
      BY <1>4, <2>1 DEF FirstAt, FirstPast
    <3>2. seen'[u].first = seen[u].first
      BY <1>1, <1>3, <2>1, <3>1, LearnReady
    <3> QED
      BY <1>3, <1>4, <2>1, <3>1, <3>2 DEF FirstAt, FirstPast
  <2>2. CASE seen[u].first = "none" /\ FirstToCome
    <3>1. \A i \in p + 1 .. L : ~Snapshots(ring[i])
      BY <1>4, <2>2 DEF FirstAt, FirstAhead
    <3>2. seen'[u].first = "none"
      BY <1>1, <1>3, <2>2, <3>1, LearnReady
    <3> QED
      BY <1>3, <2>2, <3>1, <3>2 DEF FirstAt, FirstAhead
  <2>3. CASE seen[u].first = "none" /\ ~FirstToCome
    <3>1. PICK j \in p + 1 .. L :
             /\ ring[j].kind = "Snapshot"
             /\ \A i \in p + 1 .. j - 1 : ~Snapshots(ring[i])
             /\ \A i \in j + 1 .. L : ring[i].kind # "Snapshot"
      BY <1>4, <2>3 DEF FirstAt, FirstAhead
    <3>2. CASE j = p + 1
      <4>1. seen'[u].first = "Snapshot"
        BY <1>1, <2>3, <3>1, <3>2, LearnReady
      <4> QED
        BY <2>3, <3>1, <3>2, <4>1 DEF FirstAt, FirstPast
    <3>3. CASE j # p + 1
      <4>1. j \in p + 1 + 1 .. L /\ p + 1 \in p + 1 .. j - 1
        BY <1>1, <3>3
      <4>2. \A i \in p + 1 + 1 .. j - 1 : i \in p + 1 .. j - 1
        BY <1>1
      <4>3. seen'[u].first = "none"
        BY <1>1, <2>3, <3>1, <4>1, LearnReady
      <4> QED
        BY <2>3, <3>1, <4>1, <4>2, <4>3 DEF FirstAt, FirstAhead
    <3> QED
      BY <3>2, <3>3
  <2> QED
    BY <2>1, <2>2, <2>3
<1>5. lagged'[u] \/ (seen'[u].first # "wrong" /\ FirstAt(seen'[u].first, p + 1))
  BY <1>1, <1>2, <1>4
<1> QED
  BY <1>1, <1>5, FirstSubscriber

\* And so do subscribing, lagging and resynchronizing.
LEMMA FirstOthers ==
  ASSUME IInv, FirstInv,
         \/ \E u \in Subscribers :
              Subscribe(u) \/ ReceiveLagged(u) \/ Resynchronize(u) \/ ReceiveClosed(u)
         \/ SignalShutdown \/ DropClient \/ UNCHANGED vars
  PROVE  FirstInv'
<1> USE SubscriberTypes
<1>1. ASSUME NEW u \in Subscribers, Subscribe(u)
      PROVE  FirstInv'
  <2>1. /\ UNCHANGED <<outbox, ring, snapshot, unread, lagged>>
        /\ sub[u] = "none" /\ sub' = [sub EXCEPT ![u] = "receiving"]
        /\ seen' = [seen EXCEPT ![u].snapshot = snapshot, ![u].state = state,
                                ![u].first = IF FirstToCome THEN "none" ELSE "late"]
    BY <1>1 DEF Subscribe, taskVars, sharedVars
  <2>2. seen'[u].first = IF FirstToCome THEN "none" ELSE "late"
    BY <2>1 DEF Seen
  <2>3. \A w \in Subscribers : w # u => UNCHANGED <<sub[w], unread[w], seen[w], lagged[w]>>
    BY <2>1
  <2>4. Len(ring) \in Nat /\ unread'[u] = 0
    BY <2>1 DEF IInv, TypeOK, WindowInv
  <2>5. Len(ring) - unread'[u] + 1 .. Len(ring) = {}
    BY <2>4
  <2>6. FirstAt(seen'[u].first, Len(ring) - unread'[u])
    BY <2>2, <2>5 DEF FirstAt, FirstAhead, FirstPast
  <2> QED
    BY <2>1, <2>2, <2>3, <2>6, FirstSubscriber
<1>2. ASSUME NEW u \in Subscribers, ReceiveLagged(u) \/ Resynchronize(u)
      PROVE  FirstInv'
  <2>1. /\ UNCHANGED <<outbox, ring, snapshot>> /\ lagged'[u]
        /\ \A w \in Subscribers : w # u => UNCHANGED <<sub[w], unread[w], seen[w], lagged[w]>>
    BY <1>2 DEF ReceiveLagged, Resynchronize, taskVars, sharedVars, IInv, WindowInv, TypeOK
  <2> QED
    BY <2>1, FirstSubscriber
<1>3. ASSUME NEW u \in Subscribers, ReceiveClosed(u)
      PROVE  FirstInv'
  <2>1. /\ UNCHANGED <<outbox, ring, snapshot, lagged>> /\ sub'[u] = "over"
        /\ \A w \in Subscribers : w # u => UNCHANGED <<sub[w], unread[w], seen[w], lagged[w]>>
    BY <1>3 DEF ReceiveClosed, taskVars, sharedVars
  <2>2. seen'[u].first = seen[u].first /\ ~InStep(u)'
    BY <1>3, <2>1 DEF ReceiveClosed, Seen, InStep
  <2>3. lagged'[u] \/ seen'[u].first # "wrong"
    BY <2>1, <2>2 DEF FirstInv, FirstIsSnapshot
  <2> QED
    BY <2>1, <2>2, <2>3, FirstSubscriber
<1>4. CASE SignalShutdown \/ DropClient \/ UNCHANGED vars
  <2>1. UNCHANGED <<outbox, ring, snapshot, sub, unread, seen, lagged>>
    BY <1>4 DEF SignalShutdown, DropClient, vars, taskVars, sharedVars, subVars
  <2> QED
    BY <2>1, FirstSubscriber
<1> QED
  BY <1>1, <1>2, <1>3, <1>4

------------------------------------------------------------------------------
(* The theorems.                                                           *)

\* The invariant holds in every behaviour.
LEMMA Inductive == Spec => []IInv
BY InitHolds, NextHolds, PTL DEF Spec

\* So does NewestInv.
LEMMA NewestHolds == Spec => []NewestInv
<1>1. IInv /\ NewestInv /\ [Next]_vars => NewestInv'
  <2> SUFFICES ASSUME IInv, NewestInv, [Next]_vars
               PROVE  NewestInv'
    OBVIOUS
  <2>1. CASE Send
    BY <2>1, NewestSend
  <2>2. CASE Control
    BY <2>2, NewestControl
  <2>3. ASSUME NEW u \in Subscribers, ReceiveEvent(u)
        PROVE  NewestInv'
    BY <2>3, NewestReceive
  <2>4. CASE ~Send /\ ~Control /\ ~ \E u \in Subscribers : ReceiveEvent(u)
    BY <2>4, NewestOthers DEF Next, Task, Control, Receive, Ended
  <2> QED
    BY <2>1, <2>2, <2>3, <2>4
<1> QED
  BY <1>1, NewestInit, Inductive, PTL DEF Spec

\* So does ReadyInv.
LEMMA ReadyHolds == Spec => []ReadyInv
<1>1. IInv /\ ReadyInv /\ [Next]_vars => ReadyInv'
  <2> SUFFICES ASSUME IInv, ReadyInv, [Next]_vars
               PROVE  ReadyInv'
    OBVIOUS
  <2>1. CASE Send
    BY <2>1, ReadySend
  <2>2. CASE Control
    BY <2>2, ReadyControl
  <2>3. ASSUME NEW u \in Subscribers, ReceiveEvent(u)
        PROVE  ReadyInv'
    BY <2>3, ReadyReceive
  <2>4. CASE ~Send /\ ~Control /\ ~ \E u \in Subscribers : ReceiveEvent(u)
    BY <2>4, ReadyOthers DEF Next, Task, Control, Receive, Ended
  <2> QED
    BY <2>1, <2>2, <2>3, <2>4
<1> QED
  BY <1>1, ReadyInit, Inductive, PTL DEF Spec

\* And FirstInv, with it.
LEMMA FirstHolds == Spec => []FirstInv
<1>1. IInv /\ ReadyInv /\ FirstInv /\ [Next]_vars => FirstInv'
  <2> SUFFICES ASSUME IInv, ReadyInv, FirstInv, [Next]_vars
               PROVE  FirstInv'
    OBVIOUS
  <2>1. CASE Send
    <3>1. CASE \E u \in Subscribers : Subscribed(u)
      BY <2>1, <3>1, FirstSend
    <3>2. CASE ~ \E u \in Subscribers : Subscribed(u)
      BY <2>1, <3>2 DEF Send, FirstInv, FirstIsSnapshot, InStep, Subscribed
    <3> QED
      BY <3>1, <3>2
  <2>2. CASE Control
    BY <2>2, FirstControl
  <2>3. ASSUME NEW u \in Subscribers, ReceiveEvent(u)
        PROVE  FirstInv'
    BY <2>3, FirstReceive
  <2>4. CASE ~Send /\ ~Control /\ ~ \E u \in Subscribers : ReceiveEvent(u)
    BY <2>4, FirstOthers DEF Next, Task, Control, Receive, Ended
  <2> QED
    BY <2>1, <2>2, <2>3, <2>4
<1> QED
  BY <1>1, FirstInit, Inductive, ReadyHolds, PTL DEF Spec

\* The types: the channel stays within its capacity, and so does what a subscriber has
\* to read, but for the one that says that it lags.
THEOREM TypeCorrect == Spec => []TypeOK
<1>1. IInv => TypeOK
  BY DEF IInv
<1> QED
  BY <1>1, Inductive, PTL

\* An event never runs ahead of the watch: who was told of a snapshot, by an event or by
\* the resynchronization after a lag, finds it or a later one in snapshot().
THEOREM EventsNeverAhead == Spec => []NeverAhead
<1>1. IInv => NeverAhead
  BY DEF IInv, ToldInv
<1> QED
  BY <1>1, Inductive, PTL

\* Event::Shutdown is the last of all: nobody receives another event after it, however
\* far behind, and the task sends none.
THEOREM NothingAfterShutdown == Spec => []ShutdownIsLast
<1>1. IInv => ShutdownIsLast
  BY DEF IInv, LastInv
<1> QED
  BY <1>1, Inductive, PTL

\* A subscriber with nothing left to receive is up to date, for every capacity: with the
\* snapshot in the watch however far it lagged, with the state if it never lagged.
THEOREM SubscribersCatchUp == Spec => []CaughtUp
<1>1. IInv /\ NewestInv => CaughtUp
  <2> SUFFICES ASSUME IInv, NewestInv, NEW u \in Subscribers,
                      sub[u] = "receiving", unread[u] = 0, outbox = <<>>
               PROVE  /\ seen[u].snapshot = snapshot
                      /\ lagged[u] \/ seen[u].state = state
    BY DEF CaughtUp
  <2>1. Kept(u, "snapshot") /\ (lagged[u] \/ Kept(u, "state"))
    BY EventsAssumption DEF Kept
  <2>2. ASSUME NEW t \in Topics, Kept(u, t)
        PROVE  Of(seen[u], t) = Watch(t)
    <3>1. Len(ring) \in Nat
      BY DEF IInv, TypeOK
    <3>2. ~Pending(t) /\ ~ \E j \in Len(ring) - unread[u] + 1 .. Len(ring) : News(ring[j], t)
      BY <3>1 DEF Pending
    <3> QED
      BY <2>2, <3>2 DEF NewestInv, StillToRead
  <2> QED
    BY <2>1, <2>2 DEF Of, Watch, Topics
<1> QED
  BY <1>1, Inductive, NewestHolds, PTL

\* Who is told that the session is ready was told of a snapshot after its last
\* Synchronizing, for every capacity, however far it lags and however often the connection
\* is lost.
THEOREM ReadyAlwaysAfterSnapshot == Spec => []ReadyAfterSnapshot
<1>1. ReadyInv => ReadyAfterSnapshot
  BY DEF ReadyInv
<1> QED
  BY <1>1, ReadyHolds, PTL

\* The first event about a snapshot is Snapshot, and no later one is, over all connections,
\* for every subscriber that has not lagged.
THEOREM FirstAlwaysSnapshot == Spec => []FirstIsSnapshot
<1>1. FirstInv => FirstIsSnapshot
  BY DEF FirstInv
<1> QED
  BY <1>1, FirstHolds, PTL

==============================================================================
