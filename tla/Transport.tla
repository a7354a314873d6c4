------------------------------ MODULE Transport ------------------------------
(***************************************************************************)
(* WaveLinkClient (src/src/transport.rs) as the lifecycle task drives it:  *)
(* one JSON-RPC request at a time over one WebSocket, matched to its reply *)
(* by id, with a timeout; a snapshot is several reads in a row, a write is *)
(* followed by one.  Between requests the task waits for a notification.   *)
(*                                                                         *)
(* The socket is a pair of FIFOs.  The peer is external: it handles the    *)
(* requests of a connection in order, as slowly as it likes, refuses any   *)
(* of them, notifies the client of every change, may send what is no JSON, *)
(* and forgets a connection that closes.  The collections of the mixer are *)
(* version numbers.                                                        *)
(***************************************************************************)
EXTENDS Naturals, Sequences

CONSTANTS
  Parts,        \* the number of collections a snapshot reads (four)
  MaxId,        \* u64::MAX, the last request id
  MaxVersion,   \* bound: how often one collection changes
  MaxInbox      \* bound: the messages the peer has under way

ASSUME TransportAssumption ==
  /\ Parts \in Nat \ {0} /\ MaxId \in Nat \ {0, 1}   \* one id to connect with
  /\ MaxVersion \in Nat /\ MaxInbox \in Nat \ {0}

VARIABLES
  next_id,    \* State::next_id of the connection
  waiting,    \* the id rpc_with_params waits for, or 0 between requests
  job,        \* what the task uses the connection for
  read,       \* the collections read so far for the snapshot under way
  writable,   \* compatibility().writes_allowed()
  snapshot,   \* the collections last published
  requests,   \* what the peer has yet to handle
  inbox,      \* what the socket has yet to deliver
  mixer,      \* the version of each collection
  began       \* history: mixer when the snapshot under way was begun

clientVars == <<next_id, waiting, job, read, writable, snapshot, began>>
vars == <<clientVars, requests, inbox, mixer>>

Jobs     == {"hello", "idle", "reading", "writing", "closed"}

\* Methods are numbers: the reads of a snapshot are 1..Parts, in their order.
GetApplicationInfo == 0
SetMethod          == Parts + 1
Methods            == 0..(Parts + 1)

Versions == [1..Parts -> 0..MaxVersion]
Replies  == [kind : {"result", "error"}, id : 1..MaxId, value : 0..MaxVersion]
Noise    == [kind : {"notification", "garbage"}]

TypeOK ==
  /\ next_id \in 1..MaxId
  /\ waiting \in 0..MaxId
  /\ job \in Jobs
  /\ read \in Seq(0..MaxVersion) /\ Len(read) < Parts
  /\ writable \in BOOLEAN
  /\ snapshot \in Versions
  /\ requests \in Seq([id : 1..MaxId, method : Methods])
  /\ inbox \in Seq(Replies \union Noise) /\ Len(inbox) <= MaxInbox
  /\ mixer \in Versions
  /\ began \in Versions

\* connect: the socket is open and getApplicationInfo is sent.
Hello ==
  /\ next_id' = 2 /\ waiting' = 1 /\ job' = "hello"
  /\ read' = <<>> /\ writable' = FALSE
  /\ requests' = <<[id |-> 1, method |-> GetApplicationInfo]>>
  /\ inbox' = <<>>

\* The first connection; no snapshot was published yet.
Init ==
  /\ next_id = 2 /\ waiting = 1 /\ job = "hello"
  /\ read = <<>> /\ writable = FALSE
  /\ requests = <<[id |-> 1, method |-> GetApplicationInfo]>>
  /\ inbox = <<>>
  /\ mixer = [p \in 1..Parts |-> 0]
  /\ snapshot = mixer /\ began = mixer

------------------------------------------------------------------------------
(* Requests.                                                               *)

MutantNextId == next_id   \* the id of a request that failed is used again

NextId == next_id + 1

\* next_id + 1 without checked_add: the id space is left.
MutantRequest(method, purpose) ==
  /\ requests' = Append(requests, [id |-> next_id, method |-> method])
  /\ waiting' = next_id
  /\ next_id' = NextId
  /\ job' = purpose

\* rpc_with_params up to the send; fails at once when the ids are exhausted.
Request(method, purpose) ==
  \/ /\ next_id < MaxId
     /\ requests' = Append(requests, [id |-> next_id, method |-> method])
     /\ waiting' = next_id
     /\ next_id' = NextId
     /\ job' = purpose
  \/ /\ next_id = MaxId
     /\ job' = "closed" /\ waiting' = 0
     /\ UNCHANGED <<next_id, requests>>

\* snapshot(): begin with the first collection.
BeginSnapshot ==
  /\ Request(1, "reading")
  /\ read' = <<>> /\ began' = mixer

\* A command reaches the task while it is idle: a refresh, or a write.
StartRefresh ==
  /\ job = "idle"
  /\ BeginSnapshot
  /\ UNCHANGED <<writable, snapshot, inbox, mixer>>

StartWrite ==
  /\ job = "idle" /\ writable
  /\ Request(SetMethod, "writing")
  /\ UNCHANGED <<read, writable, snapshot, began, inbox, mixer>>

\* The request under way failed.  Only a failed write leaves the connection up:
\* the task reads a snapshot after it.
Failed ==
  \/ job = "writing" /\ BeginSnapshot
  \/ /\ job \in {"hello", "reading"}
     /\ job' = "closed" /\ waiting' = 0
     /\ UNCHANGED <<next_id, requests, read, began>>

\* timeout(REQUEST_TIMEOUT, ..): the reply may still come, on the same socket.
Timeout ==
  /\ waiting # 0
  /\ Failed
  /\ UNCHANGED <<writable, snapshot, inbox, mixer>>

------------------------------------------------------------------------------
(* Replies.                                                                *)

Message == Head(inbox)
Delivered == inbox # <<>> /\ inbox' = Tail(inbox)

\* Replies are taken in the order they come.
MutantIsReply == Message.kind \in {"result", "error"}

\* The reply to the request under way.
IsReply == Message.kind \in {"result", "error"} /\ Message.id = waiting

\* connect: the revision of the peer decides about writes; a snapshot follows.
HelloAnswered ==
  /\ job = "hello" /\ Delivered /\ IsReply /\ Message.kind = "result"
  /\ writable' \in BOOLEAN
  /\ BeginSnapshot
  /\ UNCHANGED <<snapshot, mixer>>

\* snapshot(): one collection more, or the last one, which publishes them all.
ReadAnswered ==
  /\ job = "reading" /\ Delivered /\ IsReply /\ Message.kind = "result"
  /\ LET all == Append(read, Message.value)
     IN \/ /\ Len(all) < Parts
           /\ Request(Len(all) + 1, "reading")
           /\ read' = all
           /\ UNCHANGED snapshot
        \/ /\ Len(all) = Parts
           /\ snapshot' = [p \in 1..Parts |-> all[p]]
           /\ read' = <<>> /\ job' = "idle" /\ waiting' = 0
           /\ UNCHANGED <<next_id, requests>>
  /\ UNCHANGED <<writable, began, mixer>>

\* A write succeeded: a snapshot follows, except between the steps of a fade.
WriteAnswered ==
  /\ job = "writing" /\ Delivered /\ IsReply /\ Message.kind = "result"
  /\ \/ BeginSnapshot
     \/ /\ job' = "idle" /\ waiting' = 0
        /\ UNCHANGED <<next_id, requests, read, began>>
  /\ UNCHANGED <<writable, snapshot, mixer>>

\* An error object for the request under way, or text that is no JSON.
Refused ==
  /\ waiting # 0 /\ Delivered
  /\ (IsReply /\ Message.kind = "error") \/ Message.kind = "garbage"
  /\ Failed
  /\ UNCHANGED <<writable, snapshot, mixer>>

\* rpc_with_params passes over everything else: late replies and notifications.
Skipped ==
  /\ waiting # 0 /\ Delivered
  /\ ~IsReply /\ Message.kind # "garbage"
  /\ UNCHANGED <<clientVars, requests, mixer>>

\* wait_for_notification, while idle.  It would pass over a late reply, but a peer
\* that answers in order has none left: the snapshot after it took them all.
NotificationArrives ==
  /\ job = "idle" /\ Delivered /\ Message.kind = "notification"
  /\ BeginSnapshot
  /\ UNCHANGED <<writable, snapshot, mixer>>

IdleGarbage ==
  /\ job = "idle" /\ Delivered /\ Message.kind = "garbage"
  /\ job' = "closed"
  /\ UNCHANGED <<next_id, waiting, read, writable, snapshot, began, requests, mixer>>

\* The socket ends, or a command fails it: the rest of a session is lost.
ConnectionLost ==
  /\ job # "closed"
  /\ job' = "closed" /\ waiting' = 0
  /\ UNCHANGED <<next_id, read, writable, snapshot, began, requests, inbox, mixer>>

\* The next session: a new socket, and ids from 1 again.
Connect ==
  /\ job = "closed"
  /\ Hello
  /\ UNCHANGED <<snapshot, began, mixer>>

------------------------------------------------------------------------------
(* The peer.                                                               *)

Deliver(ms) ==
  /\ Len(inbox) + Len(ms) <= MaxInbox
  /\ inbox' = inbox \o ms

Notification == [kind |-> "notification"]

\* It handles the next request: a read, a write with its effect on the first
\* collection, or a refusal.
Handle ==
  /\ requests # <<>>
  /\ requests' = Tail(requests)
  /\ LET r == Head(requests)
         answer(kind, v) == [kind |-> kind, id |-> r.id, value |-> v]
     IN \/ Deliver(<<answer("error", 0)>>) /\ UNCHANGED mixer
        \/ /\ r.method = GetApplicationInfo
           /\ Deliver(<<answer("result", 0)>>) /\ UNCHANGED mixer
        \/ /\ r.method \in 1..Parts
           /\ Deliver(<<answer("result", mixer[r.method])>>) /\ UNCHANGED mixer
        \/ /\ r.method = SetMethod /\ mixer[1] < MaxVersion
           /\ mixer' = [mixer EXCEPT ![1] = @ + 1]
           /\ Deliver(<<answer("result", 0), Notification>>)
  /\ UNCHANGED clientVars

\* Somebody else changes a collection; a client that is connected is notified.
Change(p) ==
  /\ mixer[p] < MaxVersion
  /\ mixer' = [mixer EXCEPT ![p] = @ + 1]
  /\ IF job = "closed" THEN UNCHANGED inbox ELSE Deliver(<<Notification>>)
  /\ UNCHANGED <<clientVars, requests>>

Garble ==
  /\ job # "closed"
  /\ Deliver(<<[kind |-> "garbage"]>>)
  /\ UNCHANGED <<clientVars, requests, mixer>>

------------------------------------------------------------------------------
Next ==
  \/ StartRefresh \/ StartWrite \/ Timeout
  \/ HelloAnswered \/ ReadAnswered \/ WriteAnswered \/ Refused \/ Skipped
  \/ NotificationArrives \/ IdleGarbage
  \/ ConnectionLost \/ Connect
  \/ Handle \/ Garble \/ \E p \in 1..Parts : Change(p)

Spec == Init /\ [][Next]_vars

Publishes == job = "reading" /\ job' = "idle"

\* Every collection of a published snapshot was read after the snapshot was asked
\* for: a reply that comes late, to a read or a write given up at its timeout, is
\* never taken for another.
SnapshotIsCurrent ==
  [][Publishes => \A p \in 1..Parts : snapshot'[p] >= began[p]]_vars

\* The snapshot read after a write, also after one that timed out, shows it: the
\* peer has nothing left to apply when the snapshot is published.
NoWriteOutstanding ==
  [][Publishes => \A i \in DOMAIN requests : requests[i].method # SetMethod]_vars

\* Ids name requests: what is under way on a connection, in either direction, has
\* ids of its own, so that no reply can answer two requests.
InFlightIdsDistinct ==
  LET replyIds == {i \in DOMAIN inbox : inbox[i].kind \in {"result", "error"}}
  IN /\ \A i, j \in DOMAIN requests : requests[i].id = requests[j].id => i = j
     /\ \A i, j \in replyIds : inbox[i].id = inbox[j].id => i = j
     /\ \A i \in DOMAIN requests, j \in replyIds : requests[i].id # inbox[j].id

(* What the documentation says beyond that; the code does otherwise.       *)

\* "synchronized snapshots" (CHANGELOG).  When a session is idle and nothing is
\* under way, the snapshot shows the mixer.
SnapshotIsSynchronized ==
  job = "idle" /\ requests = <<>> /\ inbox = <<>> => snapshot = mixer

==============================================================================
