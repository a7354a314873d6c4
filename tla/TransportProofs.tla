--------------------------- MODULE TransportProofs ---------------------------
(***************************************************************************)
(* The safety of the JSON-RPC exchange, for any number of collections,     *)
(* any last id and any bounds.                                             *)
(*                                                                         *)
(* What is under way on a connection is one line of ids that only grow:    *)
(* the replies in the inbox, oldest first, then the requests the peer has  *)
(* not handled, then next_id.  The request waited for is the last one, so  *)
(* its reply leaves nothing behind it.                                     *)
(***************************************************************************)
EXTENDS Transport, SequenceTheorems, TLAPS

IsAnswer(m) == m.kind \in {"result", "error"}

\* The ids under way grow, from the oldest reply to the newest request.
IdsInv ==
  /\ \A i, j \in DOMAIN requests : i < j => requests[i].id < requests[j].id
  /\ \A i, j \in DOMAIN inbox :
       i < j /\ IsAnswer(inbox[i]) /\ IsAnswer(inbox[j]) => inbox[i].id < inbox[j].id
  /\ \A i \in DOMAIN inbox, j \in DOMAIN requests :
       IsAnswer(inbox[i]) => inbox[i].id < requests[j].id
  /\ \A j \in DOMAIN requests : requests[j].id < next_id
  /\ \A i \in DOMAIN inbox : IsAnswer(inbox[i]) => inbox[i].id < next_id

\* The task waits for the last request, or for none.
WaitInv ==
  /\ waiting # 0 <=> job \in {"hello", "reading", "writing"}
  /\ waiting # 0 => next_id = waiting + 1

\* What was read for a snapshot is not older than its beginning, nor is what will be.
ReadInv ==
  /\ \A p \in 1..Parts : began[p] <= mixer[p]
  /\ job = "reading" =>
       /\ \A p \in DOMAIN read : began[p] <= read[p]
       /\ \A j \in DOMAIN requests :
            requests[j].id = waiting => requests[j].method = Len(read) + 1
       /\ \A i \in DOMAIN inbox :
            inbox[i].kind = "result" /\ inbox[i].id = waiting
              => began[Len(read) + 1] <= inbox[i].value

\* Between requests nothing is left of any.
QuietWhenIdle ==
  job = "idle" => requests = <<>> /\ \A i \in DOMAIN inbox : ~IsAnswer(inbox[i])

TransportInv == TypeOK /\ IdsInv /\ WaitInv /\ ReadInv /\ QuietWhenIdle

------------------------------------------------------------------------------
(* What a step does to what is under way.                                  *)

\* A request is sent and waited for.
Asks(method, purpose) ==
  /\ next_id < MaxId /\ next_id' = next_id + 1 /\ waiting' = next_id /\ job' = purpose
  /\ requests' = Append(requests, [id |-> next_id, method |-> method])

\* The connection is given up.
Closes == job' = "closed" /\ waiting' = 0 /\ UNCHANGED <<next_id, requests>>

\* A snapshot is begun, or could not be.
Begins == (Asks(1, "reading") \/ Closes) /\ read' = <<>> /\ began' = mixer

\* One collection is read, and the next is asked for.
Continues ==
  /\ job = "reading" /\ Delivered /\ IsReply /\ Message.kind = "result"
  /\ Len(read) + 1 < Parts
  /\ read' = Append(read, Message.value)
  /\ Asks(Len(read) + 2, "reading") \/ Closes
  /\ UNCHANGED began

\* The last reply is taken, and nothing else is asked for.
Rests ==
  /\ waiting # 0 /\ Delivered /\ IsReply
  /\ job' = "idle" /\ waiting' = 0
  /\ read' \in {read, <<>>}
  /\ UNCHANGED <<next_id, requests, began>>

\* A step of the task on the connection it has.
ClientStep ==
  /\ inbox' = inbox \/ Delivered
  /\ mixer' = mixer
  /\ \/ Begins \/ Continues \/ Rests
     \/ UNCHANGED <<read, began>> /\ (Asks(SetMethod, "writing") \/ Closes)
     \/ UNCHANGED <<next_id, waiting, job, read, began, requests>>

\* A new connection.
Opens == Hello /\ UNCHANGED <<began, mixer>>

\* The peer appends ms to the inbox: an answer to the oldest request first, if any.
PeerStep(ms) ==
  /\ UNCHANGED clientVars
  /\ inbox' = inbox \o ms
  /\ \A p \in 1..Parts : mixer[p] <= mixer'[p]
  /\ \/ requests' = requests /\ \A k \in 1..Len(ms) : ~IsAnswer(ms[k])
     \/ /\ requests # <<>> /\ requests' = Tail(requests)
        /\ \A k \in 1..Len(ms) : k # 1 => ~IsAnswer(ms[k])
        /\ ms[1].id = Head(requests).id
        /\ ms[1].kind = "result" /\ Head(requests).method \in 1..Parts
             => ms[1].value = mixer[Head(requests).method]

\* The types of what comes and goes.
RequestType == [id : 1..MaxId, method : Methods]
MessageType == Replies \union Noise

\* A request is sent, or the connection closes.
LEMMA RequestEffect ==
  ASSUME NEW method, NEW purpose, Request(method, purpose)
  PROVE  Asks(method, purpose) \/ Closes
BY DEF Request, NextId, Asks, Closes

\* The effect of each step of the task.
LEMMA ClientEffect ==
  ASSUME TypeOK, WaitInv, [Next]_vars
  PROVE  ClientStep \/ Opens \/ Handle \/ Garble \/ \E p \in 1..Parts : Change(p)
<1> USE RequestEffect
<1>0. ASSUME BeginSnapshot PROVE Begins
  BY <1>0 DEF BeginSnapshot, Begins
<1>1. ASSUME Failed PROVE Begins \/ (Closes /\ UNCHANGED <<read, began>>)
  BY <1>0, <1>1 DEF Failed, Closes
<1>2. CASE StartRefresh \/ HelloAnswered \/ NotificationArrives
  BY <1>0, <1>2 DEF StartRefresh, HelloAnswered, NotificationArrives, ClientStep
<1>3. CASE StartWrite
  BY <1>3 DEF StartWrite, ClientStep
<1>4. CASE Timeout \/ Refused
  BY <1>1, <1>4 DEF Timeout, Refused, ClientStep
<1>5. CASE ReadAnswered
  <2> DEFINE all == Append(read, Message.value)
  <2>1. Len(all) = Len(read) + 1
    BY DEF TypeOK
  <2>2. CASE Len(all) < Parts /\ Request(Len(all) + 1, "reading") /\ read' = all
    <3>1. Asks(Len(read) + 2, "reading") \/ Closes
      BY <2>1, <2>2, Len(read) + 1 + 1 = Len(read) + 2 DEF TypeOK
    <3> QED
      BY <1>5, <2>1, <2>2, <3>1 DEF ReadAnswered, Continues, ClientStep
  <2>3. CASE read' = <<>> /\ job' = "idle" /\ waiting' = 0 /\ UNCHANGED <<next_id, requests>>
    BY <1>5, <2>3 DEF ReadAnswered, WaitInv, Rests, ClientStep
  <2> QED
    BY <1>5, <2>2, <2>3 DEF ReadAnswered
<1>6. CASE WriteAnswered
  BY <1>0, <1>6 DEF WriteAnswered, WaitInv, Rests, ClientStep
<1>7. CASE Skipped \/ IdleGarbage \/ ConnectionLost
  BY <1>7 DEF Skipped, IdleGarbage, ConnectionLost, WaitInv, Closes, clientVars, ClientStep
<1>8. CASE Connect
  BY <1>8 DEF Connect, Opens
<1>9. CASE UNCHANGED vars
  BY <1>9 DEF vars, clientVars, ClientStep
<1> QED
  BY <1>2, <1>3, <1>4, <1>5, <1>6, <1>7, <1>8, <1>9 DEF Next

\* What the peer appends is made of messages.
LEMMA DeliverEffect ==
  ASSUME TypeOK, NEW ms \in Seq(MessageType), Deliver(ms)
  PROVE  /\ inbox' \in Seq(MessageType) /\ Len(inbox') <= MaxInbox
         /\ DOMAIN inbox' = 1..(Len(inbox) + Len(ms)) /\ DOMAIN inbox = 1..Len(inbox)
         /\ Len(inbox) \in Nat /\ Len(ms) \in Nat
         /\ \A i \in DOMAIN inbox : inbox'[i] = inbox[i]
         /\ \A i \in DOMAIN inbox' : i \notin DOMAIN inbox =>
              i - Len(inbox) \in 1..Len(ms) /\ inbox'[i] = ms[i - Len(inbox)]
<1> DEFINE n == Len(inbox)
<1>1. inbox \in Seq(MessageType)
  BY DEF TypeOK, MessageType
<1>2. /\ inbox' \in Seq(MessageType) /\ Len(inbox') = n + Len(ms)
      /\ \A i \in 1..(n + Len(ms)) : inbox'[i] = IF i <= n THEN inbox[i] ELSE ms[i - n]
  BY <1>1, ConcatProperties DEF Deliver
<1>3. n \in Nat /\ Len(ms) \in Nat /\ DOMAIN inbox = 1..n /\ DOMAIN inbox' = 1..(n + Len(ms))
  BY <1>1, <1>2, LenProperties
<1>4. n + Len(ms) <= MaxInbox
  BY DEF Deliver
<1> HIDE DEF n
<1>5. \A i \in DOMAIN inbox : inbox'[i] = inbox[i]
  BY <1>2, <1>3
<1>6. \A i \in DOMAIN inbox' : i \notin DOMAIN inbox => i - n \in 1..Len(ms)
      /\ inbox'[i] = ms[i - n]
  BY <1>2, <1>3
<1> QED
  BY <1>2, <1>3, <1>4, <1>5, <1>6 DEF n

\* The effect of each step of the peer.
LEMMA PeerEffect ==
  ASSUME TypeOK, Handle \/ Garble \/ \E p \in 1..Parts : Change(p)
  PROVE  \E ms \in Seq(MessageType) :
           /\ PeerStep(ms) /\ Deliver(ms) /\ mixer' \in Versions
<1> USE TransportAssumption DEF TransportAssumption
<1>0. Notification \in MessageType /\ [kind |-> "garbage"] \in MessageType
      /\ ~IsAnswer(Notification)
  BY DEF Notification, MessageType, Noise, IsAnswer
<1>1. mixer \in [1..Parts -> Nat] /\ \A p \in 1..Parts : mixer[p] <= mixer[p]
      /\ mixer[p] \in 0..MaxVersion
  BY DEF TypeOK, Versions
<1>2. ASSUME NEW p \in 1..Parts, mixer[p] < MaxVersion, mixer' = [mixer EXCEPT ![p] = @ + 1]
      PROVE  mixer' \in Versions /\ \A q \in 1..Parts : mixer[q] <= mixer'[q]
  <2>1. mixer[p] + 1 \in 0..MaxVersion /\ mixer[p] <= mixer[p] + 1
    BY <1>1, <1>2
  <2>2. \A q \in 1..Parts : mixer'[q] = IF q = p THEN mixer[p] + 1 ELSE mixer[q]
    BY <1>1, <1>2
  <2>3. mixer' \in Versions
    BY <1>2, <2>1 DEF TypeOK, Versions
  <2> QED
    BY <1>1, <2>1, <2>2, <2>3
<1>3. CASE Garble
  <2> DEFINE ms == <<[kind |-> "garbage"]>>
  <2>1. ms \in Seq(MessageType) /\ Len(ms) = 1 /\ ms[1] = [kind |-> "garbage"]
    BY <1>0
  <2>2. \A k \in 1..Len(ms) : ~IsAnswer(ms[k])
    BY <2>1 DEF IsAnswer
  <2>3. PeerStep(ms) /\ mixer' \in Versions
    BY <1>1, <1>3, <2>2 DEF Garble, Deliver, PeerStep, TypeOK
  <2> QED
    BY <1>3, <2>1, <2>3 DEF Garble
<1>4. ASSUME NEW p \in 1..Parts, Change(p)
      PROVE  \E ms \in Seq(MessageType) :
               /\ PeerStep(ms) /\ Deliver(ms) /\ mixer' \in Versions
  <2>1. mixer' \in Versions /\ \A q \in 1..Parts : mixer[q] <= mixer'[q]
    BY <1>2, <1>4 DEF Change
  <2>2. CASE job = "closed"
    <3>1. inbox' = inbox \o <<>> /\ <<>> \in Seq(MessageType) /\ Len(<<>>) = 0
      BY <1>4, <2>2, ConcatEmptySeq, EmptySeq DEF Change, TypeOK
    <3>2. PeerStep(<<>>) /\ Deliver(<<>>)
      BY <1>4, <2>1, <3>1 DEF Change, PeerStep, Deliver, TypeOK
    <3> QED
      BY <2>1, <3>1, <3>2
  <2>3. CASE job # "closed"
    <3>1. <<Notification>> \in Seq(MessageType) /\ Len(<<Notification>>) = 1
      BY <1>0
    <3>2. PeerStep(<<Notification>>)
      BY <1>0, <1>4, <2>1, <2>3, <3>1 DEF Change, Deliver, PeerStep
    <3> QED
      BY <1>4, <2>1, <2>3, <3>1, <3>2 DEF Change
  <2> QED
    BY <2>2, <2>3
<1>5. CASE Handle
  <2> DEFINE r == Head(requests)
             answer(kind, v) == [kind |-> kind, id |-> r.id, value |-> v]
  <2>1. r \in RequestType
    BY <1>5, HeadTailProperties DEF Handle, TypeOK, RequestType
  <2>2. \A kind \in {"result", "error"}, v \in 0..MaxVersion : answer(kind, v) \in MessageType
    BY <2>1 DEF MessageType, RequestType, Replies
  <2>3. 0 \in 0..MaxVersion /\ r.method \in 0..(Parts + 1)
    BY <2>1 DEF RequestType, Methods
  <2>4. requests # <<>> /\ requests' = Tail(requests) /\ UNCHANGED clientVars
    BY <1>5 DEF Handle
  <2>5. ASSUME NEW kind \in {"result", "error"}, NEW v \in 0..MaxVersion,
               Deliver(<<answer(kind, v)>>), UNCHANGED mixer,
               kind = "result" /\ r.method \in 1..Parts => v = mixer[r.method]
        PROVE  \E ms \in Seq(MessageType) :
                 /\ PeerStep(ms) /\ Deliver(ms) /\ mixer' \in Versions
    <3> DEFINE ms == <<answer(kind, v)>>
    <3>1. ms \in Seq(MessageType) /\ Len(ms) = 1 /\ ms[1] = answer(kind, v)
      BY <2>2, <2>5
    <3>2. /\ \A k \in 1..Len(ms) : k # 1 => ~IsAnswer(ms[k])
          /\ ms[1].id = r.id /\ ms[1].kind = kind /\ ms[1].value = v
      BY <3>1
    <3>3. mixer' \in Versions /\ \A p \in 1..Parts : mixer[p] <= mixer'[p]
      BY <1>1, <2>5 DEF TypeOK
    <3>4. PeerStep(ms)
      BY <2>4, <2>5, <3>2, <3>3 DEF PeerStep, Deliver
    <3> QED
      BY <2>5, <3>1, <3>3, <3>4
  <2>6. CASE Deliver(<<answer("error", 0)>>) /\ UNCHANGED mixer
    BY <2>3, <2>5, <2>6
  <2>7. CASE r.method = GetApplicationInfo /\ Deliver(<<answer("result", 0)>>) /\ UNCHANGED mixer
    BY <2>3, <2>5, <2>7 DEF GetApplicationInfo
  <2>8. CASE r.method \in 1..Parts /\ Deliver(<<answer("result", mixer[r.method])>>)
             /\ UNCHANGED mixer
    BY <1>1, <2>5, <2>8
  <2>9. CASE /\ r.method = SetMethod /\ mixer[1] < MaxVersion
             /\ mixer' = [mixer EXCEPT ![1] = @ + 1]
             /\ Deliver(<<answer("result", 0), Notification>>)
    <3> DEFINE ms == <<answer("result", 0), Notification>>
    <3>1. /\ ms \in Seq(MessageType) /\ Len(ms) = 2 /\ ms[1] = answer("result", 0)
          /\ ms[2] = Notification
      BY <1>0, <2>2, <2>3
    <3>2. /\ \A k \in 1..Len(ms) : k # 1 => ~IsAnswer(ms[k])
          /\ ms[1].id = r.id
      BY <1>0, <3>1
    <3>3. mixer' \in Versions /\ \A p \in 1..Parts : mixer[p] <= mixer'[p]
      <4>1. 1 \in 1..Parts
        OBVIOUS
      <4> QED
        BY <1>2, <2>9, <4>1
    <3>4. r.method \notin 1..Parts
      BY <2>9 DEF SetMethod
    <3>5. PeerStep(ms)
      BY <2>4, <2>9, <3>2, <3>3, <3>4 DEF PeerStep, Deliver
    <3> QED
      BY <2>9, <3>1, <3>3, <3>5
  <2> QED
    BY <1>5, <2>6, <2>7, <2>8, <2>9 DEF Handle
<1> QED
  BY <1>3, <1>4, <1>5

\* What is left in the inbox when a message is taken.
LEMMA TakeMessage ==
  ASSUME TypeOK, Delivered
  PROVE  /\ Message \in MessageType /\ Message = inbox[1] /\ 1 \in DOMAIN inbox
         /\ inbox' \in Seq(MessageType) /\ Len(inbox') <= MaxInbox
         /\ DOMAIN inbox \subseteq Nat \ {0} /\ DOMAIN inbox' \subseteq Nat \ {0}
         /\ \A i \in DOMAIN inbox' : i + 1 \in DOMAIN inbox /\ inbox'[i] = inbox[i + 1]
<1>1. inbox \in Seq(MessageType) /\ inbox # <<>> /\ inbox' = Tail(inbox)
  BY DEF TypeOK, MessageType, Delivered
<1>2. /\ Head(inbox) = inbox[1] /\ Head(inbox) \in MessageType
      /\ inbox' \in Seq(MessageType) /\ Len(inbox) \in Nat \ {0}
      /\ Len(inbox') = Len(inbox) - 1
      /\ \A i \in 1 .. Len(inbox') : inbox'[i] = inbox[i + 1]
  BY <1>1, HeadTailProperties, EmptySeq
<1>3. DOMAIN inbox = 1 .. Len(inbox) /\ DOMAIN inbox' = 1 .. Len(inbox')
  BY <1>1, <1>2
<1>4. Len(inbox') <= MaxInbox
  BY <1>2, TransportAssumption DEF TypeOK, TransportAssumption
<1> QED
  BY <1>2, <1>3, <1>4 DEF Message

\* And of the requests when one is handled.
LEMMA TakeRequest ==
  ASSUME TypeOK, requests # <<>>, requests' = Tail(requests)
  PROVE  /\ Head(requests) \in RequestType /\ Head(requests) = requests[1]
         /\ 1 \in DOMAIN requests /\ requests' \in Seq(RequestType)
         /\ DOMAIN requests \subseteq Nat \ {0} /\ DOMAIN requests' \subseteq Nat \ {0}
         /\ \A i \in DOMAIN requests' :
              i + 1 \in DOMAIN requests /\ requests'[i] = requests[i + 1]
<1>1. requests \in Seq(RequestType)
  BY DEF TypeOK, RequestType
<1>2. /\ Head(requests) = requests[1] /\ Head(requests) \in RequestType
      /\ requests' \in Seq(RequestType) /\ Len(requests) \in Nat \ {0}
      /\ Len(requests') = Len(requests) - 1
      /\ \A i \in 1 .. Len(requests') : requests'[i] = requests[i + 1]
  BY <1>1, HeadTailProperties, EmptySeq
<1>3. DOMAIN requests = 1 .. Len(requests) /\ DOMAIN requests' = 1 .. Len(requests')
  BY <1>1, <1>2
<1> QED
  BY <1>2, <1>3

\* A request sent is the last of the requests, with an id of its own.
LEMMA AskEffect ==
  ASSUME TypeOK, NEW method \in Methods, NEW purpose, Asks(method, purpose)
  PROVE  /\ requests' \in Seq(RequestType) /\ next_id' \in 1..MaxId /\ waiting' \in 1..MaxId
         /\ waiting' = next_id /\ next_id' = next_id + 1 /\ job' = purpose
         /\ DOMAIN requests \subseteq Nat \ {0}
         /\ \A i \in DOMAIN requests :
              i \in DOMAIN requests' /\ requests'[i] = requests[i] /\ i < Len(requests) + 1
         /\ \A i \in DOMAIN requests' :
              \/ i \in DOMAIN requests
              \/ i = Len(requests) + 1 /\ requests'[i].id = next_id /\ requests'[i].method = method
<1> DEFINE new == [id |-> next_id, method |-> method]
<1>1. new \in RequestType /\ requests \in Seq(RequestType)
  BY DEF TypeOK, RequestType
<1>2. requests' = Append(requests, new)
  BY DEF Asks
<1>3. new.id = next_id /\ new.method = method
  OBVIOUS
<1> HIDE DEF new
<1>4. /\ requests' \in Seq(RequestType) /\ Len(requests') = Len(requests) + 1
      /\ \A i \in 1..Len(requests) : requests'[i] = requests[i]
      /\ requests'[Len(requests) + 1] = new
  BY <1>1, <1>2, AppendProperties
<1>5. /\ Len(requests) \in Nat /\ DOMAIN requests = 1..Len(requests)
      /\ DOMAIN requests' = 1..(Len(requests) + 1)
  BY <1>1, <1>4, LenProperties
<1>6. next_id' \in 1..MaxId /\ next_id \in 1..MaxId
  BY TransportAssumption DEF Asks, TypeOK, TransportAssumption
<1> QED
  BY <1>3, <1>4, <1>5, <1>6 DEF Asks

------------------------------------------------------------------------------
(* Types.                                                                  *)

\* A result is a reply, and carries a version.
LEMMA ResultTypes ==
  ASSUME NEW m \in MessageType, IsAnswer(m)
  PROVE  m.id \in 1..MaxId /\ m.value \in 0..MaxVersion
<1>1. m \in Replies
  BY DEF MessageType, Noise, IsAnswer
<1> QED
  BY <1>1 DEF Replies

\* A request has its id and its method.
LEMMA RequestTypes ==
  ASSUME TypeOK
  PROVE  \A i \in DOMAIN requests : requests[i].id \in 1..MaxId /\ requests[i].method \in Methods
<1>1. requests \in Seq(RequestType)
  BY DEF TypeOK, RequestType
<1>2. \A i \in DOMAIN requests : requests[i] \in RequestType
  BY <1>1, ElementOfSeq, LenProperties
<1> QED
  BY <1>2 DEF RequestType

\* What is published has the type of what was read.
LEMMA SnapshotTypes ==
  ASSUME TypeOK, WaitInv, [Next]_vars
  PROVE  writable' \in BOOLEAN /\ snapshot' \in Versions
<1>1. CASE ReadAnswered
  <2> DEFINE all == Append(read, Message.value)
  <2>1. CASE UNCHANGED snapshot
    BY <1>1, <2>1 DEF ReadAnswered, TypeOK
  <2>2. CASE Len(all) = Parts /\ snapshot' = [p \in 1..Parts |-> all[p]]
    <3>1. Message.value \in 0..MaxVersion
      BY <1>1, TakeMessage, ResultTypes DEF ReadAnswered, IsAnswer
    <3>2. all \in Seq(0..MaxVersion)
      BY <3>1, AppendProperties DEF TypeOK
    <3> HIDE DEF all
    <3>3. \A p \in 1..Parts : all[p] \in 0..MaxVersion
      BY <2>2, <3>2, ElementOfSeq
    <3> QED
      BY <1>1, <2>2, <3>3 DEF ReadAnswered, TypeOK, Versions
  <2> QED
    BY <1>1, <2>1, <2>2 DEF ReadAnswered
<1>2. CASE ~ReadAnswered
  BY <1>2
     DEF TypeOK, Next, StartRefresh, StartWrite, Timeout, HelloAnswered, WriteAnswered, Refused,
         Skipped, NotificationArrives, IdleGarbage, ConnectionLost, Connect, Hello, Handle,
         Garble, Change, vars, clientVars
<1> QED
  BY <1>1, <1>2

\* Every step keeps the types.
LEMMA TypeStep ==
  ASSUME TypeOK, WaitInv, [Next]_vars
  PROVE  TypeOK'
<1> USE TransportAssumption DEF TransportAssumption
<1>0. writable' \in BOOLEAN /\ snapshot' \in Versions
  BY SnapshotTypes
<1>1. CASE ClientStep
  <2>1. inbox' \in Seq(Replies \union Noise) /\ Len(inbox') <= MaxInbox /\ mixer' \in Versions
    BY <1>1, TakeMessage DEF ClientStep, TypeOK, MessageType
  <2>2. ASSUME NEW method \in Methods, NEW purpose \in Jobs, Asks(method, purpose)
        PROVE  /\ next_id' \in 1..MaxId /\ waiting' \in 0..MaxId /\ job' \in Jobs
               /\ requests' \in Seq([id : 1..MaxId, method : Methods])
    <3>1. next_id' \in 1..MaxId /\ waiting' \in 1..MaxId /\ job' = purpose
          /\ requests' \in Seq(RequestType)
      BY <2>2, AskEffect
    <3>2. waiting' \in 0..MaxId
      BY <3>1
    <3> QED
      BY <3>1, <3>2 DEF RequestType
  <2>3. ASSUME Closes
        PROVE  /\ next_id' \in 1..MaxId /\ waiting' \in 0..MaxId /\ job' \in Jobs
               /\ requests' \in Seq([id : 1..MaxId, method : Methods])
    BY <2>3 DEF Closes, TypeOK, Jobs
  <2>4. CASE Begins
    <3>1. 1 \in Methods /\ "reading" \in Jobs
      BY DEF Methods, Jobs
    <3>2. read' \in Seq(0..MaxVersion) /\ Len(read') < Parts /\ began' \in Versions
      BY <2>4, EmptySeq DEF Begins, TypeOK
    <3> QED
      BY <1>0, <2>1, <2>2, <2>3, <2>4, <3>1, <3>2 DEF Begins, TypeOK
  <2>5. CASE Continues
    <3>1. Len(read) + 2 \in Methods /\ "reading" \in Jobs
      BY <2>5 DEF Continues, Methods, Jobs, TypeOK
    <3>2. Message.value \in 0..MaxVersion
      BY <2>5, TakeMessage, ResultTypes DEF Continues, IsAnswer
    <3>3. read' \in Seq(0..MaxVersion) /\ Len(read') = Len(read) + 1
      BY <2>5, <3>2, AppendProperties DEF Continues, TypeOK
    <3> QED
      BY <1>0, <2>1, <2>2, <2>3, <2>5, <3>1, <3>3 DEF Continues, TypeOK
  <2>6. CASE Rests
    <3>1. read' \in Seq(0..MaxVersion) /\ Len(read') < Parts
      <4>1. CASE read' = read
        BY <4>1 DEF TypeOK
      <4>2. CASE read' = <<>>
        BY <4>2, EmptySeq
      <4> QED
        BY <2>6, <4>1, <4>2 DEF Rests
    <3> QED
      BY <1>0, <2>1, <2>6, <3>1 DEF Rests, TypeOK, Jobs
  <2>7. CASE UNCHANGED <<read, began>> /\ (Asks(SetMethod, "writing") \/ Closes)
    <3>1. SetMethod \in Methods /\ "writing" \in Jobs
      BY DEF Methods, SetMethod, Jobs
    <3> QED
      BY <1>0, <2>1, <2>2, <2>3, <2>7, <3>1 DEF TypeOK
  <2>8. CASE UNCHANGED <<next_id, waiting, job, read, began, requests>>
    BY <1>0, <2>1, <2>8 DEF TypeOK
  <2> QED
    BY <1>1, <2>4, <2>5, <2>6, <2>7, <2>8 DEF ClientStep
<1>2. CASE Opens
  <2> DEFINE r == [id |-> 1, method |-> GetApplicationInfo]
  <2>1. r \in [id : 1..MaxId, method : Methods]
    BY DEF Methods, GetApplicationInfo
  <2>2. requests' = <<r>> /\ <<r>> \in Seq([id : 1..MaxId, method : Methods])
    BY <1>2, <2>1 DEF Opens, Hello
  <2>3. inbox' \in Seq(Replies \union Noise) /\ Len(inbox') <= MaxInbox
    BY <1>2, EmptySeq DEF Opens, Hello
  <2>4. read' \in Seq(0..MaxVersion) /\ Len(read') < Parts
    BY <1>2, EmptySeq DEF Opens, Hello
  <2> QED
    BY <1>0, <1>2, <2>2, <2>3, <2>4 DEF Opens, Hello, TypeOK, Jobs
<1>3. CASE Handle \/ Garble \/ \E p \in 1..Parts : Change(p)
  <2>1. PICK ms \in Seq(MessageType) : PeerStep(ms) /\ Deliver(ms) /\ mixer' \in Versions
    BY <1>3, PeerEffect
  <2>2. inbox' \in Seq(Replies \union Noise) /\ Len(inbox') <= MaxInbox
    BY <2>1, DeliverEffect DEF MessageType
  <2>3. requests' \in Seq([id : 1..MaxId, method : Methods])
    BY <2>1, TakeRequest DEF PeerStep, TypeOK, RequestType
  <2> QED
    BY <2>1, <2>2, <2>3 DEF PeerStep, clientVars, TypeOK
<1> QED
  BY <1>1, <1>2, <1>3, ClientEffect

------------------------------------------------------------------------------
(* Each part of the invariant.                                             *)

\* The task waits for the last request, or for none.
LEMMA WaitStep ==
  ASSUME TypeOK, WaitInv, [Next]_vars
  PROVE  WaitInv'
<1>1. CASE ClientStep
  <2>1. next_id \in 1..MaxId
    BY DEF TypeOK
  <2>2. ASSUME NEW m, NEW purpose \in {"reading", "writing"}, Asks(m, purpose) PROVE WaitInv'
    BY <2>1, <2>2 DEF Asks, WaitInv
  <2>3. CASE Closes
    BY <2>3 DEF Closes, WaitInv
  <2>4. CASE Rests
    BY <2>4 DEF Rests, WaitInv
  <2>5. CASE UNCHANGED <<next_id, waiting, job>>
    BY <2>5 DEF WaitInv
  <2> QED
    BY <1>1, <2>2, <2>3, <2>4, <2>5 DEF ClientStep, Begins, Continues
<1>2. CASE Opens
  BY <1>2 DEF Opens, Hello, WaitInv
<1>3. CASE Handle \/ Garble \/ \E p \in 1..Parts : Change(p)
  BY <1>3 DEF Handle, Garble, Change, clientVars, WaitInv
<1> QED
  BY <1>1, <1>2, <1>3, ClientEffect

\* What is in the inbox after a step of the task was there before, in that order.
LEMMA InboxShrinks ==
  ASSUME TypeOK, ClientStep
  PROVE  \E d \in {0, 1} :
           /\ DOMAIN inbox' \subseteq Nat \ {0} /\ DOMAIN inbox \subseteq Nat \ {0}
           /\ \A i \in DOMAIN inbox' : i + d \in DOMAIN inbox /\ inbox'[i] = inbox[i + d]
           /\ Delivered => d = 1
<1>1. CASE Delivered
  BY <1>1, TakeMessage
<1>2. CASE inbox' = inbox /\ ~Delivered
  <2>1. \A i \in DOMAIN inbox : i \in Nat \ {0} /\ i + 0 = i
    BY DEF TypeOK
  <2> QED
    BY <1>2, <2>1
<1> QED
  BY <1>1, <1>2 DEF ClientStep

\* The line of ids, when the task takes a message or sends a request.
LEMMA IdsClient ==
  ASSUME TypeOK, IdsInv, ClientStep
  PROVE  IdsInv'
<1>1. PICK d \in {0, 1} :
        /\ DOMAIN inbox' \subseteq Nat \ {0} /\ DOMAIN inbox \subseteq Nat \ {0}
        /\ \A i \in DOMAIN inbox' : i + d \in DOMAIN inbox /\ inbox'[i] = inbox[i + d]
  BY InboxShrinks
<1>2. \A i, j \in DOMAIN inbox' :
        i < j /\ IsAnswer(inbox'[i]) /\ IsAnswer(inbox'[j]) => inbox'[i].id < inbox'[j].id
  <2>1. \A i, j \in Nat : i < j => i + d < j + d
    OBVIOUS
  <2> QED
    BY <1>1, <2>1 DEF IdsInv
<1>3. ASSUME NEW i \in DOMAIN inbox', IsAnswer(inbox'[i])
      PROVE  /\ inbox'[i].id < next_id /\ inbox'[i].id \in Nat
             /\ \A j \in DOMAIN requests : inbox'[i].id < requests[j].id
  <2>1. i + d \in DOMAIN inbox /\ inbox'[i] = inbox[i + d] /\ inbox'[i] \in MessageType
    BY <1>1, ElementOfSeq DEF TypeOK, MessageType
  <2>2. inbox'[i].id \in 1..MaxId
    BY <1>3, <2>1, ResultTypes
  <2> QED
    BY <1>3, <2>1, <2>2 DEF IdsInv
<1>4. CASE requests' = requests /\ next_id' = next_id
  BY <1>2, <1>3, <1>4 DEF IdsInv
<1>5. ASSUME NEW m \in Methods, NEW purpose, Asks(m, purpose) PROVE IdsInv'
  <2>1. \A i \in DOMAIN requests :
          i \in DOMAIN requests' /\ requests'[i] = requests[i] /\ i < Len(requests) + 1
          /\ i \in Nat /\ requests[i].id < next_id
    BY <1>5, AskEffect DEF IdsInv
  <2>2. \A i \in DOMAIN requests' :
          i \in DOMAIN requests \/ (i = Len(requests) + 1 /\ requests'[i].id = next_id)
    BY <1>5, AskEffect
  <2>3. next_id \in Nat /\ next_id' = next_id + 1 /\ Len(requests) \in Nat
    BY <1>5, AskEffect DEF TypeOK
  <2>4. \A i \in DOMAIN requests : requests[i].id \in Nat
    BY RequestTypes, TransportAssumption DEF TransportAssumption
  <2>5. \A i, j \in DOMAIN requests' : i < j => requests'[i].id < requests'[j].id
    <3> SUFFICES ASSUME NEW i \in DOMAIN requests', NEW j \in DOMAIN requests', i < j
                 PROVE  requests'[i].id < requests'[j].id
      OBVIOUS
    <3>1. i \in DOMAIN requests
      BY <2>1, <2>2, <2>3
    <3>2. CASE j \in DOMAIN requests
      BY <2>1, <3>1, <3>2 DEF IdsInv
    <3>3. CASE requests'[j].id = next_id
      BY <2>1, <3>1, <3>3
    <3> QED
      BY <2>2, <3>2, <3>3
  <2>6. \A j \in DOMAIN requests' : requests'[j].id < next_id'
    BY <2>1, <2>2, <2>3, <2>4
  <2>7. \A i \in DOMAIN inbox', j \in DOMAIN requests' :
          IsAnswer(inbox'[i]) => inbox'[i].id < requests'[j].id
    BY <1>3, <2>1, <2>2
  <2>8. \A i \in DOMAIN inbox' : IsAnswer(inbox'[i]) => inbox'[i].id < next_id'
    BY <1>3, <2>3
  <2> QED
    BY <1>2, <2>5, <2>6, <2>7, <2>8 DEF IdsInv, IsAnswer
<1>6. 1 \in Methods /\ SetMethod \in Methods /\ (Len(read) + 1 < Parts => Len(read) + 2 \in Methods)
  BY TransportAssumption DEF TransportAssumption, Methods, SetMethod, TypeOK
<1> QED
  BY <1>4, <1>5, <1>6 DEF ClientStep, Begins, Continues, Rests, Closes

\* The line of ids, when the peer handles a request or says anything.
LEMMA IdsPeer ==
  ASSUME TypeOK, IdsInv, NEW ms \in Seq(MessageType), PeerStep(ms), Deliver(ms)
  PROVE  IdsInv'
<1>1. next_id' = next_id
  BY DEF PeerStep, clientVars
<1>2. /\ DOMAIN inbox = 1..Len(inbox) /\ Len(inbox) \in Nat
      /\ \A i \in DOMAIN inbox : inbox'[i] = inbox[i]
      /\ \A i \in DOMAIN inbox' : i \in Nat /\ (i \notin DOMAIN inbox =>
           i > Len(inbox) /\ i - Len(inbox) \in 1..Len(ms) /\ inbox'[i] = ms[i - Len(inbox)])
  BY DeliverEffect
<1>3. \A i \in DOMAIN requests : i \in Nat \ {0} /\ requests[i].id \in Nat
  BY RequestTypes, TransportAssumption DEF TransportAssumption, TypeOK
<1>4. CASE requests' = requests /\ \A k \in 1..Len(ms) : ~IsAnswer(ms[k])
  <2>1. \A i \in DOMAIN inbox' : IsAnswer(inbox'[i]) => i \in DOMAIN inbox /\ inbox'[i] = inbox[i]
    BY <1>2, <1>4
  <2> QED
    BY <1>1, <1>4, <2>1 DEF IdsInv, IsAnswer
<1>5. CASE /\ requests # <<>> /\ requests' = Tail(requests)
           /\ \A k \in 1..Len(ms) : k # 1 => ~IsAnswer(ms[k])
           /\ ms[1].id = Head(requests).id
  <2>1. /\ Head(requests) = requests[1] /\ 1 \in DOMAIN requests
        /\ \A i \in DOMAIN requests' :
             i \in Nat \ {0} /\ i + 1 \in DOMAIN requests /\ requests'[i] = requests[i + 1]
    BY <1>5, TakeRequest
  <2>2. \A i \in DOMAIN inbox' : IsAnswer(inbox'[i]) =>
          \/ i \in DOMAIN inbox /\ inbox'[i] = inbox[i]
          \/ i = Len(inbox) + 1 /\ inbox'[i].id = requests[1].id
    <3> SUFFICES ASSUME NEW i \in DOMAIN inbox', IsAnswer(inbox'[i]), i \notin DOMAIN inbox
                 PROVE  i = Len(inbox) + 1 /\ inbox'[i].id = requests[1].id
      BY <1>2
    <3>1. i - Len(inbox) \in 1..Len(ms) /\ inbox'[i] = ms[i - Len(inbox)]
      BY <1>2
    <3>2. i - Len(inbox) = 1
      BY <1>5, <3>1
    <3> QED
      BY <1>2, <1>5, <2>1, <3>1, <3>2
  <2>3. \A j \in DOMAIN requests' : requests[1].id < requests'[j].id
    <3>1. \A j \in Nat \ {0} : 1 < j + 1
      OBVIOUS
    <3> QED
      BY <2>1, <3>1 DEF IdsInv
  <2>4. \A i, j \in DOMAIN requests' : i < j => requests'[i].id < requests'[j].id
    <3>1. \A i, j \in Nat : i < j => i + 1 < j + 1
      OBVIOUS
    <3> QED
      BY <2>1, <3>1 DEF IdsInv
  <2>5. \A i, j \in DOMAIN inbox' :
          i < j /\ IsAnswer(inbox'[i]) /\ IsAnswer(inbox'[j]) => inbox'[i].id < inbox'[j].id
    <3> SUFFICES ASSUME NEW i \in DOMAIN inbox', NEW j \in DOMAIN inbox', i < j,
                        IsAnswer(inbox'[i]), IsAnswer(inbox'[j])
                 PROVE  inbox'[i].id < inbox'[j].id
      OBVIOUS
    <3>1. i \in DOMAIN inbox /\ inbox'[i] = inbox[i]
      BY <1>2, <2>2
    <3>2. CASE j \in DOMAIN inbox /\ inbox'[j] = inbox[j]
      BY <3>1, <3>2 DEF IdsInv
    <3>3. CASE inbox'[j].id = requests[1].id
      BY <2>1, <3>1, <3>3 DEF IdsInv
    <3> QED
      BY <2>2, <3>2, <3>3
  <2>6. \A i \in DOMAIN inbox', j \in DOMAIN requests' :
          IsAnswer(inbox'[i]) => inbox'[i].id < requests'[j].id
    BY <2>1, <2>2, <2>3 DEF IdsInv
  <2>7. \A j \in DOMAIN requests' : requests'[j].id < next_id'
    BY <1>1, <2>1 DEF IdsInv
  <2>8. \A i \in DOMAIN inbox' : IsAnswer(inbox'[i]) => inbox'[i].id < next_id'
    BY <1>1, <2>1, <2>2 DEF IdsInv
  <2> QED
    BY <2>4, <2>5, <2>6, <2>7, <2>8 DEF IdsInv, IsAnswer
<1> QED
  BY <1>4, <1>5 DEF PeerStep

\* The line of ids keeps its order.
LEMMA IdsStep ==
  ASSUME TypeOK, IdsInv, WaitInv, [Next]_vars
  PROVE  IdsInv'
<1>1. CASE Opens
  <2> DEFINE r == [id |-> 1, method |-> GetApplicationInfo]
  <2>1. requests' = <<r>> /\ next_id' = 2 /\ inbox' = <<>> /\ r.id = 1
    BY <1>1 DEF Opens, Hello
  <2> HIDE DEF r
  <2>2. DOMAIN requests' = {1} /\ requests'[1] = r
    BY <2>1
  <2> QED
    BY <2>1, <2>2 DEF IdsInv
<1> QED
  BY <1>1, ClientEffect, IdsClient, PeerEffect, IdsPeer

\* The reply that is waited for is the last thing under way.
LEMMA LastReply ==
  ASSUME TypeOK, IdsInv, WaitInv, waiting # 0, Delivered, IsReply
  PROVE  requests = <<>> /\ \A i \in DOMAIN inbox' : ~IsAnswer(inbox'[i])
<1>1. /\ Message = inbox[1] /\ 1 \in DOMAIN inbox /\ IsAnswer(inbox[1]) /\ inbox[1].id = waiting
      /\ next_id = waiting + 1 /\ waiting \in Nat
  BY TakeMessage, TransportAssumption
     DEF IsReply, IsAnswer, WaitInv, TypeOK, TransportAssumption
<1>2. \A n \in Nat : ~(waiting < n /\ n < waiting + 1)
  BY <1>1
<1>3. requests = <<>>
  <2>1. \A i \in DOMAIN requests : requests[i].id \in Nat
    BY RequestTypes, TransportAssumption DEF TransportAssumption
  <2>2. DOMAIN requests = {}
    BY <1>1, <1>2, <2>1 DEF IdsInv
  <2> QED
    BY <2>2 DEF TypeOK
<1>4. ASSUME NEW i \in DOMAIN inbox', IsAnswer(inbox'[i]) PROVE FALSE
  <2>1. i + 1 \in DOMAIN inbox /\ inbox'[i] = inbox[i + 1] /\ i \in Nat \ {0}
    BY TakeMessage
  <2>2. inbox[i + 1] \in MessageType
    BY <2>1, ElementOfSeq, LenProperties DEF TypeOK, MessageType
  <2>3. inbox[i + 1].id \in Nat
    BY <1>4, <2>1, <2>2, ResultTypes, TransportAssumption DEF TransportAssumption
  <2>4. waiting < inbox[i + 1].id /\ inbox[i + 1].id < waiting + 1
    BY <1>1, <1>4, <2>1 DEF IdsInv
  <2> QED
    BY <1>2, <2>3, <2>4
<1> QED
  BY <1>3, <1>4

\* Nothing is left between requests.
LEMMA QuietStep ==
  ASSUME TypeOK, IdsInv, WaitInv, QuietWhenIdle, [Next]_vars
  PROVE  QuietWhenIdle'
<1> SUFFICES ASSUME job' = "idle"
             PROVE  requests' = <<>> /\ \A i \in DOMAIN inbox' : ~IsAnswer(inbox'[i])
  BY DEF QuietWhenIdle, IsAnswer
<1>1. CASE ClientStep
  <2>1. CASE Rests
    BY <2>1, LastReply DEF Rests
  <2>2. CASE UNCHANGED <<job, requests>>
    BY <1>1, <2>2, InboxShrinks DEF QuietWhenIdle
  <2>3. ~Begins /\ ~Continues /\ ~Closes /\ ~Asks(SetMethod, "writing")
    BY DEF Begins, Continues, Asks, Closes
  <2> QED
    BY <1>1, <2>1, <2>2, <2>3 DEF ClientStep
<1>2. ~Opens
  BY DEF Opens, Hello
<1>3. CASE Handle \/ Garble \/ \E p \in 1..Parts : Change(p)
  <2>1. PICK ms \in Seq(MessageType) : PeerStep(ms) /\ Deliver(ms)
    BY <1>3, PeerEffect
  <2>2. requests = <<>> /\ \A i \in DOMAIN inbox : ~IsAnswer(inbox[i])
    BY <2>1 DEF PeerStep, clientVars, QuietWhenIdle
  <2>3. requests' = requests /\ \A k \in 1..Len(ms) : ~IsAnswer(ms[k])
    BY <2>1, <2>2 DEF PeerStep
  <2> QED
    BY <2>1, <2>2, <2>3, DeliverEffect
<1> QED
  BY <1>1, <1>2, <1>3, ClientEffect

\* What was read is not older than the beginning of the snapshot, when the task acts.
LEMMA ReadClient ==
  ASSUME TypeOK, IdsInv, WaitInv, ReadInv, ClientStep
  PROVE  ReadInv'
<1> USE TransportAssumption DEF TransportAssumption
<1>1. PICK d \in {0, 1} :
        \A i \in DOMAIN inbox' : i + d \in DOMAIN inbox /\ inbox'[i] = inbox[i + d]
  BY InboxShrinks
<1>2. mixer' = mixer /\ mixer \in [1..Parts -> Nat] /\ \A p \in 1..Parts : mixer[p] <= mixer[p]
  BY DEF ClientStep, TypeOK, Versions
<1>3. ASSUME NEW m \in Methods, Asks(m, "reading")
      PROVE  /\ \A j \in DOMAIN requests' : requests'[j].id = waiting' => requests'[j].method = m
             /\ \A i \in DOMAIN inbox' : inbox'[i].kind = "result" => inbox'[i].id # waiting'
  <2>1. waiting' = next_id /\ next_id \in Nat
    BY <1>3 DEF Asks, TypeOK
  <2>2. \A j \in DOMAIN requests' :
          \/ requests'[j].id < next_id
          \/ requests'[j].id = next_id /\ requests'[j].method = m
    BY <1>3, AskEffect DEF IdsInv
  <2>3. \A i \in DOMAIN inbox' : inbox'[i].kind = "result" => inbox'[i].id < next_id
    BY <1>1 DEF IdsInv, IsAnswer
  <2> QED
    BY <2>1, <2>2, <2>3
<1>4. CASE Begins
  <2>1. 1 \in Methods /\ read' = <<>> /\ DOMAIN read' = {} /\ Len(read') + 1 = 1
    BY <1>4 DEF Begins, Methods
  <2>2. \A p \in 1..Parts : began'[p] <= mixer'[p]
    BY <1>2, <1>4 DEF Begins
  <2>3. CASE Closes
    BY <2>2, <2>3 DEF Closes, ReadInv
  <2>4. CASE Asks(1, "reading")
    BY <1>3, <2>1, <2>2, <2>4 DEF ReadInv
  <2> QED
    BY <1>4, <2>3, <2>4 DEF Begins
<1>5. CASE Continues
  <2>1. began' = began /\ Len(read) \in Nat /\ Len(read) + 2 \in Methods
    BY <1>5 DEF Continues, Methods, TypeOK
  <2>2. began[Len(read) + 1] <= Message.value /\ Message.value \in 0..MaxVersion
    BY <1>5, TakeMessage, ResultTypes DEF Continues, ReadInv, IsReply, IsAnswer
  <2>3. /\ Len(read') = Len(read) + 1 /\ DOMAIN read = 1..Len(read)
        /\ DOMAIN read' = 1..(Len(read) + 1)
        /\ \A p \in DOMAIN read : read'[p] = read[p]
        /\ read'[Len(read) + 1] = Message.value
    BY <1>5, <2>2, AppendProperties, LenProperties DEF Continues, TypeOK
  <2>4. \A p \in DOMAIN read' : began'[p] <= read'[p]
    <3>1. \A p \in DOMAIN read' : p \in DOMAIN read \/ p = Len(read) + 1
      BY <2>1, <2>3
    <3> QED
      BY <1>5, <2>1, <2>2, <2>3, <3>1 DEF ReadInv, Continues
  <2>5. \A p \in 1..Parts : began'[p] <= mixer'[p]
    BY <1>2, <2>1 DEF ReadInv
  <2>6. CASE Closes
    BY <2>5, <2>6 DEF Closes, ReadInv
  <2>7. CASE Asks(Len(read) + 2, "reading")
    <3>1. Len(read') + 1 = Len(read) + 2
      BY <2>1, <2>3
    <3> QED
      BY <1>3, <2>1, <2>4, <2>5, <2>7, <3>1 DEF ReadInv
  <2> QED
    BY <1>5, <2>6, <2>7 DEF Continues
<1>6. CASE began' = began /\ job' # "reading"
  BY <1>2, <1>6 DEF ReadInv
<1>7. CASE UNCHANGED <<next_id, waiting, job, read, began, requests>>
  BY <1>1, <1>2, <1>7 DEF ReadInv
<1> QED
  BY <1>4, <1>5, <1>6, <1>7 DEF ClientStep, Rests, Asks, Closes

\* And when the peer does: it answers a read with what the mixer has by then.
LEMMA ReadPeer ==
  ASSUME TypeOK, WaitInv, ReadInv, NEW ms \in Seq(MessageType), PeerStep(ms), Deliver(ms),
         mixer' \in Versions
  PROVE  ReadInv'
<1> USE TransportAssumption DEF TransportAssumption
<1>1. UNCHANGED <<waiting, job, read, began>>
  BY DEF PeerStep, clientVars
<1>2. \A p \in 1..Parts : began[p] <= mixer'[p]
  <2>1. \A p \in 1..Parts : began[p] \in Nat /\ mixer[p] \in Nat /\ mixer'[p] \in Nat
    BY DEF TypeOK, Versions
  <2> QED
    BY <2>1 DEF ReadInv, PeerStep
<1>3. \A j \in DOMAIN requests' : \E i \in DOMAIN requests : requests'[j] = requests[i]
  BY TakeRequest DEF PeerStep
<1>4. ASSUME job = "reading", NEW i \in DOMAIN inbox',
             inbox'[i].kind = "result", inbox'[i].id = waiting
      PROVE  began[Len(read) + 1] <= inbox'[i].value
  <2>1. CASE i \in DOMAIN inbox
    BY <1>4, <2>1, DeliverEffect DEF ReadInv
  <2>2. CASE i \notin DOMAIN inbox
    <3>1. i - Len(inbox) \in 1..Len(ms) /\ inbox'[i] = ms[i - Len(inbox)]
      BY <2>2, DeliverEffect
    <3>2. IsAnswer(ms[i - Len(inbox)])
      BY <1>4, <3>1 DEF IsAnswer
    <3>3. /\ requests # <<>> /\ requests' = Tail(requests) /\ i - Len(inbox) = 1
          /\ ms[1].id = Head(requests).id
          /\ Head(requests).method \in 1..Parts => ms[1].value = mixer[Head(requests).method]
      BY <1>4, <3>1, <3>2 DEF PeerStep
    <3>4. Head(requests).method = Len(read) + 1
      BY <1>4, <3>1, <3>3, TakeRequest DEF ReadInv
    <3>5. Len(read) + 1 \in 1..Parts
      BY DEF TypeOK
    <3> QED
      BY <3>1, <3>3, <3>4, <3>5 DEF ReadInv
  <2> QED
    BY <2>1, <2>2
<1> QED
  BY <1>1, <1>2, <1>3, <1>4 DEF ReadInv

\* What was read stays as new as its snapshot.
LEMMA ReadStep ==
  ASSUME TypeOK, IdsInv, WaitInv, ReadInv, [Next]_vars
  PROVE  ReadInv'
<1>1. CASE Opens
  BY <1>1 DEF Opens, Hello, ReadInv
<1> QED
  BY <1>1, ClientEffect, ReadClient, PeerEffect, ReadPeer

------------------------------------------------------------------------------
(* The theorems.                                                           *)

\* At first: one request, and nothing else.
LEMMA TransportInvInit == Init => TransportInv
<1> SUFFICES ASSUME Init PROVE TransportInv
  OBVIOUS
<1> USE TransportAssumption DEF TransportAssumption, Init
<1> DEFINE r == [id |-> 1, method |-> GetApplicationInfo]
<1>1. r \in [id : 1..MaxId, method : Methods] /\ r.id = 1
  BY DEF Methods, GetApplicationInfo
<1>2. requests = <<r>>
  OBVIOUS
<1> HIDE DEF r
<1>3. /\ requests \in Seq([id : 1..MaxId, method : Methods])
      /\ DOMAIN requests = {1} /\ requests[1].id = 1
  BY <1>1, <1>2
<1>4. mixer \in Versions /\ snapshot \in Versions /\ began \in Versions
  BY DEF Versions
<1>5. TypeOK
  <2>1. inbox \in Seq(Replies \union Noise) /\ Len(inbox) <= MaxInbox
    BY EmptySeq
  <2>2. read \in Seq(0..MaxVersion) /\ Len(read) < Parts
    BY EmptySeq
  <2>3. next_id \in 1..MaxId /\ waiting \in 0..MaxId /\ job \in Jobs /\ writable \in BOOLEAN
    <3>1. MaxId \in Nat /\ 2 <= MaxId
      OBVIOUS
    <3>2. 2 \in 1..MaxId /\ 1 \in 0..MaxId
      BY <3>1
    <3> QED
      BY <3>2 DEF Jobs
  <2> QED
    BY <1>3, <1>4, <2>1, <2>2, <2>3 DEF TypeOK
<1>6. IdsInv /\ WaitInv /\ QuietWhenIdle
  BY <1>3 DEF IdsInv, WaitInv, QuietWhenIdle
<1>7. ReadInv
  BY DEF ReadInv
<1> QED
  BY <1>5, <1>6, <1>7 DEF TransportInv

\* And by every step.
LEMMA TransportInvStep ==
  ASSUME TransportInv, [Next]_vars
  PROVE  TransportInv'
BY TypeStep, IdsStep, WaitStep, ReadStep, QuietStep DEF TransportInv

\* The invariant holds in every behaviour of the client and its peer.
THEOREM TransportInvariance == Spec => []TransportInv
<1>1. TransportInv /\ UNCHANGED vars => TransportInv'
  BY TransportInvStep
<1> QED
  BY <1>1, TransportInvInit, TransportInvStep, PTL DEF Spec

\* The types of State and of the messages: ids stay within u64, rpc_with_params fails
\* where the next one would not.
THEOREM TransportTypeCorrect == Spec => []TypeOK
<1>1. TransportInv => TypeOK
  BY DEF TransportInv
<1> QED
  BY <1>1, TransportInvariance, PTL

\* What is under way on a connection has ids of its own: next_id is never used twice
\* by rpc_with_params, also after a timeout.
THEOREM IdsAlwaysDistinct == Spec => []InFlightIdsDistinct
<1>1. ASSUME TransportInv PROVE InFlightIdsDistinct
  <2>1. \A i, j \in DOMAIN requests : requests[i].id = requests[j].id => i = j
    <3> SUFFICES ASSUME NEW i \in DOMAIN requests, NEW j \in DOMAIN requests,
                        requests[i].id = requests[j].id
                 PROVE  i = j
      OBVIOUS
    <3>1. i \in Nat /\ j \in Nat /\ requests[i].id \in Nat /\ requests[j].id \in Nat
      BY <1>1, RequestTypes, TransportAssumption DEF TransportInv, TypeOK, TransportAssumption
    <3> QED
      BY <1>1, <3>1 DEF TransportInv, IdsInv
  <2> DEFINE replyIds == {i \in DOMAIN inbox : inbox[i].kind \in {"result", "error"}}
  <2>2. \A i \in replyIds : i \in Nat /\ IsAnswer(inbox[i]) /\ inbox[i].id \in Nat
    <3> SUFFICES ASSUME NEW i \in DOMAIN inbox, inbox[i].kind \in {"result", "error"}
                 PROVE  i \in Nat /\ IsAnswer(inbox[i]) /\ inbox[i].id \in Nat
      OBVIOUS
    <3>1. inbox \in Seq(MessageType) /\ i \in 1..Len(inbox)
      BY <1>1, LenProperties DEF TransportInv, TypeOK, MessageType
    <3>2. inbox[i] \in MessageType /\ i \in Nat /\ IsAnswer(inbox[i])
      BY <3>1, ElementOfSeq DEF IsAnswer
    <3> QED
      BY <3>2, ResultTypes, TransportAssumption DEF TransportAssumption
  <2>3. \A i, j \in replyIds : inbox[i].id = inbox[j].id => i = j
    <3> SUFFICES ASSUME NEW i \in replyIds, NEW j \in replyIds, inbox[i].id = inbox[j].id
                 PROVE  i = j
      OBVIOUS
    <3> QED
      BY <1>1, <2>2 DEF TransportInv, IdsInv
  <2>4. \A i \in DOMAIN requests, j \in replyIds : requests[i].id # inbox[j].id
    BY <1>1, <2>2 DEF TransportInv, IdsInv
  <2> QED
    BY <2>1, <2>3, <2>4 DEF InFlightIdsDistinct
<1> QED
  BY <1>1, TransportInvariance, PTL

\* A snapshot is published by the reply to its last read, and that is the last thing
\* under way.
LEMMA PublishEffect ==
  ASSUME TransportInv, [Next]_vars, Publishes
  PROVE  /\ requests' = requests /\ requests = <<>>
         /\ Len(Append(read, Message.value)) = Parts
         /\ snapshot' = [p \in 1..Parts |-> Append(read, Message.value)[p]]
         /\ began[Len(read) + 1] <= Message.value /\ Message.value \in 0..MaxVersion
<1>1. \A m : ~Request(m, "reading") /\ ~BeginSnapshot
  BY DEF Publishes, BeginSnapshot, Request
<1>2. ReadAnswered
  BY <1>1
     DEF Publishes, Next, StartRefresh, StartWrite, Timeout, HelloAnswered, WriteAnswered,
         Refused, Failed, Skipped, NotificationArrives, IdleGarbage, ConnectionLost, Connect,
         Hello, Handle, Garble, Change, vars, clientVars
<1>3. /\ Len(Append(read, Message.value)) = Parts /\ requests' = requests
      /\ snapshot' = [p \in 1..Parts |-> Append(read, Message.value)[p]]
  BY <1>1, <1>2 DEF ReadAnswered
<1>4. job = "reading" /\ Delivered /\ IsReply /\ Message.kind = "result"
  BY <1>2 DEF ReadAnswered
<1>5. requests = <<>>
  BY <1>4, LastReply DEF TransportInv, WaitInv
<1>6. Message \in MessageType /\ Message = inbox[1] /\ 1 \in DOMAIN inbox
  BY <1>4, TakeMessage DEF TransportInv
<1>7. Message.value \in 0..MaxVersion
  BY <1>4, <1>6, ResultTypes DEF IsAnswer
<1>8. began[Len(read) + 1] <= Message.value
  BY <1>4, <1>6 DEF TransportInv, ReadInv, IsReply
<1> QED
  BY <1>3, <1>5, <1>7, <1>8

\* Every collection of a published snapshot was read after the snapshot was begun: no
\* reply that comes late is taken for another by rpc_with_params.
THEOREM SnapshotsAlwaysCurrent == Spec => SnapshotIsCurrent
<1>1. ASSUME TransportInv, [Next]_vars, Publishes, NEW p \in 1..Parts
      PROVE  snapshot'[p] >= began[p]
  <2> DEFINE all == Append(read, Message.value)
  <2>1. read \in Seq(0..MaxVersion) /\ Message.value \in 0..MaxVersion /\ snapshot'[p] = all[p]
    BY <1>1, PublishEffect DEF TransportInv, TypeOK
  <2>2. /\ Len(all) = Len(read) + 1 /\ Len(all) = Parts /\ Len(read) \in Nat
        /\ DOMAIN read = 1..Len(read) /\ all[Len(read) + 1] = Message.value
        /\ \A i \in 1..Len(read) : all[i] = read[i]
    BY <1>1, <2>1, AppendProperties, LenProperties, PublishEffect
  <2> HIDE DEF all
  <2>3. began[p] \in Nat
    BY <1>1, TransportAssumption DEF TransportInv, TypeOK, Versions
  <2>4. CASE p \in DOMAIN read
    <3>1. read[p] \in 0..MaxVersion
      BY <2>1, <2>2, <2>4, ElementOfSeq
    <3>2. began[p] <= read[p]
      BY <1>1, <2>4 DEF TransportInv, ReadInv, Publishes
    <3> QED
      BY <2>1, <2>2, <2>3, <2>4, <3>1, <3>2
  <2>5. CASE p = Len(read) + 1
    BY <1>1, <2>1, <2>2, <2>3, <2>5, PublishEffect
  <2> QED
    BY <2>2, <2>4, <2>5
<1>2. TransportInv /\ [Next]_vars =>
        [Publishes => \A p \in 1..Parts : snapshot'[p] >= began[p]]_vars
  BY <1>1
<1> QED
  BY <1>2, TransportInvariance, PTL DEF Spec, SnapshotIsCurrent

\* When a snapshot is published the peer has no write left to apply, also none that was
\* given up at its timeout.
THEOREM NoWriteEverOutstanding == Spec => NoWriteOutstanding
<1>1. ASSUME TransportInv, [Next]_vars, Publishes
      PROVE  \A i \in DOMAIN requests : requests[i].method # SetMethod
  BY <1>1, PublishEffect
<1>2. TransportInv /\ [Next]_vars =>
        [Publishes => \A i \in DOMAIN requests : requests[i].method # SetMethod]_vars
  BY <1>1
<1> QED
  BY <1>2, TransportInvariance, PTL DEF Spec, NoWriteOutstanding

\* Between requests nothing of any is under way: wait_for_notification, which would pass
\* over a late reply, has none to pass over.
THEOREM AlwaysQuietWhenIdle == Spec => []QuietWhenIdle
<1>1. TransportInv => QuietWhenIdle
  BY DEF TransportInv
<1> QED
  BY <1>1, TransportInvariance, PTL

=============================================================================
