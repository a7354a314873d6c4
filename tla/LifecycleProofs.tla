--------------------------- MODULE LifecycleProofs ---------------------------
(***************************************************************************)
(* The safety of the lifecycle task for any number of calls and callers of *)
(* shutdown(), any capacity of the channel and any request.                *)
(*                                                                         *)
(* The inductive invariant ties the control point of the task to what it   *)
(* shares with the API: which state is announced there, where the snapshot *)
(* is of the current connection, and what the end of the task and of the   *)
(* client mean for the callers.  At the end, what a fade sees of the task  *)
(* is shown to be what Fades says of it.                                   *)
(***************************************************************************)
EXTENDS Lifecycle, SequenceTheorems, TLAPS

\* In a session that announced itself: a snapshot of this connection is there
\* and the state is the one the revision of the peer allows.
InSession ==
  /\ snapshot # None /\ snapshot.fresh
  /\ state = IF writable THEN "Ready" ELSE "ReadOnlyUnknownRevision"

Serves == {"select", "mutating", "resync", "closing"}

\* What is announced and published at every point of run().
PointInv ==
  /\ pc = "top" => state \in {"Disconnected", "Connecting", "Synchronizing", "Reconnecting"}
  /\ pc \in {"connecting", "backoff"} => state \in {"Connecting", "Reconnecting"}
  /\ pc \in {"syncing", "notified", "retrying", "published"} => state = "Synchronizing"
  /\ pc = "published" => snapshot # None /\ snapshot.fresh
  /\ pc \in Serves => InSession
  /\ pc = "lost" => state = "Synchronizing" \/ InSession
  /\ pc = "exiting" => state = "Shutdown"
  /\ pc = "done" => state = "Shutdown" \/ (client = "dropped" /\ InSession)
  /\ pc # "panicked"

\* A command is in service exactly between its start and its reply, and while it
\* mutates there is a snapshot to answer it with.
ServingInv ==
  /\ serving # None <=> pc \in {"mutating", "resync"}
  /\ pc = "mutating" => snapshot # None

\* Nothing outlives the last clone of the client that borrows it.
ClientInv ==
  client = "dropped" =>
    /\ \A c \in Calls : phase[c] \notin Borrowing
    /\ \A s \in Stoppers : stop[s] \notin {"signalled", "joining"}

\* The handle is taken by a caller that is still joining, or that gave up joining,
\* or the task has ended.
HandleInv ==
  handle = "taken" => pc = "done" \/ \E s \in Stoppers : stop[s] \in {"joining", "detached"}

IInv == /\ TypeOK /\ PointInv /\ ServingInv /\ ClientInv /\ HandleInv
        /\ AbandonedMeansShutdown /\ ShutdownJoins

------------------------------------------------------------------------------
(* Type correctness.                                                       *)

\* The initial state has the types.
LEMMA TypeInit == Init => TypeOK
<1> SUFFICES ASSUME Init PROVE TypeOK
  OBVIOUS
<1>1. NoRequest \in Request
  BY DEF NoRequest, Request, Kinds
<1>2. attempt \in 0..MaxAttempt /\ Len(commands) <= CommandCapacity
  BY ConstantsAssumption DEF Init, ConstantsAssumption
<1>3. /\ statuses \in Seq(Status) /\ commands \in Seq(Calls)
      /\ mixer \in Seq([call : Calls, op : Nat])
      /\ report \in [Calls -> Seq(Status)]
  BY DEF Init
<1>4. /\ request \in [Calls -> Request]
      /\ phase \in [Calls -> Phases] /\ result \in [Calls -> Results]
      /\ carried \in [Calls -> BOOLEAN]
  BY <1>1 DEF Init, Phases, Results
<1>5. stop \in [Stoppers -> Stops]
  BY DEF Init, Stops
<1>6. /\ pc \in Points /\ state \in ConnectionStates
      /\ serving \in Calls \union {None}
      /\ snapshot \in Snapshot \union {None}
      /\ writable \in BOOLEAN /\ shutdown \in BOOLEAN
      /\ client \in {"held", "dropped"} /\ handle \in {"present", "taken"}
  BY DEF Init, Points, ConnectionStates
<1> QED
  BY <1>2, <1>3, <1>4, <1>5, <1>6 DEF TypeOK

\* What Publish leaves in the watch.
LEMMA PublishedIsFresh ==
  ASSUME TypeOK, Publish
  PROVE  snapshot' \in Snapshot /\ snapshot' # None /\ snapshot'.fresh
<1>1. Len(mixer) \in Nat
  BY DEF TypeOK
<1>2. snapshot' \in Snapshot /\ snapshot'.fresh
  BY <1>1 DEF Publish, Snapshot
<1> QED
  BY <1>2, ConstantsAssumption DEF ConstantsAssumption

\* The callers.
LEMMA TypeCall ==
  ASSUME TypeOK, NEW c \in Calls, CallStep(c)
  PROVE  TypeOK'
<1> USE ConstantsAssumption
    DEF TypeOK, taskVars, sharedVars, Phases, Results, ConnectionStates, Connected
<1>1. ASSUME NEW r \in Requests, IssueWrite(c, r) PROVE TypeOK'
  <2>1. ensure_writable \in Results
    BY DEF ensure_writable, unavailable_error
  <2>2. r \in Request
    OBVIOUS
  <2>3. request' \in [Calls -> Request]
    BY <1>1, <2>2 DEF IssueWrite
  <2>4. phase' \in [Calls -> Phases]
    BY <1>1 DEF IssueWrite
  <2>5. result' \in [Calls -> Results]
    BY <1>1, <2>1 DEF IssueWrite
  <2>6. UNCHANGED <<pc, attempt, writable, serving, statuses, state, snapshot, commands,
                    shutdown, client, handle, report, carried, stop, mixer>>
    BY <1>1 DEF IssueWrite
  <2> QED
    BY <2>3, <2>4, <2>5, <2>6
<1>2. ASSUME NEW r \in Requests, IssueRefresh(c, r) PROVE TypeOK'
  BY <1>2 DEF IssueRefresh
<1>3. ASSUME NEW r \in Requests, IssueReady(c, r) PROVE TypeOK'
  BY <1>3 DEF IssueReady
<1>4. CASE ReadyReturns(c)
  BY <1>4 DEF ReadyReturns
<1>5. CASE SendCommand(c)
  <2>1. CASE UNCHANGED commands
    BY <1>5, <2>1 DEF SendCommand
  <2>2. CASE Room /\ commands' = Append(commands, c)
    <3>1. commands' \in Seq(Calls) /\ Len(commands') = Len(commands) + 1
      BY <2>2
    <3>2. Len(commands') <= CommandCapacity
      BY <2>2, <3>1 DEF Room, ConstantsAssumption
    <3>3. phase' \in [Calls -> Phases]
      BY <1>5 DEF SendCommand
    <3> QED
      BY <1>5, <3>1, <3>2, <3>3 DEF SendCommand
  <2> QED
    BY <1>5, <2>1, <2>2 DEF SendCommand
<1>6. CASE ReportUnavailable(c)
  <2>1. unavailable_error \in Results
    BY DEF unavailable_error
  <2> QED
    BY <1>6, <2>1 DEF ReportUnavailable
<1>7. CASE DropCall(c)
  BY <1>7 DEF DropCall
<1> QED
  BY <1>1, <1>2, <1>3, <1>4, <1>5, <1>6, <1>7 DEF CallStep

\* The callers of shutdown().
LEMMA TypeStop ==
  ASSUME TypeOK, NEW s \in Stoppers, StopStep(s)
  PROVE  TypeOK'
<1> USE DEF TypeOK, Stops, taskVars, sharedVars, callVars
<1>1. CASE SignalShutdown(s)
  BY <1>1 DEF SignalShutdown
<1>2. CASE TakeHandle(s)
  BY <1>2 DEF TakeHandle
<1>3. CASE JoinTask(s)
  BY <1>3 DEF JoinTask
<1>4. CASE AbortShutdown(s)
  BY <1>4 DEF AbortShutdown
<1> QED
  BY <1>1, <1>2, <1>3, <1>4 DEF StopStep

\* A reply keeps the types of the calls it answers.
LEMMA TypeReply ==
  ASSUME TypeOK, NEW c, NEW r \in Results, NEW rep \in Seq(Status), Reply(c, r, rep)
  PROVE  /\ phase' \in [Calls -> Phases]
         /\ result' \in [Calls -> Results]
         /\ report' \in [Calls -> Seq(Status)]
BY DEF TypeOK, Reply, Phases

\* The task while it connects.
LEMMA TypeConnecting == ASSUME TypeOK, Connecting PROVE TypeOK'
<1> USE DEF TypeOK, taskVars, sharedVars, callVars, Points, ConnectionStates
<1>1. CASE LoopHead
  BY <1>1 DEF LoopHead
<1>2. CASE ConnectFails
  BY <1>2 DEF ConnectFails
<1>3. CASE ConnectSucceeds
  <2>1. snapshot' \in Snapshot \union {None}
    BY <1>3 DEF ConnectSucceeds, Snapshot
  <2>2. carried' \in [Calls -> BOOLEAN]
    BY <1>3 DEF ConnectSucceeds
  <2> QED
    BY <1>3, <2>1, <2>2 DEF ConnectSucceeds
<1>4. CASE BackoffElapses
  <2>1. NextAttempt \in 0..MaxAttempt
    BY ConstantsAssumption DEF NextAttempt, ConstantsAssumption
  <2> QED
    BY <1>4, <2>1 DEF BackoffElapses
<1>5. CASE BackoffShutdown
  BY <1>5 DEF BackoffShutdown
<1>6. CASE reject_command
  <2>1. commands' \in Seq(Calls) /\ Len(commands') <= CommandCapacity
    BY <1>6, ConstantsAssumption DEF reject_command, ConstantsAssumption
  <2>3. <<>> \in Seq(Status) /\ "NotReady" \in Results
    BY DEF Results
  <2>2. /\ phase' \in [Calls -> Phases]
        /\ result' \in [Calls -> Results]
        /\ report' \in [Calls -> Seq(Status)]
    BY <1>6, <2>3, TypeReply DEF reject_command, Results
  <2> QED
    BY <1>6, <2>1, <2>2 DEF reject_command
<1> QED
  BY <1>1, <1>2, <1>3, <1>4, <1>5, <1>6 DEF Connecting

\* The task while it synchronizes.
LEMMA TypeSynchronizing == ASSUME TypeOK, Synchronizing PROVE TypeOK'
<1> USE DEF TypeOK, taskVars, sharedVars, callVars, Points, ConnectionStates
<1>1. CASE SnapshotArrives
  <2>1. snapshot' \in Snapshot \union {None}
    BY <1>1, PublishedIsFresh DEF SnapshotArrives
  <2> QED
    BY <1>1, <2>1 DEF SnapshotArrives
<1>2. CASE BecomeReady
  BY <1>2, ConstantsAssumption DEF BecomeReady, ConstantsAssumption
<1>3. CASE FirstSnapshotFails
  BY <1>3 DEF FirstSnapshotFails
<1>4. CASE RetryAtOnce
  BY <1>4 DEF RetryAtOnce
<1>5. CASE SelectNotification
  BY <1>5 DEF SelectNotification
<1>6. CASE LoseConnection
  BY <1>6 DEF LoseConnection
<1>7. CASE Reconnect
  BY <1>7 DEF Reconnect
<1> QED
  BY <1>1, <1>2, <1>3, <1>4, <1>5, <1>6, <1>7 DEF Synchronizing

\* The task while it serves a command.  ServingInv says which call that is.
LEMMA TypeServing == ASSUME TypeOK, ServingInv, Serving PROVE TypeOK'
<1> USE DEF TypeOK, taskVars, sharedVars, callVars, Points
<1>1. CASE SelectCommand
  <2>1. /\ commands' \in Seq(Calls) /\ Len(commands') <= CommandCapacity
        /\ Head(commands) \in Calls
    BY <1>1, ConstantsAssumption DEF SelectCommand, ConstantsAssumption
  <2> QED
    BY <1>1, <2>1 DEF SelectCommand
<1>2. ASSUME pc = "mutating"
      PROVE  /\ serving \in Calls
             /\ [call |-> serving, op |-> Len(statuses) + 1] \in [call : Calls, op : Nat]
  <2>1. serving \in Calls
    BY <1>2 DEF ServingInv
  <2>2. Len(statuses) + 1 \in Nat
    OBVIOUS
  <2> QED
    BY <2>1, <2>2
<1>3. CASE MutationSucceeds
  <2>1. mixer' \in Seq([call : Calls, op : Nat])
    BY <1>2, <1>3 DEF MutationSucceeds
  <2>2. CASE Resnapshots
    <3>1. statuses' = Append(statuses, "Succeeded")
      BY <1>3, <2>2 DEF MutationSucceeds
    <3>2. statuses' \in Seq(Status)
      BY <3>1 DEF Status
    <3> QED
      BY <1>3, <2>1, <2>2, <3>2 DEF MutationSucceeds
  <2>3. CASE ~Resnapshots
    <3>1. /\ phase' \in [Calls -> Phases]
          /\ result' \in [Calls -> Results]
          /\ report' \in [Calls -> Seq(Status)]
          /\ commands' \in Seq(Calls) /\ Len(commands') <= CommandCapacity
      <4>1. CASE snapshot = None
        <5>1. Abandon /\ UNCHANGED <<result, report>>
          BY <1>3, <2>3, <4>1 DEF MutationSucceeds
        <5>2. phase' \in [Calls -> Phases]
          BY <5>1 DEF Abandon, Phases
        <5>3. commands' = <<>>
          BY <5>1 DEF Abandon
        <5>4. commands' \in Seq(Calls) /\ Len(commands') <= CommandCapacity
          BY <5>3, ConstantsAssumption DEF ConstantsAssumption
        <5> QED
          BY <5>1, <5>2, <5>4
      <4>2. CASE snapshot # None
        <5>1. Reply(serving, "Ok", <<>>) /\ UNCHANGED commands
          BY <1>3, <2>3, <4>2 DEF MutationSucceeds
        <5>2. <<>> \in Seq(Status) /\ "Ok" \in Results
          BY DEF Results
        <5> QED
          BY <5>1, <5>2, TypeReply
      <4> QED
        BY <4>1, <4>2
    <3> QED
      <4>1. pc' \in Points /\ statuses' = <<>> /\ serving' = None
        BY <1>3, <2>3 DEF MutationSucceeds
      <4>2. UNCHANGED <<attempt, writable, state, snapshot, shutdown, client, handle,
                        request, carried, stop>>
        BY <1>3 DEF MutationSucceeds
      <4> QED
        BY <2>1, <3>1, <4>1, <4>2
  <2> QED
    BY <2>2, <2>3
<1>4. CASE MutationFails
  <2>1. mixer' \in Seq([call : Calls, op : Nat])
    <3>1. CASE UNCHANGED mixer
      BY <3>1
    <3>2. CASE mixer' = Append(mixer, [call |-> serving, op |-> Len(statuses) + 1])
      BY <1>2, <1>4, <3>2 DEF MutationFails
    <3> QED
      BY <1>4, <3>1, <3>2 DEF MutationFails
  <2>2. FailNext \in Seq(Status)
    <3>1. request[serving].size \in Nat
      BY <1>2, <1>4 DEF MutationFails, Request
    <3>2. \A i \in 1..request[serving].size :
            (IF i <= Len(statuses) THEN statuses[i]
             ELSE IF i = Len(statuses) + 1 THEN "Failed" ELSE "NotAttempted") \in Status
      BY <3>1 DEF Status
    <3>3. FailNext \in [1..request[serving].size -> Status]
      BY <3>2 DEF FailNext
    <3> HIDE DEF TypeOK, taskVars, sharedVars, callVars, Points
    <3>4. \E n \in Nat : FailNext \in [1..n -> Status]
      BY <3>1, <3>3
    <3> QED
      BY <3>4, SeqDef
  <2> QED
    BY <1>4, <2>1, <2>2 DEF MutationFails
<1>5. mutation_error \in Results
  BY DEF mutation_error, Results
<1>6. CASE ResyncSucceeds
  <2>1. snapshot' \in Snapshot \union {None}
    BY <1>6, PublishedIsFresh DEF ResyncSucceeds
  <2>2. /\ phase' \in [Calls -> Phases]
        /\ result' \in [Calls -> Results]
        /\ report' \in [Calls -> Seq(Status)]
    BY <1>5, <1>6, TypeReply DEF ResyncSucceeds, Results
  <2> QED
    BY <1>6, <2>1, <2>2 DEF ResyncSucceeds
<1>7. CASE ResyncFails
  <2>1. /\ phase' \in [Calls -> Phases]
        /\ result' \in [Calls -> Results]
        /\ report' \in [Calls -> Seq(Status)]
    <3>1. <<>> \in Seq(Status) /\ "RpcFailed" \in Results
      BY DEF Results
    <3>2. PICK r \in Results : Reply(serving, r, <<>>)
      BY <1>5, <1>7, <3>1 DEF ResyncFails
    <3> QED
      BY <3>1, <3>2, TypeReply
  <2> QED
    BY <1>7, <2>1 DEF ResyncFails
<1> QED
  BY <1>1, <1>3, <1>4, <1>6, <1>7 DEF Serving

\* The task while it stops.
LEMMA TypeStopping == ASSUME TypeOK, Stopping PROVE TypeOK'
<1> USE DEF TypeOK, taskVars, sharedVars, callVars, Points, ConnectionStates
<1>1. CASE SelectShutdown
  BY <1>1 DEF SelectShutdown
<1>2. CASE AnnounceShutdown
  BY <1>2 DEF AnnounceShutdown
<1>3. CASE Exit
  BY <1>3, ConstantsAssumption DEF Exit, Abandon, Phases, ConstantsAssumption
<1>4. CASE ExitWithoutClient
  BY <1>4 DEF ExitWithoutClient
<1> QED
  BY <1>1, <1>2, <1>3, <1>4 DEF Stopping

------------------------------------------------------------------------------
(* The inductive invariant.  Most actions of the callers touch none of what *)
(* the task announces, and no action of the task touches the callers' side  *)
(* of shutdown(); the two frame lemmas say so once.                         *)

\* The API never touches what belongs to the task, nor the watches it writes.
LEMMA CallerFrame ==
  ASSUME (\E c \in Calls : CallStep(c)) \/ (\E s \in Stoppers : StopStep(s))
  PROVE  UNCHANGED <<pc, attempt, writable, serving, statuses, state, snapshot, client>>
BY DEF CallStep, StopStep, IssueWrite, IssueRefresh, IssueReady, ReadyReturns, SendCommand,
       ReportUnavailable, DropCall, SignalShutdown, TakeHandle, JoinTask,
       AbortShutdown, taskVars, sharedVars

\* The task never touches the flag, the handle, or who calls with what.
LEMMA TaskFrame ==
  ASSUME Task
  PROVE  UNCHANGED <<shutdown, client, handle, request, stop>>
<1> USE DEF taskVars, sharedVars, callVars
<1>1. CASE Connecting
  BY <1>1 DEF Connecting, LoopHead, ConnectFails, ConnectSucceeds, BackoffElapses,
              BackoffShutdown, reject_command
<1>2. CASE Synchronizing
  BY <1>2 DEF Synchronizing, SnapshotArrives, BecomeReady, FirstSnapshotFails, RetryAtOnce,
              SelectNotification, LoseConnection, Reconnect
<1>3. CASE Serving
  BY <1>3 DEF Serving, SelectCommand, MutationSucceeds, MutationFails, ResyncSucceeds,
              ResyncFails
<1>4. CASE Stopping
  BY <1>4 DEF Stopping, SelectShutdown, AnnounceShutdown, Exit, ExitWithoutClient
<1> QED
  BY <1>1, <1>2, <1>3, <1>4 DEF Task

\* Every point of run() announces and publishes what PointInv says.
LEMMA PointStep ==
  ASSUME IInv, [Next]_vars
  PROVE  PointInv'
<1> USE DEF IInv, PointInv, InSession, Serves
<1>1. CASE UNCHANGED vars
  BY <1>1 DEF vars, taskVars, sharedVars
<1>2. CASE (\E c \in Calls : CallStep(c)) \/ (\E s \in Stoppers : StopStep(s))
  BY <1>2, CallerFrame
<1>3. CASE DropClient
  BY <1>3 DEF DropClient, taskVars
<1>4. CASE Connecting
  <2> USE DEF taskVars, sharedVars
  <2>1. CASE LoopHead
    BY <2>1 DEF LoopHead
  <2>2. CASE ConnectFails
    BY <2>2 DEF ConnectFails
  <2>3. CASE ConnectSucceeds
    BY <2>3 DEF ConnectSucceeds
  <2>4. CASE BackoffElapses
    BY <2>4 DEF BackoffElapses
  <2>5. CASE BackoffShutdown
    BY <2>5 DEF BackoffShutdown
  <2>6. CASE reject_command
    BY <2>6 DEF reject_command
  <2> QED
    BY <1>4, <2>1, <2>2, <2>3, <2>4, <2>5, <2>6 DEF Connecting
<1>5. CASE Synchronizing
  <2> USE DEF taskVars, sharedVars
  <2>1. CASE SnapshotArrives
    <3>1. snapshot' # None /\ snapshot'.fresh
      BY <2>1, PublishedIsFresh DEF SnapshotArrives
    <3> QED
      BY <2>1, <3>1 DEF SnapshotArrives
  <2>2. CASE BecomeReady
    BY <2>2 DEF BecomeReady
  <2>3. CASE FirstSnapshotFails
    BY <2>3 DEF FirstSnapshotFails
  <2>4. CASE RetryAtOnce
    BY <2>4 DEF RetryAtOnce
  <2>5. CASE SelectNotification
    BY <2>5 DEF SelectNotification
  <2>6. CASE LoseConnection
    BY <2>6 DEF LoseConnection
  <2>7. CASE Reconnect
    BY <2>7 DEF Reconnect
  <2> QED
    BY <1>5, <2>1, <2>2, <2>3, <2>4, <2>5, <2>6, <2>7 DEF Synchronizing
<1>6. CASE Serving
  <2> USE DEF taskVars, sharedVars
  <2>1. CASE SelectCommand
    BY <2>1 DEF SelectCommand
  <2>2. CASE MutationSucceeds
    BY <2>2 DEF MutationSucceeds
  <2>3. CASE MutationFails
    BY <2>3 DEF MutationFails
  <2>4. CASE ResyncSucceeds
    <3>1. snapshot' # None /\ snapshot'.fresh
      BY <2>4, PublishedIsFresh DEF ResyncSucceeds
    <3> QED
      BY <2>4, <3>1 DEF ResyncSucceeds
  <2>5. CASE ResyncFails
    BY <2>5 DEF ResyncFails
  <2> QED
    BY <1>6, <2>1, <2>2, <2>3, <2>4, <2>5 DEF Serving
<1>7. CASE Stopping
  <2> USE DEF taskVars, sharedVars
  <2>1. CASE SelectShutdown
    BY <2>1 DEF SelectShutdown
  <2>2. CASE AnnounceShutdown
    BY <2>2 DEF AnnounceShutdown
  <2>3. CASE Exit
    BY <2>3 DEF Exit
  <2>4. CASE ExitWithoutClient
    BY <2>4 DEF ExitWithoutClient
  <2> QED
    BY <1>7, <2>1, <2>2, <2>3, <2>4 DEF Stopping
<1> QED
  BY <1>1, <1>2, <1>3, <1>4, <1>5, <1>6, <1>7 DEF Next, Task, Ended

\* A command is taken into service and answered by the same task.
LEMMA ServingStep ==
  ASSUME IInv, [Next]_vars
  PROVE  ServingInv'
<1>0. pc' = "mutating" => snapshot' # None
  BY PointStep DEF PointInv, InSession, Serves
<1> USE <1>0 DEF IInv, ServingInv
<1>1. CASE UNCHANGED vars
  BY <1>1 DEF vars, taskVars
<1>2. CASE (\E c \in Calls : CallStep(c)) \/ (\E s \in Stoppers : StopStep(s))
  BY <1>2, CallerFrame
<1>3. CASE DropClient
  BY <1>3 DEF DropClient, taskVars
<1>4. CASE Connecting
  BY <1>4 DEF Connecting, LoopHead, ConnectFails, ConnectSucceeds, BackoffElapses,
              BackoffShutdown, reject_command, taskVars
<1>5. CASE Synchronizing
  BY <1>5 DEF Synchronizing, SnapshotArrives, BecomeReady, FirstSnapshotFails, RetryAtOnce,
              SelectNotification, LoseConnection, Reconnect
<1>6. CASE Serving
  <2>1. CASE SelectCommand
    <3>1. Head(commands) \in Calls
      BY <2>1 DEF SelectCommand, TypeOK
    <3>2. Head(commands) # None
      BY <3>1, ConstantsAssumption DEF ConstantsAssumption
    <3> QED
      BY <2>1, <3>2 DEF SelectCommand
  <2>2. CASE MutationSucceeds
    BY <2>2 DEF MutationSucceeds, PointInv, InSession, Serves
  <2>3. CASE MutationFails
    BY <2>3 DEF MutationFails
  <2>4. CASE ResyncSucceeds
    BY <2>4 DEF ResyncSucceeds
  <2>5. CASE ResyncFails
    BY <2>5 DEF ResyncFails
  <2> QED
    BY <1>6, <2>1, <2>2, <2>3, <2>4, <2>5 DEF Serving
<1>7. CASE Stopping
  BY <1>7 DEF Stopping, SelectShutdown, AnnounceShutdown, Exit, ExitWithoutClient
<1> QED
  BY <1>1, <1>2, <1>3, <1>4, <1>5, <1>6, <1>7 DEF Next, Task, Ended

\* What the task does to the phase of a call: a queued call may be answered, or
\* lose its reply when run() returns; no other call is touched.
LEMMA TaskPhases ==
  ASSUME TypeOK, ServingInv, Task, NEW c \in Calls
  PROVE  \/ phase'[c] = phase[c]
         \/ phase[c] = "queued" /\ phase'[c] = "done"
         \/ phase[c] = "queued" /\ phase'[c] = "unavailable" /\ Exit
<1> USE DEF TypeOK, callVars
<1>1. \A d, r, rep : Reply(d, r, rep) =>
        phase'[c] = phase[c] \/ (phase[c] = "queued" /\ phase'[c] = "done")
  BY DEF Reply
<1>2. CASE Connecting
  BY <1>1, <1>2 DEF Connecting, LoopHead, ConnectFails, ConnectSucceeds, BackoffElapses,
                    BackoffShutdown, reject_command
<1>3. CASE Synchronizing
  BY <1>3 DEF Synchronizing, SnapshotArrives, BecomeReady, FirstSnapshotFails, RetryAtOnce,
              SelectNotification, LoseConnection, Reconnect
<1>4. CASE Serving
  BY <1>1, <1>4 DEF Serving, ServingInv, SelectCommand, MutationSucceeds, MutationFails,
                    ResyncSucceeds, ResyncFails
<1>5. CASE Stopping
  BY <1>5 DEF Stopping, SelectShutdown, AnnounceShutdown, Exit, Abandon, ExitWithoutClient
<1> QED
  BY <1>2, <1>3, <1>4, <1>5 DEF Task

\* No call and no shutdown() begins once the client is gone, and none it serves
\* is left when it goes.
LEMMA ClientStep ==
  ASSUME IInv, [Next]_vars
  PROVE  ClientInv'
<1> USE DEF IInv, ClientInv, Borrowing
<1>1. CASE UNCHANGED vars
  BY <1>1 DEF vars, sharedVars, callVars
<1>2. ASSUME NEW c \in Calls, CallStep(c) PROVE ClientInv'
  <2>1. client' = client /\ stop' = stop
    BY <1>2 DEF CallStep, IssueWrite, IssueRefresh, IssueReady, ReadyReturns, SendCommand,
                ReportUnavailable, DropCall, sharedVars
  <2>2. client = "dropped" => \A d \in Calls : phase'[d] \notin Borrowing
    BY <1>2 DEF CallStep, IssueWrite, IssueRefresh, IssueReady, ReadyReturns, SendCommand,
                ReportUnavailable, DropCall, TypeOK
  <2> QED
    BY <2>1, <2>2
<1>3. ASSUME NEW s \in Stoppers, StopStep(s) PROVE ClientInv'
  BY <1>3 DEF StopStep, SignalShutdown, TakeHandle, JoinTask, AbortShutdown, sharedVars,
              callVars, TypeOK
<1>4. CASE DropClient
  BY <1>4 DEF DropClient, callVars
<1>5. CASE Task
  <2>1. client' = client /\ stop' = stop
    BY <1>5, TaskFrame
  <2>2. ASSUME client = "dropped", NEW c \in Calls PROVE phase'[c] \notin Borrowing
    BY <1>5, <2>2, TaskPhases
  <2> QED
    BY <2>1, <2>2
<1> QED
  BY <1>1, <1>2, <1>3, <1>4, <1>5 DEF Next, Ended

\* A task that ended, or announced its end, stays there.
LEMMA DoneIsFinal ==
  ASSUME Task, pc = "done"
  PROVE  FALSE
BY DEF Task, Connecting, LoopHead, ConnectFails, ConnectSucceeds, BackoffElapses,
       BackoffShutdown, reject_command, Synchronizing, SnapshotArrives, BecomeReady,
       FirstSnapshotFails, RetryAtOnce, SelectNotification, LoseConnection, Reconnect,
       Serving, SelectCommand, MutationSucceeds, MutationFails, ResyncSucceeds,
       ResyncFails,
       Stopping, SelectShutdown, AnnounceShutdown, Exit, ExitWithoutClient

\* Once Shutdown is announced the task announces nothing else.
LEMMA ShutdownIsFinal ==
  ASSUME PointInv, Task, state = "Shutdown"
  PROVE  state' = "Shutdown"
<1> USE DEF PointInv, InSession, Serves, sharedVars
<1>1. CASE Connecting
  BY <1>1 DEF Connecting, LoopHead, ConnectFails, ConnectSucceeds, BackoffElapses,
              BackoffShutdown, reject_command
<1>2. CASE Synchronizing
  BY <1>2 DEF Synchronizing, SnapshotArrives, BecomeReady, FirstSnapshotFails, RetryAtOnce,
              SelectNotification, LoseConnection, Reconnect
<1>3. CASE Serving
  BY <1>3 DEF Serving, SelectCommand, MutationSucceeds, MutationFails, ResyncSucceeds,
              ResyncFails
<1>4. CASE Stopping
  BY <1>4 DEF Stopping, SelectShutdown, AnnounceShutdown, Exit, ExitWithoutClient
<1> QED
  BY <1>1, <1>2, <1>3, <1>4 DEF Task

\* The handle leaves Inner only for a caller that joins, and that caller leaves
\* the join when the task has ended, or gives up.
LEMMA HandleStep ==
  ASSUME IInv, [Next]_vars
  PROVE  HandleInv'
<1> USE DEF IInv, HandleInv
<1>1. CASE UNCHANGED vars
  BY <1>1 DEF vars, taskVars, sharedVars
<1>2. ASSUME NEW c \in Calls, CallStep(c) PROVE HandleInv'
  BY <1>2, CallerFrame
     DEF CallStep, IssueWrite, IssueRefresh, IssueReady, ReadyReturns, SendCommand,
         ReportUnavailable, DropCall, sharedVars
<1>3. ASSUME NEW s \in Stoppers, StopStep(s) PROVE HandleInv'
  <2>1. pc' = pc
    BY <1>3, CallerFrame
  <2>2. CASE SignalShutdown(s)
    BY <2>1, <2>2 DEF SignalShutdown, TypeOK
  <2>3. CASE TakeHandle(s)
    <3>1. CASE handle = "present"
      BY <2>1, <2>3, <3>1 DEF TakeHandle, TypeOK
    <3>2. CASE handle = "taken"
      BY <2>1, <2>3, <3>2 DEF TakeHandle, TaskUnlocked, TypeOK
    <3> QED
      BY <3>1, <3>2 DEF TypeOK
  <2>4. CASE JoinTask(s)
    BY <2>1, <2>4 DEF JoinTask, Finished, PointInv
  <2>5. CASE AbortShutdown(s)
    BY <2>1, <2>5 DEF AbortShutdown, TypeOK, sharedVars
  <2> QED
    BY <1>3, <2>2, <2>3, <2>4, <2>5 DEF StopStep
<1>4. CASE DropClient
  BY <1>4 DEF DropClient, taskVars
<1>5. CASE Task
  <2>1. handle' = handle /\ stop' = stop
    BY <1>5, TaskFrame
  <2>2. pc = "done" => pc' = "done"
    BY <1>5, DoneIsFinal
  <2> QED
    BY <2>1, <2>2
<1> QED
  BY <1>1, <1>2, <1>3, <1>4, <1>5 DEF Next, Ended

\* A call without a reply: the state said Shutdown when it lost it, and still does.
LEMMA AbandonedStep ==
  ASSUME IInv, [Next]_vars
  PROVE  AbandonedMeansShutdown'
<1> USE DEF IInv, AbandonedMeansShutdown
<1>1. CASE UNCHANGED vars
  BY <1>1 DEF vars, sharedVars, callVars
<1>2. ASSUME NEW c \in Calls, CallStep(c) PROVE AbandonedMeansShutdown'
  <2>1. state' = state
    BY <1>2, CallerFrame
  <2>2. CASE SendCommand(c)
    <3>1. pc \in Finished => state = "Shutdown"
      BY <2>2 DEF SendCommand, Finished, PointInv, ClientInv, Borrowing, TypeOK
    <3> QED
      BY <2>1, <2>2, <3>1 DEF SendCommand, TypeOK
  <2>3. CASE \E r \in Requests : IssueWrite(c, r) \/ IssueRefresh(c, r) \/ IssueReady(c, r)
    BY <2>1, <2>3 DEF IssueWrite, IssueRefresh, IssueReady, TypeOK
  <2>4. CASE ReadyReturns(c) \/ ReportUnavailable(c) \/ DropCall(c)
    BY <2>1, <2>4 DEF ReadyReturns, ReportUnavailable, DropCall, TypeOK
  <2> QED
    BY <1>2, <2>2, <2>3, <2>4 DEF CallStep
<1>3. ASSUME NEW s \in Stoppers, StopStep(s) PROVE AbandonedMeansShutdown'
  BY <1>3, CallerFrame DEF StopStep, SignalShutdown, TakeHandle, JoinTask, AbortShutdown, callVars
<1>4. CASE DropClient
  BY <1>4 DEF DropClient, callVars
<1>5. CASE Task
  <2>1. request' = request
    BY <1>5, TaskFrame
  <2>2. state = "Shutdown" => state' = "Shutdown"
    BY <1>5, ShutdownIsFinal
  <2>3. Exit => state' = "Shutdown"
    BY DEF Exit, PointInv
  <2>4. ASSUME NEW c \in Calls, phase'[c] = "unavailable", request'[c].kind # "Refresh"
        PROVE  state' = "Shutdown"
    BY <1>5, <2>1, <2>2, <2>3, <2>4, TaskPhases
  <2> QED
    BY <2>4
<1> QED
  BY <1>1, <1>2, <1>3, <1>4, <1>5 DEF Next, Ended

\* shutdown() returns after the task ended, from either branch of its lock.
LEMMA ShutdownStep ==
  ASSUME IInv, [Next]_vars
  PROVE  ShutdownJoins'
<1> USE DEF IInv, ShutdownJoins
<1>1. CASE UNCHANGED vars
  BY <1>1 DEF vars, taskVars, sharedVars
<1>2. ASSUME NEW c \in Calls, CallStep(c) PROVE ShutdownJoins'
  BY <1>2, CallerFrame
     DEF CallStep, IssueWrite, IssueRefresh, IssueReady, ReadyReturns, SendCommand,
         ReportUnavailable, DropCall
<1>3. ASSUME NEW s \in Stoppers, StopStep(s) PROVE ShutdownJoins'
  <2>1. pc' = pc /\ state' = state
    BY <1>3, CallerFrame
  <2>2. stop[s] \in {"signalled", "joining"} /\ pc = "done" => state = "Shutdown"
    BY DEF PointInv, ClientInv, TypeOK
  <2>3. CASE SignalShutdown(s)
    BY <2>1, <2>3 DEF SignalShutdown, TypeOK
  <2>4. CASE TakeHandle(s)
    <3>1. handle = "taken" => pc = "done" \/ \E t \in Stoppers \ {s} : stop[t] = "detached"
      BY <2>4 DEF TakeHandle, TaskUnlocked, HandleInv
    <3> QED
      BY <2>1, <2>2, <2>4, <3>1 DEF TakeHandle, TypeOK
  <2>5. CASE JoinTask(s)
    BY <2>1, <2>2, <2>5 DEF JoinTask, Finished, PointInv, TypeOK
  <2>6. CASE AbortShutdown(s)
    BY <2>1, <2>6 DEF AbortShutdown, TypeOK
  <2> QED
    BY <1>3, <2>3, <2>4, <2>5, <2>6 DEF StopStep
<1>4. CASE DropClient
  BY <1>4 DEF DropClient, taskVars
<1>5. CASE Task
  BY <1>5, TaskFrame, DoneIsFinal, ShutdownIsFinal
<1> QED
  BY <1>1, <1>2, <1>3, <1>4, <1>5 DEF Next, Ended

\* Every step keeps the types: the lemmas above, put together.
LEMMA TypeStep ==
  ASSUME IInv, [Next]_vars
  PROVE  TypeOK'
<1>1. CASE UNCHANGED vars
  BY <1>1 DEF IInv, TypeOK, vars, taskVars, sharedVars, callVars
<1>2. CASE DropClient
  BY <1>2 DEF IInv, TypeOK, DropClient, taskVars, callVars
<1>3. CASE Task
  BY <1>3, TypeConnecting, TypeSynchronizing, TypeServing, TypeStopping DEF Task, IInv
<1> QED
  BY <1>1, <1>2, <1>3, TypeCall, TypeStop DEF Next, Ended, IInv

\* The initial state satisfies the invariant.
LEMMA IInvInit == Init => IInv
BY TypeInit
   DEF Init, IInv, PointInv, InSession, Serves, ServingInv, ClientInv, HandleInv,
       AbandonedMeansShutdown, ShutdownJoins

\* The invariant everything below rests on.
THEOREM Invariance == Spec => []IInv
<1>1. IInv /\ [Next]_vars => IInv'
  BY TypeStep, PointStep, ServingStep, ClientStep, HandleStep, AbandonedStep, ShutdownStep
     DEF IInv
<1> QED
  BY IInvInit, <1>1, PTL DEF Spec

------------------------------------------------------------------------------
(* What follows.                                                           *)

\* The state, the channel, the calls and the mixer keep their types; the command
\* channel never holds more than its capacity.
THEOREM TypeCorrect == Spec => []TypeOK
<1>1. IInv => TypeOK
  BY DEF IInv
<1> QED
  BY <1>1, Invariance, PTL

\* Ready is announced over a snapshot of the current connection only, with the
\* mode its revision allows.
THEOREM ReadyAlwaysFresh == Spec => []ReadyIsFresh
<1>1. IInv => ReadyIsFresh
  BY DEF IInv, PointInv, InSession, Serves, ReadyIsFresh, Connected, TypeOK, Points
<1> QED
  BY <1>1, Invariance, PTL

\* The expect("ready snapshot") of a fade step never fails.
THEOREM NeverPanics == Spec => []NoPanic
<1>1. IInv => NoPanic
  BY DEF IInv, PointInv, NoPanic
<1> QED
  BY <1>1, Invariance, PTL

\* A write that loses its reply finds the state Shutdown.
THEOREM AbandonedOnlyByShutdown == Spec => []AbandonedMeansShutdown
<1>1. IInv => AbandonedMeansShutdown
  BY DEF IInv
<1> QED
  BY <1>1, Invariance, PTL

\* shutdown() returns only after the task has ended, for any number of callers,
\* or after one of them gave up while it was joining.
THEOREM ShutdownAlwaysJoins == Spec => []ShutdownJoins
<1>1. IInv => ShutdownJoins
  BY DEF IInv
<1> QED
  BY <1>1, Invariance, PTL

------------------------------------------------------------------------------
(* The lifecycle a fade sees.  Each lemma puts actions of Fades together    *)
(* from what a step does to the link, the state, the gate and the flag.     *)
(* Fades has no callers here, so nothing of theirs can move.                *)

\* The flag of Fades.
Flag == shutdown \/ client = "dropped"

\* Only a client that shuts down, or is gone, lets the task close a session.
CloseInv == pc = "closing" => Flag

\* The announcement alone, which every receiver of the watch would see.
LEMMA FadingAnnounces == ASSUME NEW s, stateOf' = s PROVE Fading!transition(s)
BY DEF Fading!transition, NoFade

\* What comes across every fade.
LEMMA FadingDisturbs == ASSUME NEW xs PROVE Fading!Disturb(xs)
BY DEF Fading!Disturb, NoFade

\* A step that moves nothing a fade sees.
LEMMA FadingStutters ==
  ASSUME UNCHANGED <<linkOf, stateOf, writable, Flag>>
  PROVE  UNCHANGED Fading!vars
BY DEF NoFade, Flag, Fading!vars, Fading!callVars, Fading!innerVars, Fading!lifeVars,
       Fading!mixerVars

\* The client is shut down, or goes.
LEMMA FadingSignals ==
  ASSUME UNCHANGED <<linkOf, stateOf, writable>>, ~Flag, Flag'
  PROVE  Fading!Next
<1>1. Fading!Cancel(UNION {Fading!Registered(t) : t \in {}}, "another")
  BY DEF Fading!Cancel, NoFade
<1>2. Fading!SignalShutdown
  BY <1>1 DEF Fading!SignalShutdown, Fading!callVars, Fading!mixerVars, Flag, NoFade
<1> QED
  BY <1>2 DEF Fading!Next

\* A connection, or another attempt at one, or the end of a lost one.
LEMMA FadingConnects ==
  ASSUME UNCHANGED Flag,
         \/ /\ linkOf = "down" /\ linkOf' = "syncing" /\ stateOf' = "Synchronizing"
            /\ writable' \in BOOLEAN
         \/ /\ linkOf \in {"lost", "down"} /\ linkOf' = "down" /\ stateOf' = "Reconnecting"
            /\ UNCHANGED writable
  PROVE  Fading!Next
<1>1. Fading!Disturb({f \in {} : NoFade[f] \in Fading!Running})
  BY FadingDisturbs
<1>2. Fading!Connect \/ Fading!Reconnect \/ Fading!Retry
  BY <1>1, FadingAnnounces
     DEF Fading!Connect, Fading!Reconnect, Fading!Retry, Fading!innerVars, Fading!mixerVars,
         Flag, NoFade
<1> QED
  BY <1>2 DEF Fading!Next, Fading!Task

\* A session: a notification, a snapshot published, or the loss of the connection.
LEMMA FadingResyncs ==
  ASSUME UNCHANGED <<writable, Flag>>,
         \/ linkOf = "up" /\ linkOf' = "syncing" /\ stateOf' = "Synchronizing"
         \/ /\ linkOf = "syncing" /\ linkOf' = "up"
            /\ stateOf' = IF writable THEN "Ready" ELSE "ReadOnlyUnknownRevision"
         \/ linkOf \in {"up", "syncing"} /\ linkOf' = "lost" /\ UNCHANGED stateOf
  PROVE  Fading!Next
<1>1. Fading!Notified \/ Fading!Synchronized \/ Fading!LoseConnection
  BY FadingAnnounces
     DEF Fading!Notified, Fading!Synchronized, Fading!LoseConnection, Fading!callVars,
         Fading!innerVars, Fading!mixerVars, Flag, NoFade
<1> QED
  BY <1>1 DEF Fading!Next, Fading!Task

\* The end: Shutdown is announced, then the task is gone.
LEMMA FadingStops ==
  ASSUME UNCHANGED <<writable, Flag>>,
         \/ /\ Flag /\ linkOf' = "ending" /\ stateOf' = "Shutdown"
            /\ linkOf \in {"up", "down"} \/ (linkOf = "lost" /\ stateOf = "Synchronizing")
         \/ linkOf = "ending" /\ linkOf' = "ended" /\ UNCHANGED stateOf
  PROVE  Fading!Next
<1>1. Fading!Stop \/ Fading!Exit
  BY FadingAnnounces
     DEF Fading!Stop, Fading!Exit, Fading!Issuers, Fading!innerVars, Fading!mixerVars, Flag, NoFade
<1> QED
  BY <1>1 DEF Fading!Next, Fading!Task

\* Who closes a session was told to, and nobody takes the flag back.
LEMMA CloseStep ==
  ASSUME CloseInv, [Next]_vars
  PROVE  CloseInv' /\ (Flag => Flag')
<1> USE DEF CloseInv, Flag, taskVars, sharedVars
<1>1. CASE UNCHANGED vars
  BY <1>1 DEF vars
<1>2. CASE (\E c \in Calls : CallStep(c)) \/ (\E s \in Stoppers : StopStep(s))
  <2>1. shutdown => shutdown'
    BY <1>2 DEF CallStep, StopStep, IssueWrite, IssueRefresh, IssueReady, ReadyReturns,
                SendCommand, ReportUnavailable, DropCall, SignalShutdown, TakeHandle, JoinTask,
                AbortShutdown
  <2> QED
    BY <1>2, <2>1, CallerFrame
<1>3. CASE DropClient
  BY <1>3 DEF DropClient
<1>4. CASE Task
  <2>1. pc' = "closing" => Flag
    BY <1>4 DEF Task, Connecting, LoopHead, ConnectFails, ConnectSucceeds, BackoffElapses,
                BackoffShutdown, reject_command, Synchronizing, SnapshotArrives, BecomeReady,
                FirstSnapshotFails, RetryAtOnce, SelectNotification, LoseConnection, Reconnect,
                Serving, SelectCommand, MutationSucceeds, MutationFails, ResyncSucceeds,
                ResyncFails, Stopping, SelectShutdown, AnnounceShutdown, Exit, ExitWithoutClient
  <2> QED
    BY <1>4, <2>1, TaskFrame
<1> QED
  BY <1>1, <1>2, <1>3, <1>4 DEF Next, Ended

\* A fade sees every step of the lifecycle as one of Fades, or not at all.
LEMMA FadingStep ==
  ASSUME IInv, IInv', CloseInv, [Next]_vars
  PROVE  Fading!Next \/ UNCHANGED Fading!vars
<1> USE DEF IInv, PointInv, linkOf, stateOf, Flag, taskVars, sharedVars
<1>1. CASE UNCHANGED vars
  BY <1>1, FadingStutters DEF vars
<1>2. CASE \/ \E c \in Calls : CallStep(c)
           \/ \E s \in Stoppers : StopStep(s)
           \/ DropClient
  <2>1. UNCHANGED <<pc, state, writable>>
    BY <1>2, CallerFrame DEF DropClient
  <2>2. UNCHANGED <<linkOf, stateOf>>
    BY <2>1
  <2>3. UNCHANGED Flag \/ (~Flag /\ Flag')
    BY CloseStep
  <2> QED
    BY <2>1, <2>2, <2>3, FadingStutters, FadingSignals
<1>3. CASE Connecting
  <2>1. UNCHANGED Flag
    BY <1>3, TaskFrame DEF Task
  <2>2. CASE LoopHead /\ pc' = "connecting"
    BY <2>1, <2>2, FadingConnects DEF LoopHead
  <2>3. CASE LoopHead /\ pc' = "exiting"
    BY <2>1, <2>3, FadingStops DEF LoopHead
  <2>4. CASE ConnectFails \/ BackoffElapses \/ reject_command
    BY <2>1, <2>4, FadingStutters DEF ConnectFails, BackoffElapses, reject_command
  <2>5. CASE ConnectSucceeds
    BY <2>1, <2>5, FadingConnects DEF ConnectSucceeds
  <2>6. CASE BackoffShutdown
    BY <2>1, <2>6, FadingStops DEF BackoffShutdown
  <2> QED
    BY <1>3, <2>2, <2>3, <2>4, <2>5, <2>6 DEF Connecting, LoopHead
<1>4. CASE Synchronizing
  <2>1. UNCHANGED Flag
    BY <1>4, TaskFrame DEF Task
  <2>2. CASE SnapshotArrives \/ RetryAtOnce
    BY <2>1, <2>2, FadingStutters DEF SnapshotArrives, RetryAtOnce
  <2>3. CASE BecomeReady \/ FirstSnapshotFails \/ SelectNotification \/ LoseConnection
    BY <2>1, <2>3, FadingResyncs
       DEF BecomeReady, FirstSnapshotFails, SelectNotification, LoseConnection, InSession
  <2>4. CASE Reconnect
    BY <2>1, <2>4, FadingConnects DEF Reconnect
  <2> QED
    BY <1>4, <2>2, <2>3, <2>4 DEF Synchronizing
<1>5. CASE Serving
  <2>1. UNCHANGED Flag
    BY <1>5, TaskFrame DEF Task
  <2>2. CASE SelectCommand \/ MutationSucceeds \/ MutationFails \/ ResyncSucceeds
    <3>1. UNCHANGED <<state, writable>>
      BY <2>2 DEF SelectCommand, MutationSucceeds, MutationFails, ResyncSucceeds
    <3>2. /\ pc \in {"select", "mutating", "resync"}
          /\ pc' \in {"select", "mutating", "resync"}
      BY <2>2 DEF SelectCommand, MutationSucceeds, MutationFails, ResyncSucceeds
    <3> QED
      BY <2>1, <3>1, <3>2, FadingStutters
  <2>3. CASE ResyncFails
    BY <2>1, <2>3, FadingResyncs DEF ResyncFails, Serves, InSession
  <2> QED
    BY <1>5, <2>2, <2>3 DEF Serving
<1>6. CASE Stopping
  <2>1. UNCHANGED Flag
    BY <1>6, TaskFrame DEF Task
  <2>2. CASE SelectShutdown
    BY <2>1, <2>2, FadingStutters DEF SelectShutdown
  <2>3. CASE AnnounceShutdown
    BY <2>1, <2>3, FadingStops DEF AnnounceShutdown, CloseInv
  <2>4. CASE Exit
    BY <2>1, <2>4, FadingStops DEF Exit
  <2>5. CASE ExitWithoutClient
    BY <2>1, <2>5, FadingStops DEF ExitWithoutClient, Serves, InSession
  <2> QED
    BY <1>6, <2>2, <2>3, <2>4, <2>5 DEF Stopping
<1> QED
  BY <1>1, <1>2, <1>3, <1>4, <1>5, <1>6 DEF Next, Task, Ended

\* The lifecycle task is, for a fade, what Fades says of it: the link, the state
\* watch, the write gate and the flag start and move only as they do there.
THEOREM LifecycleFitsFades == Spec => FadesFit
<1>1. Init => CloseInv /\ Fading!Init
  <2> SUFFICES ASSUME Init PROVE CloseInv /\ Fading!Init
    OBVIOUS
  <2>1. linkOf = "down" /\ stateOf = "Reconnecting" /\ ~Flag
    BY DEF Init, linkOf, stateOf, Flag
  <2> QED
    BY <2>1 DEF Init, CloseInv, Flag, Fading!Init, Fading!Issuers, NoFade
<1>2. IInv /\ IInv' /\ CloseInv /\ [Next]_vars => [Fading!Next]_(Fading!vars) /\ CloseInv'
  BY FadingStep, CloseStep
<1> QED
  BY <1>1, <1>2, Invariance, PTL DEF Spec, FadesFit, Fading!Spec

==============================================================================
