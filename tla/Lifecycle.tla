------------------------------ MODULE Lifecycle ------------------------------
(***************************************************************************)
(* The lifecycle task of SynchronizedClient (src/src/lifecycle.rs): one    *)
(* task owns the connection, serves the command queue, answers             *)
(* notifications with a resynchronization, reconnects with backoff and     *)
(* stops on shutdown.  The callers of the public API run concurrently with *)
(* it, on any thread.                                                      *)
(*                                                                         *)
(* One action is the code between two points at which another task or      *)
(* thread can interleave: an await, or a store another thread reads.  The  *)
(* peer is external: any RPC may fail at any time, and a failed write may  *)
(* or may not have reached the mixer.                                      *)
(***************************************************************************)
EXTENDS Naturals, Sequences, FiniteSets

CONSTANTS
  Calls,            \* calls of the API, each made at most once
  Stoppers,         \* callers of shutdown()
  Requests,         \* the requests the calls may carry
  CommandCapacity,  \* COMMAND_CAPACITY, the bound of the command channel
  MaxAttempt,       \* where the reconnect counter saturates (u32::MAX)
  None              \* no snapshot, no command in service

Kinds == {"Apply", "Batch", "Refresh", "AwaitReady"}

\* size: the number of operations; resnapshot: the flag of Command::Apply.
Request == [kind : Kinds, size : Nat, resnapshot : BOOLEAN]

\* A snapshot: how many of the mixer's operations it shows, and whether it was
\* read through the current connection.
Snapshot == [shows : Nat, fresh : BOOLEAN]

ASSUME ConstantsAssumption ==
  /\ None \notin Calls \union Snapshot
  /\ Requests \subseteq Request
  /\ \A r \in Requests : r.kind = "Apply" => r.size = 1
  /\ \A r \in Requests : r.kind \in {"Refresh", "AwaitReady"} => r.size = 0
  /\ CommandCapacity \in Nat \ {0}
  /\ MaxAttempt \in Nat \ {0}

VARIABLES
  \* the task
  pc,          \* where run() is
  attempt,     \* failed connection attempts since the last session
  writable,    \* compatibility().writes_allowed() of the current client
  serving,     \* the call whose command is in service, or None
  statuses,    \* OperationStatus of its operations so far
  \* what the task shares with the API
  state,       \* the ConnectionState watch
  snapshot,    \* the snapshot watch: a Snapshot, or None
  commands,    \* the command channel, a FIFO of calls
  shutdown,    \* the shutdown watch
  client,      \* whether any clone of the client is still held
  handle,      \* Inner::task: the JoinHandle is "present" or "taken"
  \* the callers
  phase, request, result, report,  \* of each call
  carried,     \* history: the current connection was opened after the call was admitted
  stop,        \* where each caller of shutdown() is
  \* the peer
  mixer        \* history: the operations applied by the mixer, in order

taskVars   == <<pc, attempt, writable, serving, statuses>>
sharedVars == <<state, snapshot, commands, shutdown, client, handle>>
callVars   == <<phase, request, result, report, carried>>
vars       == <<taskVars, sharedVars, callVars, stop, mixer>>

ConnectionStates == {"Disconnected", "Connecting", "Synchronizing", "Ready",
                     "ReadOnlyUnknownRevision", "Reconnecting", "Shutdown"}
Connected        == {"Ready", "ReadOnlyUnknownRevision"}
Phases  == {"idle", "waiting", "admitted", "queued", "unavailable", "done", "dropped"}
Results == {"none", "Ok", "RpcFailed", "NotReady", "UnsupportedRevision", "Shutdown"}
Status  == {"Succeeded", "Failed", "NotAttempted"}
Points  == {"top", "connecting", "backoff", "syncing", "published", "retrying",
            "select", "mutating", "resync", "notified", "lost", "closing",
            "exiting", "done", "panicked"}
Finished == {"done", "panicked"}

Stops   == {"idle", "signalled", "joining", "returned", "dropped", "detached"}

NoRequest == [kind |-> "Refresh", size |-> 0, resnapshot |-> FALSE]

TypeOK ==
  /\ pc \in Points
  /\ attempt \in 0..MaxAttempt
  /\ writable \in BOOLEAN
  /\ serving \in Calls \union {None}
  /\ statuses \in Seq(Status)
  /\ state \in ConnectionStates
  /\ snapshot \in Snapshot \union {None}
  /\ commands \in Seq(Calls) /\ Len(commands) <= CommandCapacity
  /\ shutdown \in BOOLEAN
  /\ client \in {"held", "dropped"}
  /\ handle \in {"present", "taken"}
  /\ phase \in [Calls -> Phases]
  /\ request \in [Calls -> Request]
  /\ result \in [Calls -> Results]
  /\ report \in [Calls -> Seq(Status)]
  /\ carried \in [Calls -> BOOLEAN]
  /\ stop \in [Stoppers -> Stops]
  /\ mixer \in Seq([call : Calls, op : Nat])

\* SynchronizedClient::spawn.
Init ==
  /\ pc = "top" /\ attempt = 0 /\ writable = FALSE
  /\ serving = None /\ statuses = <<>>
  /\ state = "Disconnected" /\ snapshot = None /\ commands = <<>>
  /\ shutdown = FALSE /\ client = "held" /\ handle = "present"
  /\ phase = [c \in Calls |-> "idle"]
  /\ request = [c \in Calls |-> NoRequest]
  /\ result = [c \in Calls |-> "none"]
  /\ report = [c \in Calls |-> <<>>]
  /\ carried = [c \in Calls |-> FALSE]
  /\ stop = [s \in Stoppers |-> "idle"]
  /\ mixer = <<>>

------------------------------------------------------------------------------
(* The callers.                                                            *)

\* The error for a lifecycle that is not ready, from the state at that moment.
unavailable_error ==
  CASE state = "ReadOnlyUnknownRevision" -> "UnsupportedRevision"
    [] state = "Shutdown" -> "Shutdown"
    [] OTHER -> "NotReady"

\* The gate of refresh(): read-only will do.
MutantEnsureWritable == IF state \in Connected THEN "Ok" ELSE unavailable_error

ensure_writable == IF state = "Ready" THEN "Ok" ELSE unavailable_error

\* apply, apply_batch: the write gate, then on to the command channel.
IssueWrite(c, r) ==
  /\ client = "held" /\ phase[c] = "idle"
  /\ r.kind \in {"Apply", "Batch"}
  /\ request' = [request EXCEPT ![c] = r]
  /\ \/ /\ ensure_writable = "Ok"
        /\ phase' = [phase EXCEPT ![c] = "admitted"]
        /\ UNCHANGED result
     \/ /\ ensure_writable # "Ok"
        /\ phase' = [phase EXCEPT ![c] = "done"]
        /\ result' = [result EXCEPT ![c] = ensure_writable]
  /\ UNCHANGED <<taskVars, sharedVars, report, carried, stop, mixer>>

\* refresh: a refused one reads the state a second time for its error.
IssueRefresh(c, r) ==
  /\ client = "held" /\ phase[c] = "idle"
  /\ r.kind = "Refresh"
  /\ request' = [request EXCEPT ![c] = r]
  /\ phase' = [phase EXCEPT ![c] =
                 IF state \in Connected THEN "admitted" ELSE "unavailable"]
  /\ UNCHANGED <<taskVars, sharedVars, result, report, carried, stop, mixer>>

\* ready(): subscribe to the snapshot watch.
IssueReady(c, r) ==
  /\ client = "held" /\ phase[c] = "idle"
  /\ r.kind = "AwaitReady"
  /\ request' = [request EXCEPT ![c] = r]
  /\ phase' = [phase EXCEPT ![c] = "waiting"]
  /\ UNCHANGED <<taskVars, sharedVars, result, report, carried, stop, mixer>>

\* ready() returns the snapshot, or an error once the task is gone without one.
ReadyReturns(c) ==
  /\ phase[c] = "waiting"
  /\ \/ snapshot # None /\ result' = [result EXCEPT ![c] = "Ok"]
     \/ snapshot = None /\ pc \in Finished
        /\ result' = [result EXCEPT ![c] = "Shutdown"]
  /\ phase' = [phase EXCEPT ![c] = "done"]
  /\ UNCHANGED <<taskVars, sharedVars, request, report, carried, stop, mixer>>

MutantRoom == Len(commands) + 1 < CommandCapacity   \* one slot too few

\* A permit of the command channel.
Room == Len(commands) < CommandCapacity

\* The receiver of the channel goes, with every command in it and every reply unsent.
Abandon ==
  /\ commands' = <<>>
  /\ phase' = [c \in Calls |-> IF phase[c] = "queued" THEN "unavailable" ELSE phase[c]]

\* commands.send(..).await: waits for room, fails once the receiver is gone.
SendCommand(c) ==
  /\ phase[c] = "admitted"
  /\ \/ /\ pc \notin Finished /\ Room
        /\ commands' = Append(commands, c)
        /\ phase' = [phase EXCEPT ![c] = "queued"]
     \/ /\ pc \in Finished
        /\ phase' = [phase EXCEPT ![c] = "unavailable"]
        /\ UNCHANGED commands
  /\ UNCHANGED <<taskVars, state, snapshot, shutdown, client, handle,
                 request, result, report, carried, stop, mixer>>

\* map_err(|_| self.unavailable_error()) after the send or the response failed.
ReportUnavailable(c) ==
  /\ phase[c] = "unavailable"
  /\ phase' = [phase EXCEPT ![c] = "done"]
  /\ result' = [result EXCEPT ![c] = unavailable_error]
  /\ UNCHANGED <<taskVars, sharedVars, request, report, carried, stop, mixer>>

\* The caller drops the future; a command already sent stays in the channel.
DropCall(c) ==
  /\ phase[c] \in {"waiting", "admitted", "queued"}
  /\ phase' = [phase EXCEPT ![c] = "dropped"]
  /\ UNCHANGED <<taskVars, sharedVars, request, result, report, carried, stop, mixer>>

\* shutdown(): raise the flag.
SignalShutdown(s) ==
  /\ client = "held" /\ stop[s] = "idle"
  /\ stop' = [stop EXCEPT ![s] = "signalled"]
  /\ shutdown' = TRUE
  /\ UNCHANGED <<taskVars, state, snapshot, commands, client, handle, callVars, mixer>>

\* The guard is dropped before the join.
MutantTaskUnlocked(s) == TRUE

\* Inner::task is not locked by another caller.
TaskUnlocked(s) == \A t \in Stoppers \ {s} : stop[t] # "joining"

\* shutdown(): lock Inner::task and take the handle.  The guard lives as long
\* as the join, so a second caller waits at the lock.
TakeHandle(s) ==
  /\ stop[s] = "signalled"
  /\ TaskUnlocked(s)
  /\ \/ handle = "present" /\ stop' = [stop EXCEPT ![s] = "joining"]
     \/ handle = "taken" /\ stop' = [stop EXCEPT ![s] = "returned"]
  /\ handle' = "taken"
  /\ UNCHANGED <<taskVars, state, snapshot, commands, shutdown, client, callVars, mixer>>

\* shutdown(): task.await completes.
JoinTask(s) ==
  /\ stop[s] = "joining" /\ pc \in Finished
  /\ stop' = [stop EXCEPT ![s] = "returned"]
  /\ UNCHANGED <<taskVars, sharedVars, callVars, mixer>>

\* The caller of shutdown() drops the future (for example at a timeout).  While it
\* joins, the guard is released and the handle it took is gone.
AbortShutdown(s) ==
  /\ stop[s] \in {"signalled", "joining"}
  /\ stop' = [stop EXCEPT ![s] = IF @ = "joining" THEN "detached" ELSE "dropped"]
  /\ UNCHANGED <<taskVars, sharedVars, callVars, mixer>>

\* A call in one of these phases borrows the client.
Borrowing == {"waiting", "admitted", "queued", "unavailable"}

\* The last clone of the client is dropped, and with it every sender.
DropClient ==
  /\ client = "held"
  /\ \A c \in Calls : phase[c] \notin Borrowing
  /\ \A s \in Stoppers : stop[s] \notin {"signalled", "joining"}
  /\ client' = "dropped"
  /\ UNCHANGED <<taskVars, state, snapshot, commands, shutdown, handle, callVars,
                 stop, mixer>>

------------------------------------------------------------------------------
(* The task: connecting.                                                   *)

\* The head of the loop of run(): stop, or announce the next attempt.
LoopHead ==
  /\ pc = "top"
  /\ \/ /\ shutdown
        /\ pc' = "exiting" /\ state' = "Shutdown"
     \/ /\ ~shutdown
        /\ pc' = "connecting"
        /\ state' = IF attempt = 0 THEN "Connecting" ELSE "Reconnecting"
  /\ UNCHANGED <<attempt, writable, serving, statuses, snapshot, commands,
                 shutdown, client, handle, callVars, stop, mixer>>

\* discover(), the WebSocket handshake or getApplicationInfo fails.
ConnectFails ==
  /\ pc = "connecting"
  /\ pc' = "backoff"
  /\ UNCHANGED <<attempt, writable, serving, statuses, sharedVars, callVars, stop, mixer>>

\* A client for the new connection; the peer's revision decides about writes.
ConnectSucceeds ==
  /\ pc = "connecting"
  /\ pc' = "syncing" /\ state' = "Synchronizing"
  /\ writable' \in BOOLEAN
  /\ snapshot' = IF snapshot = None THEN None ELSE [snapshot EXCEPT !.fresh = FALSE]
  /\ carried' = [c \in Calls |-> \/ phase[c] = "admitted"
                                 \/ \E i \in DOMAIN commands : commands[i] = c]
  /\ UNCHANGED <<attempt, serving, statuses, commands, shutdown, client, handle,
                 phase, request, result, report, stop, mixer>>

MutantNextAttempt == attempt + 1   \* no saturation

\* attempt.saturating_add(1)
NextAttempt == IF attempt < MaxAttempt THEN attempt + 1 ELSE attempt

\* wait_or_shutdown: the deadline passes.
BackoffElapses ==
  /\ pc = "backoff"
  /\ pc' = "top"
  /\ attempt' = NextAttempt
  /\ UNCHANGED <<writable, serving, statuses, sharedVars, callVars, stop, mixer>>

\* wait_or_shutdown: the flag is up, or every sender of it is gone.
BackoffShutdown ==
  /\ pc = "backoff"
  /\ shutdown \/ client = "dropped"
  /\ pc' = "exiting" /\ state' = "Shutdown"
  /\ UNCHANGED <<attempt, writable, serving, statuses, snapshot, commands, shutdown,
                 client, handle, callVars, stop, mixer>>

\* The oneshot reply; nobody reads it when the caller has dropped its future.
Reply(c, r, rep) ==
  /\ phase' = [phase EXCEPT ![c] = IF @ = "queued" THEN "done" ELSE @]
  /\ result' = [result EXCEPT ![c] = IF phase[c] = "queued" THEN r ELSE @]
  /\ report' = [report EXCEPT ![c] = IF phase[c] = "queued" THEN rep ELSE @]

\* The answer is sent and the command is left in the channel.
MutantReject ==
  /\ pc = "backoff"
  /\ commands # <<>>
  /\ Reply(Head(commands), "NotReady", <<>>)
  /\ UNCHANGED <<taskVars, state, snapshot, commands, shutdown, client, handle,
                 request, carried, stop, mixer>>

\* wait_or_shutdown: a command that arrives without a connection is rejected.
reject_command ==
  /\ pc = "backoff"
  /\ commands # <<>>
  /\ commands' = Tail(commands)
  /\ Reply(Head(commands), "NotReady", <<>>)
  /\ UNCHANGED <<taskVars, state, snapshot, shutdown, client, handle, request,
                 carried, stop, mixer>>

------------------------------------------------------------------------------
(* The task: snapshots and notifications.                                  *)

\* The watch is filled once and never refreshed.
MutantPublish ==
  snapshot' = IF snapshot = None THEN [shows |-> Len(mixer), fresh |-> TRUE]
              ELSE [snapshot EXCEPT !.fresh = TRUE]

\* client.snapshot() read it all: the snapshot watch shows the mixer as it is.
Publish == snapshot' = [shows |-> Len(mixer), fresh |-> TRUE]

\* publish_snapshot, after a connect or a notification; the state follows.
SnapshotArrives ==
  /\ pc \in {"syncing", "notified"}
  /\ pc' = "published"
  /\ Publish
  /\ UNCHANGED <<attempt, writable, serving, statuses, state, commands, shutdown,
                 client, handle, callVars, stop, mixer>>

\* The transition to ready_state.
BecomeReady ==
  /\ pc = "published"
  /\ pc' = "select"
  /\ state' = IF writable THEN "Ready" ELSE "ReadOnlyUnknownRevision"
  /\ attempt' = 0
  /\ UNCHANGED <<writable, serving, statuses, snapshot, commands, shutdown, client,
                 handle, callVars, stop, mixer>>

\* A failed first snapshot is ignored.
MutantFirstSnapshotFails ==
  /\ pc = "syncing"
  /\ pc' = "published"
  /\ UNCHANGED <<attempt, writable, serving, statuses, sharedVars, callVars, stop, mixer>>

\* The first snapshot of a session fails: close() and no backoff.
FirstSnapshotFails ==
  /\ pc = "syncing"
  /\ pc' = "retrying"
  /\ UNCHANGED <<attempt, writable, serving, statuses, sharedVars, callVars, stop, mixer>>

RetryAtOnce ==
  /\ pc = "retrying"
  /\ pc' = "top"
  /\ UNCHANGED <<attempt, writable, serving, statuses, sharedVars, callVars, stop, mixer>>

\* A notification arrives while the task is idle.
SelectNotification ==
  /\ pc = "select"
  /\ pc' = "notified" /\ state' = "Synchronizing"
  /\ UNCHANGED <<attempt, writable, serving, statuses, snapshot, commands, shutdown,
                 client, handle, callVars, stop, mixer>>

\* wait_for_notification fails, or the snapshot it asked for does.
LoseConnection ==
  /\ pc \in {"select", "notified"}
  /\ pc' = "lost"
  /\ UNCHANGED <<attempt, writable, serving, statuses, sharedVars, callVars, stop, mixer>>

\* After the break: drop the client, announce the reconnection.
Reconnect ==
  /\ pc = "lost"
  /\ pc' = "top" /\ state' = "Reconnecting"
  /\ UNCHANGED <<attempt, writable, serving, statuses, snapshot, commands, shutdown,
                 client, handle, callVars, stop, mixer>>

------------------------------------------------------------------------------
(* The task: commands.                                                     *)

\* commands.recv() and the start of handle_command.
SelectCommand ==
  /\ pc = "select"
  /\ commands # <<>>
  /\ serving' = Head(commands) /\ commands' = Tail(commands)
  /\ pc' = IF request[Head(commands)].size > 0 THEN "mutating" ELSE "resync"
  /\ UNCHANGED <<attempt, writable, statuses, state, snapshot, shutdown, client, handle,
                 callVars, stop, mixer>>

\* Whether the reply to this command waits for a snapshot.
Resnapshots == request[serving].kind # "Apply" \/ request[serving].resnapshot

MutantWritesAllowed == TRUE   \* only the API checks, from the state

\* The write gate of call_with_params, closed for a peer of an unknown revision.
WritesAllowed == writable

\* The next operation succeeds.
MutationSucceeds ==
  /\ pc = "mutating"
  /\ WritesAllowed
  /\ mixer' = Append(mixer, [call |-> serving, op |-> Len(statuses) + 1])
  /\ \/ /\ Resnapshots
        /\ statuses' = Append(statuses, "Succeeded")
        /\ pc' = IF Len(statuses) + 1 < request[serving].size
                 THEN "mutating" ELSE "resync"
        /\ UNCHANGED <<serving, commands, phase, result, report>>
     \/ /\ ~Resnapshots   \* snapshot.borrow().clone().expect("ready snapshot")
        /\ serving' = None /\ statuses' = <<>>
        /\ IF snapshot = None
           THEN pc' = "panicked" /\ Abandon /\ UNCHANGED <<result, report>>
           ELSE pc' = "select" /\ Reply(serving, "Ok", <<>>) /\ UNCHANGED commands
  /\ UNCHANGED <<attempt, writable, state, snapshot, shutdown, client, handle,
                 request, carried, stop>>

MutantFailNext ==   \* the last success is reported as the failure
  [i \in 1..request[serving].size |->
     IF i < Len(statuses) THEN statuses[i]
     ELSE IF i = Len(statuses) THEN "Failed" ELSE "NotAttempted"]

\* The statuses once the next operation failed: nothing after it is attempted.
FailNext ==
  [i \in 1..request[serving].size |->
     IF i <= Len(statuses) THEN statuses[i]
     ELSE IF i = Len(statuses) + 1 THEN "Failed" ELSE "NotAttempted"]

\* A write whose outcome is unknown is sent again.
MutantMutationFails ==
  /\ pc = "mutating"
  /\ \/ UNCHANGED mixer
     \/ WritesAllowed /\ mixer' = Append(mixer, [call |-> serving, op |-> Len(statuses) + 1])
  /\ UNCHANGED <<taskVars, sharedVars, callVars, stop>>

\* The next operation fails: locked by the revision, refused by the peer, timed
\* out, or cut off.  Unless it was locked, the mixer may have applied it.
MutationFails ==
  /\ pc = "mutating"
  /\ \/ UNCHANGED mixer
     \/ WritesAllowed /\ mixer' = Append(mixer, [call |-> serving, op |-> Len(statuses) + 1])
  /\ statuses' = FailNext
  /\ pc' = "resync"
  /\ UNCHANGED <<attempt, writable, serving, sharedVars, callVars, stop>>

\* The error of the mutation that failed.
mutation_error == IF WritesAllowed THEN "RpcFailed" ELSE "UnsupportedRevision"
MutationFailed ==
  /\ request[serving].kind = "Apply"
  /\ "Failed" \in {statuses[i] : i \in DOMAIN statuses}

\* resnapshot_client succeeds: publish, then reply and stay connected.
ResyncSucceeds ==
  /\ pc = "resync"
  /\ Publish
  /\ Reply(serving, IF MutationFailed THEN mutation_error ELSE "Ok", statuses)
  /\ pc' = "select" /\ serving' = None /\ statuses' = <<>>
  /\ UNCHANGED <<attempt, writable, state, commands, shutdown, client, handle, request,
                 carried, stop, mixer>>

\* resnapshot_client fails: reply and give the connection up.
ResyncFails ==
  /\ pc = "resync"
  /\ Reply(serving, IF MutationFailed THEN mutation_error ELSE "RpcFailed", <<>>)
  /\ pc' = "lost" /\ serving' = None /\ statuses' = <<>>
  /\ UNCHANGED <<attempt, writable, sharedVars, request, carried, stop, mixer>>

------------------------------------------------------------------------------
(* The task: stopping.                                                     *)

\* Shutdown cuts the command in service off.
MutantSelectShutdown ==
  /\ pc \in {"select", "mutating", "resync"}
  /\ shutdown \/ client = "dropped"
  /\ pc' = "closing"
  /\ UNCHANGED <<attempt, writable, serving, statuses, sharedVars, callVars, stop, mixer>>

\* shutdown() itself is not noticed, only the end of every client.
MutantSelectDropped ==
  /\ pc = "select"
  /\ shutdown /\ client = "dropped"
  /\ pc' = "closing"
  /\ UNCHANGED <<attempt, writable, serving, statuses, sharedVars, callVars, stop, mixer>>

\* shutdown.changed() in the session: close() the transport first.
SelectShutdown ==
  /\ pc = "select"
  /\ shutdown \/ client = "dropped"
  /\ pc' = "closing"
  /\ UNCHANGED <<attempt, writable, serving, statuses, sharedVars, callVars, stop, mixer>>

\* The session ends without announcing the state.
MutantAnnounceShutdown ==
  /\ pc = "closing"
  /\ pc' = "exiting"
  /\ UNCHANGED <<attempt, writable, serving, statuses, sharedVars, callVars, stop, mixer>>

AnnounceShutdown ==
  /\ pc = "closing"
  /\ pc' = "exiting" /\ state' = "Shutdown"
  /\ UNCHANGED <<attempt, writable, serving, statuses, snapshot, commands, shutdown,
                 client, handle, callVars, stop, mixer>>

\* The receiver outlives run().
MutantExit ==
  /\ pc = "exiting"
  /\ pc' = "done"
  /\ UNCHANGED <<attempt, writable, serving, statuses, sharedVars, callVars, stop, mixer>>

\* run() returns.
Exit ==
  /\ pc = "exiting"
  /\ pc' = "done"
  /\ Abandon
  /\ UNCHANGED <<attempt, writable, serving, statuses, state, snapshot, shutdown, client,
                 handle, request, result, report, carried, stop, mixer>>

\* commands.recv() is None: every sender is gone.  Closes, and returns silently.
ExitWithoutClient ==
  /\ pc = "select"
  /\ client = "dropped" /\ commands = <<>>
  /\ pc' = "done"
  /\ UNCHANGED <<attempt, writable, serving, statuses, sharedVars, callVars, stop, mixer>>

------------------------------------------------------------------------------
Connecting == LoopHead \/ ConnectFails \/ ConnectSucceeds \/ BackoffElapses
              \/ BackoffShutdown \/ reject_command
Synchronizing == SnapshotArrives \/ BecomeReady \/ FirstSnapshotFails \/ RetryAtOnce
                 \/ SelectNotification \/ LoseConnection \/ Reconnect
Serving == SelectCommand \/ MutationSucceeds \/ MutationFails
           \/ ResyncSucceeds \/ ResyncFails
Stopping == SelectShutdown \/ AnnounceShutdown \/ Exit \/ ExitWithoutClient

Task == Connecting \/ Synchronizing \/ Serving \/ Stopping

CallStep(c) ==
  \/ \E r \in Requests : IssueWrite(c, r) \/ IssueRefresh(c, r) \/ IssueReady(c, r)
  \/ ReadyReturns(c) \/ SendCommand(c) \/ ReportUnavailable(c) \/ DropCall(c)

StopStep(s) == SignalShutdown(s) \/ TakeHandle(s) \/ JoinTask(s) \/ AbortShutdown(s)

\* Nothing is left to do: the task has ended and every caller has its answer.
Ended ==
  /\ pc \in Finished
  /\ \A c \in Calls : \/ phase[c] \in {"done", "dropped"}
                      \/ phase[c] = "idle" /\ client = "dropped"
  /\ \A s \in Stoppers : \/ stop[s] \in {"returned", "dropped", "detached"}
                         \/ stop[s] = "idle" /\ client = "dropped"
  /\ UNCHANGED vars

Next ==
  \/ Task
  \/ \E c \in Calls : CallStep(c)
  \/ \E s \in Stoppers : StopStep(s)
  \/ DropClient
  \/ Ended

Spec == Init /\ [][Next]_vars

(***************************************************************************)
(* Fairness.  The executor polls the task and every caller that can make   *)
(* progress.  select! polls its branches in a random order, so a branch    *)
(* that is ready again and again is not passed over for ever.  A call is   *)
(* made once, so a caller that waits for room finds it stays there in the  *)
(* end and needs no fairness of the channel.  WF_vars(Task) also assumes   *)
(* that a connection attempt comes to an end: no timeout in the code says  *)
(* so, and StalledSpec drops that assumption.                              *)
(***************************************************************************)
Polled ==
  /\ SF_vars(SelectShutdown) /\ SF_vars(SelectCommand)
  /\ \A c \in Calls : /\ WF_vars(SendCommand(c))
                      /\ WF_vars(ReportUnavailable(c)) /\ WF_vars(ReadyReturns(c))
  /\ \A s \in Stoppers : WF_vars(TakeHandle(s)) /\ WF_vars(JoinTask(s))

\* A backoff long enough to reject what is in the channel, every time.
FairSpec == Spec /\ WF_vars(Task) /\ Polled /\ SF_vars(reject_command)

\* A peer that accepts connections and answers snapshots again some day.
PeerRecovers == SF_vars(ConnectSucceeds) /\ SF_vars(SnapshotArrives)

RecoveringFairness == WF_vars(Task) /\ Polled /\ PeerRecovers

RecoveringSpec == Spec /\ RecoveringFairness

\* Every step of the task but the end of a connection attempt is taken.
StalledSpec ==
  /\ Spec /\ Polled
  /\ WF_vars(Task /\ pc # "connecting")

------------------------------------------------------------------------------
(* What the lifecycle promises.                                            *)

\* The lifecycle reports Ready only over a snapshot read through the current
\* connection, and names the right mode: never Ready with the data of an
\* earlier session, never writable for an unknown revision.
ReadyIsFresh ==
  state \in Connected =>
    /\ snapshot # None /\ snapshot.fresh
    /\ state = "Ready" <=> writable

\* The API checks the state when a write is issued, the transport the revision when it
\* is served, perhaps on a later connection.  Whatever was admitted before, the mixer
\* changes only while Ready is announced; and a write that was admitted is refused for
\* its revision only by a connection opened after that.
GatesAgree ==
  [][/\ mixer' # mixer => state = "Ready"
     /\ \A c \in Calls :
          phase[c] = "queued" /\ result[c] # result'[c] /\ result'[c] = "UnsupportedRevision"
            => carried[c]]_vars

\* No operation is applied twice, and those of one call are applied in order,
\* across lost connections, failed writes and callers that go away.
AppliedAtMostOnce ==
  \A i, j \in DOMAIN mixer :
    i < j /\ mixer[i].call = mixer[j].call => mixer[i].op < mixer[j].op

\* A write that is answered by a refusal (not ready, shut down, revision locked)
\* has not touched the mixer and will not: only an RPC error is ambiguous.
RefusedWritesNothing ==
  \A c \in Calls :
    result[c] \in {"NotReady", "Shutdown", "UnsupportedRevision"} =>
      \A i \in DOMAIN mixer : mixer[i].call # c

\* Commands that reply before a snapshot is taken: the steps of a fade.
Quiet(c) == request[c].kind = "Apply" /\ ~request[c].resnapshot

Visible(i) == snapshot # None /\ i <= snapshot.shows

\* When apply or apply_batch has returned success, and whenever the task is idle
\* in a session again after a failure, snapshot() shows what the call did.
WritesAreVisible ==
  \A i \in DOMAIN mixer :
    LET c == mixer[i].call
    IN ~Quiet(c) /\ (pc = "select" \/ result[c] = "Ok") => Visible(i)

\* The BatchResult tells the truth: what it calls Succeeded was applied, what it
\* calls NotAttempted was not, and at most one operation between them Failed.
BatchReportIsTrue ==
  \A c \in Calls :
    result[c] = "Ok" /\ request[c].kind = "Batch" =>
      /\ Len(report[c]) = request[c].size
      /\ \A i \in DOMAIN report[c] :
           LET applied == [call |-> c, op |-> i] \in {mixer[k] : k \in DOMAIN mixer}
           IN /\ report[c][i] = "Succeeded" =>
                   applied /\ \A j \in 1..(i - 1) : report[c][j] = "Succeeded"
              /\ report[c][i] = "NotAttempted" =>
                   ~applied /\ \E j \in 1..(i - 1) : report[c][j] = "Failed"
              /\ report[c][i] = "Failed" =>
                   \A j \in 1..(i - 1) : report[c][j] = "Succeeded"

\* A write loses its reply without an answer only when the client shuts down,
\* and then unavailable_error, read later, does say Shutdown.
AbandonedMeansShutdown ==
  \A c \in Calls :
    phase[c] = "unavailable" /\ request[c].kind # "Refresh" => state = "Shutdown"

\* The snapshot a step of a fade expects to find is there: the task never panics.
NoPanic == pc # "panicked"

\* shutdown() returns only when the task has ended, for the caller that joins it
\* and for one that finds the handle taken; and the state then says so.  The one
\* way around it is a caller that gave up while it was joining.
ShutdownJoins ==
  \A s \in Stoppers :
    stop[s] = "returned" =>
      \/ pc = "done" /\ state = "Shutdown"
      \/ \E t \in Stoppers : stop[t] = "detached"

\* Every call that got past its first check is answered, if only the peer
\* recovers: no reply is lost to a reconnection or a shutdown.
CallsAreAnswered ==
  \A c \in Calls : phase[c] \in Borrowing ~> phase[c] \in {"done", "dropped"}

\* The same of the commands alone, in the channel or in service.
CommandsAreAnswered ==
  \A c \in Calls : phase[c] = "queued" ~> phase[c] # "queued"

\* shutdown() comes back, unless its caller drops it; and the task ends in any case,
\* also when everybody who waited for it has given up.
ShutdownCompletes ==
  /\ \A s \in Stoppers :
       stop[s] = "signalled" ~> stop[s] \in {"returned", "dropped", "detached"}
  /\ shutdown ~> pc = "done"

------------------------------------------------------------------------------
(* The promise of the command API (Commands.tla).                          *)

IsCommand(c) == request[c].kind # "AwaitReady"   \* ready() only looks at the watch
InChannel(c) == \E i \in DOMAIN commands : commands[i] = c

\* A call is open from its gate until it is taken from the channel, also when its
\* caller has gone; an answer names what its caller may conclude.
placeOf(c) ==
  IF phase[c] = "idle" \/ ~IsCommand(c) THEN "unmade"
  ELSE CASE c = serving -> "served"
         [] c # serving /\ (InChannel(c) \/ phase[c] \in {"admitted", "queued", "unavailable"})
              -> "open"
         [] OTHER -> "over"

answerOf(c) ==
  IF result[c] = "none" \/ ~IsCommand(c) THEN "none"
  ELSE CASE result[c] = "Ok" -> IF \A i \in DOMAIN report[c] : report[c][i] = "Succeeded"
                                THEN "done" ELSE "partial"
         [] result[c] = "RpcFailed" -> "failed"
         [] OTHER -> "refused"

Promise == INSTANCE Commands WITH
  size   <- [c \in Calls |-> request[c].size],
  place  <- [c \in Calls |-> placeOf(c)],
  answer <- [c \in Calls |-> answerOf(c)],
  log    <- mixer

\* The lifecycle keeps that promise through lost connections, failed writes and
\* snapshots, callers that go away and shutdowns: a command is served once or not
\* at all, one at a time, nothing reaches the mixer after the answer, and no answer
\* claims what the mixer does not have.
CommandsKept == Promise!Spec

------------------------------------------------------------------------------
(* What a fade sees of the task (Fades.tla).                               *)

\* Where the task is for a fade.  "closing" is the rest of a session; the loop head
\* is on the way back from a snapshot that failed as long as the state says so.
linkOf ==
  CASE pc \in {"select", "mutating", "resync", "closing"} -> "up"
    [] pc \in {"syncing", "notified", "published"} -> "syncing"
    [] pc \in {"lost", "retrying"} -> "lost"
    [] pc \in {"connecting", "backoff"} -> "down"
    [] pc = "top" -> IF state = "Synchronizing" THEN "lost" ELSE "down"
    [] pc = "done" -> IF state = "Shutdown" THEN "ended" ELSE "ending"
    [] OTHER -> "ending"

\* The state for a fade.  Only a task that ends because every client has gone ends
\* without a word, and then no fade is left to look.
stateOf ==
  CASE pc = "done" -> "Shutdown"
    [] pc # "done" /\ state \in {"Disconnected", "Connecting", "Reconnecting"} -> "Reconnecting"
    [] OTHER -> state

NoFade == [f \in {} |-> {}]

\* The lifecycle of Fades without any caller; the flag falls with the last client too.
Fading == INSTANCE Fades WITH
  Fades <- {}, Sets <- {}, Targets <- {}, MaxSteps <- 0, None <- "none",
  phase <- NoFade, target <- NoFade, pending <- NoFade, result <- NoFade,
  left <- NoFade, unseen <- NoFade, fades <- NoFade, cancelledBy <- NoFade,
  level <- NoFade, stale <- {}, last <- NoFade, disturbed <- NoFade, commands <- <<>>,
  link <- linkOf, state <- stateOf, shutdown <- shutdown \/ client = "dropped"

\* The connection and the state watch move only the way Fades lets them: each state
\* follows the one a fade may have seen before, Ready only for a peer that may be
\* written to, Shutdown only after the flag, and the channel goes last.
FadesFit == Fading!Spec

(* What the documentation says beyond that; the code does otherwise.       *)

\* README: "Disconnected operations are never queued for replay".  No command is
\* served over a connection opened after the command was admitted.
NeverReplayed == serving # None => ~carried[serving]

==============================================================================
