# wave-link-rpc in TLA+

`wave-link-rpc` is an asynchronous Rust client for the JSON-RPC interface of a
mixer, Elgato Wave Link, on a loopback WebSocket.  Its core is
`SynchronizedClient` (`src/src/lifecycle.rs`): one task owns the connection,
keeps a snapshot of the mixer up to date, serves the commands of any number of
callers, and reconnects.  This directory holds the specifications of that core,
their model-checking configurations and machine-checked proofs.

## The system and its parts

| Part | Source | State it keeps | Operations | Hard behaviour | Modelled in |
|---|---|---|---|---|---|
| Lifecycle task | `lifecycle.rs` `run`, `handle_command`, `wait_or_shutdown` | control point, attempt counter, the client of the current connection | connect, first snapshot, select over shutdown / commands / notifications, backoff, exit | failure at every await, unbiased `select!`, commands left over from an earlier connection | `Lifecycle` |
| Public API | `lifecycle.rs` `apply`, `apply_batch`, `refresh`, `ready`, `shutdown` | the state and snapshot watches, the command channel (32), the shutdown watch, the `JoinHandle` | issue a command, await its reply, drop the future, drop the last clone | the state read before a command is sent is old when it is served; replies lost at shutdown; two callers of `shutdown()` | `Lifecycle` |
| Fades | `lifecycle.rs` `fade`, `cancel_fades`, `cancel_operation_fade` | a registry per target, a cancel watch per fade | register and replace, step, endpoint, cancel, clean up | run in their callers' tasks; cancelled at any await, noticed only between steps; cleanup against replacement | `Fades` |
| Transport | `transport.rs` | the socket, `next_id`, the revision gate | handshake, request/reply by id with a timeout, wait for a notification, close | late replies after a timeout, notifications among replies, snapshots made of four requests | `Transport` |
| Mutations | `mutation.rs` | none | one operation, an ordered batch, a simple fade on one connection | a batch that stops in the middle, with unknown effect | `Lifecycle` (batches), `LiveValidation` (the fade) |
| Events | `lifecycle.rs` `Subscription` | a broadcast channel (32) | receive, lag, resynchronize | lagging subscribers, order against the watches, two ways to end | `Events` |
| Timing | `lifecycle.rs` `backoff`, `fade`; `mutation.rs` `fade_channel_volume` | the attempt counter, the deadline of a fade | delay of an attempt, next deadline, level of a moment | saturation, cap, jitter, missed deadlines | `Backoff`, `FadeClock` |
| Discovery | `discovery.rs` | none; reads `ws-info.json` | read before each attempt | a file that is late, half written or of an earlier start | `Discovery` |
| Live validation | `bin/wave_link_live.rs` | the levels to restore | bounded writes and their restoration | a failure before or after any effect, levels at the ends of their range | `LiveValidation` |
| Decoding, ids, values, capabilities, errors | the other files | none, or immutable data | parse, check, report | none of their own: a failure is a failed connection or request | by their outcomes |

How they interact: callers read the *state* and *snapshot* watches directly, on
any thread, and send commands through a bounded FIFO channel, each with a
oneshot reply.  The task is the only writer of the watches and the only user of
the transport.  A fade is a caller that sends many commands and also listens to
the state watch and to its own cancel watch.  Subscribers receive what the task
sends after each store into a watch.  The live validation is one more caller.  The
task learns of a shutdown from
the shutdown watch or from the drop of every sender, but only where it selects.

What makes the parts correct, in short: no command is applied twice, reported
refused after it was applied, or left without an answer; `Ready` is never
announced over old data or for an unknown revision; what a call reports is what
the mixer did and what the snapshot shows; `shutdown()` returns after the task
and not before; of the fades on a target one at most is current and it can
always be cancelled; no reply is taken for another; a subscriber, however slow, ends
up with what the watches hold; updates and attempts keep their pace; the live
validation never moves a level by more than 0.02 and reports success only over a
restored mixer.

## Modules

### `Lifecycle`

The task and its callers.  One action is the code between two points where
another task or thread can interleave: an await, or a store that another thread
reads.  So `SnapshotArrives` (the snapshot watch is filled) and `BecomeReady`
(the state follows) are two actions, and `handle_command` is `SelectCommand`,
one `MutationSucceeds` or `MutationFails` per operation, and `ResyncSucceeds` or
`ResyncFails`.

| Model | Code |
|---|---|
| `pc` | where `run()` is: `top` 517, `connecting` 530, `backoff` 536, `syncing` 543, `published` 544, `retrying` 553, `select` 558, `mutating`/`resync` in `handle_command`, `notified` 581, `lost` 595, `closing` 561, `exiting` 564/600, `done`, and `panicked` for the `expect` of 615, which takes the reply and the channel with it (`Abandon`, as `Exit` does) |
| `state`, `snapshot`, `commands`, `shutdown`, `handle` | the watches, the channel and `Inner::task` |
| `client` | whether any clone of `SynchronizedClient` is held |
| `phase[c]` | a call: `admitted` past its gate and sending, `queued` waiting for the reply, `unavailable` about to read the state for its error |
| `stop[s]` | a caller of `shutdown()`: `joining` holds the lock of `Inner::task` (an `if let` keeps the guard of its scrutinee through the body), `detached` gave up while it joined |
| `mixer` | history: the operations that reached the mixer |
| `carried[c]` | history: the current connection was opened after the call was admitted |

A snapshot is abstracted to how many of the mixer's operations it shows and
whether it comes from the current connection.  A failed operation may or may not
have reached the mixer.  That a snapshot read after it shows it is what
`Transport` establishes (`NoWriteOutstanding`).

### `Commands`

What the API promises, without task, channel or connection: a call is made and may
be refused at once; it is refused, given up or served, once and for ever, one at a
time; its operations reach the mixer in order, each at most once, only while it is
served; its answer is truthful about the mixer.  `Lifecycle` implements it
(`CommandsKept == Promise!Spec`) under the mapping at its end: a call is *open* from
its gate until the task takes it from the channel, also when its caller has gone,
and *served* in `handle_command`.

### `Fades`

The fades in detail, with direct sets on the same targets, over what a fade sees
of the lifecycle: a FIFO of commands served one at a time, the state watch of
which only the latest value is seen (`unseen` says that there is something to
see), and publications of snapshots (`stale` is the set of targets written since
the last one).  The lifecycle starts before its first connection, announces every
attempt, opens writable and read-only sessions, and announces Shutdown some time before
it drops the channel; `Reconnecting` stands for `Disconnected` and `Connecting` too, as no
caller tells the three apart.  `Lifecycle` does nothing else: `FadesFit == Fading!Spec`
maps it to the lifecycle of `Fades` without callers (`linkOf`, `stateOf`, the write gate
and the flag).  A fade is `gate` (it reads the state), `sending`, `queued`,
`waiting` (its `select!`), and `leaving` until it has cleaned up the registry.
Time is a countdown: at each tick either another step is due or the duration has
passed, and ticks may be missed.  Who wrote last is modelled here; which level, and
at what time, is in `FadeClock` and `LiveValidation`.

### `Transport`

One WebSocket as two FIFOs, and the requests of the task on it: the handshake,
writes, and snapshots of `Parts` reads (four in the code).  The mixer is a version
number per collection.  A write that failed or timed out leaves the connection in
use and a snapshot follows at once, so the late reply is among those of the
snapshot.  The id space is finite, as `checked_add` makes it.

External, modelled from how the code uses it: Wave Link handles the requests of
one connection in order, refuses any of them, notifies of every change, may be as
slow as it likes, may send text that is no JSON, and drops what it has not handled
when its connection is replaced.

### `Events`

The task by what it publishes, and the subscribers.  `outbox` is the event that
follows a store in a watch: the task does nothing else before `Send`, but
subscribers and clients may run between the two.  `ring` is tokio's channel, the
last `EventCapacity` events; a subscriber is a number of unread events, and one
more than the capacity means that it lagged.  `seen` is what a subscriber knows from
events alone.  `recv` is `ReceiveEvent`, `ReceiveLagged` and then `Resynchronize`
(the read of the snapshot watch is a step of its own), or `ReceiveClosed`.

### `Backoff`, `FadeClock`, `Discovery` and `LiveValidation`

`Backoff` is the arithmetic of `backoff()` on machine words.  `FadeClock` is the
clock of a fade: *grid* is `SynchronizedClient::fade`, whose deadlines are multiples
of a step from the start and skip those that have passed; *relative* is
`WaveLinkClient::fade_channel_volume`, whose next deadline is a step after the time
read for the last update.  Timers and writes may be late, by `MaxLate` together.
`level` is the formula of both, in integers.  `Discovery` is the file with the port,
written by Wave Link late and in pieces, and the client that reads it.

`LiveValidation` puts them together as programs: the live validation in its modes
*read* and *bounded-write* (and *other*, which is refused), from the launch over
discovery, attempts and backoffs to `ready()`, then the six steps of `Script`, each
with a failure of every call before or after its effect; and *fade*, a caller of
`WaveLinkClient::fade_channel_volume`.

| Model | Code |
|---|---|
| `pc` `connecting`, `dialing`, `syncing`, `backoff` | the attempts of the client behind `ready()`, lifecycle.rs 530-555 |
| `moving`, `undoing`, `restoring`, `refreshing` | `mutate_and_restore` 179, 180, 183, 184; `restoring` also 108 and 162 |
| `fading` | inside a fade; `phase` of `FadeClock` says where |
| `original`, `value` | the captured mixer and the mixer |
| `unrestored` | history: a restoration has failed |

## Runs

Every model-checking module (`MC...`) only gives values to constants; each
configuration is one question.  A channel of one slot stands for the 32 of the
code: it is full, and a sender waits, as soon as there are two callers.

| Run | Instance | What it shows |
|---|---|---|
| `lifecycle_safety` | two calls of five kinds (a write, a fade step, a batch of two, `refresh`, `ready`), two callers of `shutdown()`, one slot; 4.3 million states | `TypeOK`, `ReadyIsFresh`, `AppliedAtMostOnce`, `RefusedWritesNothing`, `WritesAreVisible`, `BatchReportIsTrue`, `AbandonedMeansShutdown`, `NoPanic`, `ShutdownJoins`, `GatesAgree`, `CommandsKept` (the refinement of `Commands`), `FadesFit` |
| `lifecycle_liveness` | two writers, one slot and one caller of `shutdown()`, or one write, `refresh` or `ready` and two callers of `shutdown()` (`FewCallers`); 252 thousand states | `CallsAreAnswered`, also for the one that waits for the slot, `ShutdownCompletes`: every caller comes back, and the task ends even when all who joined it gave up |
| `lifecycle_replay` | two writes | `NeverReplayed` fails, see below |
| `lifecycle_stalled` | `shutdown()` against a connection attempt that does not end | `ShutdownCompletes` fails, see below |
| `lifecycle_unanswered` | two `refresh()` against a peer that fails every first snapshot | `CommandsAreAnswered` fails, see below |
| `fades_safety` | two fades of up to two ticks and a direct set on one target; 6.2 million states | `TypeOK`, `RunningIsRegistered`, `EndpointIsLast`, `FailsForCause`, `OnlyStepsAreUnseen`, `NoWriteAfterReturn` |
| `fades_liveness` | one fade of up to two ticks, one set of the same target; 48 thousand states | `FadesEnd` |
| `fades_overtaken` | one fade, one set | `DirectSetStands` fails, see below |
| `transport_safety` | snapshots of two reads, thirteen ids, four messages under way, two changes per collection; 1.0 million states | `TypeOK`, `InFlightIdsDistinct`, `SnapshotIsCurrent`, `NoWriteOutstanding` |
| `events` | one subscriber, a ring of three events, two snapshots, any number of state changes; 442 thousand states | `TypeOK`, `NeverAhead`, `CaughtUp`, `ReadyAfterSnapshot`, `FirstIsSnapshot`, `ShutdownIsLast`, `KeepsUp`, `EndIsSeen` |
| `live` | a fade of four to five steps of 3 ticks, lateness up to 7, a counter of 64 values, Wave Link on two ports, 18 mixers with levels at and beyond the ends; 902 thousand states | `TypeOK`, `WithinReach`, `ExitIsTrue`, `RateCapped`, `BackoffInRange`, `FadesForward`, `Terminates` |
| `transport_stale` | the same as `transport_safety`, smaller | `SnapshotIsSynchronized` fails, see below |

Why the bounds are enough to be interesting: two calls give every order of
admission, service, rejection and loss between a command in service and one in
the channel; a batch of two has an operation before and one after the failure;
`MaxAttempt = 1` reaches saturation and both announcements of a connection
attempt; connections are unbounded in number.  Two ticks give a fade a step before
its endpoint; two fades and a set give a replacement of a replaced fade by a set
between its cancellation and its cleanup.  One target is enough where a set or a fade
of another one could only take a slot of the channel, which those of the same target
do too; the theorems are for any number of targets.  Two reads are the least with something
between them; thirteen ids cover a session with three writes that timed out, the
snapshots after them and the exhausted id space.  A ring of three holds a whole
reconnection's worth of events but not two, so a subscriber lags in every state of
the task; subscribers do not influence each other (a sent event is kept for all),
so one shows what many would see, except that the ring is empty when there is none.
A lateness of more than two steps makes a fade skip one and two deadlines and miss
its end; a counter of 64 passes its saturation and takes every jitter from 80 to 120
percent; two ports give a restart between reading the file and dialing.

`CHECK_DEADLOCK` is on everywhere.  `Lifecycle`, `Fades` and `Events` end in
states where every call has returned, or every subscription is over, and the task is
gone; `Ended` (`Exited` in `LiveValidation`) says exactly that and stutters, so any other state without a successor is an error.

### Fairness

`Polled` of `Lifecycle`: the executor polls every caller that can go on (weak
fairness of its steps; every call is made once, so a caller that waits for a slot
finds in the end that one stays free, and weak fairness of `SendCommand` is enough).  `select!` polls its branches in random order, so a branch that is ready
over and over is taken some day (strong fairness of `SelectShutdown` and
`SelectCommand`; in `FairSpec`, which assumes nothing of the peer, also of
`reject_command`).  `WF_vars(Task)` also says that a request ends, which `REQUEST_TIMEOUT` justifies
for the wait for a reply; that a *send*, and the close frame, end although no
timeout covers them; and that a connection attempt ends.  The last is an
assumption of its own: `StalledSpec` drops it.  `RecoveringSpec` adds that a peer
that is tried over and over accepts a connection and answers a snapshot some day;
the liveness properties hold under it, and `lifecycle_unanswered` shows one that
fails without it.  The same fairness appears in `Fades` (`FairSpec`), where
nothing is assumed of `SeeCancel`, `CancelFades` or a shutdown: a fade ends by its
own clock.

`FairSpec` of `Events`: the task goes on, and a subscriber calls `recv` in a loop,
at any pace.  `FairSpec` of `LiveValidation`: the program goes on, since its calls end
(`lifecycle_liveness`, `fades_liveness`) and its timers elapse; Wave Link is started
once and writes the file some day after its last start (weak fairness, external);
a client that dials the right port over and over is accepted and gets its first
snapshot (strong fairness of `Dial` and `Ready`, the recovering peer of
`RecoveringSpec`).  `ready()` has no timeout, so without them the validation would
wait for ever, which is what it is meant to do.

## Proofs

Every safety invariant and every action property of the passing runs is a theorem,
for every value of the constants; so are the refinement of `Commands` and
`FadesFit`.  The liveness
properties (`CallsAreAnswered`, `ShutdownCompletes`, `FadesEnd`, `KeepsUp`,
`EndIsSeen`, `Terminates`) are beyond the proof system and stay with TLC, and so do
the five violations below.  Each inductive invariant named here was checked by TLC
on the instance of its run before it was proved.

The assumptions on the constants are those of the modules, and TLC evaluates them:
`ConstantsAssumption` (an `apply` has one operation, `refresh` and `ready` none; the
capacity of the channel and the bound of the counter are positive),
`FadesAssumption` (fades and sets are different callers), `EventsAssumption`,
`TransportAssumption` (a positive number of reads in a snapshot, and an id to connect
with), `WordAssumption`, `ClockAssumption` and `LiveAssumption` (mutes are on or off,
a fade is no longer than its bound).

### `LifecycleProofs`: the task

For every set of calls and of callers of `shutdown()`, and every capacity:

| Theorem | Property |
|---|---|
| `TypeCorrect` | `TypeOK`; the channel stays within its capacity |
| `ReadyAlwaysFresh` | `ReadyIsFresh` |
| `NeverPanics` | `NoPanic` |
| `AbandonedOnlyByShutdown` | `AbandonedMeansShutdown` |
| `ShutdownAlwaysJoins` | `ShutdownJoins` |
| `LifecycleFitsFades` | `FadesFit` |

They rest on `Invariance`, `Spec => []IInv`.  None of these properties is
inductive: that `Ready` means fresh data depends on where the task is, and that a
caller of `shutdown()` may return when it finds the handle taken depends on who
took it.  `IInv` therefore adds to the properties

- `PointInv`: for every control point, which states may be announced there and
  whether the snapshot in the watch is of this connection;
- `ServingInv`: a command is in service exactly while it is mutated or
  resynchronized, so that `Reply` and the request of the command are defined, and
  while it is mutated there is a snapshot to answer it with;
- `ClientInv`: once the last clone is dropped no call is under way.  This is what
  excludes the silent exit of the task (568-570) for whoever waits for it;
- `HandleInv`: whoever took the handle is still joining or gave up, or the task
  has ended.

There is one lemma per conjunct, each with one step per action; frame lemmas say what
callers and task leave alone, and `TaskPhases` how the task touches the calls.

`LifecycleFitsFades` rests on `PointInv`, which says of every control point what a fade
reads there, and on `CloseInv` (who closes a session was told to).  Its steps:

| `Lifecycle` | `Fades` |
|---|---|
| `LoopHead` | `Reconnect` after a first snapshot that failed, `Retry` otherwise, `Stop` if the flag is up |
| `ConnectSucceeds` | `Connect` |
| `BecomeReady`, `SelectNotification` | `Synchronized`, `Notified` |
| `FirstSnapshotFails`, `LoseConnection`, `ResyncFails` | `LoseConnection` |
| `Reconnect` | `Reconnect` |
| `AnnounceShutdown`, `BackoffShutdown`, `ExitWithoutClient` | `Stop` |
| `Exit` | `Exit` |
| the first `SignalShutdown`, or `DropClient` before it | `SignalShutdown` |
| everything else | a stutter |

What is tied is the connection: link, state, write gate and flag.  The commands of
`Fades` are compared with `handle_command` by reading: one at a time, in the order
of the channel, only inside a session, rejected only in a backoff.

### `CallProofs`: the calls

| Theorem | Property |
|---|---|
| `AlwaysAppliedAtMostOnce` | `AppliedAtMostOnce` |
| `RefusedNeverWrites` | `RefusedWritesNothing` |
| `BatchReportAlwaysTrue` | `BatchReportIsTrue` |
| `WritesAlwaysVisible` | `WritesAreVisible` |
| `GatesAlwaysAgree` | `GatesAgree` |

The argument of `CallInvariance` is that a command is in one place at a time.
`ChannelInv`: it is in the channel once, or in service, or in neither, and a caller
that waits has its command in one of them.  `TouchedInv`: only a command in service,
or one whose call is over and that is not in the channel, has an operation on the
mixer; so what the task takes from the channel, on whichever connection, is untouched.
`ServedInv`: in the midst of a command all statuses are successes, and no operation
beyond them has reached the mixer, hence the next one is new.  `AnswerInv`: there is no
answer before the call is over.  From the first three a refused command, which is one
that left the channel without service, has written nothing.  `ReportInv` follows the
statuses from the first success over the failure, whose own effect is unknown, to the
rest that is marked as not attempted.  `VisibleInv` is `WritesAreVisible` at every
control point: what a snapshot does not show belongs to the command in service, to the
step of a fade, or to a call that failed and took the session with it, and then no
session is announced until a snapshot has come (`Adrift`).

`GatesAgree` is about the two gates of a write: `ensure_writable` reads the state when
the call is made, `call_with_params` the revision when it is served, and between the
two the caller may have waited for a slot over any number of connections.  The mixer
changes only while `Ready` is announced, and the second gate refuses what the first let
pass only on a connection opened in between.  It rests on `CarriedInv` (an admitted
write that no later connection has marked has a connection that may be written
through), which needs `PointInv` when the call is made and `ChannelInv` when a
connection opens: what then waits for an answer is in the channel.

### `CommandsProofs`: the refinement

`LifecycleKeepsCommands` is `Spec => CommandsKept`: the initial states map to
initial states, and under `CallInv` and `IInv` every step maps to a step of `Commands`
or to a stutter.

| `Lifecycle` | `Commands` |
|---|---|
| `apply`, `apply_batch` or `refresh` is called | `Make`, refused at once by `ensure_writable` or `ensure_connected` |
| `reject_command`; a caller that finds the channel closed or its reply lost | `Refuse` |
| a caller that goes away; `Exit`, with what is left in the channel | `GiveUp`, of one call or of several |
| `SelectCommand` | `Serve` |
| `MutationSucceeds`, `MutationFails`, `ResyncSucceeds`, `ResyncFails` | `Work`; a refusal by the revision gate of the transport is its answer |
| `ready()`, connecting, publishing, backoff, notifications, `shutdown()` | a stutter |

The mapping (`placeOf`, `answerOf`) is of one case for every place of a call, and that
these cases exclude each other is itself a consequence of `ChannelInv`.  `Truthful` is
`BatchReportIsTrue` and its like for a single write.

### `FadesProofs`

For any number of fades, direct sets and targets:

| Theorem | Property |
|---|---|
| `FadesTypeCorrect` | `TypeOK` |
| `RunningAlwaysRegistered` | `RunningIsRegistered` |
| `AlwaysOnePerTarget` | `OnePerTarget`, from the one before: two fades cannot both be the entry of a target; no run needs to check it |
| `EndpointAlwaysLast` | `EndpointIsLast` |
| `AlwaysFailsForCause` | `FailsForCause` |
| `UnseenAreAlwaysSteps` | `OnlyStepsAreUnseen` |
| `ReturnedNeverWrites` | `NoWriteAfterReturn` |

`FadeInvariance` adds `PendingInv` (what a caller sends), `ChannelInv` (a command is in
the channel once, and its caller waits for it or has gone: a fade that returned has
none there, whence `NoWriteAfterReturn`), `ResultInv`, `LinkInv` (which state is
announced in and out of a session, and for which peer) and `CauseInv`: the session in
which a fade wrote a step goes on, writable and `Ready` or `Synchronizing`, as long as
nothing came across the fade.  `Notified` keeps that, so an answered notification is no
reason to fail: only the step of the fade that sees `Synchronizing` is, which is why
`FailsForCause` is an action property.

### `TransportProofs`

For any number of collections, ids and messages under way:

| Theorem | Property |
|---|---|
| `TransportTypeCorrect` | `TypeOK` |
| `IdsAlwaysDistinct` | `InFlightIdsDistinct` |
| `SnapshotsAlwaysCurrent` | `SnapshotIsCurrent` |
| `NoWriteEverOutstanding` | `NoWriteOutstanding` |
| `AlwaysQuietWhenIdle` | `QuietWhenIdle` |

That ids are distinct is not inductive; that they grow is.  `IdsInv` reads the replies
under way and then the requests under way as one line of ids that grows and ends below
`next_id`.  With `WaitInv` (the task waits for the last id it gave out) a request that
is waited for is the last of the line, so when its reply arrives everything before
it has been handled: that is `NoWriteOutstanding`, and `QuietWhenIdle`, which says that
between two requests no reply is under way, so that `receive_notification` need not
be modelled with one.  `ReadInv` follows the version of a collection from the start
of a snapshot through the request and its reply.

### `EventsProofs`

For every capacity of the channel, any number of subscribers and of snapshots:

| Theorem | Property |
|---|---|
| `TypeCorrect` | `TypeOK`; the ring stays within the capacity |
| `SubscribersCatchUp` | `CaughtUp`, the snapshot also across lags |
| `EventsNeverAhead` | `NeverAhead` |
| `NothingAfterShutdown` | `ShutdownIsLast` |
| `ReadyAlwaysAfterSnapshot` | `ReadyAfterSnapshot` |
| `FirstAlwaysSnapshot` | `FirstIsSnapshot` |

`CaughtUp` says nothing of a subscriber that still has events to read, so it is not
inductive.  `NewestInv` says it of all, for each of the two watches: a subscriber that
lost nothing knows what the watch holds, or has an event with that still to read, or
the task is about to send it; and no event of the ring is the last word on a watch
unless it says what the watch holds.  The second half is needed for the step that
reads an old event after a lag: the subscriber, who had the newest snapshot from the
watch, goes back to an older one, and it is the newer event behind it that brings it
forward again.  `WindowInv` (what is unread is in the ring, or the ring is full and
the subscriber lags), `ToldInv` and `LastInv` (Shutdown is the last of the ring, and
nothing is pending behind it) are the rest of the invariant.  `ControlEffect` and
`ControlTells` say once what all fifteen steps of the task other than a sending have
in common: a watch changes only together with the event that says so.

`ReadyInv` says the same of the order of events: from an event `Synchronizing` on,
wherever it stands in the ring, a snapshot stands before any event that connects
(`Resolved`), the pending events included; and a subscriber whose snapshot is not
of the session reads from such a place.  After a lag it has read the watch, which is of
the session whenever a connecting event is in the ring.  `FirstInv` says where the one
event `Snapshot` can be: still to come, or the next of all snapshots to be read, for who
has had none, and nowhere ahead of who has had one or joined late.

### `FadeClockProofs` and `LiveValidationProofs`

For every length of a step and of a fade, every lateness, every width of the counter,
every range and reach of levels and every mixer:

| Theorem | Property |
|---|---|
| `ClockKeepsRate` | `RateCapped` of `ClockSpec`, for both clocks |
| `FadesRunByTheClock` | every step of `LiveValidation` is one of `ClockSpec` or leaves the clock alone |
| `FadesKeepRate` | `RateCapped` of `LiveValidation`, from these two |
| `BackoffAlwaysInRange` | `BackoffInRange`: jitter is from 80 to 120 percent of 250 to 4000 ms, so the cap of 5000 ms never applies |
| `ExitAlwaysTrue` | `ExitIsTrue` |
| `AlwaysWithinReach` | `WithinReach` |
| `FadesAlwaysForward` | `FadesForward` |
| `LiveTypesCorrect` | `TypeOK` |

`RateCapped` speaks of the updates only; `DeadlineInv` adds what the next deadline
owes them: after n updates it is no earlier than n + 1 steps from the start, and it is
later than each of them by the steps of those in between.  `ExitIsTrue` and `WithinReach` rest on `AwayInv` (for every
control point, which items may be away: none between two steps of the script, the
item of the step inside one), `NearInv` (that item lies between where it was and its
target) and `FadeInv` (a fade starts from the captured level, and the time behind an
update is short of the duration).  The arithmetic of a level is `ShareOfWay`: a share
of a way is no longer than the way, in either direction.

`FadesForward` needs to know where the level came from.  `TrailInv`: inside a fade the
item has the level that belongs to an earlier time of the same fade, strictly before
the next update is due.  `LevelsOrdered`, from `SharesOrdered`, says that the level
of a later time is no farther from the target, for both curves and with the rounding
of integers; the two give the property, over writes that were late, skipped or lost.
The types need `CountInv`: a fade has no more updates than ticks, which follows from the
rate.

### What the proofs showed of the models

Three definitions held on the checked instances only, and were made to say what the
code says: the cases of `placeOf` and `answerOf` overlapped where a state is not
reachable, and a `CASE` with two true guards has no value that a prover could know;
`Transport` allowed an id space with no id to connect with, although `next_id`
starts at 2; and a mute of `LiveValidation` could be any number, of which
*not* is no mute (`Mixers` now has mutes on or off, and levels without a bound).

The attempt to prove `FadesFit` found that an earlier `Fades` was narrower than the
lifecycle it stands for: it began inside a session, knew only peers that may be written
to, announced a reconnection once instead of at every attempt, and let the announcement
of Shutdown and the end of the task be one step, so that a command sent between the two
was not considered.  All properties of `Fades` hold with these added, and `LinkInv` had
to be strengthened for them.

## Where the code does otherwise

Five runs check a sentence of the documentation and TLC finds a behaviour of the
code that contradicts it.

1. `lifecycle_replay`.  README 32-33: "Disconnected operations are never queued
   for replay."  Commands are only rejected during a backoff (683).  A reconnection
   that succeeds at once skips it, and a command left in the channel is executed on
   the new connection.
2. `lifecycle_stalled`.  lifecycle.rs:278: `shutdown()` "stops fades and reconnect
   work".  It is not noticed during a connection attempt (530), which nothing
   bounds.
3. `lifecycle_unanswered`.  A first snapshot that fails (552) leads straight to the
   next attempt: no backoff, no attempt counted, and the channel is not read.  While
   the peer does so, commands are neither served nor rejected.
4. `fades_overtaken`.  lifecycle.rs:236: "A replacement/direct set/disconnect/
   shutdown cancels this fade."  A fade that is past its tick, or of duration zero,
   does not look at its cancellation any more and writes after the direct set
   returned success.
5. `transport_stale`.  CHANGELOG 22: "synchronized snapshots".  Notifications that
   arrive while a reply is awaited are dropped (transport.rs:265); a change between
   the first and the last read of a snapshot stays invisible while the session is
   `Ready`.

The models show further limits, as exceptions that the properties name:
a caller that drops `shutdown()` while it joins takes the handle with it, and
later callers return at once (`detached` in `ShutdownJoins`); a fade that looks at
the state while a notification is being answered ends (`FailsForCause`); a fade stopped between two steps leaves its last step
out of the snapshot (`OnlyStepsAreUnseen`).  `ready()` returns as soon as a snapshot
is published, which is before the state becomes `Ready`, and later returns the last
one whatever the state (`ReadyReturns`).

Of events: a `StateChanged` that is lost to a lag is not told again, so that
`CaughtUp` promises the state only to who never lagged; a lag before any snapshot is
a protocol error, after which the subscription goes on; `LaggedAndResynchronized` may
come before the event `Snapshot`, and older snapshots that the ring retained follow it
(`FirstIsSnapshot` excepts who lagged, `NeverAhead` holds for all).  The task that
returns because the last client is gone (568-570) says nothing, and subscribers find
the channel closed; who subscribes to a client that was shut down, and keeps it, waits
for ever (`EndIsSeen`).

Of the live validation: README 57-59 says that live writes "attempt immediate
restoration"; after a *fade* that failed none is attempted (`result = "fade"` in
`ExitIsTrue`), and what remains is within 0.02 (`WithinReach`).  Of rates: README
34-40 and mutation.rs:175 say "capped below 30 updates per second" and "no more than
30".  34 ms keep 29.4 per second on average from the start of a fade; a late update on
the grid may be followed by the next at once, so that a single window of a second may
hold one or two more.  `RateCapped` states both bounds.

## Not modelled, and why

Decoding, ids, capability sets and error texts are immutable data, without
interleavings; tests reach them.  Ping and pong, the close handshake and
`unstable_raw` change nothing the properties see: the first two carry no state, the
last is one more request.  Snapshots in `Fades`, `Lifecycle` and `Events` are atomic;
`Transport` has them request by request.  A batch that cancels several fades at once
appears in `Fades` as single sets.

`LiveValidation` assumes that nobody else moves the five items while it runs: its
promise is about its own writes.  A write that timed out has happened when its call
fails, or never does; that it is not answered later is `NoWriteOutstanding` of
`Transport`, and a mixer that applies it after the restoration is left out.  The start
that the caller of `WaveLinkClient::fade_channel_volume` names is taken to be the true
level.  Levels are integers that round down where the code has `f32`.

## Plan

Done: every part of the table above, as far as it has state, and the proof of every
safety property.  What remains, in this order:

1. An abstract specification of what a subscriber is promised (a stream of states
   and snapshots that may skip but never goes back, and ends once), implemented by
   `Events`; the invariants of `EventsProofs` are what its refinement needs.
2. What `FadesFit` is for the task of `Fades`, for the task that `Events` publishes from;
   and the commands of `Fades` on top of the connection that is tied now.
