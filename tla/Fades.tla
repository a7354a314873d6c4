-------------------------------- MODULE Fades --------------------------------
(***************************************************************************)
(* The fades of SynchronizedClient (src/src/lifecycle.rs): their registry, *)
(* their cancellation, and the writes they race against.  A fade is a      *)
(* future of its caller, not a task of the client: it registers itself,    *)
(* reads the mixer, sends one step after another through the command       *)
(* channel, and takes itself out of the registry.  Direct sets,            *)
(* cancel_fades(), newer fades and the lifecycle interfere at every await. *)
(*                                                                         *)
(* The lifecycle task appears with what a fade can see of it: the state    *)
(* watch, the FIFO of commands, each served or rejected and answered once, *)
(* and the snapshots it publishes.  Lifecycle.tla models it in full, and   *)
(* its state moves only as it may here (FadesFit).  A fade counts its      *)
(* ticks down to 0 instead of reading a clock.                             *)
(***************************************************************************)
EXTENDS Naturals, Sequences

CONSTANTS
  Fades,            \* fade calls, each made at most once
  Sets,             \* calls of apply with a volume, each made at most once
  Targets,          \* the FadeTargets
  CommandCapacity,  \* COMMAND_CAPACITY
  MaxSteps,         \* the most ticks of a fade
  None              \* no fade registered, nothing written

Issuers == Fades \union Sets

ASSUME FadesAssumption ==
  /\ None \notin Issuers \union {"another"} /\ "another" \notin Sets
  /\ Fades \intersect Sets = {}
  /\ CommandCapacity \in Nat \ {0}
  /\ MaxSteps \in Nat

VARIABLES
  \* the callers
  phase,        \* where each fade or set is
  target,       \* its FadeTarget
  pending,      \* the command it is dispatching
  result,       \* what it returned
  left,         \* the ticks a fade has left while it is in its loop
  unseen,       \* the state watch changed since the fade last looked
  \* Inner
  fades,        \* the registry: the fade that is current for each target
  cancelledBy,  \* the cancel watch of each fade: what sent true, or None
  \* the lifecycle
  link,         \* what the task does: "up" is its select
  state,        \* the ConnectionState watch; Reconnecting is all of Disconnected,
                \* Connecting and Reconnecting, which callers do not tell apart
  writable,     \* compatibility().writes_allowed() of the connection
  commands,     \* the command channel
  shutdown,     \* the shutdown watch
  \* the mixer
  level,        \* who wrote the level of each target last
  stale,        \* the targets written since the snapshot was published
  \* history of each fade
  last,         \* its last write that was applied
  disturbed     \* since it began: a disconnect or an error of the peer

callVars  == <<phase, target, pending, result, left, unseen>>
innerVars == <<fades, cancelledBy>>
lifeVars  == <<link, state, writable, commands, shutdown>>
mixerVars == <<level, stale, last>>
vars == <<callVars, innerVars, lifeVars, mixerVars, disturbed>>

Phases == {"idle", "gate", "sending", "queued", "waiting", "leaving", "done", "dropped"}
Running == {"gate", "sending", "queued", "waiting"}
Links  == {"up", "syncing", "lost", "down", "ending", "ended"}
Connected == {"Ready", "ReadOnlyUnknownRevision"}

TypeOK ==
  /\ phase \in [Issuers -> Phases]
  /\ target \in [Issuers -> Targets]
  /\ pending \in [Issuers -> {"refresh", "step", "final", "set"}]
  /\ result \in [Issuers -> {"none", "Ok", "Failed"}]
  /\ left \in [Fades -> 0..MaxSteps]
  /\ unseen \in [Fades -> BOOLEAN]
  /\ fades \in [Targets -> Fades \union {None}]
  /\ cancelledBy \in [Fades -> Sets \union {"another", None}]
  /\ link \in Links
  /\ state \in Connected \union {"Synchronizing", "Reconnecting", "Shutdown"}
  /\ writable \in BOOLEAN
  /\ commands \in Seq(Issuers) /\ Len(commands) <= CommandCapacity
  /\ shutdown \in BOOLEAN
  /\ level \in [Targets -> Issuers \union {None}]
  /\ stale \subseteq Targets
  /\ last \in [Fades -> {"none", "step", "final"}]
  /\ disturbed \in [Fades -> BOOLEAN]

\* A client that was just spawned, and nobody has called yet.
Init ==
  /\ phase = [x \in Issuers |-> "idle"]
  /\ target \in [Issuers -> Targets]
  /\ pending = [x \in Issuers |-> IF x \in Sets THEN "set" ELSE "refresh"]
  /\ result = [x \in Issuers |-> "none"]
  /\ left = [f \in Fades |-> 0]
  /\ unseen = [f \in Fades |-> FALSE]
  /\ fades = [t \in Targets |-> None]
  /\ cancelledBy = [f \in Fades |-> None]
  /\ link = "down" /\ state = "Reconnecting" /\ writable = FALSE
  /\ commands = <<>> /\ shutdown = FALSE
  /\ level = [t \in Targets |-> None] /\ stale = {}
  /\ last = [f \in Fades |-> "none"]
  /\ disturbed = [f \in Fades |-> FALSE]

------------------------------------------------------------------------------
(* The registry.                                                           *)

\* Send true to the cancel watches of the fades in cs.
Cancel(cs, by) ==
  cancelledBy' = [f \in Fades |-> IF f \in cs /\ cancelledBy[f] = None
                                  THEN by ELSE cancelledBy[f]]

Registered(t) == {fades[t]} \ {None}

\* fade: register, cancelling the fade that was there, and refresh.
StartFade(f) ==
  /\ phase[f] = "idle"
  /\ phase' = [phase EXCEPT ![f] = "gate"]
  /\ fades' = [fades EXCEPT ![target[f]] = f]
  /\ Cancel(Registered(target[f]), "another")
  /\ UNCHANGED <<target, pending, result, left, unseen, lifeVars, mixerVars, disturbed>>

\* apply: cancel_operation_fade, then dispatch_apply.
StartSet(d) ==
  /\ phase[d] = "idle"
  /\ phase' = [phase EXCEPT ![d] = "gate"]
  /\ fades' = [fades EXCEPT ![target[d]] = None]
  /\ Cancel(Registered(target[d]), d)
  /\ UNCHANGED <<target, pending, result, left, unseen, lifeVars, mixerVars, disturbed>>

\* cancel_fades.
CancelFades ==
  /\ \E t \in Targets : fades[t] # None
  /\ fades' = [t \in Targets |-> None]
  /\ Cancel(UNION {Registered(t) : t \in Targets}, "another")
  /\ UNCHANGED <<callVars, lifeVars, mixerVars, disturbed>>

\* Whatever is registered for the target is removed.
MutantCleanup(f) ==
  /\ phase[f] = "leaving"
  /\ phase' = [phase EXCEPT ![f] = "done"]
  /\ fades' = [fades EXCEPT ![target[f]] = None]
  /\ UNCHANGED <<target, pending, result, left, unseen, cancelledBy, lifeVars, mixerVars,
                 disturbed>>

\* The end of fade: leave the registry, unless another fade is current by now.
Cleanup(f) ==
  /\ phase[f] = "leaving"
  /\ phase' = [phase EXCEPT ![f] = "done"]
  /\ fades' = IF fades[target[f]] = f THEN [fades EXCEPT ![target[f]] = None] ELSE fades
  /\ UNCHANGED <<target, pending, result, left, unseen, cancelledBy, lifeVars, mixerVars,
                 disturbed>>

\* The caller drops the future: nothing of fade runs any more, not its cleanup.
DropFade(f) ==
  /\ phase[f] \in Running
  /\ phase' = [phase EXCEPT ![f] = "dropped"]
  /\ left' = [left EXCEPT ![f] = 0] /\ unseen' = [unseen EXCEPT ![f] = FALSE]
  /\ UNCHANGED <<target, pending, result, innerVars, lifeVars, mixerVars, disturbed>>

------------------------------------------------------------------------------
(* A fade, or a set, and its commands.                                     *)

Return(x, r) ==
  /\ phase' = [phase EXCEPT ![x] = IF x \in Fades THEN "leaving" ELSE "done"]
  /\ result' = [result EXCEPT ![x] = r]
  /\ unseen' = [f \in Fades |-> unseen[f] /\ f # x]
  /\ left' = [f \in Fades |-> IF f = x THEN 0 ELSE left[f]]
  /\ UNCHANGED <<target, pending>>

\* ensure_connected before a refresh, ensure_writable before a write.
Admits(command) == state = "Ready" \/ (command = "refresh" /\ state \in Connected)

\* dispatch_apply and refresh: the gate, which reads the state.
Gate(x) ==
  /\ phase[x] = "gate"
  /\ \/ /\ Admits(pending[x])
        /\ phase' = [phase EXCEPT ![x] = "sending"]
        /\ UNCHANGED <<target, pending, result, left, unseen>>
     \/ ~Admits(pending[x]) /\ Return(x, "Failed")
  /\ UNCHANGED <<innerVars, lifeVars, mixerVars, disturbed>>

MutantRoom == Len(commands) <= CommandCapacity   \* off by one

Room == Len(commands) < CommandCapacity

\* commands.send(..).await: into the channel, or an error once the task is gone.
Send(x) ==
  /\ phase[x] = "sending"
  /\ \/ /\ link # "ended" /\ Room
        /\ commands' = Append(commands, x)
        /\ phase' = [phase EXCEPT ![x] = "queued"]
        /\ UNCHANGED <<target, pending, result, left, unseen>>
     \/ link = "ended" /\ Return(x, "Failed") /\ UNCHANGED commands
  /\ UNCHANGED <<innerVars, link, state, writable, shutdown, mixerVars, disturbed>>

\* What may end the fades among xs has come across them.
Disturb(xs) == disturbed' = [f \in Fades |-> disturbed[f] \/ f \in xs]

\* The error of the last write is lost.
MutantReplyFailed(x) == Return(x, IF pending[x] = "final" THEN "Ok" ELSE "Failed")

\* What the caller does with an error in the reply.
ReplyFailed(x) == Return(x, "Failed")

\* The reply arrives: with an error, with the snapshot refresh asked for, or with
\* the success of a write.  A dropped fade does not read it.
Answered(x, ok) ==
  \/ /\ phase[x] # "queued"
     /\ UNCHANGED <<callVars, disturbed>>
  \/ /\ phase[x] = "queued" /\ ~ok
     /\ ReplyFailed(x)
     /\ Disturb({x})
  \/ /\ phase[x] = "queued" /\ ok /\ pending[x] \in {"final", "set"}
     /\ Return(x, "Ok")
     /\ UNCHANGED disturbed
  \/ /\ phase[x] = "queued" /\ ok /\ pending[x] = "refresh"   \* a duration of zero
     /\ phase' = [phase EXCEPT ![x] = "gate"]
     /\ pending' = [pending EXCEPT ![x] = "final"]
     /\ UNCHANGED <<target, result, left, unseen, disturbed>>
  \/ /\ phase[x] = "queued" /\ ok /\ pending[x] = "refresh"   \* any other duration
     /\ phase' = [phase EXCEPT ![x] = "waiting"]
     /\ \E n \in 1..MaxSteps : left' = [left EXCEPT ![x] = n]
     /\ unseen' = [unseen EXCEPT ![x] = TRUE]   \* the clone has seen no version yet
     /\ UNCHANGED <<target, pending, result, disturbed>>
  \/ /\ phase[x] = "queued" /\ ok /\ pending[x] = "step"
     /\ phase' = [phase EXCEPT ![x] = "waiting"]
     /\ UNCHANGED <<target, pending, result, left, unseen, disturbed>>

\* The mixer has no volume for the target: target_volume is an error.
TargetAbsent(x) ==
  /\ phase[x] = "queued" /\ pending[x] = "refresh"
  /\ Return(x, "Failed")
  /\ Disturb({x})

\* The clock starts again at every tick.
MutantTicks(f) == {<<"step", n>> : n \in 1..left[f]}

\* What the clock may say at a tick: the duration has passed, or another step is
\* due; ticks may have been missed.
Ticks(f) ==
  {<<"step", n>> : n \in 1..(left[f] - 1)} \union
  (IF left[f] = 1 THEN {<<"final", 1>>} ELSE {})

\* select!: the deadline, which the other branches do not take precedence over.
Tick(f) ==
  /\ phase[f] = "waiting"
  /\ \E tick \in Ticks(f) :
       /\ pending' = [pending EXCEPT ![f] = tick[1]]
       /\ left' = [left EXCEPT ![f] = tick[2]]
  /\ phase' = [phase EXCEPT ![f] = "gate"]
  /\ UNCHANGED <<target, result, unseen, innerVars, lifeVars, mixerVars, disturbed>>

\* Cancellation is noticed while the step is still in the channel.
MutantSeeCancel(f) ==
  /\ phase[f] \in {"waiting", "queued"} /\ cancelledBy[f] # None
  /\ Return(f, "Failed")
  /\ UNCHANGED <<innerVars, lifeVars, mixerVars, disturbed>>

\* select!: cancelled.changed().
SeeCancel(f) ==
  /\ phase[f] = "waiting" /\ cancelledBy[f] # None
  /\ Return(f, "Failed")
  /\ UNCHANGED <<innerVars, lifeVars, mixerVars, disturbed>>

\* Any change of the watch ends the fade.
MutantSeeState(f) ==
  /\ phase[f] = "waiting" /\ unseen[f]
  /\ Return(f, "Failed")
  /\ UNCHANGED <<innerVars, lifeVars, mixerVars, disturbed>>

\* select!: state.changed().  Only the latest state is seen.
SeeState(f) ==
  /\ phase[f] = "waiting" /\ unseen[f]
  /\ \/ /\ state = "Ready"
        /\ unseen' = [unseen EXCEPT ![f] = FALSE]
        /\ UNCHANGED <<phase, target, pending, result, left>>
     \/ state # "Ready" /\ Return(f, "Failed")
  /\ UNCHANGED <<innerVars, lifeVars, mixerVars, disturbed>>

------------------------------------------------------------------------------
(* The lifecycle, as a fade sees it.                                       *)

\* A write passes the gate of call_with_params for a peer of the known revision only.
Write(x) ==
  /\ writable
  /\ level' = [level EXCEPT ![target[x]] = x]
  /\ last' = [f \in Fades |-> IF f = x THEN pending[x] ELSE last[f]]

Serving == link = "up" /\ commands # <<>>
Served  == Head(commands)

ServeRefresh ==
  /\ Serving /\ pending[Served] = "refresh"
  /\ commands' = Tail(commands)
  /\ stale' = {}
  /\ Answered(Served, TRUE) \/ TargetAbsent(Served)
  /\ UNCHANGED <<innerVars, link, state, writable, shutdown, level, last>>

\* A step of a fade is answered before a snapshot is taken.
ServeStep ==
  /\ Serving /\ pending[Served] = "step"
  /\ commands' = Tail(commands)
  /\ Write(Served)
  /\ stale' = stale \union {target[Served]}
  /\ Answered(Served, TRUE)
  /\ UNCHANGED <<innerVars, link, state, writable, shutdown>>

\* No snapshot follows a write that succeeded.
MutantServeWrite ==
  /\ Serving /\ pending[Served] \in {"final", "set"}
  /\ commands' = Tail(commands)
  /\ Write(Served)
  /\ stale' = stale \union {target[Served]}
  /\ Answered(Served, TRUE)
  /\ UNCHANGED <<innerVars, link, state, writable, shutdown>>

\* An endpoint or a direct set is answered after the snapshot.
ServeWrite ==
  /\ Serving /\ pending[Served] \in {"final", "set"}
  /\ commands' = Tail(commands)
  /\ Write(Served)
  /\ stale' = {}
  /\ Answered(Served, TRUE)
  /\ UNCHANGED <<innerVars, link, state, writable, shutdown>>

\* The mutation fails, with or without effect; the snapshot is read.
MutationFails ==
  /\ Serving /\ pending[Served] # "refresh"
  /\ commands' = Tail(commands)
  /\ Write(Served) \/ UNCHANGED <<level, last>>
  /\ stale' = {}
  /\ Answered(Served, FALSE)
  /\ UNCHANGED <<innerVars, link, state, writable, shutdown>>

\* The snapshot fails, after a refresh or a write: the connection is given up.
ResyncFails ==
  /\ Serving
  /\ commands' = Tail(commands)
  /\ \/ pending[Served] # "refresh" /\ Write(Served) /\ stale' = stale \union {target[Served]}
     \/ UNCHANGED <<level, last, stale>>
  /\ Answered(Served, FALSE)
  /\ link' = "lost"
  /\ UNCHANGED <<innerVars, state, writable, shutdown>>

\* The fades in their loop hold a receiver of the state watch.
Looping(f) == phase[f] = "waiting" \/ (phase[f] \in Running /\ pending[f] = "step")

\* transition: every receiver of the watch has something to see.
transition(s) ==
  /\ state' = s
  /\ unseen' = [f \in Fades |-> unseen[f] \/ Looping(f)]
  /\ UNCHANGED <<phase, target, pending, result, left>>

Notified ==
  /\ link = "up" /\ link' = "syncing"
  /\ transition("Synchronizing")
  /\ UNCHANGED <<innerVars, writable, commands, shutdown, mixerVars, disturbed>>

\* The snapshot is published, then the state.
Synchronized ==
  /\ link = "syncing" /\ link' = "up"
  /\ transition(IF writable THEN "Ready" ELSE "ReadOnlyUnknownRevision")
  /\ stale' = {}
  /\ UNCHANGED <<innerVars, writable, commands, shutdown, level, last, disturbed>>

\* Also a first snapshot that fails.
LoseConnection ==
  /\ link \in {"up", "syncing"} /\ link' = "lost"
  /\ UNCHANGED <<callVars, innerVars, state, writable, commands, shutdown, mixerVars, disturbed>>

Reconnect ==
  /\ link = "lost" /\ link' = "down"
  /\ transition("Reconnecting")
  /\ Disturb({f \in Fades : phase[f] \in Running})
  /\ UNCHANGED <<innerVars, writable, commands, shutdown, mixerVars>>

\* The head of the loop announces every attempt.
Retry ==
  /\ link = "down"
  /\ transition("Reconnecting")
  /\ UNCHANGED <<innerVars, link, writable, commands, shutdown, mixerVars, disturbed>>

\* wait_or_shutdown: reject_command.
Reject ==
  /\ link = "down" /\ commands # <<>>
  /\ commands' = Tail(commands)
  /\ Answered(Served, FALSE)
  /\ UNCHANGED <<innerVars, link, state, writable, shutdown, mixerVars>>

\* A new connection; the peer's revision decides about writes.
Connect ==
  /\ link = "down" /\ link' = "syncing"
  /\ writable' \in BOOLEAN
  /\ transition("Synchronizing")
  /\ UNCHANGED <<innerVars, commands, shutdown, mixerVars, disturbed>>

\* shutdown: cancel_fades and raise the flag, which only the task reads.
SignalShutdown ==
  /\ ~shutdown /\ shutdown' = TRUE
  /\ fades' = [t \in Targets |-> None]
  /\ Cancel(UNION {Registered(t) : t \in Targets}, "another")
  /\ UNCHANGED <<callVars, link, state, writable, commands, mixerVars, disturbed>>

\* The task sees the flag: in its select, in a backoff, or at the head of its loop,
\* there also after a first snapshot that failed.
Stop ==
  /\ shutdown /\ link' = "ending"
  /\ link \in {"up", "down"} \/ (link = "lost" /\ state = "Synchronizing")
  /\ transition("Shutdown")
  /\ UNCHANGED <<innerVars, writable, commands, shutdown, mixerVars, disturbed>>

\* The task ends, and with it every command in the channel.
Exit ==
  /\ link = "ending" /\ link' = "ended"
  /\ commands' = <<>>
  /\ unseen' = [f \in Fades |-> unseen[f] /\ phase[f] # "queued"]
  /\ phase' = [x \in Issuers |-> IF phase[x] # "queued" THEN phase[x]
                                 ELSE IF x \in Fades THEN "leaving" ELSE "done"]
  /\ result' = [x \in Issuers |-> IF phase[x] = "queued" THEN "Failed" ELSE result[x]]
  /\ left' = [f \in Fades |-> IF phase[f] = "queued" THEN 0 ELSE left[f]]
  /\ UNCHANGED <<target, pending, innerVars, state, writable, shutdown, mixerVars, disturbed>>

------------------------------------------------------------------------------
Caller(x) == Gate(x) \/ Send(x)
Fade(f) == StartFade(f) \/ Tick(f) \/ SeeCancel(f) \/ SeeState(f) \/ Cleanup(f) \/ DropFade(f)
Serve == ServeRefresh \/ ServeStep \/ ServeWrite \/ MutationFails \/ ResyncFails
Task ==
  \/ Serve \/ Notified \/ Synchronized \/ LoseConnection
  \/ Reconnect \/ Retry \/ Reject \/ Connect \/ Stop \/ Exit

\* Every call has returned and the client is shut down.
Ended ==
  /\ link = "ended"
  /\ \A x \in Issuers : phase[x] \in {"done", "dropped"}
  /\ UNCHANGED vars

Next ==
  \/ \E x \in Issuers : Caller(x)
  \/ \E f \in Fades : Fade(f)
  \/ \E d \in Sets : StartSet(d)
  \/ CancelFades \/ SignalShutdown
  \/ Task
  \/ Ended

Spec == Init /\ [][Next]_vars

(***************************************************************************)
(* Callers poll their futures; the channel admits senders in order; the    *)
(* task serves what it can get at between losses, and the peer recovers.   *)
(***************************************************************************)
FairSpec ==
  /\ Spec
  /\ \A x \in Issuers : WF_vars(Gate(x)) /\ SF_vars(Send(x))
  /\ \A f \in Fades : WF_vars(Tick(f)) /\ WF_vars(Cleanup(f))
  /\ SF_vars(Serve) /\ SF_vars(Synchronized) /\ SF_vars(Connect)
  /\ WF_vars(Reconnect) /\ SF_vars(Stop) /\ WF_vars(Exit)

------------------------------------------------------------------------------
(* What the fades promise.                                                 *)

\* A fade that runs and was not told to stop can be told: it is the one in the
\* registry for its target.
RunningIsRegistered ==
  \A f \in Fades :
    phase[f] \in Running /\ cancelledBy[f] = None => fades[target[f]] = f

\* Fades are scoped per target: of two that run on one target at most one was
\* not cancelled.
OnePerTarget ==
  \A f, g \in Fades :
    /\ f # g /\ target[f] = target[g]
    /\ phase[f] \in Running /\ phase[g] \in Running
    => cancelledBy[f] # None \/ cancelledBy[g] # None

\* A fade that reports success has written its exact endpoint, and nothing of its
\* own came after it.
EndpointIsLast == \A f \in Fades : result[f] = "Ok" => last[f] = "final"

\* Once fade has returned, cancelled or not, nothing it sent is still under way:
\* no later write is its own.
NoWriteAfterReturn ==
  [][\A f \in Fades :
       (last'[f] # last[f] \/ \E t \in Targets : level'[t] = f /\ level[t] # f)
         => phase[f] \notin {"leaving", "done"}]_vars

\* A fade under way gives up only when it was cancelled or shut down, when a disconnect
\* or an error of the peer came across it, or while a notification is being answered:
\* it outlives every notification it did not look at in that time.
FailsForCause ==
  [][\A f \in Fades :
       result[f] = "none" /\ result'[f] = "Failed" /\ last[f] = "step" =>
         \/ disturbed'[f] \/ cancelledBy[f] # None \/ shutdown
         \/ state = "Synchronizing"]_vars

\* In a session the published snapshot differs from the mixer only where the last
\* write was a step of a fade; the end of a fade and a direct set are shown.
OnlyStepsAreUnseen ==
  link = "up" => \A t \in stale : level[t] \in Fades /\ last[level[t]] = "step"

\* Every fade comes to an end, if only the peer recovers.
FadesEnd == \A f \in Fades : phase[f] \in Running ~> phase[f] \in {"done", "dropped"}

(* What the documentation says beyond that; the code does otherwise.       *)

\* fade_channel_volume: "A replacement/direct set/disconnect/shutdown cancels this
\* fade."  A set that returned success stands against the fade it cancelled.
DirectSetStands ==
  \A f \in Fades, d \in Sets :
    cancelledBy[f] = d /\ result[d] = "Ok" => level[target[f]] # f

==============================================================================
