----------------------------- MODULE FadesProofs -----------------------------
(***************************************************************************)
(* The safety of the fades, for any number of fades, direct sets and       *)
(* targets, any capacity of the channel and any number of ticks.           *)
(*                                                                         *)
(* A command in the channel is one its caller waits for or has dropped;    *)
(* a caller that has returned has none there.  And what takes the state    *)
(* away from Ready comes across every fade that runs.                      *)
(***************************************************************************)
EXTENDS Fades, SequenceTheorems, TLAPS

\* Sets send sets, and fades all but that.
PendingInv ==
  /\ \A f \in Fades : pending[f] # "set"
  /\ \A d \in Sets : pending[d] = "set"

\* A command is in the channel once, for a caller that waits for it or has gone.
ChannelInv ==
  /\ \A i, j \in DOMAIN commands : commands[i] = commands[j] => i = j
  /\ \A i \in DOMAIN commands : phase[commands[i]] \in {"queued", "dropped"}

\* A result is there when its call has returned, and a fade that was not called has
\* written nothing.
ResultInv ==
  /\ \A x \in Issuers : result[x] # "none" => phase[x] \in {"leaving", "done"}
  /\ \A f \in Fades : phase[f] = "idle" => last[f] = "none"

\* The state that is announced where the task is.
LinkInv ==
  /\ link = "up" => state = IF writable THEN "Ready" ELSE "ReadOnlyUnknownRevision"
  /\ link = "syncing" => state = "Synchronizing"
  /\ link = "down" => state = "Reconnecting"
  /\ link \in {"ending", "ended"} => state = "Shutdown"
  /\ state = "Shutdown" => shutdown

\* The session a fade has written a step in goes on, or its end came across the fade.
SessionGoesOn == writable /\ state \in {"Ready", "Synchronizing"}

CauseInv ==
  \A f \in Fades :
    phase[f] \in Running /\ last[f] = "step" => disturbed[f] \/ shutdown \/ SessionGoesOn

FadeInv == /\ TypeOK /\ PendingInv /\ ChannelInv /\ ResultInv /\ LinkInv /\ CauseInv
           /\ RunningIsRegistered /\ EndpointIsLast /\ OnlyStepsAreUnseen

------------------------------------------------------------------------------
(* Types.                                                                  *)

\* The types of what belongs to the callers.
CallTypes ==
  /\ phase \in [Issuers -> Phases]
  /\ target \in [Issuers -> Targets]
  /\ pending \in [Issuers -> {"refresh", "step", "final", "set"}]
  /\ result \in [Issuers -> {"none", "Ok", "Failed"}]
  /\ left \in [Fades -> 0..MaxSteps]
  /\ unseen \in [Fades -> BOOLEAN]

\* Of the registry.
InnerTypes ==
  /\ fades \in [Targets -> Fades \union {None}]
  /\ cancelledBy \in [Fades -> Sets \union {"another", None}]

\* Of the lifecycle.
LifeTypes ==
  /\ link \in Links
  /\ state \in Connected \union {"Synchronizing", "Reconnecting", "Shutdown"}
  /\ writable \in BOOLEAN
  /\ commands \in Seq(Issuers) /\ Len(commands) <= CommandCapacity
  /\ shutdown \in BOOLEAN

\* And of the mixer and the history.
MixerTypes ==
  /\ level \in [Targets -> Issuers \union {None}]
  /\ stale \subseteq Targets
  /\ last \in [Fades -> {"none", "step", "final"}]
  /\ disturbed \in [Fades -> BOOLEAN]

\* Together they are the type invariant.
LEMMA TypeParts ==
  /\ TypeOK <=> CallTypes /\ InnerTypes /\ LifeTypes /\ MixerTypes
  /\ TypeOK' <=> CallTypes' /\ InnerTypes' /\ LifeTypes' /\ MixerTypes'
BY DEF TypeOK, CallTypes, InnerTypes, LifeTypes, MixerTypes

\* At first.
LEMMA TypeInit == Init => TypeOK
<1> SUFFICES ASSUME Init PROVE CallTypes /\ InnerTypes /\ LifeTypes /\ MixerTypes
  BY TypeParts
<1> USE FadesAssumption DEF Init, FadesAssumption
<1>1. CallTypes
  <2>1. /\ phase \in [Issuers -> Phases] /\ result \in [Issuers -> {"none", "Ok", "Failed"}]
        /\ target \in [Issuers -> Targets]
    BY DEF Phases
  <2>2. pending \in [Issuers -> {"refresh", "step", "final", "set"}]
    OBVIOUS
  <2>3. left \in [Fades -> 0..MaxSteps] /\ unseen \in [Fades -> BOOLEAN]
    OBVIOUS
  <2> QED
    BY <2>1, <2>2, <2>3 DEF CallTypes
<1>2. InnerTypes
  BY DEF InnerTypes
<1>3. LifeTypes
  <2>1. commands \in Seq(Issuers) /\ Len(commands) <= CommandCapacity
    BY EmptySeq
  <2> QED
    BY <2>1 DEF LifeTypes, Links
<1>4. MixerTypes
  BY DEF MixerTypes
<1> QED
  BY <1>1, <1>2, <1>3, <1>4

\* A call that returns.
LEMMA TypeReturn ==
  ASSUME CallTypes, NEW x \in Issuers, NEW r \in {"Ok", "Failed"}, Return(x, r)
  PROVE  CallTypes'
<1>1. 0 \in 0..MaxSteps
  BY FadesAssumption DEF FadesAssumption
<1>2. phase' \in [Issuers -> Phases] /\ result' \in [Issuers -> {"none", "Ok", "Failed"}]
  BY DEF Return, CallTypes, Phases
<1>3. left' \in [Fades -> 0..MaxSteps]
  BY <1>1 DEF Return, CallTypes
<1>4. unseen' \in [Fades -> BOOLEAN]
  BY DEF Return, CallTypes
<1>5. target' = target /\ pending' = pending
  BY DEF Return
<1> QED
  BY <1>2, <1>3, <1>4, <1>5 DEF CallTypes

\* An answer, and who it may disturb.
LEMMA TypeAnswered ==
  ASSUME CallTypes, MixerTypes, NEW x \in Issuers, NEW ok \in BOOLEAN,
         Answered(x, ok) \/ TargetAbsent(x)
  PROVE  CallTypes' /\ disturbed' \in [Fades -> BOOLEAN]
<1>0. ASSUME NEW xs, Disturb(xs) PROVE disturbed' \in [Fades -> BOOLEAN]
  BY <1>0 DEF Disturb, MixerTypes
<1>1. CASE UNCHANGED <<callVars, disturbed>>
  BY <1>1 DEF callVars, CallTypes, MixerTypes
<1>2. CASE Return(x, "Failed") /\ Disturb({x})
  BY <1>0, <1>2, TypeReturn
<1>3. CASE Return(x, "Ok") /\ UNCHANGED disturbed
  BY <1>3, TypeReturn DEF MixerTypes
<1>4. CASE /\ phase' = [phase EXCEPT ![x] = "gate"]
           /\ pending' = [pending EXCEPT ![x] = "final"]
           /\ UNCHANGED <<target, result, left, unseen, disturbed>>
  BY <1>4 DEF CallTypes, MixerTypes, Phases
<1>5. CASE /\ phase' = [phase EXCEPT ![x] = "waiting"]
           /\ \E n \in 1..MaxSteps : left' = [left EXCEPT ![x] = n]
           /\ unseen' = [unseen EXCEPT ![x] = TRUE]
           /\ UNCHANGED <<target, pending, result, disturbed>>
  <2>1. left' \in [Fades -> 0..MaxSteps]
    <3>1. \A n \in 1..MaxSteps : n \in 0..MaxSteps
      BY FadesAssumption DEF FadesAssumption
    <3> QED
      BY <1>5, <3>1 DEF CallTypes
  <2> QED
    BY <1>5, <2>1 DEF CallTypes, MixerTypes, Phases
<1>6. CASE /\ phase' = [phase EXCEPT ![x] = "waiting"]
           /\ UNCHANGED <<target, pending, result, left, unseen, disturbed>>
  BY <1>6 DEF CallTypes, MixerTypes, Phases
<1> QED
  BY <1>1, <1>2, <1>3, <1>4, <1>5, <1>6 DEF Answered, ReplyFailed, TargetAbsent

\* A cancellation.
LEMMA TypeCancel ==
  ASSUME InnerTypes, NEW cs, NEW by \in Sets \union {"another"}, Cancel(cs, by)
  PROVE  cancelledBy' \in [Fades -> Sets \union {"another", None}]
BY DEF Cancel, InnerTypes

\* A write.
LEMMA TypeWrite ==
  ASSUME CallTypes, MixerTypes, PendingInv, NEW x \in Issuers, pending[x] # "refresh", Write(x)
  PROVE  /\ level' \in [Targets -> Issuers \union {None}]
         /\ last' \in [Fades -> {"none", "step", "final"}]
BY DEF Write, CallTypes, MixerTypes, PendingInv

\* The callers.
LEMMA TypeCaller ==
  ASSUME TypeOK, NEW x \in Issuers, Caller(x)
  PROVE  TypeOK'
<1> USE TypeParts DEF vars, callVars, innerVars, lifeVars, mixerVars
<1>1. CASE Gate(x)
  <2>1. CallTypes'
    <3>1. CASE Return(x, "Failed")
      BY <3>1, TypeReturn
    <3>2. CASE phase' = [phase EXCEPT ![x] = "sending"]
               /\ UNCHANGED <<target, pending, result, left, unseen>>
      BY <3>2 DEF CallTypes, Phases
    <3> QED
      BY <1>1, <3>1, <3>2 DEF Gate
  <2> QED
    BY <1>1, <2>1 DEF Gate, InnerTypes, LifeTypes, MixerTypes
<1>2. CASE Send(x)
  <2>1. CallTypes'
    <3>1. CASE Return(x, "Failed")
      BY <3>1, TypeReturn
    <3>2. CASE phase' = [phase EXCEPT ![x] = "queued"]
               /\ UNCHANGED <<target, pending, result, left, unseen>>
      BY <3>2 DEF CallTypes, Phases
    <3> QED
      BY <1>2, <3>1, <3>2 DEF Send
  <2>2. commands' \in Seq(Issuers) /\ Len(commands') <= CommandCapacity
    <3>1. CASE commands' = commands
      BY <3>1 DEF LifeTypes
    <3>2. CASE Room /\ commands' = Append(commands, x)
      BY <3>2, FadesAssumption DEF LifeTypes, Room, FadesAssumption
    <3> QED
      BY <1>2, <3>1, <3>2 DEF Send
  <2> QED
    BY <1>2, <2>1, <2>2 DEF Send, InnerTypes, LifeTypes, MixerTypes
<1> QED
  BY <1>1, <1>2 DEF Caller

\* A fade.
LEMMA TypeFade ==
  ASSUME TypeOK, NEW f \in Fades, Fade(f)
  PROVE  TypeOK'
<1> USE TypeParts DEF vars, callVars, innerVars, lifeVars, mixerVars, Issuers
<1>1. CASE StartFade(f)
  <2>1. cancelledBy' \in [Fades -> Sets \union {"another", None}]
    BY <1>1, TypeCancel DEF StartFade
  <2>2. CallTypes' /\ fades' \in [Targets -> Fades \union {None}]
    BY <1>1 DEF StartFade, CallTypes, InnerTypes, Phases
  <2> QED
    BY <1>1, <2>1, <2>2 DEF StartFade, InnerTypes, LifeTypes, MixerTypes
<1>2. CASE Tick(f)
  <2>1. PICK tick \in Ticks(f) :
          /\ pending' = [pending EXCEPT ![f] = tick[1]]
          /\ left' = [left EXCEPT ![f] = tick[2]]
    BY <1>2 DEF Tick
  <2>2. left[f] \in Nat /\ left[f] <= MaxSteps /\ MaxSteps \in Nat
    BY FadesAssumption DEF CallTypes, FadesAssumption
  <2>3. tick[1] \in {"step", "final"} /\ tick[2] \in 0..MaxSteps
    <3>1. ASSUME NEW n \in 1..(left[f] - 1), tick = <<"step", n>>
          PROVE  tick[1] \in {"step", "final"} /\ tick[2] \in 0..MaxSteps
      BY <2>2, <3>1
    <3>2. ASSUME left[f] = 1, tick = <<"final", 1>>
          PROVE  tick[1] \in {"step", "final"} /\ tick[2] \in 0..MaxSteps
      BY <2>2, <3>2
    <3> QED
      BY <2>1, <3>1, <3>2 DEF Ticks
  <2>4. CallTypes'
    BY <1>2, <2>1, <2>3 DEF Tick, CallTypes, Phases
  <2> QED
    BY <1>2, <2>4 DEF Tick, InnerTypes, LifeTypes, MixerTypes
<1>3. CASE SeeCancel(f)
  <2>1. CallTypes'
    BY <1>3, TypeReturn DEF SeeCancel
  <2> QED
    BY <1>3, <2>1 DEF SeeCancel, InnerTypes, LifeTypes, MixerTypes
<1>4. CASE SeeState(f)
  <2>1. CallTypes'
    <3>1. CASE Return(f, "Failed")
      BY <3>1, TypeReturn
    <3>2. CASE unseen' = [unseen EXCEPT ![f] = FALSE]
               /\ UNCHANGED <<phase, target, pending, result, left>>
      BY <3>2 DEF CallTypes
    <3> QED
      BY <1>4, <3>1, <3>2 DEF SeeState
  <2> QED
    BY <1>4, <2>1 DEF SeeState, InnerTypes, LifeTypes, MixerTypes
<1>5. CASE Cleanup(f)
  <2>1. CallTypes' /\ fades' \in [Targets -> Fades \union {None}]
    BY <1>5 DEF Cleanup, CallTypes, InnerTypes, Phases
  <2> QED
    BY <1>5, <2>1 DEF Cleanup, InnerTypes, LifeTypes, MixerTypes
<1>6. CASE DropFade(f)
  <2>1. 0 \in 0..MaxSteps
    BY FadesAssumption DEF FadesAssumption
  <2>2. CallTypes'
    BY <1>6, <2>1 DEF DropFade, CallTypes, Phases
  <2> QED
    BY <1>6, <2>2 DEF DropFade, InnerTypes, LifeTypes, MixerTypes
<1> QED
  BY <1>1, <1>2, <1>3, <1>4, <1>5, <1>6 DEF Fade

\* Direct sets, cancel_fades and shutdown.
LEMMA TypeOthers ==
  ASSUME TypeOK, (\E d \in Sets : StartSet(d)) \/ CancelFades \/ SignalShutdown
  PROVE  TypeOK'
<1> USE TypeParts DEF vars, callVars, innerVars, lifeVars, mixerVars, Issuers
<1>1. ASSUME NEW d \in Sets, StartSet(d) PROVE TypeOK'
  <2>1. cancelledBy' \in [Fades -> Sets \union {"another", None}]
    BY <1>1, TypeCancel DEF StartSet
  <2>2. CallTypes' /\ fades' \in [Targets -> Fades \union {None}]
    BY <1>1 DEF StartSet, CallTypes, InnerTypes, Phases
  <2> QED
    BY <1>1, <2>1, <2>2 DEF StartSet, InnerTypes, LifeTypes, MixerTypes
<1>2. CASE CancelFades \/ SignalShutdown
  <2>1. cancelledBy' \in [Fades -> Sets \union {"another", None}]
    BY <1>2, TypeCancel DEF CancelFades, SignalShutdown
  <2>2. fades' \in [Targets -> Fades \union {None}]
    BY <1>2 DEF CancelFades, SignalShutdown
  <2>3. shutdown' \in BOOLEAN
    BY <1>2 DEF CancelFades, SignalShutdown, LifeTypes
  <2> QED
    BY <1>2, <2>1, <2>2, <2>3
       DEF CancelFades, SignalShutdown, InnerTypes, LifeTypes, MixerTypes, CallTypes
<1> QED
  BY <1>1, <1>2

\* The head of the channel, and what is left when it is taken.
LEMMA TakeHead ==
  ASSUME LifeTypes, commands # <<>>, commands' = Tail(commands)
  PROVE  /\ Served \in Issuers /\ Served = commands[1] /\ 1 \in DOMAIN commands
         /\ commands' \in Seq(Issuers) /\ Len(commands') <= CommandCapacity
         /\ \A i \in DOMAIN commands' : i + 1 \in DOMAIN commands /\ commands'[i] = commands[i + 1]
         /\ \A i \in DOMAIN commands' : i + 1 # 1 /\ i \in Nat
<1>1. /\ Head(commands) = commands[1] /\ Head(commands) \in Issuers
      /\ commands' \in Seq(Issuers) /\ Len(commands) \in Nat \ {0}
      /\ Len(commands') = Len(commands) - 1
      /\ \A i \in 1 .. Len(commands') : commands'[i] = commands[i + 1]
  BY HeadTailProperties, EmptySeq DEF LifeTypes
<1>2. DOMAIN commands = 1 .. Len(commands) /\ DOMAIN commands' = 1 .. Len(commands')
  BY <1>1 DEF LifeTypes
<1>3. Len(commands') <= CommandCapacity
  BY <1>1, FadesAssumption DEF LifeTypes, FadesAssumption
<1> QED
  BY <1>1, <1>2, <1>3 DEF Served

\* The task serves or rejects a command.
LEMMA TypeServe ==
  ASSUME TypeOK, PendingInv, Serve \/ Reject
  PROVE  TypeOK'
<1> USE TypeParts DEF innerVars, mixerVars
<1>1. commands # <<>> /\ commands' = Tail(commands)
  BY DEF Serve, Serving, ServeRefresh, ServeStep, ServeWrite, MutationFails, ResyncFails, Reject
<1>2. Served \in Issuers /\ commands' \in Seq(Issuers) /\ Len(commands') <= CommandCapacity
  BY <1>1, TakeHead
<1>3. \E ok \in BOOLEAN : Answered(Served, ok) \/ TargetAbsent(Served)
  BY DEF Serve, ServeRefresh, ServeStep, ServeWrite, MutationFails, ResyncFails, Reject
<1>4. CallTypes' /\ disturbed' \in [Fades -> BOOLEAN]
  BY <1>2, <1>3, TypeAnswered
<1>5. link' \in Links /\ UNCHANGED <<state, writable, shutdown, fades, cancelledBy>>
  BY DEF Serve, ServeRefresh, ServeStep, ServeWrite, MutationFails, ResyncFails, Reject,
     LifeTypes, Links
<1>6. (pending[Served] # "refresh" /\ Write(Served)) \/ UNCHANGED <<level, last>>
  BY DEF Serve, ServeRefresh, ServeStep, ServeWrite, MutationFails, ResyncFails, Reject
<1>7. level' \in [Targets -> Issuers \union {None}]
      /\ last' \in [Fades -> {"none", "step", "final"}]
  BY <1>2, <1>6, TypeWrite DEF MixerTypes
<1>8. target[Served] \in Targets
  BY <1>2 DEF CallTypes
<1>9. stale' \subseteq Targets
  BY <1>8
     DEF Serve, ServeRefresh, ServeStep, ServeWrite, MutationFails, ResyncFails, Reject, MixerTypes
<1> QED
  BY <1>2, <1>4, <1>5, <1>7, <1>9 DEF InnerTypes, LifeTypes, MixerTypes

\* The task does anything else.
LEMMA TypeTask ==
  ASSUME TypeOK, Task, ~Serve, ~Reject
  PROVE  TypeOK'
<1> USE TypeParts DEF callVars, innerVars, mixerVars
<1>0. ASSUME NEW s, transition(s) PROVE CallTypes'
  BY <1>0 DEF transition, CallTypes
<1>1. ASSUME NEW xs, Disturb(xs) PROVE disturbed' \in [Fades -> BOOLEAN]
  BY <1>1 DEF Disturb, MixerTypes
<1>2. CASE Notified \/ Reconnect
  BY <1>0, <1>1, <1>2 DEF Notified, Reconnect, transition, InnerTypes, LifeTypes, MixerTypes, Links
<1>3. CASE Synchronized \/ Retry \/ Connect \/ Stop
  BY <1>0, <1>3 DEF Synchronized, Retry, Connect, Stop, transition, InnerTypes, LifeTypes,
                    MixerTypes, Links, Connected
<1>4. CASE LoseConnection
  BY <1>4 DEF LoseConnection, CallTypes, InnerTypes, LifeTypes, MixerTypes, Links
<1>5. CASE Exit
  <2>1. 0 \in 0..MaxSteps
    BY FadesAssumption DEF FadesAssumption
  <2>2. /\ phase' \in [Issuers -> Phases] /\ result' \in [Issuers -> {"none", "Ok", "Failed"}]
        /\ left' \in [Fades -> 0..MaxSteps]
    BY <1>5, <2>1 DEF Exit, CallTypes, Phases
  <2>3. unseen' \in [Fades -> BOOLEAN]
    BY <1>5 DEF Exit, CallTypes
  <2>4. target' = target /\ pending' = pending
    BY <1>5 DEF Exit
  <2>5. CallTypes'
    BY <2>2, <2>3, <2>4 DEF CallTypes
  <2>6. commands' \in Seq(Issuers) /\ Len(commands') <= CommandCapacity
    BY <1>5, FadesAssumption, EmptySeq DEF Exit, FadesAssumption
  <2> QED
    BY <1>5, <2>5, <2>6 DEF Exit, InnerTypes, LifeTypes, MixerTypes, Links
<1> QED
  BY <1>2, <1>3, <1>4, <1>5 DEF Task

\* Every step keeps the types.
LEMMA TypeStep ==
  ASSUME TypeOK, PendingInv, [Next]_vars
  PROVE  TypeOK'
<1>1. CASE UNCHANGED vars
  BY <1>1 DEF vars, callVars, innerVars, lifeVars, mixerVars, TypeOK
<1> QED
  BY <1>1, TypeCaller, TypeFade, TypeOthers, TypeServe, TypeTask DEF Next, Ended

------------------------------------------------------------------------------
(* What a step does to a call.                                             *)

\* Where a call may go from where it is; it gets its result when it leaves.
Moves(x) ==
  \/ phase'[x] = phase[x] /\ result'[x] = result[x]
  \/ phase[x] = "idle" /\ phase'[x] = "gate" /\ result'[x] = result[x]
  \/ phase[x] \in Running /\ phase'[x] \in Running \union {"dropped"} /\ result'[x] = result[x]
  \/ phase[x] \in Running /\ phase'[x] \in {"leaving", "done"}
  \/ phase[x] = "leaving" /\ phase'[x] = "done" /\ result'[x] = result[x]

\* A command whose caller waits for it, or has gone.
Afloat(x) == phase[x] \in {"queued", "dropped"}

\* Such a command stays that until it is answered, or the channel is gone.
Floats(x) ==
  Afloat(x) => \/ Afloat(x)' \/ commands' = <<>>
               \/ commands # <<>> /\ x = Served /\ commands' = Tail(commands)

\* A return is a move of the call that returns, and of no other.
LEMMA ReturnMoves ==
  ASSUME CallTypes, NEW y \in Issuers, NEW r, Return(y, r), NEW x \in Issuers
  PROVE  /\ x # y => phase'[x] = phase[x] /\ result'[x] = result[x]
         /\ phase[y] \in Running => Moves(x)
         /\ phase'[y] \in {"leaving", "done"} /\ result'[y] = r
BY DEF Return, Moves, CallTypes

\* So is an answer.
LEMMA AnsweredMoves ==
  ASSUME CallTypes, NEW y \in Issuers, NEW ok, Answered(y, ok) \/ TargetAbsent(y), NEW x \in Issuers
  PROVE  Moves(x) /\ (x # y => phase'[x] = phase[x] /\ result'[x] = result[x])
<1>1. CASE UNCHANGED <<callVars, disturbed>>
  BY <1>1 DEF callVars, Moves
<1>2. CASE phase[y] = "queued" /\ (Return(y, "Failed") \/ Return(y, "Ok"))
  BY <1>2, ReturnMoves DEF Running
<1>3. CASE /\ phase[y] = "queued" /\ result' = result
           /\ \E p \in {"gate", "waiting"} : phase' = [phase EXCEPT ![y] = p]
  BY <1>3 DEF Moves, Running, CallTypes
<1> QED
  BY <1>1, <1>2, <1>3 DEF Answered, ReplyFailed, TargetAbsent

\* And every step.
LEMMA StepMoves ==
  ASSUME TypeOK, [Next]_vars, NEW x \in Issuers
  PROVE  Moves(x) /\ Floats(x) /\ target' = target
<1> USE TypeParts DEF Issuers
<1>1. CASE UNCHANGED vars
  BY <1>1 DEF vars, callVars, Moves, Floats, Afloat
<1>2. ASSUME NEW y \in Issuers, Caller(y) PROVE Moves(x) /\ Floats(x) /\ target' = target
  <2>1. CASE Return(y, "Failed") /\ phase[y] \in {"gate", "sending"}
    BY <2>1, ReturnMoves DEF Running, Floats, Afloat, Return
  <2>2. CASE /\ UNCHANGED <<target, pending, result, left, unseen>>
             /\ phase[y] \in {"gate", "sending"}
             /\ \E p \in {"sending", "queued"} : phase' = [phase EXCEPT ![y] = p]
    BY <2>2 DEF Running, Moves, Floats, Afloat, CallTypes
  <2> QED
    BY <1>2, <2>1, <2>2 DEF Caller, Gate, Send
<1>3. ASSUME NEW f \in Fades, Fade(f) PROVE Moves(x) /\ Floats(x) /\ target' = target
  <2>1. CASE Return(f, "Failed") /\ phase[f] = "waiting"
    BY <2>1, ReturnMoves DEF Running, Floats, Afloat, Return
  <2>2. CASE StartFade(f) \/ Cleanup(f) \/ Tick(f)
    BY <2>2 DEF StartFade, Cleanup, Tick, Moves, Floats, Afloat, CallTypes, Running
  <2>3. CASE DropFade(f)
    BY <2>3 DEF DropFade, Moves, Floats, Afloat, CallTypes, Running
  <2>4. CASE UNCHANGED <<phase, target, pending, result, left>>
    BY <2>4 DEF Moves, Floats, Afloat
  <2> QED
    BY <1>3, <2>1, <2>2, <2>3, <2>4 DEF Fade, SeeCancel, SeeState
<1>4. CASE (\E d \in Sets : StartSet(d)) \/ CancelFades \/ SignalShutdown
  BY <1>4 DEF StartSet, CancelFades, SignalShutdown, callVars, Moves, Floats, Afloat, CallTypes
<1>5. CASE Serve \/ Reject
  <2>1. commands # <<>> /\ commands' = Tail(commands)
    BY <1>5
       DEF Serve, Serving, ServeRefresh, ServeStep, ServeWrite, MutationFails, ResyncFails, Reject
  <2>2. PICK ok \in BOOLEAN : Answered(Served, ok) \/ TargetAbsent(Served)
    BY <1>5 DEF Serve, ServeRefresh, ServeStep, ServeWrite, MutationFails, ResyncFails, Reject
  <2>3. Served \in Issuers
    BY <2>1, TakeHead
  <2>4. Moves(x) /\ (x # Served => phase'[x] = phase[x])
    BY <2>2, <2>3, AnsweredMoves
  <2>5. target' = target
    BY <2>2 DEF Answered, ReplyFailed, TargetAbsent, Return, callVars
  <2> QED
    BY <2>1, <2>4, <2>5 DEF Floats, Afloat
<1>6. CASE Exit
  BY <1>6 DEF Exit, Moves, Floats, Running, CallTypes
<1>7. CASE Task /\ ~Serve /\ ~Reject /\ ~Exit
  BY <1>7
     DEF Task, Notified, Synchronized, LoseConnection, Reconnect, Retry, Connect, Stop,
         transition, callVars, Moves, Floats, Afloat
<1> QED
  BY <1>1, <1>2, <1>3, <1>4, <1>5, <1>6, <1>7 DEF Next, Ended

\* The mixer is written by the command that is served, in a session.
LEMMA WriteEffect ==
  ASSUME TypeOK, PendingInv, [Next]_vars
  PROVE  \/ UNCHANGED <<level, last>>
         \/ /\ link = "up" /\ UNCHANGED <<state, shutdown>> /\ Served \in Issuers
            /\ commands # <<>> /\ Served = commands[1] /\ 1 \in DOMAIN commands
            /\ commands' = Tail(commands) /\ pending[Served] # "refresh" /\ Write(Served)
<1>1. CASE Serve
  <2>1. commands # <<>> /\ commands' = Tail(commands) /\ link = "up"
        /\ UNCHANGED <<state, shutdown>>
    BY <1>1 DEF Serve, Serving, ServeRefresh, ServeStep, ServeWrite, MutationFails, ResyncFails
  <2>2. UNCHANGED <<level, last>> \/ (pending[Served] # "refresh" /\ Write(Served))
    BY <1>1 DEF Serve, ServeRefresh, ServeStep, ServeWrite, MutationFails, ResyncFails
  <2> QED
    BY <2>1, <2>2, TakeHead, TypeParts
<1>2. CASE ~Serve
  BY <1>2
     DEF Next, Caller, Gate, Send, Fade, StartFade, Tick, SeeCancel, SeeState, Cleanup, DropFade,
         StartSet, CancelFades, SignalShutdown, Task, Notified, Synchronized, LoseConnection,
         Reconnect, Retry, Reject,
         Connect, Stop, Exit, Ended, vars, mixerVars
<1> QED
  BY <1>1, <1>2

\* What was said stays said.
LEMMA Monotone ==
  ASSUME TypeOK, [Next]_vars, NEW f \in Fades
  PROVE  /\ disturbed[f] => disturbed'[f]
         /\ shutdown => shutdown'
         /\ cancelledBy[f] # None => cancelledBy'[f] # None
<1>1. ASSUME NEW xs, Disturb(xs) PROVE disturbed[f] => disturbed'[f]
  BY <1>1 DEF Disturb
<1>2. ASSUME NEW cs, NEW by, Cancel(cs, by) PROVE cancelledBy[f] # None => cancelledBy'[f] # None
  BY <1>2 DEF Cancel
<1>3. ASSUME NEW y, NEW ok, Answered(y, ok) \/ TargetAbsent(y)
      PROVE  disturbed[f] => disturbed'[f]
  BY <1>1, <1>3 DEF Answered, TargetAbsent
<1>4. disturbed[f] => disturbed'[f]
  BY <1>1, <1>3
     DEF Next, Caller, Gate, Send, Fade, StartFade, Tick, SeeCancel, SeeState, Cleanup, DropFade,
         StartSet, CancelFades, SignalShutdown, Task, Serve, ServeRefresh, ServeStep, ServeWrite,
         MutationFails, ResyncFails, Notified, Synchronized, LoseConnection,
         Reconnect, Retry, Reject,
         Connect, Stop, Exit, Ended, vars
<1>5. shutdown => shutdown'
  BY DEF Next, Caller, Gate, Send, Fade, StartFade, Tick, SeeCancel, SeeState, Cleanup, DropFade,
         StartSet, CancelFades, SignalShutdown, Task, Serve, ServeRefresh, ServeStep, ServeWrite,
         MutationFails, ResyncFails, Notified, Synchronized, LoseConnection,
         Reconnect, Retry, Reject,
         Connect, Stop, Exit, Ended, vars, lifeVars
<1>6. cancelledBy[f] # None => cancelledBy'[f] # None
  BY <1>2
     DEF Next, Caller, Gate, Send, Fade, StartFade, Tick, SeeCancel, SeeState, Cleanup, DropFade,
         StartSet, CancelFades, SignalShutdown, Task, Serve, ServeRefresh, ServeStep, ServeWrite,
         MutationFails, ResyncFails, Notified, Synchronized, LoseConnection,
         Reconnect, Retry, Reject,
         Connect, Stop, Exit, Ended, vars, innerVars
<1> QED
  BY <1>4, <1>5, <1>6

------------------------------------------------------------------------------
(* Each part of the invariant.                                             *)

\* No fade sends a set.
LEMMA PendingStep ==
  ASSUME TypeOK, PendingInv, [Next]_vars
  PROVE  PendingInv'
<1> USE TypeParts DEF PendingInv, Issuers
<1>0. \A d \in Sets : d \notin Fades
  BY FadesAssumption DEF FadesAssumption
<1>1. CASE pending' = pending
  BY <1>1
<1>2. ASSUME NEW f \in Fades, NEW p \in {"step", "final"}, pending' = [pending EXCEPT ![f] = p]
      PROVE  PendingInv'
  BY <1>0, <1>2 DEF CallTypes
<1>3. ASSUME NEW x \in Issuers, NEW ok, Answered(x, ok) \/ TargetAbsent(x) PROVE PendingInv'
  <2>1. CASE pending[x] = "refresh" /\ pending' = [pending EXCEPT ![x] = "final"]
    BY <1>2, <2>1
  <2> QED
    BY <1>1, <1>3, <2>1 DEF Answered, ReplyFailed, TargetAbsent, Return, callVars
<1>4. CASE Serve \/ Reject
  <2>1. commands # <<>> /\ commands' = Tail(commands)
    BY <1>4
       DEF Serve, Serving, ServeRefresh, ServeStep, ServeWrite, MutationFails, ResyncFails, Reject
  <2> QED
    BY <1>3, <1>4, <2>1, TakeHead
       DEF Serve, ServeRefresh, ServeStep, ServeWrite, MutationFails, ResyncFails, Reject
<1>5. ASSUME NEW f \in Fades, Tick(f) PROVE PendingInv'
  <2>1. PICK tick \in Ticks(f) : pending' = [pending EXCEPT ![f] = tick[1]]
    BY <1>5 DEF Tick
  <2>2. tick[1] \in {"step", "final"}
    BY <2>1 DEF Ticks
  <2> QED
    BY <1>2, <2>1, <2>2
<1>6. CASE ~Serve /\ ~Reject /\ ~(\E f \in Fades : Tick(f)) /\ Next
  BY <1>1, <1>6
     DEF Next, Caller, Gate, Send, Fade, StartFade, SeeCancel, SeeState, Cleanup, DropFade,
         StartSet, CancelFades, SignalShutdown, Task, Notified, Synchronized, LoseConnection,
         Reconnect, Retry, Connect, Stop, Exit, Ended, vars, callVars, Return, transition
<1> QED
  BY <1>1, <1>4, <1>5, <1>6 DEF vars, callVars

\* What is in the channel changes at its ends.
LEMMA ChannelEffect ==
  ASSUME TypeOK, [Next]_vars
  PROVE  \/ commands' = commands \/ commands' = <<>>
         \/ commands # <<>> /\ commands' = Tail(commands)
         \/ \E x \in Issuers : /\ phase[x] = "sending" /\ phase'[x] = "queued"
                               /\ commands' = Append(commands, x)
BY DEF TypeOK, Next, Caller, Gate, Send, Fade, StartFade, Tick, SeeCancel, SeeState, Cleanup,
       DropFade, StartSet, CancelFades, SignalShutdown, Task, Serve, Serving, ServeRefresh,
       ServeStep, ServeWrite, MutationFails, ResyncFails, Notified, Synchronized,
       LoseConnection, Reconnect, Retry, Reject,
         Connect, Stop, Exit, Ended, vars, lifeVars

\* Nothing is in the channel for a caller that has returned.
LEMMA ChannelStep ==
  ASSUME TypeOK, TypeOK', ChannelInv, [Next]_vars
  PROVE  ChannelInv'
<1> USE TypeParts DEF ChannelInv
<1>1. \A i \in DOMAIN commands : commands[i] \in Issuers /\ Afloat(commands[i])
  BY ElementOfSeq DEF LifeTypes, Afloat
<1>2. CASE commands' = <<>>
  BY <1>2
<1>3. CASE commands # <<>> /\ commands' = Tail(commands)
  <2>1. ASSUME NEW i \in DOMAIN commands', NEW j \in DOMAIN commands', commands'[i] = commands'[j]
        PROVE  i = j
    <3>1. i + 1 = j + 1
      BY <1>3, <2>1, TakeHead
    <3> QED
      BY <1>3, <3>1, TakeHead
  <2>2. ASSUME NEW i \in DOMAIN commands' PROVE phase'[commands'[i]] \in {"queued", "dropped"}
    <3>1. commands'[i] \in Issuers /\ commands'[i] # Served /\ Afloat(commands'[i])
      BY <1>1, <1>3, TakeHead
    <3>2. commands' # <<>>
      BY <2>2
    <3>3. \A x \in Issuers : x = commands'[i] => Afloat(x)'
      BY <3>1, <3>2, StepMoves DEF Floats
    <3> QED
      BY <3>1, <3>3 DEF Afloat
  <2> QED
    BY <2>1, <2>2
<1>4. CASE commands' = commands \/ \E x \in Issuers : /\ phase[x] = "sending" /\ phase'[x] = "queued"
                                                      /\ commands' = Append(commands, x)
  <2>1. commands' # <<>> => ~(commands # <<>> /\ commands' = Tail(commands))
    BY <1>4 DEF LifeTypes
  <2>2. ASSUME NEW i \in DOMAIN commands
        PROVE  phase'[commands[i]] \in {"queued", "dropped"} /\ phase[commands[i]] # "sending"
    <3>1. commands' # <<>>
      BY <1>4, <2>2 DEF LifeTypes
    <3>2. \A x \in Issuers : x = commands[i] => Afloat(x)'
      BY <1>1, <2>1, <3>1, StepMoves DEF Floats
    <3> QED
      BY <1>1, <3>2 DEF Afloat
  <2>3. CASE commands' = commands
    BY <2>2, <2>3
  <2>4. ASSUME NEW x \in Issuers, phase[x] = "sending", phase'[x] = "queued",
               commands' = Append(commands, x)
        PROVE  ChannelInv'
    <3>1. /\ \A i \in DOMAIN commands' : i \in DOMAIN commands \/ i = Len(commands) + 1
          /\ \A i \in DOMAIN commands : commands'[i] = commands[i] /\ i # Len(commands) + 1
          /\ commands'[Len(commands) + 1] = x
      BY <2>4 DEF LifeTypes
    <3>2. ASSUME NEW i \in DOMAIN commands', NEW j \in DOMAIN commands', commands'[i] = commands'[j]
          PROVE  i = j
      BY <2>2, <2>4, <3>1, <3>2
    <3>3. \A i \in DOMAIN commands' : phase'[commands'[i]] \in {"queued", "dropped"}
      BY <2>2, <2>4, <3>1
    <3> QED
      BY <3>2, <3>3
  <2> QED
    BY <1>4, <2>3, <2>4
<1> QED
  BY <1>2, <1>3, <1>4, ChannelEffect

\* Whoever writes is still waiting, or gone without a result.
LEMMA WriterAfloat ==
  ASSUME TypeOK, PendingInv, ChannelInv, [Next]_vars
  PROVE  \/ UNCHANGED <<level, last>>
         \/ /\ link = "up" /\ UNCHANGED <<state, shutdown>> /\ Served \in Issuers
            /\ Afloat(Served) /\ pending[Served] # "refresh" /\ Write(Served)
            /\ \A f \in Fades : last'[f] # last[f] => f = Served
            /\ \A t \in Targets : level'[t] # level[t] => level'[t] = Served
<1>1. ASSUME Write(Served)
      PROVE  /\ \A f \in Fades : last'[f] # last[f] => f = Served
             /\ \A t \in Targets : level'[t] # level[t] => level'[t] = Served
  BY <1>1 DEF Write, TypeOK
<1> QED
  BY <1>1, WriteEffect DEF ChannelInv, Afloat

\* A result comes with the end of a call, and the first write after its beginning.
LEMMA ResultStep ==
  ASSUME TypeOK, PendingInv, ChannelInv, ResultInv, [Next]_vars
  PROVE  ResultInv'
<1>1. ASSUME NEW x \in Issuers, result'[x] # "none" PROVE phase'[x] \in {"leaving", "done"}
  <2>1. Moves(x)
    BY StepMoves
  <2> QED
    BY <1>1, <2>1 DEF ResultInv, Moves, Running
<1>2. ASSUME NEW f \in Fades, phase'[f] = "idle" PROVE last'[f] = "none"
  <2>1. phase[f] = "idle" /\ last[f] = "none"
    BY <1>2, StepMoves DEF Moves, Running, ResultInv, Issuers
  <2> QED
    BY <2>1, WriterAfloat DEF Afloat
<1> QED
  BY <1>1, <1>2 DEF ResultInv

\* The state follows the task.
LEMMA LinkStep ==
  ASSUME TypeOK, LinkInv, [Next]_vars
  PROVE  LinkInv'
<1>1. CASE Synchronized \/ Connect
  BY <1>1 DEF Synchronized, Connect, transition, LinkInv, TypeOK, Connected
<1>2. CASE Notified \/ Reconnect \/ Retry
  BY <1>2 DEF Notified, Reconnect, Retry, transition, LinkInv, TypeOK, Connected
<1>3. CASE LoseConnection \/ Stop \/ Exit
  BY <1>3 DEF LoseConnection, Stop, Exit, transition, LinkInv, TypeOK, Connected
<1>4. CASE ResyncFails
  BY <1>4 DEF ResyncFails, Serving, LinkInv, TypeOK, Connected
<1>5. CASE UNCHANGED <<link, state, writable>> /\ (shutdown => shutdown')
  BY <1>5 DEF LinkInv
<1>6. \/ Synchronized \/ Connect \/ Notified \/ Reconnect \/ Retry
      \/ LoseConnection \/ Stop \/ Exit \/ ResyncFails
      \/ UNCHANGED <<link, state, writable>> /\ (shutdown => shutdown')
  BY DEF Next, Caller, Gate, Send, Fade, StartFade, Tick, SeeCancel, SeeState, Cleanup, DropFade,
         StartSet, CancelFades, SignalShutdown, Task, Serve, ServeRefresh, ServeStep, ServeWrite,
         MutationFails, Reject, Ended, vars, lifeVars
<1> QED
  BY <1>1, <1>2, <1>3, <1>4, <1>5, <1>6

\* No session ends without the knowledge of a fade that runs.
LEMMA SessionEnds ==
  ASSUME TypeOK, LinkInv, [Next]_vars, NEW f \in Fades, phase[f] \in Running, SessionGoesOn
  PROVE  disturbed'[f] \/ shutdown' \/ SessionGoesOn'
<1> USE DEF SessionGoesOn
<1>1. CASE Reconnect
  BY <1>1 DEF Reconnect, Disturb
<1>2. CASE Stop
  BY <1>2 DEF Stop
<1>3. CASE Notified \/ Synchronized
  BY <1>3 DEF Notified, Synchronized, transition
<1>4. ~Connect /\ ~Retry
  BY DEF Connect, Retry, LinkInv
<1> QED
  BY <1>1, <1>2, <1>3, <1>4
     DEF Next, Caller, Gate, Send, Fade, StartFade, Tick, SeeCancel, SeeState, Cleanup, DropFade,
         StartSet, CancelFades, SignalShutdown, Task, Serve, ServeRefresh, ServeStep, ServeWrite,
         MutationFails, ResyncFails, LoseConnection, Reject, Exit, Ended, vars, lifeVars, transition

\* A fade writes in a session, and what ends that session comes across it.
LEMMA CauseStep ==
  ASSUME TypeOK, PendingInv, ChannelInv, ResultInv, LinkInv, CauseInv, [Next]_vars
  PROVE  CauseInv'
<1> SUFFICES ASSUME NEW f \in Fades, phase'[f] \in Running, last'[f] = "step"
             PROVE  disturbed'[f] \/ shutdown' \/ SessionGoesOn'
  BY DEF CauseInv
<1>1. CASE last'[f] # last[f]
  <2>1. Write(Served) /\ link = "up" /\ UNCHANGED state
    BY <1>1, WriterAfloat
  <2>2. SessionGoesOn
    BY <2>1 DEF Write, LinkInv, SessionGoesOn
  <2>3. phase[f] \in Running
    BY <1>1, StepMoves, WriterAfloat DEF Moves, Running, Issuers, Afloat
  <2> QED
    BY <2>2, <2>3, SessionEnds
<1>2. CASE last'[f] = last[f]
  <2>1. phase[f] # "idle"
    BY <1>2 DEF ResultInv
  <2>2. phase[f] \in Running
    BY <2>1, StepMoves DEF Moves, Running, Issuers
  <2> QED
    BY <1>2, <2>2, SessionEnds, Monotone DEF CauseInv
<1> QED
  BY <1>1, <1>2

\* What happens to the registry and the cancel watches.
LEMMA RegistryEffect ==
  ASSUME TypeOK, [Next]_vars
  PROVE  \/ UNCHANGED <<fades, cancelledBy>>
         \/ \E f \in Fades : StartFade(f) \/ Cleanup(f)
         \/ \E d \in Sets : StartSet(d)
         \/ /\ UNCHANGED phase /\ fades' = [t \in Targets |-> None]
            /\ Cancel(UNION {Registered(t) : t \in Targets}, "another")
BY DEF Next, Caller, Gate, Send, Fade, Tick, SeeCancel, SeeState, DropFade,
       CancelFades, SignalShutdown, Task, Serve, ServeRefresh, ServeStep, ServeWrite,
       MutationFails, ResyncFails, Notified, Synchronized, LoseConnection, Reconnect, Retry, Reject,
         Connect, Stop, Exit, Ended, vars, innerVars, callVars

\* A fade that was not told to stop stays registered until it is.
LEMMA RegisteredStep ==
  ASSUME TypeOK, RunningIsRegistered, [Next]_vars
  PROVE  RunningIsRegistered'
<1> USE TypeParts DEF Issuers
<1>0. /\ "another" # None /\ \A d \in Sets : d # None
      /\ \A f \in Fades : f # None /\ f \notin Sets
  BY FadesAssumption DEF FadesAssumption
<1> SUFFICES ASSUME NEW f \in Fades, phase'[f] \in Running, cancelledBy'[f] = None
             PROVE  fades'[target[f]] = f
  BY StepMoves DEF RunningIsRegistered
<1>1. cancelledBy[f] = None
  BY Monotone
<1>2. target[f] \in Targets
  BY DEF CallTypes
<1>3. phase[f] \in Running => fades[target[f]] = f
  BY <1>1 DEF RunningIsRegistered
<1>4. phase[f] \in Running \/ (phase[f] = "idle" /\ phase'[f] # phase[f])
  BY StepMoves DEF Moves, Running
<1>5. ASSUME NEW g \in Fades, StartFade(g) PROVE fades'[target[f]] = f
  <2>1. CASE f = g
    BY <1>2, <1>5, <2>1 DEF StartFade, InnerTypes
  <2>2. CASE f # g
    <3>1. phase[f] \in Running /\ fades[target[f]] = f
      BY <1>3, <1>4, <1>5, <2>2 DEF StartFade, CallTypes
    <3>2. target[f] # target[g]
      BY <1>0, <1>5, <3>1 DEF StartFade, Cancel, Registered, InnerTypes
    <3> QED
      BY <1>2, <1>5, <3>1, <3>2 DEF StartFade, InnerTypes
  <2> QED
    BY <2>1, <2>2
<1>6. ASSUME NEW d \in Sets, StartSet(d) PROVE fades'[target[f]] = f
  <2>1. phase[f] \in Running /\ fades[target[f]] = f
    BY <1>0, <1>3, <1>4, <1>6 DEF StartSet, CallTypes
  <2>2. target[f] # target[d]
    BY <1>0, <1>6, <2>1 DEF StartSet, Cancel, Registered, InnerTypes
  <2> QED
    BY <1>2, <1>6, <2>1, <2>2 DEF StartSet, InnerTypes
<1>7. ASSUME NEW g \in Fades, Cleanup(g) PROVE fades'[target[f]] = f
  <2>1. f # g /\ phase[f] \in Running /\ fades[target[f]] = f
    BY <1>3, <1>4, <1>7 DEF Cleanup, CallTypes, Running
  <2> QED
    BY <1>2, <1>7, <2>1 DEF Cleanup, InnerTypes
<1>8. CASE UNCHANGED phase /\ Cancel(UNION {Registered(t) : t \in Targets}, "another")
  <2>1. phase[f] \in Running /\ fades[target[f]] = f
    BY <1>3, <1>4, <1>8
  <2>2. f \in UNION {Registered(t) : t \in Targets}
    BY <1>0, <1>2, <2>1 DEF Registered
  <2> QED
    BY <1>0, <1>1, <1>8, <2>2 DEF Cancel
<1>9. CASE UNCHANGED <<fades, cancelledBy>> /\ ~(\E g \in Fades : StartFade(g))
  <2>1. phase[f] = "idle" => phase'[f] = phase[f]
    <3>1. ASSUME NEW d \in Sets, StartSet(d) PROVE phase'[f] = phase[f]
      BY <1>0, <3>1 DEF StartSet, CallTypes
    <3>2. ASSUME NEW y \in Issuers, NEW ok \in BOOLEAN, Answered(y, ok) \/ TargetAbsent(y),
                 phase[f] = "idle"
          PROVE  phase'[f] = phase[f]
      BY <3>2, AnsweredMoves DEF Answered, ReplyFailed, TargetAbsent, callVars
    <3>3. CASE Serve \/ Reject
      <4>1. commands # <<>> /\ commands' = Tail(commands)
        BY <3>3
           DEF Serve, Serving, ServeRefresh, ServeStep, ServeWrite, MutationFails, ResyncFails,
               Reject
      <4>2. Served \in Issuers
        BY <4>1, TakeHead
      <4> QED
        BY <3>2, <3>3, <4>2
           DEF Serve, ServeRefresh, ServeStep, ServeWrite, MutationFails, ResyncFails, Reject
    <3>4. ASSUME NEW y \in Issuers, Caller(y), phase[f] = "idle" PROVE phase'[f] = phase[f]
      BY <3>4, ReturnMoves DEF Caller, Gate, Send, CallTypes
    <3>5. ASSUME NEW g \in Fades, Fade(g), phase[f] = "idle" PROVE phase'[f] = phase[f]
      BY <1>9, <3>5, ReturnMoves
         DEF Fade, Tick, SeeCancel, SeeState, Cleanup, DropFade, CallTypes, Running
    <3>6. CASE Task /\ ~Serve /\ ~Reject
      BY <3>6 DEF Task, Notified, Synchronized, LoseConnection, Reconnect, Retry, Connect,
                  Stop, Exit, transition, callVars, CallTypes
    <3> QED
      BY <3>1, <3>3, <3>4, <3>5, <3>6
         DEF Next, Ended, vars, callVars, CancelFades, SignalShutdown
  <2> QED
    BY <1>3, <1>4, <1>9, <2>1
<1> QED
  BY <1>5, <1>6, <1>7, <1>8, <1>9, RegistryEffect

\* A result that changes is that of a call that runs, and no write of its own follows.
LEMMA ResultStands ==
  ASSUME TypeOK, PendingInv, ChannelInv, ResultInv, [Next]_vars, NEW f \in Fades, result[f] # "none"
  PROVE  result'[f] = result[f] /\ last'[f] = last[f]
<1>1. phase[f] \in {"leaving", "done"}
  BY DEF ResultInv, Issuers
<1>2. result'[f] = result[f]
  BY <1>1, StepMoves DEF Moves, Running, Issuers
<1>3. last'[f] = last[f]
  BY <1>1, WriterAfloat DEF Afloat
<1> QED
  BY <1>2, <1>3

\* An answer that brings a result.
LEMMA AnsweredEnds ==
  ASSUME TypeOK, NEW x \in Issuers, NEW ok \in BOOLEAN, Answered(x, ok) \/ TargetAbsent(x),
         NEW f \in Fades, result'[f] # result[f]
  PROVE  \/ result'[f] = "Failed" /\ disturbed'[f]
         \/ f = x /\ result'[f] = "Ok" /\ ok /\ pending[f] \in {"final", "set"}
<1> USE TypeParts DEF Issuers
<1>1. ASSUME NEW r, Return(x, r) PROVE x = f /\ result'[f] = r
  BY <1>1 DEF Return, CallTypes
<1>2. CASE Return(x, "Failed") /\ Disturb({x})
  BY <1>1, <1>2 DEF Disturb
<1>3. CASE ok /\ pending[x] \in {"final", "set"} /\ Return(x, "Ok")
  BY <1>1, <1>3
<1> QED
  BY <1>2, <1>3 DEF Answered, ReplyFailed, TargetAbsent, callVars

\* How a call comes to its result.
LEMMA HowItEnds ==
  ASSUME TypeOK, PendingInv, ChannelInv, LinkInv, [Next]_vars,
         NEW f \in Fades, result'[f] # result[f]
  PROVE  \/ result'[f] = "Ok" /\ ServeWrite /\ f = Served /\ pending[f] = "final"
         \/ /\ result'[f] = "Failed"
            /\ \/ disturbed'[f] \/ cancelledBy[f] # None \/ shutdown
               \/ state # "Ready" /\ phase[f] \in Running /\ last'[f] = last[f]
<1> USE TypeParts DEF Issuers
<1>1. Next /\ ~UNCHANGED callVars
  BY DEF vars, callVars
<1>7. link \in {"ending", "ended"} => shutdown
  BY DEF LinkInv
<1>2. ASSUME NEW x \in Issuers, NEW r, Return(x, r) PROVE x = f /\ result'[f] = r
  BY <1>2 DEF Return, CallTypes
<1>3. ASSUME NEW x \in Issuers, Caller(x)
      PROVE  /\ result'[f] = "Failed" /\ phase[f] \in Running
             /\ (state # "Ready" /\ last' = last) \/ link = "ended"
  BY <1>2, <1>3 DEF Caller, Gate, Admits, Send, Running, mixerVars
<1>4. ASSUME NEW g \in Fades, Fade(g)
      PROVE  /\ result'[f] = "Failed" /\ phase[f] \in Running
             /\ (state # "Ready" /\ last' = last) \/ cancelledBy[f] # None
  BY <1>2, <1>4
     DEF Fade, StartFade, Tick, SeeCancel, SeeState, Cleanup, DropFade, Running, mixerVars
<1>5. CASE Serve \/ Reject
  <2>1. commands # <<>> /\ commands' = Tail(commands)
    BY <1>5
       DEF Serve, Serving, ServeRefresh, ServeStep, ServeWrite, MutationFails, ResyncFails, Reject
  <2>2. Served \in Issuers
    BY <2>1, TakeHead
  <2>3. CASE ServeWrite
    BY <2>2, <2>3, AnsweredEnds DEF ServeWrite, PendingInv
  <2>4. CASE ServeRefresh \/ ServeStep
    BY <2>2, <2>4, AnsweredEnds DEF ServeRefresh, ServeStep
  <2>5. CASE MutationFails \/ ResyncFails \/ Reject
    BY <2>2, <2>5, AnsweredEnds DEF MutationFails, ResyncFails, Reject
  <2> QED
    BY <1>5, <2>3, <2>4, <2>5 DEF Serve
<1>6. CASE Exit
  BY <1>6, <1>7 DEF Exit, CallTypes
<1>8. CASE (\E d \in Sets : StartSet(d)) \/ (Task /\ ~Serve /\ ~Reject /\ ~Exit)
  BY <1>8 DEF StartSet, Task, Notified, Synchronized, LoseConnection, Reconnect, Retry, Connect,
              Stop, transition, callVars
<1>9. ~CancelFades /\ ~SignalShutdown /\ ~Ended
  BY <1>1 DEF CancelFades, SignalShutdown, Ended, vars
<1> QED
  BY <1>1, <1>3, <1>4, <1>5, <1>6, <1>7, <1>8, <1>9 DEF Next

\* Success is the success of the endpoint.
LEMMA EndpointStep ==
  ASSUME TypeOK, TypeOK', PendingInv, ChannelInv, ResultInv, LinkInv, EndpointIsLast, [Next]_vars
  PROVE  EndpointIsLast'
<1> SUFFICES ASSUME NEW f \in Fades, result'[f] = "Ok" PROVE last'[f] = "final"
  BY DEF EndpointIsLast
<1>1. CASE result[f] # "none"
  BY <1>1, ResultStands DEF EndpointIsLast
<1>2. CASE result[f] = "none"
  <2>1. ServeWrite /\ f = Served /\ pending[f] = "final"
    BY <1>2, HowItEnds
  <2> QED
    BY <2>1 DEF ServeWrite, Write
<1> QED
  BY <1>1, <1>2

\* Only the steps of a fade are not shown.
LEMMA UnseenStep ==
  ASSUME TypeOK, PendingInv, ChannelInv, OnlyStepsAreUnseen, [Next]_vars
  PROVE  OnlyStepsAreUnseen'
<1> USE TypeParts DEF Issuers
<1>1. CASE link' # "up" \/ stale' = {}
  BY <1>1 DEF OnlyStepsAreUnseen
<1>2. CASE ServeStep
  <2>1. commands # <<>> /\ commands' = Tail(commands)
    BY <1>2 DEF ServeStep, Serving
  <2>2. Served \in Fades /\ link = "up" /\ pending[Served] = "step" /\ target[Served] \in Targets
    BY <1>2, <2>1, TakeHead DEF ServeStep, Serving, PendingInv, CallTypes
  <2>3. level'[target[Served]] = Served /\ \A f \in Fades : f = Served => last'[f] = "step"
    BY <1>2, <2>2 DEF ServeStep, Write, MixerTypes
  <2>4. \A t \in Targets : t # target[Served] => level'[t] = level[t]
    BY <1>2 DEF ServeStep, Write, MixerTypes
  <2>5. \A f \in Fades : last[f] = "step" => last'[f] = "step"
    BY <1>2, <2>2 DEF ServeStep, Write, MixerTypes
  <2>6. ASSUME NEW t \in stale' PROVE level'[t] \in Fades /\ last'[level'[t]] = "step"
    <3>1. CASE t = target[Served]
      BY <2>2, <2>3, <3>1
    <3>2. CASE t # target[Served]
      <4>1. t \in stale /\ t \in Targets
        BY <1>2, <2>6, <3>2 DEF ServeStep, MixerTypes
      <4>2. level[t] \in Fades /\ last[level[t]] = "step"
        BY <2>2, <4>1 DEF OnlyStepsAreUnseen
      <4> QED
        BY <2>4, <2>5, <3>2, <4>1, <4>2
    <3> QED
      BY <3>1, <3>2
  <2> QED
    BY <2>6 DEF OnlyStepsAreUnseen
<1>3. CASE UNCHANGED <<link, level, stale, last>>
  BY <1>3 DEF OnlyStepsAreUnseen
<1> QED
  BY <1>1, <1>2, <1>3
     DEF Next, Caller, Gate, Send, Fade, StartFade, Tick, SeeCancel, SeeState, Cleanup, DropFade,
         StartSet, CancelFades, SignalShutdown, Task, Serve, ServeRefresh, ServeWrite,
         MutationFails, ResyncFails, Notified, Synchronized, LoseConnection, Reconnect, Retry, Reject,
         Connect, Stop, Exit, Ended, vars, lifeVars, mixerVars

------------------------------------------------------------------------------
(* The theorems.                                                           *)

\* At first.
LEMMA FadeInvInit == Init => FadeInv
<1> SUFFICES ASSUME Init PROVE FadeInv
  OBVIOUS
<1> USE FadesAssumption DEF Init, FadesAssumption, Issuers
<1>1. TypeOK
  BY TypeInit
<1>2. PendingInv /\ ChannelInv /\ ResultInv /\ LinkInv /\ CauseInv
  BY DEF PendingInv, ChannelInv, ResultInv, LinkInv, CauseInv, Running
<1>3. RunningIsRegistered /\ EndpointIsLast /\ OnlyStepsAreUnseen
  BY DEF RunningIsRegistered, EndpointIsLast, OnlyStepsAreUnseen, Running
<1> QED
  BY <1>1, <1>2, <1>3 DEF FadeInv

\* And by every step.
LEMMA FadeInvStep ==
  ASSUME FadeInv, [Next]_vars
  PROVE  FadeInv'
<1> USE DEF FadeInv
<1>1. TypeOK'
  BY TypeStep
<1>2. PendingInv' /\ ChannelInv' /\ ResultInv' /\ LinkInv' /\ CauseInv'
  BY <1>1, PendingStep, ChannelStep, ResultStep, LinkStep, CauseStep
<1>3. RunningIsRegistered' /\ EndpointIsLast' /\ OnlyStepsAreUnseen'
  BY <1>1, RegisteredStep, EndpointStep, UnseenStep
<1> QED
  BY <1>1, <1>2, <1>3

\* The invariant holds in every behaviour of the fades.
THEOREM FadeInvariance == Spec => []FadeInv
<1>1. FadeInv /\ UNCHANGED vars => FadeInv'
  BY FadeInvStep
<1> QED
  BY <1>1, FadeInvInit, FadeInvStep, PTL DEF Spec

\* The types of the fades, their commands and the registry: fade, dispatch_apply and
\* cancel_fades of SynchronizedClient.
THEOREM FadesTypeCorrect == Spec => []TypeOK
<1>1. FadeInv => TypeOK
  BY DEF FadeInv
<1> QED
  BY <1>1, FadeInvariance, PTL

\* A fade that runs and was not told to stop is in the registry, where cancel_fades, a
\* newer fade or a direct set of its target finds it.
THEOREM RunningAlwaysRegistered == Spec => []RunningIsRegistered
<1>1. FadeInv => RunningIsRegistered
  BY DEF FadeInv
<1> QED
  BY <1>1, FadeInvariance, PTL

\* Of two fades on one target, at most one was not cancelled by fade, apply or
\* cancel_fades.
THEOREM AlwaysOnePerTarget == Spec => []OnePerTarget
<1>1. FadeInv => OnePerTarget
  <2> SUFFICES ASSUME RunningIsRegistered PROVE OnePerTarget
    BY DEF FadeInv
  <2> QED
    BY DEF RunningIsRegistered, OnePerTarget
<1> QED
  BY <1>1, FadeInvariance, PTL

\* A fade that returns Ok has written its endpoint, last.
THEOREM EndpointAlwaysLast == Spec => []EndpointIsLast
<1>1. FadeInv => EndpointIsLast
  BY DEF FadeInv
<1> QED
  BY <1>1, FadeInvariance, PTL

\* A fade that has written a step returns an error only when it was cancelled or shut
\* down, a disconnect or an error of the peer came across it, or a notification is being
\* answered at that moment.
THEOREM AlwaysFailsForCause == Spec => FailsForCause
<1>1. ASSUME FadeInv, [Next]_vars, NEW f \in Fades,
             result[f] = "none", result'[f] = "Failed", last[f] = "step"
      PROVE  disturbed'[f] \/ cancelledBy[f] # None \/ shutdown \/ state = "Synchronizing"
  <2>1. CASE state # "Ready" /\ phase[f] \in Running
    BY <1>1, <2>1, Monotone DEF FadeInv, CauseInv, SessionGoesOn
  <2> QED
    BY <1>1, <2>1, HowItEnds DEF FadeInv
<1>2. FadeInv /\ [Next]_vars =>
        [\A f \in Fades :
           result[f] = "none" /\ result'[f] = "Failed" /\ last[f] = "step" =>
             \/ disturbed'[f] \/ cancelledBy[f] # None \/ shutdown
             \/ state = "Synchronizing"]_vars
  BY <1>1
<1> QED
  BY <1>2, FadeInvariance, PTL DEF Spec, FailsForCause

\* While the session is up the published snapshot lags the mixer by steps of fades only.
THEOREM UnseenAreAlwaysSteps == Spec => []OnlyStepsAreUnseen
<1>1. FadeInv => OnlyStepsAreUnseen
  BY DEF FadeInv
<1> QED
  BY <1>1, FadeInvariance, PTL

\* Nothing that a fade sent is written once fade has returned.
THEOREM ReturnedNeverWrites == Spec => NoWriteAfterReturn
<1>1. ASSUME FadeInv, [Next]_vars, NEW f \in Fades,
             last'[f] # last[f] \/ \E t \in Targets : level'[t] = f /\ level[t] # f
      PROVE  phase[f] \notin {"leaving", "done"}
  <2>1. f = Served /\ Afloat(Served)
    BY <1>1, WriterAfloat DEF FadeInv
  <2> QED
    BY <2>1 DEF Afloat
<1>2. FadeInv /\ [Next]_vars =>
        [\A f \in Fades :
           (last'[f] # last[f] \/ \E t \in Targets : level'[t] = f /\ level[t] # f)
             => phase[f] \notin {"leaving", "done"}]_vars
  BY <1>1
<1> QED
  BY <1>2, FadeInvariance, PTL DEF Spec, NoWriteAfterReturn

=============================================================================
