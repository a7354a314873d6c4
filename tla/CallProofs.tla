----------------------------- MODULE CallProofs -----------------------------
(***************************************************************************)
(* What becomes of a command, and what its caller is told, for any number  *)
(* of calls, any requests and any capacity of the channel.                 *)
(*                                                                         *)
(* A command is in one place at a time: with its caller, in the channel, in*)
(* service, or answered.  It touches the mixer in service only, in order,  *)
(* and what is noted of its operations is what the mixer has.              *)
(***************************************************************************)
EXTENDS LifecycleProofs

\* A call has the shape of a request once it is made, and waits where a call of its
\* kind waits.
RequestInv ==
  \A c \in Calls :
    /\ phase[c] = "idle" => request[c] = NoRequest
    /\ request[c].kind = "Apply" => request[c].size = 1
    /\ request[c].kind \in {"Refresh", "AwaitReady"} => request[c].size = 0
    /\ phase[c] = "waiting" => request[c].kind = "AwaitReady"
    /\ phase[c] \in {"admitted", "queued", "unavailable"} => request[c].kind # "AwaitReady"

\* A command that left its caller, who still waits for the answer or has gone.
Sent(c) == phase[c] \in {"queued", "dropped"} /\ request[c].kind # "AwaitReady"

\* A command is in the channel once, or in service, or neither; and a caller that
\* waits for an answer has its command in one of them.
ChannelInv ==
  /\ \A i, j \in DOMAIN commands : commands[i] = commands[j] => i = j
  /\ \A i \in DOMAIN commands : Sent(commands[i]) /\ commands[i] # serving
  /\ serving # None => Sent(serving)
  /\ \A c \in Calls : phase[c] = "queued" => InChannel(c) \/ c = serving

\* An answer is there when the call is over, and not before.
AnswerInv ==
  \A c \in Calls : phase[c] # "done" => result[c] = "none" /\ report[c] = <<>>

\* Only a command in service, or one whose service is over, touched the mixer.
Touched(c) == \E i \in DOMAIN mixer : mixer[i].call = c

TouchedInv ==
  \A c \in Calls :
    Touched(c) => c = serving \/ (phase[c] \in {"done", "dropped"} /\ ~InChannel(c))

\* While a command mutates, its operations so far succeeded, and none beyond them
\* reached the mixer; none does through a connection of an unknown revision.
ServedInv ==
  /\ serving = None => statuses = <<>>
  /\ pc = "mutating" =>
       /\ Len(statuses) < request[serving].size
       /\ \A i \in DOMAIN statuses : statuses[i] = "Succeeded"
  /\ \A i \in DOMAIN mixer : mixer[i].call = serving =>
       /\ writable
       /\ pc = "mutating" => mixer[i].op <= Len(statuses)

Applied(c, op) == \E k \in DOMAIN mixer : mixer[k] = [call |-> c, op |-> op]

\* The statuses rep of the operations of c are what happened to them.
TrueReport(c, rep) ==
  /\ Len(rep) = request[c].size
  /\ \A i \in DOMAIN rep :
       /\ rep[i] = "Succeeded" => Applied(c, i) /\ \A j \in 1 .. i - 1 : rep[j] = "Succeeded"
       /\ rep[i] = "NotAttempted" => ~Applied(c, i) /\ \E j \in 1 .. i - 1 : rep[j] = "Failed"
       /\ rep[i] = "Failed" => \A j \in 1 .. i - 1 : rep[j] = "Succeeded"

\* So are the statuses of the command in service, and of a batch that was answered.
ReportInv ==
  /\ pc = "mutating" => \A i \in DOMAIN statuses : Applied(serving, i)
  /\ pc = "resync" => TrueReport(serving, statuses)
  /\ \A c \in Calls : result[c] = "Ok" /\ request[c].kind = "Batch" => TrueReport(c, report[c])

\* Where the task goes between a session it gave up and the next snapshot.
Adrift == {"lost", "top", "connecting", "backoff", "syncing", "retrying", "exiting", "done"}

\* The snapshot shows every operation but those of the command in service, of steps of
\* fades, and of calls that failed and took the session with them.
VisibleInv ==
  \A i \in DOMAIN mixer :
    LET c == mixer[i].call
    IN Quiet(c) \/ Visible(i) \/ c = serving \/ (pc \in Adrift /\ result[c] # "Ok")

CallInv == /\ RequestInv /\ ChannelInv /\ AnswerInv /\ TouchedInv /\ ServedInv /\ ReportInv
           /\ VisibleInv /\ AppliedAtMostOnce /\ RefusedWritesNothing

\* What all of this is about.
Ours == <<pc, serving, statuses, writable, snapshot, commands, phase, request, result,
          report, mixer>>

------------------------------------------------------------------------------
(* The steps, by what they do to that.                                     *)

\* A call is made: it goes to the channel, waits for a snapshot, or is refused.
Made(c) ==
  /\ phase[c] = "idle" /\ UNCHANGED commands
  /\ \E r \in Requests :
       /\ request' = [request EXCEPT ![c] = r]
       /\ \/ r.kind # "AwaitReady" /\ phase'[c] \in {"admitted", "unavailable"} /\ result' = result
          \/ r.kind = "AwaitReady" /\ phase'[c] = "waiting" /\ result' = result
          \/ /\ r.kind # "AwaitReady" /\ phase'[c] = "done"
             /\ result'[c] \in {"NotReady", "Shutdown", "UnsupportedRevision"}

\* A call goes on, its command not yet in service.
Advances(c) ==
  /\ UNCHANGED request
  /\ \/ /\ phase[c] = "admitted" /\ phase'[c] = "queued"
        /\ commands' = Append(commands, c) /\ result' = result
     \/ phase[c] = "admitted" /\ phase'[c] = "unavailable" /\ UNCHANGED <<commands, result>>
     \/ /\ phase[c] \in {"waiting", "admitted", "queued"} /\ phase'[c] = "dropped"
        /\ UNCHANGED <<commands, result>>
     \/ /\ phase[c] = "unavailable" /\ phase'[c] = "done" /\ UNCHANGED commands
        /\ result'[c] \in {"NotReady", "Shutdown", "UnsupportedRevision"}
     \/ /\ phase[c] = "waiting" /\ phase'[c] = "done" /\ UNCHANGED commands
        /\ result'[c] \in {"Ok", "Shutdown"}

\* What the step of one caller does: it leaves the task, the mixer and all other calls
\* alone.
CallerDoes(c) ==
  /\ UNCHANGED <<pc, serving, statuses, writable, snapshot, mixer, report>>
  /\ \A d \in Calls \ {c} : UNCHANGED <<phase[d], request[d], result[d]>>
  /\ Made(c) \/ Advances(c)

\* Every step of a caller is of that form.
LEMMA CallerEffect ==
  ASSUME TypeOK, NEW c \in Calls, CallStep(c)
  PROVE  CallerDoes(c)
<1> USE DEF TypeOK, taskVars, sharedVars, callVars, CallerDoes
<1>1. unavailable_error \in {"NotReady", "Shutdown", "UnsupportedRevision"}
  BY DEF unavailable_error
<1>2. ASSUME NEW r \in Requests, IssueWrite(c, r) PROVE CallerDoes(c)
  <2>1. \/ ensure_writable = "Ok"
        \/ ensure_writable \in {"NotReady", "Shutdown", "UnsupportedRevision"}
    BY <1>1 DEF ensure_writable
  <2>2. Made(c)
    BY <1>2, <2>1 DEF IssueWrite, Made
  <2> QED
    BY <1>2, <2>2 DEF IssueWrite
<1>3. ASSUME NEW r \in Requests, IssueRefresh(c, r) PROVE CallerDoes(c)
  BY <1>3 DEF IssueRefresh, Made
<1>4. ASSUME NEW r \in Requests, IssueReady(c, r) PROVE CallerDoes(c)
  BY <1>4 DEF IssueReady, Made
<1>5. CASE ReadyReturns(c)
  BY <1>5 DEF ReadyReturns, Advances
<1>6. CASE SendCommand(c)
  BY <1>6 DEF SendCommand, Advances
<1>7. CASE ReportUnavailable(c)
  BY <1>1, <1>7 DEF ReportUnavailable, Advances
<1>8. CASE DropCall(c)
  BY <1>8 DEF DropCall, Advances
<1> QED
  BY <1>2, <1>3, <1>4, <1>5, <1>6, <1>7, <1>8 DEF CallStep

\* The task goes from point to point without a command: it may open a connection and
\* publish a snapshot.
Wanders ==
  /\ UNCHANGED <<serving, statuses, commands, phase, request, result, report, mixer>>
  /\ pc \notin {"mutating", "resync"} /\ pc' \notin {"mutating", "resync"}
  /\ \/ Publish
     \/ /\ pc \in Adrift => pc' \in Adrift
        /\ \/ snapshot' = snapshot
           \/ snapshot # None /\ snapshot' # None /\ snapshot'.shows = snapshot.shows

\* The steps of the task that have to do with commands.
CommandSteps == reject_command \/ Serving \/ Exit

\* Every other step of the task is of that form.
LEMMA WanderEffect ==
  ASSUME TypeOK, Task, ~CommandSteps
  PROVE  Wanders
<1> USE DEF TypeOK, Wanders, Adrift, taskVars, sharedVars, callVars
<1>1. CASE LoopHead \/ ConnectFails \/ BackoffElapses \/ BackoffShutdown
  BY <1>1 DEF LoopHead, ConnectFails, BackoffElapses, BackoffShutdown
<1>2. CASE ConnectSucceeds
  <2>1. snapshot # None => snapshot' # None /\ snapshot'.shows = snapshot.shows
    <3>1. snapshot # None => snapshot' \in Snapshot /\ snapshot'.shows = snapshot.shows
      BY <1>2 DEF ConnectSucceeds, Snapshot
    <3> QED
      BY <3>1, ConstantsAssumption DEF ConstantsAssumption
  <2>2. snapshot = None => snapshot' = snapshot
    BY <1>2 DEF ConnectSucceeds
  <2> QED
    BY <1>2, <2>1, <2>2 DEF ConnectSucceeds
<1>3. CASE SnapshotArrives \/ BecomeReady \/ FirstSnapshotFails \/ RetryAtOnce
  BY <1>3 DEF SnapshotArrives, BecomeReady, FirstSnapshotFails, RetryAtOnce
<1>4. CASE SelectNotification \/ LoseConnection \/ Reconnect
  BY <1>4 DEF SelectNotification, LoseConnection, Reconnect
<1>5. CASE SelectShutdown \/ AnnounceShutdown \/ ExitWithoutClient
  BY <1>5 DEF SelectShutdown, AnnounceShutdown, ExitWithoutClient
<1> QED
  BY <1>1, <1>2, <1>3, <1>4, <1>5
  DEF Task, Connecting, Synchronizing, Stopping, CommandSteps

\* Who stops or drops the client touches no call.
LEMMA Bystanders ==
  ASSUME (\E s \in Stoppers : StopStep(s)) \/ DropClient \/ UNCHANGED vars
  PROVE  UNCHANGED Ours
BY DEF StopStep, SignalShutdown, TakeHandle, JoinTask, AbortShutdown, DropClient, Ours,
       vars, taskVars, sharedVars, callVars

\* A reply is read by a caller that waits for it, and touches no other call.
LEMMA ReplyEffect ==
  ASSUME TypeOK, NEW c \in Calls, NEW r, NEW rep, Reply(c, r, rep)
  PROVE  /\ \A d \in Calls : d # c \/ phase[d] # "queued" =>
              UNCHANGED <<phase[d], result[d], report[d]>>
         /\ phase[c] = "queued" => phase'[c] = "done" /\ result'[c] = r /\ report'[c] = rep
BY DEF TypeOK, Reply

\* The head of the channel, and what is left when it is taken.
LEMMA TakeHead ==
  ASSUME TypeOK, ChannelInv, commands # <<>>, commands' = Tail(commands)
  PROVE  /\ Head(commands) \in Calls /\ InChannel(Head(commands))
         /\ \A i, j \in DOMAIN commands' : commands'[i] = commands'[j] => i = j
         /\ \A i \in DOMAIN commands' :
              commands'[i] # Head(commands) /\ \E j \in DOMAIN commands : commands'[i] = commands[j]
         /\ \A c \in Calls : InChannel(c) => c = Head(commands) \/ InChannel(c)'
         /\ \A c \in Calls : InChannel(c)' => InChannel(c) /\ c # Head(commands)
<1> USE DEF TypeOK
<1>1. /\ Head(commands) = commands[1] /\ Head(commands) \in Calls
      /\ commands' \in Seq(Calls) /\ Len(commands) \in Nat \ {0}
      /\ Len(commands') = Len(commands) - 1
      /\ \A i \in 1 .. Len(commands') : commands'[i] = commands[i + 1]
  BY HeadTailProperties, EmptySeq
<1>2. DOMAIN commands = 1 .. Len(commands) /\ DOMAIN commands' = 1 .. Len(commands')
  BY <1>1
<1>3. \A i \in DOMAIN commands' : i + 1 \in DOMAIN commands /\ i + 1 # 1 /\ 1 \in DOMAIN commands
  BY <1>1, <1>2
<1>4. ASSUME NEW i \in DOMAIN commands', NEW j \in DOMAIN commands', commands'[i] = commands'[j]
      PROVE  i = j
  <2>1. i + 1 = j + 1
    BY <1>1, <1>2, <1>3, <1>4 DEF ChannelInv
  <2> QED
    BY <1>1, <1>2, <2>1
<1>5. ASSUME NEW i \in DOMAIN commands'
      PROVE  commands'[i] # Head(commands) /\ \E j \in DOMAIN commands : commands'[i] = commands[j]
  <2>1. commands'[i] = commands[i + 1]
    BY <1>1, <1>2
  <2>2. commands[i + 1] # commands[1]
    BY <1>3 DEF ChannelInv
  <2> QED
    BY <1>1, <1>3, <2>1, <2>2
<1>6. ASSUME NEW c \in Calls, InChannel(c), c # Head(commands)
      PROVE  InChannel(c)'
  <2>1. PICK i \in DOMAIN commands : commands[i] = c
    BY <1>6 DEF InChannel
  <2>2. i - 1 \in 1 .. Len(commands') /\ (i - 1) + 1 = i
    BY <1>1, <1>2, <1>6, <2>1
  <2>3. commands'[i - 1] = c
    BY <1>1, <2>1, <2>2
  <2> QED
    BY <1>2, <2>2, <2>3 DEF InChannel
<1>7. ASSUME NEW c \in Calls, InChannel(c)'
      PROVE  InChannel(c) /\ c # Head(commands)
  BY <1>5, <1>7 DEF InChannel
<1>8. InChannel(Head(commands))
  <2>1. 1 \in DOMAIN commands
    BY <1>1, <1>2
  <2> QED
    BY <1>1, <2>1 DEF InChannel
<1> QED
  BY <1>1, <1>4, <1>5, <1>6, <1>7, <1>8

\* An operation reaches the mixer: what was there stays.
LEMMA Grows ==
  ASSUME TypeOK, NEW e, mixer' = Append(mixer, e)
  PROVE  /\ Len(mixer') = Len(mixer) + 1 /\ Len(mixer) \in Nat
         /\ Len(mixer) + 1 \in DOMAIN mixer' /\ mixer'[Len(mixer) + 1] = e
         /\ \A i \in DOMAIN mixer : i \in DOMAIN mixer' /\ mixer'[i] = mixer[i]
            /\ i \in 1 .. Len(mixer)
         /\ \A i \in DOMAIN mixer' : i \in DOMAIN mixer \/ i = Len(mixer) + 1
BY DEF TypeOK

\* In a channel that grows are the commands it had, and the new one.
LEMMA Joins ==
  ASSUME NEW S, NEW s \in Seq(S), NEW x \in S
  PROVE  \A i \in DOMAIN Append(s, x) :
           Append(s, x)[i] = x \/ \E j \in DOMAIN s : s[j] = Append(s, x)[i]
<1> DEFINE t == Append(s, x)
<1>1. /\ Len(s) \in Nat /\ DOMAIN s = 1 .. Len(s) /\ DOMAIN t = 1 .. Len(s) + 1
      /\ t[Len(s) + 1] = x
      /\ \A i \in 1 .. Len(s) : t[i] = s[i]
  BY AppendProperties
<1> HIDE DEF t
<1>2. \A i \in DOMAIN t : i = Len(s) + 1 \/ i \in 1 .. Len(s)
  BY <1>1
<1>3. \A i \in DOMAIN t : t[i] = x \/ \E j \in DOMAIN s : s[j] = t[i]
  BY <1>1, <1>2
<1> QED
  BY <1>3 DEF t

\* Every step is one of these.
LEMMA StepCases ==
  ASSUME TypeOK, [Next]_vars
  PROVE  UNCHANGED Ours \/ (\E c \in Calls : CallerDoes(c)) \/ Wanders \/ CommandSteps
BY CallerEffect, WanderEffect, Bystanders DEF Next, Ended

------------------------------------------------------------------------------
(* Each part of the invariant.                                             *)

\* The shape of a request is that of what the caller may ask.
LEMMA RequestStep ==
  ASSUME TypeOK, ServingInv, RequestInv, [Next]_vars
  PROVE  RequestInv'
<1> USE DEF TypeOK, RequestInv
<1>1. CASE UNCHANGED Ours
  BY <1>1 DEF Ours
<1>2. ASSUME NEW c \in Calls, CallerDoes(c) PROVE RequestInv'
  <2>1. \A d \in Calls \ {c} : UNCHANGED <<phase[d], request[d]>>
    BY <1>2 DEF CallerDoes
  <2>2. CASE Made(c)
    BY <2>1, <2>2, ConstantsAssumption DEF Made, ConstantsAssumption, Request
  <2>3. CASE Advances(c)
    BY <2>1, <2>3 DEF Advances
  <2> QED
    BY <1>2, <2>2, <2>3 DEF CallerDoes
<1>3. CASE Wanders
  BY <1>3 DEF Wanders
<1>4. CASE CommandSteps
  <2>1. request' = request
    BY <1>4 DEF CommandSteps, reject_command, Serving, SelectCommand, MutationSucceeds,
                MutationFails, ResyncSucceeds, ResyncFails, Exit, callVars
  <2>2. Task
    BY <1>4 DEF CommandSteps, Task, Connecting, Stopping
  <2>3. \A c \in Calls : \/ phase'[c] \in {phase[c], "done"}
                         \/ phase[c] = "queued" /\ phase'[c] = "unavailable"
    BY <2>2, TaskPhases
  <2> QED
    BY <2>1, <2>3
<1> QED
  BY <1>1, <1>2, <1>3, <1>4, StepCases

\* The service of a command ends with an answer to its caller.
Answers(c) ==
  /\ serving' = None /\ statuses' = <<>> /\ UNCHANGED <<writable, commands, request>>
  /\ \E r \in Results, rep \in Seq(Status) : Reply(c, r, rep)

\* It is in service with operations left, or without.
LEMMA InService ==
  ASSUME TypeOK, ServingInv
  PROVE  /\ pc \in {"mutating", "resync"} => serving \in Calls /\ serving # None
         /\ pc \notin {"mutating", "resync"} => serving = None
BY DEF TypeOK, ServingInv

\* The steps that serve a command without an end to it.
GoesOn ==
  /\ pc = "mutating" /\ pc' \in {"mutating", "resync"}
  /\ UNCHANGED <<serving, writable, snapshot, commands, phase, request, result, report>>

\* What becomes of the command in service, whatever happens to the mixer.
LEMMA ServiceEffect ==
  ASSUME TypeOK, ServingInv, Serving
  PROVE  \/ SelectCommand /\ serving = None
         \/ serving \in Calls /\ GoesOn
         \/ serving \in Calls /\ pc' \notin {"mutating", "resync"} /\ Answers(serving)
<1> USE DEF taskVars, sharedVars, callVars
<1>1. CASE SelectCommand
  BY <1>1, InService DEF SelectCommand
<1>2. CASE MutationSucceeds /\ Resnapshots
  BY <1>2, InService DEF MutationSucceeds, GoesOn
<1>3. CASE MutationSucceeds /\ ~Resnapshots
  <2>1. "Ok" \in Results /\ <<>> \in Seq(Status)
    BY DEF Results
  <2> QED
    BY <1>3, <2>1, InService DEF MutationSucceeds, Answers, ServingInv
<1>4. CASE MutationFails
  BY <1>4, InService DEF MutationFails, GoesOn
<1>5. mutation_error \in Results /\ "Ok" \in Results /\ "RpcFailed" \in Results
  BY DEF mutation_error, Results
<1>6. statuses \in Seq(Status) /\ <<>> \in Seq(Status)
  BY DEF TypeOK
<1>7. CASE ResyncSucceeds
  BY <1>5, <1>6, <1>7, InService DEF ResyncSucceeds, Answers
<1>8. CASE ResyncFails
  BY <1>5, <1>6, <1>8, InService DEF ResyncFails, Answers
<1> QED
  BY <1>1, <1>2, <1>3, <1>4, <1>7, <1>8 DEF Serving

\* A command is in one place.
LEMMA ChannelStep ==
  ASSUME TypeOK, ServingInv, RequestInv, ChannelInv, [Next]_vars
  PROVE  ChannelInv'
<1> USE DEF TypeOK, ChannelInv, Sent
<1>0. None \notin Calls /\ \A i \in DOMAIN commands : commands[i] \in Calls
  BY ConstantsAssumption DEF ConstantsAssumption
<1>1. CASE UNCHANGED Ours
  BY <1>1 DEF Ours, InChannel
<1>2. ASSUME NEW c \in Calls, CallerDoes(c) PROVE ChannelInv'
  <2>1. /\ \A d \in Calls \ {c} : UNCHANGED <<phase[d], request[d]>>
        /\ serving' = serving
    BY <1>2 DEF CallerDoes
  <2>2. CASE Made(c)
    <3>1. commands' = commands /\ ~Sent(c) /\ phase'[c] # "queued"
      BY <2>2 DEF Made
    <3>2. \A d \in Calls : Sent(d) => Sent(d)'
      BY <2>1, <3>1
    <3>3. (\A i \in DOMAIN commands : Sent(commands[i]) /\ commands[i] # serving)'
      BY <1>0, <2>1, <3>1, <3>2
    <3>4. (serving # None => Sent(serving))'
      BY <2>1, <3>2
    <3> QED
      BY <2>1, <3>1, <3>3, <3>4 DEF InChannel
  <2>3. CASE commands' = Append(commands, c) /\ Advances(c)
    <3>1. phase[c] = "admitted" /\ phase'[c] = "queued" /\ request' = request
      <4>1. commands' # commands
        BY <2>3
      <4> QED
        BY <2>3, <4>1 DEF Advances
    <3>2. /\ Len(commands) + 1 \in DOMAIN commands' /\ commands'[Len(commands) + 1] = c
          /\ \A i \in DOMAIN commands : i \in DOMAIN commands' /\ commands'[i] = commands[i]
          /\ \A i \in DOMAIN commands' : i \in DOMAIN commands \/ i = Len(commands) + 1
      BY <2>3
    <3>3. ~Sent(c) /\ Sent(c)'
      BY <3>1 DEF RequestInv
    <3>4. \A d \in Calls : InChannel(d) \/ d = c => InChannel(d)'
      BY <3>2 DEF InChannel
    <3>5. \A d \in Calls : Sent(d) => d # c /\ Sent(d)'
      BY <2>1, <3>3
    <3>10. \A i \in DOMAIN commands :
            commands'[i] = commands[i] /\ commands[i] \in Calls /\ commands[i] # c
      BY <1>0, <3>2, <3>5
    <3>6. ASSUME NEW i \in DOMAIN commands', NEW j \in DOMAIN commands', commands'[i] = commands'[j]
          PROVE  i = j
      BY <3>2, <3>6, <3>10
    <3>7. ASSUME NEW i \in DOMAIN commands'
          PROVE  (Sent(commands[i]) /\ commands[i] # serving)'
      <4>1. CASE i \in DOMAIN commands
        <5>1. commands[i] # serving /\ Sent(commands[i]) /\ commands[i] \in Calls
          BY <3>10, <4>1
        <5>2. \A d \in Calls : d = commands'[i] => Sent(d)'
          BY <3>5, <3>10, <4>1, <5>1
        <5> QED
          BY <2>1, <3>10, <4>1, <5>1, <5>2
      <4>2. CASE i = Len(commands) + 1
        <5>1. serving # c
          BY <1>0, <3>3
        <5> QED
          BY <2>1, <3>2, <3>3, <4>2, <5>1
      <4> QED
        BY <3>2, <4>1, <4>2
    <3>8. (serving # None => Sent(serving))'
      BY <2>1, <3>5
    <3>9. \A d \in Calls : phase'[d] = "queued" => InChannel(d)' \/ d = serving'
      BY <2>1, <3>4
    <3> QED
      BY <3>6, <3>7, <3>8, <3>9
  <2>4. CASE commands' = commands /\ Advances(c)
    <3>1. phase'[c] # "queued" /\ request' = request /\ (Sent(c) => Sent(c)')
      <4>1. commands' # Append(commands, c)
        BY <2>4
      <4> QED
        BY <2>4, <4>1 DEF Advances
    <3> QED
      BY <1>0, <2>1, <2>4, <3>1 DEF InChannel
  <2> QED
    BY <1>2, <2>2, <2>3, <2>4 DEF CallerDoes, Advances
<1>3. CASE Wanders
  BY <1>3 DEF Wanders, InChannel
<1>4. CASE reject_command
  <2>1. serving = None /\ UNCHANGED <<serving, request>> /\ commands' = Tail(commands)
    BY <1>4, InService DEF reject_command, taskVars
  <2>2. \A c \in Calls : phase'[c] = "queued" => phase[c] = "queued" /\ c # Head(commands)
    BY <1>4 DEF reject_command, Reply
  <2>3. \A c \in Calls : c # Head(commands) => phase'[c] = phase[c]
    BY <1>4 DEF reject_command, Reply
  <2> QED
    BY <1>0, <1>4, <2>1, <2>2, <2>3, TakeHead DEF reject_command
<1>5. CASE SelectCommand
  <2>1. /\ serving = None /\ serving' = Head(commands) /\ UNCHANGED <<phase, request>>
        /\ commands # <<>> /\ commands' = Tail(commands)
    BY <1>5, InService DEF SelectCommand, callVars
  <2>2. (\A i \in DOMAIN commands : Sent(commands[i]) /\ commands[i] # serving)'
    BY <2>1, TakeHead
  <2>4. (serving # None => Sent(serving))'
    BY <2>1, TakeHead DEF InChannel
  <2>3. \A c \in Calls : phase'[c] = "queued" => InChannel(c)' \/ c = serving'
    BY <1>0, <2>1, TakeHead
  <2> QED
    BY <2>1, <2>2, <2>3, <2>4, TakeHead
<1>6. CASE GoesOn
  BY <1>6 DEF GoesOn, InChannel
<1>7. CASE serving \in Calls /\ Answers(serving)
  <2>1. \A c \in Calls : phase'[c] = "queued" => phase[c] = "queued" /\ c # serving
    BY <1>7 DEF Answers, Reply
  <2>2. \A c \in Calls : c # serving => phase'[c] = phase[c]
    BY <1>7 DEF Answers, Reply
  <2> QED
    BY <1>0, <1>7, <2>1, <2>2 DEF Answers, InChannel
<1>8. CASE Exit
  <2>1. serving' = None /\ commands' = <<>> /\ \A c \in Calls : phase'[c] # "queued"
    BY <1>8, InService DEF Exit, Abandon
  <2> QED
    BY <2>1
<1> QED
  BY <1>1, <1>2, <1>3, <1>4, <1>5, <1>6, <1>7, <1>8, StepCases, ServiceEffect DEF CommandSteps

\* The answer of a call comes with its end.
LEMMA AnswerStep ==
  ASSUME TypeOK, ServingInv, AnswerInv, ChannelInv, [Next]_vars
  PROVE  AnswerInv'
<1> USE DEF TypeOK, AnswerInv
<1>1. CASE UNCHANGED Ours
  BY <1>1 DEF Ours
<1>2. ASSUME NEW c \in Calls, CallerDoes(c) PROVE AnswerInv'
  <2>1. /\ \A d \in Calls \ {c} : UNCHANGED <<phase[d], result[d]>>
        /\ report' = report
    BY <1>2 DEF CallerDoes
  <2>2. phase[c] # "done" /\ (phase'[c] # "done" => result' = result)
    BY <1>2 DEF CallerDoes, Made, Advances
  <2> QED
    BY <2>1, <2>2
<1>3. CASE Wanders
  BY <1>3 DEF Wanders
<1>4. ASSUME NEW c \in Calls, NEW r, NEW rep, Reply(c, r, rep) PROVE AnswerInv'
  BY <1>4, ReplyEffect
<1>5. CASE reject_command
  BY <1>4, <1>5, TakeHead DEF reject_command
<1>6. CASE SelectCommand
  BY <1>6 DEF SelectCommand, callVars
<1>7. CASE GoesOn
  BY <1>7 DEF GoesOn
<1>8. CASE serving \in Calls /\ Answers(serving)
  BY <1>4, <1>8 DEF Answers
<1>9. CASE Exit
  BY <1>9 DEF Exit, Abandon
<1> QED
  BY <1>1, <1>2, <1>3, <1>5, <1>6, <1>7, <1>8, <1>9, StepCases, ServiceEffect DEF CommandSteps

\* The operation that is next.
Next1 == [call |-> serving, op |-> Len(statuses) + 1]

\* The mixer changes by the next operation of the command in service, and by no other
\* step; and then only through a connection of a known revision.
LEMMA MixerEffect ==
  ASSUME TypeOK, ServingInv, [Next]_vars
  PROVE  \/ mixer' = mixer
         \/ /\ (MutationSucceeds \/ MutationFails) /\ pc = "mutating" /\ serving \in Calls
            /\ writable /\ mixer' = Append(mixer, Next1)
<1>1. CASE Serving
  BY <1>1, InService
     DEF Serving, SelectCommand, MutationSucceeds, MutationFails, ResyncSucceeds, ResyncFails,
         WritesAllowed, Next1
<1>2. CASE reject_command \/ Exit
  BY <1>2 DEF reject_command, Exit, Abandon
<1> QED
  BY <1>1, <1>2, StepCases DEF CommandSteps, Ours, CallerDoes, Wanders

\* What that means for the operations of a call.
LEMMA AppliedEffect ==
  ASSUME TypeOK, ServingInv, [Next]_vars, NEW c \in Calls
  PROVE  /\ Touched(c)' => Touched(c) \/ c = serving
         /\ \A op : Applied(c, op) => Applied(c, op)'
         /\ \A op : Applied(c, op)' => Applied(c, op) \/ (c = serving /\ op = Len(statuses) + 1)
<1>1. CASE mixer' = mixer
  BY <1>1 DEF Touched, Applied
<1>2. CASE mixer' = Append(mixer, Next1)
  BY <1>2, Grows DEF Touched, Applied, Next1
<1> QED
  BY <1>1, <1>2, MixerEffect

\* Nothing touches the mixer for a command that waits.
LEMMA TouchedStep ==
  ASSUME TypeOK, ServingInv, ChannelInv, TouchedInv, [Next]_vars
  PROVE  TouchedInv'
<1> DEFINE Over(c) == phase[c] \in {"done", "dropped"} /\ ~InChannel(c)
<1> USE DEF TypeOK
<1>1. /\ \A c \in Calls : Over(c) => Over(c)' \/ c = serving'
      /\ \A c \in Calls : c = serving => c = serving' \/ Over(c)'
  <2>1. CASE UNCHANGED Ours
    BY <2>1 DEF Ours, InChannel
  <2>2. ASSUME NEW c \in Calls, CallerDoes(c)
        PROVE  serving' = serving /\ \A d \in Calls : Over(d) => Over(d)'
    <3>1. serving' = serving /\ ~Over(c) /\ \A d \in Calls \ {c} : phase'[d] = phase[d]
      BY <2>2 DEF CallerDoes, Made, Advances
    <3>2. \A d \in Calls \ {c} : InChannel(d)' => InChannel(d)
      <4>1. commands' = commands \/ commands' = Append(commands, c)
        BY <2>2 DEF CallerDoes, Made, Advances
      <4>2. \A i \in DOMAIN commands' :
              commands'[i] = c \/ \E j \in DOMAIN commands : commands[j] = commands'[i]
        <5>1. CASE commands' = commands
          BY <5>1
        <5>2. CASE commands' = Append(commands, c)
          <6>1. commands \in Seq(Calls)
            OBVIOUS
          <6>2. \A i \in DOMAIN Append(commands, c) :
                  \/ Append(commands, c)[i] = c
                  \/ \E j \in DOMAIN commands : commands[j] = Append(commands, c)[i]
            BY <6>1, Joins
          <6> HIDE DEF TypeOK
          <6> QED
            BY <5>2, <6>2, Zenon
        <5> QED
          BY <4>1, <5>1, <5>2
      <4> QED
        BY <4>2 DEF InChannel
    <3> QED
      BY <3>1, <3>2
  <2>3. CASE Wanders
    BY <2>3 DEF Wanders, InChannel
  <2>4. CASE reject_command
    <3>1. serving' = serving /\ \A c \in Calls : InChannel(c)' => InChannel(c)
      BY <2>4, TakeHead DEF reject_command, taskVars
    <3>2. \A c \in Calls : phase[c] \in {"done", "dropped"} => phase'[c] \in {"done", "dropped"}
      BY <2>4, ReplyEffect, TakeHead DEF reject_command
    <3> QED
      BY <3>1, <3>2
  <2>5. CASE SelectCommand
    <3>1. serving = None /\ None \notin Calls
      BY <2>5, InService, ConstantsAssumption DEF SelectCommand, ConstantsAssumption
    <3>2. phase' = phase /\ \A c \in Calls : InChannel(c)' => InChannel(c)
      BY <2>5, TakeHead DEF SelectCommand, callVars
    <3> QED
      BY <3>1, <3>2
  <2>6. CASE GoesOn
    BY <2>6 DEF GoesOn, InChannel
  <2>7. CASE serving \in Calls /\ Answers(serving)
    <3>1. Sent(serving) /\ ~InChannel(serving) /\ commands' = commands
      BY <2>7, ConstantsAssumption DEF ChannelInv, ConstantsAssumption, InChannel, Answers
    <3>2. /\ phase[serving] \in {"queued", "dropped", "done"}
             => phase'[serving] \in {"done", "dropped"}
          /\ \A c \in Calls : phase[c] \in {"done", "dropped"} => phase'[c] \in {"done", "dropped"}
      BY <2>7, ReplyEffect DEF Answers
    <3>3. \A c \in Calls : c = serving => Over(c)'
      BY <3>1, <3>2 DEF Sent, InChannel
    <3> QED
      BY <3>1, <3>2, <3>3 DEF InChannel
  <2>8. CASE Exit
    <3>1. serving = None /\ None \notin Calls
      BY <2>8, InService, ConstantsAssumption DEF Exit, ConstantsAssumption
    <3> QED
      BY <2>8, <3>1 DEF Exit, Abandon, InChannel
  <2> QED
    BY <2>1, <2>2, <2>3, <2>4, <2>5, <2>6, <2>7, <2>8, StepCases, ServiceEffect DEF CommandSteps
<1> HIDE DEF Over
<1>2. \A c \in Calls : Touched(c) => c = serving \/ Over(c)
  BY DEF TouchedInv, Over
<1>3. ASSUME NEW c \in Calls, Touched(c)' PROVE c = serving' \/ Over(c)'
  <2>1. Touched(c) \/ c = serving
    BY <1>3, AppliedEffect
  <2>2. CASE c = serving
    BY <1>1, <2>2
  <2>3. CASE Touched(c) /\ c # serving
    BY <1>1, <1>2, <2>3
  <2> QED
    BY <2>1, <2>2, <2>3
<1> QED
  BY <1>3 DEF TouchedInv, Over

\* What the mixer was told to do.
LEMMA Entries ==
  ASSUME NEW m \in Seq([call : Calls, op : Nat]), NEW i \in DOMAIN m
  PROVE  m[i].call \in Calls /\ m[i].op \in Nat
<1>1. i \in 1 .. Len(m)
  OBVIOUS
<1>2. m[i] \in [call : Calls, op : Nat]
  BY <1>1, ElementOfSeq
<1> QED
  BY <1>2

\* A request is chosen once.
LEMMA RequestFixed ==
  ASSUME TypeOK, ServingInv, [Next]_vars, NEW c \in Calls, phase[c] # "idle"
  PROVE  request'[c] = request[c]
<1>1. CASE UNCHANGED Ours
  BY <1>1 DEF Ours
<1>2. ASSUME NEW d \in Calls, CallerDoes(d) PROVE request'[c] = request[c]
  BY <1>2 DEF CallerDoes, Made, Advances
<1>3. CASE Wanders \/ CommandSteps
  BY <1>3, ServiceEffect
     DEF Wanders, CommandSteps, reject_command, Exit, SelectCommand, GoesOn, Answers, callVars
<1> QED
  BY <1>1, <1>2, <1>3, StepCases

\* How a command gets to where it mutates, and on to its snapshot.
LEMMA MutatingNext ==
  ASSUME TypeOK, [Next]_vars
  PROVE  /\ pc' = "mutating" =>
              \/ SelectCommand
              \/ pc = "mutating" /\ UNCHANGED <<serving, statuses, mixer, writable>>
              \/ pc = "mutating" /\ MutationSucceeds /\ Resnapshots
         /\ pc' = "resync" =>
              \/ SelectCommand
              \/ pc = "resync" /\ UNCHANGED <<serving, statuses, mixer>>
              \/ MutationSucceeds /\ Resnapshots
              \/ MutationFails
<1>1. ASSUME Serving, pc' = "mutating"
      PROVE  SelectCommand \/ (pc = "mutating" /\ MutationSucceeds /\ Resnapshots)
  BY <1>1 DEF Serving, MutationSucceeds, MutationFails, ResyncSucceeds, ResyncFails
<1>2. ASSUME Serving, pc' = "resync"
      PROVE  SelectCommand \/ (MutationSucceeds /\ Resnapshots) \/ MutationFails
  BY <1>2 DEF Serving, MutationSucceeds, MutationFails, ResyncSucceeds, ResyncFails
<1>3. ASSUME ~Serving, pc' \in {"mutating", "resync"}
      PROVE  pc' = pc /\ UNCHANGED <<serving, statuses, mixer, writable>>
  BY <1>3, StepCases
     DEF Ours, CallerDoes, Wanders, CommandSteps, reject_command, Exit, taskVars
<1> QED
  BY <1>1, <1>2, <1>3

\* Where a command in service stands is what its statuses say.
LEMMA ServedStep ==
  ASSUME TypeOK, TypeOK', ServingInv, ServingInv', ChannelInv, TouchedInv, ServedInv, [Next]_vars
  PROVE  ServedInv'
<1> USE DEF TypeOK
<1>0. None \notin Calls
  BY ConstantsAssumption DEF ConstantsAssumption
<1>8. \A i \in DOMAIN mixer : mixer[i].call \in Calls /\ mixer[i].op \in Nat
  BY Entries
<1>9. \A i \in DOMAIN mixer' : mixer'[i].call \in Calls /\ mixer'[i].op \in Nat
  BY Entries
<1>1. (serving = None => statuses = <<>>)'
  <2>1. CASE SelectCommand
    BY <1>0, <2>1, TakeHead DEF SelectCommand
  <2>2. CASE ~SelectCommand
    BY <1>0, <2>2, StepCases, ServiceEffect
       DEF ServedInv, Ours, CallerDoes, Wanders, CommandSteps, reject_command, Exit,
           GoesOn, Answers, taskVars
  <2> QED
    BY <2>1, <2>2
<1>2. ASSUME pc' = "mutating"
      PROVE  \/ SelectCommand
             \/ pc = "mutating" /\ UNCHANGED <<serving, statuses, mixer, writable>>
             \/ pc = "mutating" /\ MutationSucceeds /\ Resnapshots
  BY <1>2, MutatingNext
<1>3. CASE SelectCommand
  <2>1. /\ serving = None /\ serving' = Head(commands) /\ statuses' = statuses
        /\ mixer' = mixer /\ request' = request /\ commands # <<>> /\ commands' = Tail(commands)
    BY <1>3, InService DEF SelectCommand, callVars
  <2>2. statuses' = <<>> /\ Len(statuses') = 0
    BY <2>1 DEF ServedInv
  <2>3. pc' = "mutating" => request'[serving'].size > 0
    BY <1>3, <2>1 DEF SelectCommand
  <2>4. ~Touched(Head(commands)) /\ Head(commands) \in Calls
    BY <1>0, <2>1, TakeHead DEF TouchedInv
  <2>5. (\A i \in DOMAIN mixer : mixer[i].call # serving)'
    BY <2>1, <2>4 DEF Touched
  <2>6. request'[serving'].size \in Nat
    BY <2>1, <2>4 DEF Request
  <2>7. (serving = None => statuses = <<>>)'
    BY <2>2
  <2>8. (pc = "mutating" => /\ Len(statuses) < request[serving].size
                            /\ \A i \in DOMAIN statuses : statuses[i] = "Succeeded")'
    BY <2>2, <2>3, <2>6
  <2> QED
    BY <2>5, <2>7, <2>8 DEF ServedInv
<1>4. (pc = "mutating" => /\ Len(statuses) < request[serving].size
                          /\ \A i \in DOMAIN statuses : statuses[i] = "Succeeded")'
  <2> SUFFICES ASSUME pc' = "mutating", ~SelectCommand
               PROVE  (/\ Len(statuses) < request[serving].size
                       /\ \A i \in DOMAIN statuses : statuses[i] = "Succeeded")'
    BY <1>3 DEF ServedInv
  <2>1. pc = "mutating" /\ serving \in Calls /\ serving' = serving /\ Sent(serving)
    BY <1>0, <1>2, InService DEF ChannelInv, MutationSucceeds
  <2>2. request'[serving] = request[serving]
    BY <2>1, RequestFixed DEF Sent
  <2>3. CASE statuses' = statuses
    BY <2>1, <2>2, <2>3 DEF ServedInv
  <2>4. CASE MutationSucceeds /\ Resnapshots
    <3>1. statuses' = Append(statuses, "Succeeded") /\ Len(statuses) + 1 < request[serving].size
      BY <2>4 DEF MutationSucceeds
    <3>2. Len(statuses') = Len(statuses) + 1
      BY <3>1
    <3>3. \A i \in DOMAIN statuses' : statuses'[i] = "Succeeded"
      BY <2>1, <3>1 DEF ServedInv
    <3> QED
      BY <2>1, <2>2, <3>1, <3>2, <3>3
  <2> QED
    BY <1>2, <2>3, <2>4
<1>5. ASSUME NEW i \in DOMAIN mixer', mixer'[i].call = serving', ~SelectCommand
      PROVE  writable' /\ (pc' = "mutating" => mixer'[i].op <= Len(statuses'))
  <2>1. serving' \in Calls
    BY <1>5, <1>9
  <2>2. serving' = serving /\ serving \in Calls
    BY <1>0, <1>5, <2>1, StepCases, ServiceEffect, InService
       DEF Ours, CallerDoes, Wanders, CommandSteps, reject_command, Exit, GoesOn, Answers,
           taskVars
  <2>3. writable' = writable
    BY <1>0, <1>5, <2>2, StepCases, ServiceEffect, InService
       DEF Ours, CallerDoes, Wanders, CommandSteps, reject_command, Exit, GoesOn, Answers,
           taskVars
  <2>4. pc' = "mutating" => pc = "mutating" /\ Len(statuses') \in Nat
        /\ Len(statuses) <= Len(statuses')
    <3>1. ASSUME MutationSucceeds /\ Resnapshots PROVE Len(statuses') = Len(statuses) + 1
      <4>1. statuses' = Append(statuses, "Succeeded")
        BY <3>1 DEF MutationSucceeds
      <4> QED
        BY <4>1
    <3>2. ASSUME pc' = "mutating"
          PROVE  /\ pc = "mutating"
                 /\ statuses' = statuses \/ (MutationSucceeds /\ Resnapshots)
      BY <1>2, <1>5, <3>2
    <3>3. Len(statuses) \in Nat
      OBVIOUS
    <3> QED
      BY <3>1, <3>2, <3>3
  <2>5. CASE i \in DOMAIN mixer /\ mixer'[i] = mixer[i]
    <3>1. writable /\ (pc = "mutating" => mixer[i].op <= Len(statuses)) /\ mixer[i].op \in Nat
      BY <1>5, <1>8, <2>2, <2>5 DEF ServedInv
    <3>2. Len(statuses) \in Nat /\ mixer'[i].op = mixer[i].op
      BY <2>5
    <3>3. writable'
      BY <2>3, <3>1
    <3>4. ASSUME pc' = "mutating" PROVE mixer'[i].op <= Len(statuses')
      <4>1. mixer[i].op <= Len(statuses) /\ Len(statuses) <= Len(statuses')
        BY <2>4, <3>1, <3>4
      <4>2. Len(statuses') \in Nat
        OBVIOUS
      <4>3. \A x, y, z \in Nat : x <= y /\ y <= z => x <= z
        OBVIOUS
      <4> QED
        BY <3>1, <3>2, <4>1, <4>2, <4>3
    <3> QED
      BY <3>3, <3>4
  <2>6. CASE i = Len(mixer) + 1 /\ mixer' = Append(mixer, Next1) /\ writable
    <3>1. mixer'[i].op = Len(statuses) + 1
      BY <2>6, Grows DEF Next1
    <3>2. pc' = "mutating" => MutationSucceeds /\ Resnapshots
      <4>1. mixer' # mixer
        BY <2>6
      <4> QED
        BY <1>2, <1>5, <4>1
    <3>3. pc' = "mutating" => Len(statuses') = Len(statuses) + 1
      BY <3>2 DEF MutationSucceeds
    <3> QED
      BY <2>3, <2>6, <3>1, <3>3
  <2> QED
    BY <2>5, <2>6, MixerEffect, Grows
<1> QED
  BY <1>1, <1>3, <1>4, <1>5 DEF ServedInv

\* The next operation of a command is one the mixer has not seen, nor one after it.
LEMMA OnceStep ==
  ASSUME TypeOK, ServingInv, ServedInv, AppliedAtMostOnce, [Next]_vars
  PROVE  AppliedAtMostOnce'
<1>1. CASE mixer' = mixer
  BY <1>1 DEF AppliedAtMostOnce
<1>2. CASE pc = "mutating" /\ mixer' = Append(mixer, Next1)
  <2>1. \A i \in DOMAIN mixer : mixer[i].op \in Nat
    BY Entries DEF TypeOK
  <2>2. Len(statuses) \in Nat
    BY DEF TypeOK
  <2>3. \A i \in DOMAIN mixer : mixer[i].call = serving => mixer[i].op < Len(statuses) + 1
    BY <1>2, <2>1, <2>2 DEF ServedInv
  <2> SUFFICES ASSUME NEW i \in DOMAIN mixer', NEW j \in DOMAIN mixer', i < j,
                      mixer'[i].call = mixer'[j].call
               PROVE  mixer'[i].op < mixer'[j].op
    BY DEF AppliedAtMostOnce
  <2>4. CASE j \in DOMAIN mixer
    <3>1. i \in DOMAIN mixer
      BY <1>2, <2>4, Grows
    <3> QED
      BY <1>2, <2>4, <3>1, Grows DEF AppliedAtMostOnce
  <2>5. CASE j = Len(mixer) + 1
    <3>1. i \in DOMAIN mixer /\ mixer'[i] = mixer[i]
      BY <1>2, <2>5, Grows
    <3>2. mixer'[j].call = serving /\ mixer'[j].op = Len(statuses) + 1
      BY <1>2, <2>5, Grows DEF Next1
    <3> QED
      BY <2>3, <3>1, <3>2
  <2> QED
    BY <1>2, <2>4, <2>5, Grows
<1> QED
  BY <1>1, <1>2, MixerEffect

Refusals == {"NotReady", "Shutdown", "UnsupportedRevision"}

\* Whoever is refused was not served, or was served through a locked connection.
LEMMA RefusedStep ==
  ASSUME TypeOK, ServingInv, ChannelInv, AnswerInv, TouchedInv, ServedInv,
         RefusedWritesNothing, [Next]_vars
  PROVE  RefusedWritesNothing'
<1> USE DEF TypeOK, Refusals
<1>0. None \notin Calls
  BY ConstantsAssumption DEF ConstantsAssumption
<1>1. SUFFICES ASSUME NEW c \in Calls, result'[c] \in Refusals, Touched(c)'
               PROVE  FALSE
  BY DEF RefusedWritesNothing, Touched
<1>2. Touched(c) \/ c = serving
  BY <1>1, AppliedEffect
<1>3. result[c] \notin Refusals
  <2>1. result[c] \in Refusals => ~Touched(c)
    BY DEF RefusedWritesNothing, Touched
  <2>2. c = serving => result[c] = "none"
    BY <1>0 DEF ChannelInv, Sent, AnswerInv
  <2> QED
    BY <1>2, <2>1, <2>2
<1>4. phase[c] \in {"queued", "done", "dropped"}
  BY <1>0, <1>2 DEF TouchedInv, ChannelInv, Sent
<1>5. phase[c] = "queued" => c = serving
  BY <1>2 DEF TouchedInv
<1>6. result'[c] # result[c]
  BY <1>1, <1>3
<1>7. ~UNCHANGED Ours /\ ~Wanders
  BY <1>6 DEF Ours, Wanders
<1>8. ASSUME NEW d \in Calls, CallerDoes(d) PROVE FALSE
  BY <1>1, <1>4, <1>6, <1>8 DEF CallerDoes, Made, Advances
<1>9. ~reject_command
  <2> SUFFICES ASSUME reject_command PROVE FALSE
    OBVIOUS
  <2>1. c = Head(commands) /\ phase[c] = "queued" /\ serving = None
    BY <1>6, ReplyEffect, TakeHead, InService DEF reject_command
  <2> QED
    BY <1>0, <1>5, <2>1
<1>10. ~Exit /\ ~SelectCommand /\ ~GoesOn
  BY <1>6 DEF Exit, SelectCommand, GoesOn, callVars
<1>11. ASSUME NEW r, NEW rep, serving \in Calls, Reply(serving, r, rep)
       PROVE  c = serving /\ result'[c] = r
  BY <1>6, <1>11, ReplyEffect
<1>12. ~(MutationSucceeds /\ ~Resnapshots)
  BY <1>1, <1>11, InService DEF MutationSucceeds, ServingInv
<1>13. ASSUME ResyncSucceeds \/ ResyncFails PROVE FALSE
  <2>1. serving \in Calls
    BY <1>13, InService DEF ResyncSucceeds, ResyncFails
  <2>2. c = serving /\ (result'[c] \in {"Ok", "RpcFailed"} \/ result'[c] = mutation_error)
    BY <1>11, <1>13, <2>1 DEF ResyncSucceeds, ResyncFails
  <2>3. ~writable /\ mixer' = mixer
    BY <1>1, <1>13, <2>2 DEF mutation_error, WritesAllowed, ResyncSucceeds, ResyncFails
  <2> QED
    BY <1>1, <2>2, <2>3 DEF Touched, ServedInv
<1>14. ~Serving
  BY <1>6, <1>10, <1>12, <1>13
     DEF Serving, MutationSucceeds, MutationFails, callVars
<1> QED
  BY <1>7, <1>8, <1>9, <1>10, <1>14, StepCases DEF CommandSteps

\* The answer of a call stands.
LEMMA DoneFixed ==
  ASSUME TypeOK, ServingInv, [Next]_vars, NEW c \in Calls, phase[c] = "done"
  PROVE  UNCHANGED <<phase[c], result[c], report[c]>>
<1>1. CASE UNCHANGED Ours
  BY <1>1 DEF Ours
<1>2. ASSUME NEW d \in Calls, CallerDoes(d)
      PROVE  UNCHANGED <<phase[c], result[c], report[c]>>
  BY <1>2 DEF CallerDoes, Made, Advances
<1>3. ASSUME NEW d \in Calls, NEW r, NEW rep, Reply(d, r, rep)
      PROVE  UNCHANGED <<phase[c], result[c], report[c]>>
  BY <1>3, ReplyEffect
<1>4. CASE reject_command
  BY <1>3, <1>4 DEF reject_command, TypeOK
<1>5. CASE Wanders \/ GoesOn \/ SelectCommand
  BY <1>5 DEF Wanders, GoesOn, SelectCommand, callVars
<1>6. CASE serving \in Calls /\ Answers(serving)
  BY <1>3, <1>6 DEF Answers
<1>7. CASE Exit
  BY <1>7 DEF Exit, Abandon, TypeOK
<1> QED
  BY <1>1, <1>2, <1>4, <1>5, <1>6, <1>7, StepCases, ServiceEffect DEF CommandSteps

\* A report stays true while the mixer does nothing more for its call.
LEMMA ReportStands ==
  ASSUME TypeOK, NEW c \in Calls, TrueReport(c, report[c]), request'[c] = request[c],
         report'[c] = report[c], \A op : Applied(c, op)' <=> Applied(c, op)
  PROVE  TrueReport(c, report[c])'
BY DEF TrueReport

\* The statuses so far, with the failure of the next operation.
LEMMA FailReport ==
  ASSUME TypeOK, ServingInv, ServedInv, ReportInv, MutationFails, [Next]_vars,
         NEW c \in Calls, c = serving
  PROVE  TrueReport(c, statuses)'
<1> DEFINE n == Len(statuses)
           rep == statuses'
<1>1. /\ pc = "mutating" /\ request' = request /\ UNCHANGED serving
      /\ statuses' = FailNext
  BY DEF MutationFails, callVars
<1>2. n \in Nat /\ request[c].size \in Nat /\ n < request[c].size /\ DOMAIN statuses = 1 .. n
  BY <1>1 DEF TypeOK, Request, ServedInv
<1>3. /\ DOMAIN rep = 1 .. request[c].size
      /\ \A i \in 1 .. request[c].size :
           rep[i] = IF i <= n THEN statuses[i] ELSE IF i = n + 1 THEN "Failed" ELSE "NotAttempted"
  BY <1>1 DEF FailNext
<1>4. \A i \in 1 .. n : statuses[i] = "Succeeded" /\ Applied(c, i)
  BY <1>1, <1>2 DEF ServedInv, ReportInv
<1>5. \A i \in 1 .. request[c].size :
        /\ i <= n => rep[i] = "Succeeded"
        /\ i = n + 1 => rep[i] = "Failed"
        /\ i > n + 1 => rep[i] = "NotAttempted"
  BY <1>2, <1>3, <1>4
<1>6. Len(rep) = request[c].size
  <2>1. rep = [i \in 1 .. request[c].size |-> rep[i]]
    BY <1>1, <1>3 DEF FailNext
  <2>2. rep \in Seq({"Succeeded", "Failed", "NotAttempted"})
    BY <1>2, <1>3, <1>5, <2>1
  <2> QED
    BY <1>2, <1>3, <2>2, LenProperties
<1>7. ASSUME NEW i \in Nat, Applied(c, i) PROVE i <= n
  BY <1>1, <1>7 DEF Applied, ServedInv
<1> HIDE DEF rep
<1>8. ASSUME NEW i \in DOMAIN rep
      PROVE  /\ rep[i] = "Succeeded" => Applied(c, i)' /\ \A j \in 1 .. i - 1 : rep[j] = "Succeeded"
             /\ rep[i] = "NotAttempted" => ~Applied(c, i)'
                /\ \E j \in 1 .. i - 1 : rep[j] = "Failed"
             /\ rep[i] = "Failed" => \A j \in 1 .. i - 1 : rep[j] = "Succeeded"
  <2>1. i \in 1 .. request[c].size
    BY <1>3
  <2>2. CASE i <= n
    <3>1. rep[i] = "Succeeded" /\ Applied(c, i)'
      BY <1>2, <1>4, <1>5, <2>1, <2>2, AppliedEffect
    <3>2. \A j \in 1 .. i - 1 : rep[j] = "Succeeded"
      BY <1>2, <1>5, <2>1, <2>2
    <3> QED
      BY <3>1, <3>2
  <2>3. CASE i = n + 1
    <3>1. rep[i] = "Failed"
      BY <1>5, <2>1, <2>3
    <3>2. \A j \in 1 .. i - 1 : rep[j] = "Succeeded"
      BY <1>2, <1>5, <2>1, <2>3
    <3> QED
      BY <3>1, <3>2
  <2>4. CASE i > n + 1
    <3>1. rep[i] = "NotAttempted"
      BY <1>5, <2>1, <2>4
    <3>2. n + 1 \in 1 .. i - 1 /\ rep[n + 1] = "Failed"
      BY <1>2, <1>5, <2>1, <2>4
    <3>3. ~Applied(c, i)'
      BY <1>2, <1>7, <2>1, <2>4, AppliedEffect
    <3> QED
      BY <3>1, <3>2, <3>3
  <2> QED
    BY <1>2, <2>1, <2>2, <2>3, <2>4
<1> QED
  BY <1>1, <1>6, <1>8 DEF TrueReport, rep

\* The statuses so far, with the success of the next operation.
LEMMA SucceedReport ==
  ASSUME TypeOK, ServingInv, ServedInv, ReportInv, MutationSucceeds, Resnapshots, [Next]_vars,
         NEW c \in Calls, c = serving
  PROVE  /\ \A i \in DOMAIN statuses' : statuses'[i] = "Succeeded" /\ Applied(c, i)'
         /\ pc' = "resync" => TrueReport(c, statuses)'
<1>1. /\ pc = "mutating" /\ request' = request /\ Len(statuses) \in Nat
      /\ statuses' = Append(statuses, "Succeeded") /\ mixer' = Append(mixer, Next1)
  BY DEF MutationSucceeds, Next1, TypeOK
<1>2. /\ Len(statuses') = Len(statuses) + 1
      /\ \A i \in DOMAIN statuses' : (i \in DOMAIN statuses /\ statuses'[i] = statuses[i])
                                     \/ (i = Len(statuses) + 1 /\ statuses'[i] = "Succeeded")
  BY <1>1 DEF TypeOK
<1>3. \A op : op = Len(statuses) + 1 => Applied(c, op)'
  <2>1. mixer'[Len(mixer) + 1] = [call |-> c, op |-> Len(statuses) + 1]
    BY <1>1, Grows DEF Next1
  <2> QED
    BY <1>1, <2>1, Grows DEF Applied
<1>4. ASSUME NEW i \in DOMAIN statuses' PROVE statuses'[i] = "Succeeded" /\ Applied(c, i)'
  <2>1. CASE i \in DOMAIN statuses /\ statuses'[i] = statuses[i]
    BY <1>1, <2>1, AppliedEffect DEF ServedInv, ReportInv
  <2>2. CASE i = Len(statuses) + 1 /\ statuses'[i] = "Succeeded"
    BY <1>3, <2>2
  <2> QED
    BY <1>2, <2>1, <2>2
<1>5. ASSUME pc' = "resync" PROVE TrueReport(c, statuses)'
  <2>1. ~(Len(statuses) + 1 < request[c].size) /\ Len(statuses) < request[c].size
    BY <1>1, <1>5 DEF MutationSucceeds, ServedInv
  <2>2. request[c].size \in Nat
    BY DEF TypeOK, Request
  <2>3. Len(statuses') = request'[c].size
    BY <1>1, <1>2, <2>1, <2>2
  <2>4. statuses' \in Seq(Status) /\ DOMAIN statuses' = 1 .. Len(statuses')
    BY <1>1 DEF TypeOK, Status
  <2>5. ASSUME NEW i \in DOMAIN statuses', NEW j \in 1 .. i - 1 PROVE statuses'[j] = "Succeeded"
    BY <1>4, <2>4
  <2>6. \A i \in DOMAIN statuses' : statuses'[i] # "Failed" /\ statuses'[i] # "NotAttempted"
    BY <1>4
  <2> QED
    BY <1>4, <2>3, <2>5, <2>6 DEF TrueReport
<1> QED
  BY <1>4, <1>5

\* What is noted of the operations of a command is what happened to them.
LEMMA ReportStep ==
  ASSUME TypeOK, ServingInv, ServingInv', RequestInv, ChannelInv, AnswerInv, ServedInv, ReportInv,
         [Next]_vars
  PROVE  ReportInv'
<1>0. None \notin Calls
  BY ConstantsAssumption DEF ConstantsAssumption
<1>1. ASSUME pc' = "mutating", NEW i \in DOMAIN statuses'
      PROVE  Applied(serving, i)'
  <2> SUFFICES ASSUME NEW c \in Calls, c = serving' PROVE Applied(c, i)'
    <3>1. serving' \in Calls
      BY <1>0, <1>1, MutatingNext, TakeHead, InService
         DEF SelectCommand, MutationSucceeds, ServingInv, TypeOK
    <3> QED
      BY <3>1
  <2>1. CASE SelectCommand
    BY <1>1, <2>1, InService DEF SelectCommand, ServedInv
  <2>2. CASE pc = "mutating" /\ UNCHANGED <<serving, statuses, mixer>>
    BY <1>1, <2>2 DEF ReportInv, Applied
  <2>3. CASE MutationSucceeds /\ Resnapshots
    BY <1>1, <2>3, SucceedReport DEF MutationSucceeds
  <2> QED
    BY <1>1, <2>1, <2>2, <2>3, MutatingNext
<1>2. ASSUME pc' = "resync", NEW c \in Calls, c = serving'
      PROVE  TrueReport(c, statuses)'
  <2>1. CASE SelectCommand
    <3>1. /\ c = Head(commands) /\ serving = None /\ statuses' = statuses /\ request' = request
          /\ ~(request[c].size > 0)
      BY <1>2, <2>1, InService DEF SelectCommand, callVars
    <3>2. statuses' = <<>> /\ request[c].size = 0
      BY <3>1 DEF ServedInv, TypeOK, Request
    <3> QED
      BY <3>1, <3>2 DEF TrueReport
  <2>2. CASE pc = "resync" /\ UNCHANGED <<serving, statuses, mixer>>
    <3>1. request'[c] = request[c]
      BY <1>0, <1>2, <2>2, RequestFixed DEF ChannelInv, Sent
    <3> QED
      BY <1>2, <2>2, <3>1 DEF ReportInv, TrueReport, Applied
  <2>3. CASE MutationSucceeds /\ Resnapshots
    BY <1>2, <2>3, SucceedReport DEF MutationSucceeds
  <2>4. CASE MutationFails
    BY <1>2, <2>4, FailReport DEF MutationFails
  <2> QED
    BY <1>2, <2>1, <2>2, <2>3, <2>4, MutatingNext
<1>3. ASSUME NEW c \in Calls, result'[c] = "Ok", request'[c].kind = "Batch"
      PROVE  TrueReport(c, report[c])'
  <2>1. CASE result[c] = "Ok"
    <3>1. phase[c] = "done" /\ c # serving
      BY <1>0, <2>1 DEF AnswerInv, ChannelInv, Sent
    <3>2. request'[c] = request[c] /\ report'[c] = report[c]
      BY <3>1, DoneFixed, RequestFixed
    <3>3. \A op : Applied(c, op)' <=> Applied(c, op)
      BY <3>1, AppliedEffect
    <3>4. TrueReport(c, report[c])
      BY <1>3, <2>1, <3>2 DEF ReportInv
    <3> QED
      BY <3>2, <3>3, <3>4, ReportStands
  <2>2. CASE result[c] # "Ok"
    <3>1. ~UNCHANGED Ours /\ ~Wanders /\ ~Exit /\ ~SelectCommand /\ ~GoesOn
      BY <1>3, <2>2 DEF Ours, Wanders, Exit, SelectCommand, GoesOn, callVars
    <3>2. ASSUME NEW d \in Calls, CallerDoes(d) PROVE FALSE
      BY <1>3, <2>2, <3>2 DEF CallerDoes, Made, Advances, RequestInv
    <3>3. ~reject_command
      BY <1>3, <2>2, ReplyEffect, TakeHead DEF reject_command
    <3>4. serving \in Calls /\ Serving
      BY <3>1, <3>2, <3>3, StepCases, ServiceEffect DEF CommandSteps
    <3>5. ASSUME NEW r, NEW rep, Reply(serving, r, rep)
          PROVE  c = serving /\ r = "Ok" /\ report'[c] = rep
      BY <1>3, <2>2, <3>4, <3>5, ReplyEffect
    <3>6. request' = request
      BY <3>1, <3>4, ServiceEffect DEF Answers
    <3>7. ~MutationSucceeds /\ ~MutationFails
      <4>1. ~(MutationSucceeds /\ ~Resnapshots)
        BY <1>3, <3>5, <3>6 DEF MutationSucceeds, Resnapshots, ServingInv
      <4> QED
        BY <1>3, <2>2, <4>1 DEF MutationSucceeds, MutationFails, callVars
    <3>8. ~ResyncFails
      BY <3>5 DEF ResyncFails, mutation_error
    <3>9. c = serving /\ report'[c] = statuses /\ pc = "resync" /\ mixer' = mixer
      BY <3>1, <3>4, <3>5, <3>7, <3>8 DEF Serving, ResyncSucceeds
    <3>10. TrueReport(c, statuses)
      BY <3>9 DEF ReportInv
    <3> QED
      BY <3>6, <3>9, <3>10 DEF TrueReport, Applied
  <2> QED
    BY <2>1, <2>2
<1>4. (pc = "resync" => TrueReport(serving, statuses))'
  <2>1. pc' = "resync" => serving' \in Calls
    BY <1>0, MutatingNext, TakeHead, InService
       DEF SelectCommand, MutationSucceeds, MutationFails, ServingInv, TypeOK
  <2> QED
    BY <1>2, <2>1
<1> QED
  BY <1>1, <1>3, <1>4 DEF ReportInv

\* What is published shows all there is.
LEMMA PublishShows ==
  ASSUME TypeOK, Publish, NEW i \in DOMAIN mixer
  PROVE  Visible(i)'
<1>1. i <= Len(mixer) /\ Len(mixer) \in Nat
  BY DEF TypeOK
<1>2. snapshot' # None /\ snapshot'.shows = Len(mixer)
  BY PublishedIsFresh DEF Publish
<1> QED
  BY <1>1, <1>2 DEF Visible

\* An operation of a call that is answered Ok is in the snapshot by then, and stays there.
LEMMA VisibleStep ==
  ASSUME TypeOK, ServingInv, ChannelInv, AnswerInv, TouchedInv, VisibleInv, [Next]_vars
  PROVE  VisibleInv'
<1> DEFINE Shown(i, c) == \/ Quiet(c) \/ Visible(i) \/ c = serving
                          \/ pc \in Adrift /\ result[c] # "Ok"
<1>0. None \notin Calls
  BY ConstantsAssumption DEF ConstantsAssumption
<1>1. ASSUME NEW i \in DOMAIN mixer, NEW c \in Calls, mixer[i].call = c
      PROVE  Shown(i, c)'
  <2>1. Shown(i, c)
    BY <1>1 DEF VisibleInv
  <2>2. Touched(c)
    BY <1>1 DEF Touched
  <2>3. phase[c] \in {"queued", "done", "dropped"} /\ (phase[c] = "queued" => c = serving)
    BY <1>0, <2>2 DEF TouchedInv, ChannelInv, Sent
  <2>4. Quiet(c) => Quiet(c)'
    BY <2>3, RequestFixed DEF Quiet
  <2> SUFFICES ASSUME ~Quiet(c) PROVE Shown(i, c)'
    BY <2>4
  <2>5. CASE UNCHANGED Ours
    BY <2>1, <2>5 DEF Ours, Quiet, Visible
  <2>6. ASSUME NEW d \in Calls, CallerDoes(d) PROVE Shown(i, c)'
    <3>1. UNCHANGED <<pc, serving, snapshot>> /\ result'[c] = result[c]
      BY <2>3, <2>6 DEF CallerDoes, Made, Advances
    <3> QED
      BY <2>1, <3>1 DEF Visible
  <2>7. CASE Wanders
    <3>1. CASE Publish
      BY <1>1, <3>1, PublishShows
    <3>2. CASE ~Publish
      BY <2>1, <2>7, <3>2 DEF Wanders, Visible
    <3> QED
      BY <3>1, <3>2
  <2>8. CASE reject_command
    <3>1. serving = None /\ UNCHANGED <<pc, serving, snapshot>>
      BY <2>8, InService DEF reject_command, taskVars
    <3>2. result'[c] = result[c]
      BY <1>0, <2>3, <2>8, <3>1, ReplyEffect, TakeHead DEF reject_command
    <3> QED
      BY <2>1, <3>1, <3>2 DEF Visible
  <2>9. CASE SelectCommand \/ GoesOn
    BY <1>0, <1>1, <2>1, <2>9, InService DEF SelectCommand, GoesOn, Visible, Adrift
  <2>10. CASE MutationSucceeds /\ ~Resnapshots
    <3>1. c # serving /\ snapshot' = snapshot /\ pc \notin Adrift
      BY <2>10 DEF MutationSucceeds, Resnapshots, Quiet, Adrift, sharedVars
    <3> QED
      BY <2>1, <3>1 DEF Visible
  <2>11. CASE ResyncSucceeds
    BY <1>1, <2>11, PublishShows DEF ResyncSucceeds
  <2>12. CASE ResyncFails
    <3>1. snapshot' = snapshot /\ pc \notin Adrift /\ pc' \in Adrift /\ serving \in Calls
      BY <2>12, InService DEF ResyncFails, Adrift, sharedVars
    <3>2. c = serving => result'[c] # "Ok"
      <4>1. c = serving => result[c] = "none"
        BY <1>0 DEF ChannelInv, Sent, AnswerInv
      <4> QED
        BY <2>12, <3>1, <4>1 DEF ResyncFails, Reply, mutation_error, TypeOK
    <3> QED
      BY <2>1, <3>1, <3>2 DEF Visible
  <2>13. CASE Exit
    BY <2>1, <2>13 DEF Exit, Visible, Adrift
  <2>14. CASE Serving
    <3>1. MutationSucceeds /\ Resnapshots => GoesOn
      BY InService DEF MutationSucceeds, GoesOn, sharedVars
    <3>2. MutationFails => GoesOn
      BY InService DEF MutationFails, GoesOn, sharedVars, callVars
    <3> QED
      BY <2>9, <2>10, <2>11, <2>12, <2>14, <3>1, <3>2 DEF Serving
  <2> QED
    BY <2>5, <2>6, <2>7, <2>8, <2>13, <2>14, StepCases DEF CommandSteps
<1>2. ASSUME mixer' = Append(mixer, Next1), MutationSucceeds \/ MutationFails, serving \in Calls
      PROVE  \A c \in Calls : c = serving => c = serving' \/ Quiet(c)'
  BY <1>2 DEF MutationSucceeds, MutationFails, Resnapshots, Quiet
<1> HIDE DEF Shown
<1>3. ASSUME NEW i \in DOMAIN mixer', NEW c \in Calls, mixer'[i].call = c
      PROVE  Shown(i, c)'
  <2>1. CASE i \in DOMAIN mixer /\ mixer'[i] = mixer[i]
    BY <1>1, <1>3, <2>1
  <2>2. CASE i = Len(mixer) + 1 /\ mixer' = Append(mixer, Next1)
    <3>1. c = serving
      BY <1>3, <2>2, Grows DEF Next1
    <3>2. MutationSucceeds \/ MutationFails
      <4>1. mixer' # mixer
        BY <2>2 DEF TypeOK
      <4> QED
        BY <4>1, MixerEffect
    <3> QED
      BY <1>2, <2>2, <3>1, <3>2 DEF Shown
  <2> QED
    BY <2>1, <2>2, MixerEffect, Grows
<1>4. \A i \in DOMAIN mixer' : mixer'[i].call \in Calls
  <2>1. mixer' \in Seq([call : Calls, op : Nat])
    <3>1. CASE mixer' = mixer
      BY <3>1 DEF TypeOK
    <3>2. CASE mixer' = Append(mixer, Next1) /\ serving \in Calls
      BY <3>2 DEF TypeOK, Next1
    <3> QED
      BY <3>1, <3>2, MixerEffect
  <2> QED
    BY <2>1, Entries
<1> QED
  BY <1>3, <1>4 DEF VisibleInv, Shown

------------------------------------------------------------------------------
(* The invariant, and what follows.                                        *)

\* No call is made at first.
LEMMA CallInit == Init => CallInv
BY ConstantsAssumption
   DEF ConstantsAssumption, Init, CallInv, NoRequest, RequestInv, ChannelInv, AnswerInv,
       TouchedInv, Touched, ServedInv, ReportInv, VisibleInv, AppliedAtMostOnce,
       RefusedWritesNothing

\* Every step keeps it: the lemmas above, put together.
LEMMA CallInvStep ==
  ASSUME IInv, IInv', CallInv, [Next]_vars
  PROVE  CallInv'
BY RequestStep, ChannelStep, AnswerStep, TouchedStep, ServedStep, ReportStep, VisibleStep,
   OnceStep, RefusedStep
   DEF IInv, CallInv

\* The invariant of the calls.
THEOREM CallInvariance == Spec => []CallInv
<1>1. IInv /\ IInv' /\ CallInv /\ [Next]_vars => CallInv'
  BY CallInvStep
<1> QED
  BY CallInit, Invariance, <1>1, PTL DEF Spec

\* No operation is applied twice, and those of a call are applied in order, whatever
\* connections are lost, writes fail and callers go away.
THEOREM AlwaysAppliedAtMostOnce == Spec => []AppliedAtMostOnce
<1>1. CallInv => AppliedAtMostOnce
  BY DEF CallInv
<1> QED
  BY CallInvariance, <1>1, PTL

\* A write that is answered by a refusal has not touched the mixer and never will.
THEOREM RefusedNeverWrites == Spec => []RefusedWritesNothing
<1>1. CallInv => RefusedWritesNothing
  BY DEF CallInv
<1> QED
  BY CallInvariance, <1>1, PTL

\* What a BatchResult says of each operation is what happened to it on the mixer.
THEOREM BatchReportAlwaysTrue == Spec => []BatchReportIsTrue
<1>1. CallInv => BatchReportIsTrue
  BY DEF CallInv, ReportInv, TrueReport, Applied, BatchReportIsTrue
<1> QED
  BY CallInvariance, <1>1, PTL

\* When a call has returned success, and whenever the task is idle in a session, the
\* snapshot shows what the mixer did for every call that asks for a snapshot.
THEOREM WritesAlwaysVisible == Spec => []WritesAreVisible
<1>1. IInv /\ CallInv => WritesAreVisible
  <2> SUFFICES ASSUME IInv, CallInv, NEW i \in DOMAIN mixer, NEW c \in Calls,
                      c = mixer[i].call, ~Quiet(c), pc = "select" \/ result[c] = "Ok"
               PROVE  Visible(i)
    BY Entries DEF IInv, TypeOK, WritesAreVisible
  <2>1. None \notin Calls
    BY ConstantsAssumption DEF ConstantsAssumption
  <2>2. c # serving
    BY <2>1 DEF IInv, CallInv, ServingInv, ChannelInv, Sent, AnswerInv
  <2> QED
    BY <2>2 DEF CallInv, VisibleInv, Adrift
<1> QED
  BY Invariance, CallInvariance, <1>1, PTL

------------------------------------------------------------------------------
(* The two gates.                                                          *)

\* A write that passed the gate of the API since the connection was opened has a
\* connection that may be written through.
CarriedInv ==
  \A c \in Calls :
    /\ phase[c] \in {"admitted", "queued"} /\ request[c].kind \in {"Apply", "Batch"}
    /\ ~carried[c]
    => writable

\* Only the opening of a connection changes what the gates look at.
LEMMA GateFrame ==
  ASSUME Task, ~ConnectSucceeds
  PROVE  UNCHANGED <<writable, carried>>
<1> USE DEF taskVars, callVars
<1>1. CASE Connecting
  BY <1>1 DEF Connecting, LoopHead, ConnectFails, BackoffElapses, BackoffShutdown, reject_command
<1>2. CASE Synchronizing
  BY <1>2 DEF Synchronizing, SnapshotArrives, BecomeReady, FirstSnapshotFails, RetryAtOnce,
              SelectNotification, LoseConnection, Reconnect
<1>3. CASE Serving
  BY <1>3 DEF Serving, SelectCommand, MutationSucceeds, MutationFails, ResyncSucceeds, ResyncFails
<1>4. CASE Stopping
  BY <1>4 DEF Stopping, SelectShutdown, AnnounceShutdown, Exit, ExitWithoutClient
<1> QED
  BY <1>1, <1>2, <1>3, <1>4 DEF Task

\* The API lets a write pass when Ready is announced, and a connection that opens later
\* marks whatever is on its way.
LEMMA CarriedStep ==
  ASSUME IInv, CallInv, CarriedInv, [Next]_vars
  PROVE  CarriedInv'
<1> USE DEF IInv, TypeOK, CarriedInv
<1>1. CASE UNCHANGED vars
  BY <1>1 DEF vars, taskVars, callVars
<1>2. CASE (\E s \in Stoppers : StopStep(s)) \/ DropClient
  BY <1>2 DEF StopStep, SignalShutdown, TakeHandle, JoinTask, AbortShutdown, DropClient,
              taskVars, callVars
<1>3. ASSUME NEW c \in Calls, CallStep(c) PROVE CarriedInv'
  <2>1. /\ UNCHANGED <<writable, carried>>
        /\ \A d \in Calls \ {c} : UNCHANGED <<phase[d], request[d]>>
    BY <1>3 DEF CallStep, IssueWrite, IssueRefresh, IssueReady, ReadyReturns, SendCommand,
                ReportUnavailable, DropCall, taskVars
  <2>2. \/ phase[c] \in {"admitted", "queued"} /\ UNCHANGED request
        \/ phase'[c] \notin {"admitted", "queued"}
        \/ request'[c].kind \notin {"Apply", "Batch"}
        \/ state = "Ready"
    BY <1>3 DEF CallStep, IssueWrite, IssueRefresh, IssueReady, ReadyReturns, SendCommand,
                ReportUnavailable, DropCall, ensure_writable, unavailable_error
  <2>3. state = "Ready" => writable
    BY DEF PointInv, InSession, Serves, Points
  <2> QED
    BY <2>1, <2>2, <2>3
<1>4. CASE ConnectSucceeds
  <2>1. serving = None
    BY <1>4 DEF ConnectSucceeds, ServingInv
  <2>2. \A c \in Calls : phase[c] = "queued" => InChannel(c)
    BY <2>1, ConstantsAssumption DEF CallInv, ChannelInv, ConstantsAssumption
  <2>3. \A c \in Calls : phase[c] \in {"admitted", "queued"} => carried'[c]
    BY <1>4, <2>2 DEF ConnectSucceeds, InChannel
  <2> QED
    BY <1>4, <2>3 DEF ConnectSucceeds
<1>5. CASE Task /\ ~ConnectSucceeds
  <2>1. \A c \in Calls : phase'[c] \in {"admitted", "queued"} => phase'[c] = phase[c]
    BY <1>5, TaskPhases
  <2> QED
    BY <1>5, <2>1, GateFrame, TaskFrame
<1> QED
  BY <1>1, <1>2, <1>3, <1>4, <1>5 DEF Next, Ended

\* A queued command is refused for the revision in service only, by the transport.
LEMMA LockedEffect ==
  ASSUME TypeOK, ServingInv, ChannelInv, [Next]_vars, NEW c \in Calls, phase[c] = "queued",
         result'[c] # result[c], result'[c] = "UnsupportedRevision"
  PROVE  c = serving /\ request[c].kind = "Apply" /\ ~writable
<1> USE DEF TypeOK
<1>1. ~UNCHANGED Ours /\ ~Wanders /\ ~Exit /\ ~SelectCommand /\ ~GoesOn
  BY DEF Ours, Wanders, Exit, SelectCommand, GoesOn, callVars
<1>2. ASSUME NEW d \in Calls, CallerDoes(d) PROVE FALSE
  BY <1>2 DEF CallerDoes, Made, Advances
<1>3. ~reject_command
  BY ReplyEffect, TakeHead DEF reject_command
<1>4. ASSUME NEW r, NEW rep, serving \in Calls, Reply(serving, r, rep)
      PROVE  c = serving /\ r = "UnsupportedRevision"
  BY <1>4, ReplyEffect
<1>5. ~MutationSucceeds /\ ~MutationFails
  <2>1. ~(MutationSucceeds /\ ~Resnapshots)
    BY <1>4, InService DEF MutationSucceeds, ServingInv
  <2> QED
    BY <2>1 DEF MutationSucceeds, MutationFails, callVars
<1>6. CASE ResyncSucceeds \/ ResyncFails
  <2>1. serving \in Calls
    BY <1>6, InService DEF ResyncSucceeds, ResyncFails
  <2>2. PICK r \in {IF MutationFailed THEN mutation_error ELSE "Ok",
                    IF MutationFailed THEN mutation_error ELSE "RpcFailed"} :
          \E rep : Reply(serving, r, rep)
    BY <1>6 DEF ResyncSucceeds, ResyncFails
  <2>3. c = serving /\ r = "UnsupportedRevision"
    BY <1>4, <2>1, <2>2
  <2>4. MutationFailed /\ mutation_error = "UnsupportedRevision"
    BY <2>2, <2>3
  <2> QED
    BY <2>3, <2>4 DEF MutationFailed, mutation_error, WritesAllowed
<1> QED
  BY <1>1, <1>2, <1>3, <1>5, <1>6, StepCases DEF CommandSteps, Serving

\* The mixer changes only while Ready is announced, and a write the API let pass is
\* refused for the revision only by a connection opened after that.
THEOREM GatesAlwaysAgree == Spec => GatesAgree
<1>1. Init => CarriedInv
  BY DEF Init, CarriedInv
<1>2. IInv /\ CallInv /\ CarriedInv /\ [Next]_vars =>
        [/\ mixer' # mixer => state = "Ready"
         /\ \A c \in Calls :
              phase[c] = "queued" /\ result[c] # result'[c] /\ result'[c] = "UnsupportedRevision"
                => carried[c]]_vars
  <2> SUFFICES ASSUME IInv, CallInv, CarriedInv, [Next]_vars
               PROVE  /\ mixer' # mixer => state = "Ready"
                      /\ \A c \in Calls :
                           /\ phase[c] = "queued" /\ result[c] # result'[c]
                           /\ result'[c] = "UnsupportedRevision"
                           => carried[c]
    OBVIOUS
  <2>1. ASSUME mixer' # mixer PROVE state = "Ready"
    <3>1. pc = "mutating" /\ (MutationSucceeds \/ MutationFails)
      BY <2>1, MixerEffect DEF IInv
    <3>2. writable
      BY <2>1, <3>1 DEF MutationSucceeds, MutationFails, WritesAllowed
    <3> QED
      BY <3>1, <3>2 DEF IInv, PointInv, InSession, Serves
  <2>2. ASSUME NEW c \in Calls, phase[c] = "queued", result[c] # result'[c],
               result'[c] = "UnsupportedRevision"
        PROVE  carried[c]
    <3>1. c = serving /\ request[c].kind = "Apply" /\ ~writable
      BY <2>2, LockedEffect DEF IInv, CallInv
    <3> QED
      BY <2>2, <3>1 DEF CarriedInv
  <2> QED
    BY <2>1, <2>2
<1>3. IInv /\ CallInv /\ CarriedInv /\ [Next]_vars => CarriedInv'
  BY CarriedStep
<1> QED
  BY <1>1, <1>2, <1>3, Invariance, CallInvariance, PTL DEF Spec, GatesAgree

==============================================================================
