--------------------------- MODULE CommandsProofs ---------------------------
(***************************************************************************)
(* The lifecycle task implements Commands.tla, for any number of calls and *)
(* callers, any requests and any capacity of the channel: every step of the*)
(* one is a step of the other, or changes nothing that a caller could tell.*)
(***************************************************************************)
EXTENDS CallProofs

\* What Lifecycle.tla puts in the place of the variables of Commands.tla.
sizes   == [c \in Calls |-> request[c].size]
places  == [c \in Calls |-> placeOf(c)]
answers == [c \in Calls |-> answerOf(c)]

\* Whether a step of the lifecycle is one of the promise.
Kept == Promise!Next

\* A step that is about one call at most.
About(c) ==
  \A d \in Calls : d # c =>
    request'[d] = request[d] /\ placeOf(d)' = placeOf(d) /\ answerOf(d)' = answerOf(d)

\* Then the mapped state changes there only.
LEMMA OneCallOnly ==
  ASSUME NEW c \in Calls, About(c)
  PROVE  /\ sizes' = [sizes EXCEPT ![c] = request'[c].size]
         /\ places' = [places EXCEPT ![c] = placeOf(c)']
         /\ answers' = [answers EXCEPT ![c] = answerOf(c)']
BY DEF About, sizes, places, answers

\* No call is touched.
LEMMA KeptByStutter ==
  ASSUME \A c \in Calls : /\ request'[c].size = request[c].size
                          /\ placeOf(c)' = placeOf(c) /\ answerOf(c)' = answerOf(c),
         mixer' = mixer
  PROVE  Kept
<1>1. sizes' = sizes /\ places' = places /\ answers' = answers
  BY DEF sizes, places, answers
<1> QED
  BY <1>1 DEF Kept, Promise!Next, Promise!vars, sizes, places, answers

\* A call is made, or refused as it is made.
LEMMA KeptByMake ==
  ASSUME NEW c \in Calls, About(c), mixer' = mixer, request'[c].size \in Nat,
         placeOf(c) = "unmade",
         \/ placeOf(c)' = "open" /\ answerOf(c)' = answerOf(c)
         \/ placeOf(c)' = "over" /\ answerOf(c)' = "refused"
  PROVE  Kept
<1>1. Promise!Make(c)
  <2>1. places[c] = "unmade" /\ sizes'[c] = request'[c].size /\ answers[c] = answerOf(c)
    BY DEF places, sizes, answers
  <2>2. \/ places' = [places EXCEPT ![c] = "open"] /\ answers' = answers
        \/ places' = [places EXCEPT ![c] = "over"] /\ answers' = [answers EXCEPT ![c] = "refused"]
    BY <2>1, OneCallOnly DEF answers
  <2>3. sizes' = [sizes EXCEPT ![c] = sizes'[c]] /\ sizes'[c] \in Nat
    BY <2>1, OneCallOnly
  <2> QED
    BY <2>1, <2>2, <2>3 DEF Promise!Make, sizes, places, answers
<1> QED
  BY <1>1 DEF Kept, Promise!Next

\* A call that waits is refused.
LEMMA KeptByRefuse ==
  ASSUME NEW c \in Calls, About(c), mixer' = mixer, request'[c] = request[c],
         placeOf(c) = "open", placeOf(c)' = "over", answerOf(c)' = "refused"
  PROVE  Kept
<1>1. Promise!Refuse(c)
  <2>1. places[c] = "open" /\ sizes' = sizes
    BY OneCallOnly DEF places, sizes, About
  <2>2. /\ places' = [places EXCEPT ![c] = "over"]
        /\ answers' = [answers EXCEPT ![c] = "refused"]
    BY OneCallOnly
  <2> QED
    BY <2>1, <2>2 DEF Promise!Refuse, sizes, places, answers
<1> QED
  BY <1>1 DEF Kept, Promise!Next

\* Calls that wait are given up.
LEMMA KeptByGiveUp ==
  ASSUME \A c \in Calls : /\ request'[c] = request[c] /\ answerOf(c)' = answerOf(c)
                          /\ \/ placeOf(c)' = placeOf(c)
                             \/ placeOf(c) = "open" /\ placeOf(c)' = "over",
         mixer' = mixer
  PROVE  Kept
<1>1. sizes' = sizes /\ answers' = answers
  BY DEF sizes, answers
<1>2. \A c \in Calls : places[c] = placeOf(c) /\ places'[c] = placeOf(c)'
  BY DEF places
<1>3. CASE \A c \in Calls : placeOf(c)' = placeOf(c)
  BY <1>3, KeptByStutter
<1>4. CASE \E c \in Calls : placeOf(c)' # placeOf(c)
  <2> DEFINE gone == {c \in Calls : places'[c] # places[c]}
  <2>1. gone # {} /\ \A c \in gone : places[c] = "open" /\ places'[c] = "over"
    BY <1>2, <1>4
  <2>2. places' = [c \in Calls |-> IF c \in gone THEN "over" ELSE places[c]]
    <3>1. places' = [c \in Calls |-> places'[c]]
      BY DEF places
    <3> QED
      BY <2>1, <3>1
  <2>3. Promise!GiveUp
    BY <1>1, <2>1, <2>2 DEF Promise!GiveUp, sizes, places, answers
  <2> QED
    BY <2>3 DEF Kept, Promise!Next
<1> QED
  BY <1>3, <1>4

\* A call is taken into service when no other is.
LEMMA KeptByServe ==
  ASSUME NEW c \in Calls, About(c), mixer' = mixer, request'[c] = request[c],
         \A d \in Calls : placeOf(d) # "served",
         placeOf(c) = "open", placeOf(c)' = "served", answerOf(c)' = answerOf(c)
  PROVE  Kept
<1>1. Promise!Serve(c)
  <2>1. /\ places[c] = "open" /\ sizes' = sizes /\ answers' = answers
        /\ \A d \in Calls : places[d] # "served"
    BY OneCallOnly DEF places, sizes, answers, About
  <2>2. places' = [places EXCEPT ![c] = "served"]
    BY OneCallOnly
  <2> QED
    BY <2>1, <2>2 DEF Promise!Serve, sizes, places, answers
<1> QED
  BY <1>1 DEF Kept, Promise!Next

\* The next operation of c reaches the mixer, as the promise has it.
Operated(c) ==
  \E op \in 1 .. request[c].size :
    /\ \A i \in DOMAIN mixer : mixer[i].call = c => mixer[i].op < op
    /\ mixer' = Append(mixer, [call |-> c, op |-> op])

\* The call in service goes on.
LEMMA KeptByOperate ==
  ASSUME NEW c \in Calls, Operated(c), placeOf(c) = "served",
         \A d \in Calls : /\ request'[d] = request[d]
                          /\ placeOf(d)' = placeOf(d) /\ answerOf(d)' = answerOf(d)
  PROVE  Kept
<1>1. sizes' = sizes /\ places' = places /\ answers' = answers
  BY DEF sizes, places, answers
<1>2. places[c] = "served" /\ sizes[c] = request[c].size
  BY DEF places, sizes
<1>3. Promise!Operate(c)
  BY <1>2 DEF Operated, Promise!Operate, sizes
<1>4. Promise!Work(c)
  BY <1>1, <1>2, <1>3 DEF Promise!Work, sizes, places, answers
<1> QED
  BY <1>4 DEF Kept, Promise!Next

\* What the answer of c may claim once the mixer is as it is.
Claims(c) ==
  LET a == answerOf(c)
  IN \/ a = "done" /\ \A op \in 1 .. request[c].size : Applied(c, op)
     \/ a = "partial" /\ \E k \in 1 .. request[c].size : \A op \in 1 .. request[c].size :
                           /\ op < k => Applied(c, op)
                           /\ op > k => ~Applied(c, op)
     \/ a = "refused" /\ ~Touched(c)
     \/ a = "failed"

\* The service of a call ends, with an answer that claims no more than that, or none.
LEMMA KeptByComplete ==
  ASSUME NEW c \in Calls, About(c), request'[c] = request[c],
         Operated(c) \/ mixer' = mixer,
         placeOf(c) = "served", placeOf(c)' = "over",
         answerOf(c)' = answerOf(c) \/ Claims(c)'
  PROVE  Kept
<1>1. sizes' = sizes /\ sizes[c] = request[c].size /\ places[c] = "served"
  BY OneCallOnly DEF sizes, places, About
<1>2. places' = [places EXCEPT ![c] = "over"]
  BY OneCallOnly
<1>3. answers' = [answers EXCEPT ![c] = answerOf(c)']
  BY OneCallOnly
<1>4. Operated(c) => Promise!Operate(c)
  BY <1>1 DEF Operated, Promise!Operate, sizes
<1>5. CASE answerOf(c)' = answerOf(c)
  <2>1. answers' = answers
    BY <1>5, OneCallOnly DEF answers, About
  <2>2. Promise!Complete(c)
    BY <1>2, <2>1 DEF Promise!Complete, places, answers
  <2>3. Promise!Work(c)
    BY <1>1, <1>4, <2>2 DEF Promise!Work, sizes, places
  <2> QED
    BY <2>3 DEF Kept, Promise!Next
<1>6. CASE Claims(c)'
  <2>1. answerOf(c)' \in Promise!Answers \ {"none"}
    BY <1>6 DEF Claims, Promise!Answers
  <2>2. Promise!Truthful(c, answerOf(c)', mixer')
    <3>1. CASE answerOf(c)' = "done"
      BY <1>1, <1>6, <3>1 DEF Claims, Promise!Truthful, Promise!Reached, Applied, sizes
    <3>2. CASE answerOf(c)' = "partial"
      BY <1>1, <1>6, <3>2 DEF Claims, Promise!Truthful, Promise!Reached, Applied, sizes
    <3>3. CASE answerOf(c)' = "refused"
      BY <1>6, <3>3 DEF Claims, Promise!Truthful, Touched
    <3>4. CASE answerOf(c)' = "failed"
      BY <3>4 DEF Promise!Truthful
    <3> QED
      BY <1>6, <3>1, <3>2, <3>3, <3>4 DEF Claims
  <2>3. Promise!Complete(c)
    BY <1>2, <1>3, <2>1, <2>2 DEF Promise!Complete, places, answers
  <2>4. Promise!Work(c)
    BY <1>1, <1>4, <2>3 DEF Promise!Work, sizes, places
  <2> QED
    BY <2>4 DEF Kept, Promise!Next
<1> QED
  BY <1>5, <1>6

------------------------------------------------------------------------------
(* The steps.                                                              *)

\* Where a call is depends on this much.
LEMMA PlaceFrame ==
  ASSUME NEW c \in Calls, UNCHANGED <<phase[c], request[c], serving>>,
         InChannel(c)' <=> InChannel(c)
  PROVE  placeOf(c)' = placeOf(c)
BY DEF placeOf, IsCommand

\* And what its caller was told on this.
LEMMA AnswerFrame ==
  ASSUME NEW c \in Calls, UNCHANGED <<result[c], request[c], report[c]>>
  PROVE  answerOf(c)' = answerOf(c)
BY DEF answerOf, IsCommand

\* A call with a command is where its phase says.
LEMMA PlaceFacts ==
  ASSUME TypeOK, CallInv, NEW c \in Calls
  PROVE  /\ phase[c] = "idle" => placeOf(c) = "unmade" /\ c # serving /\ ~InChannel(c)
         /\ ~IsCommand(c) =>
              /\ placeOf(c) = "unmade" /\ c # serving /\ ~InChannel(c)
              /\ phase[c] \in {"idle", "waiting", "done", "dropped"}
         /\ IsCommand(c) /\ phase[c] \in {"admitted", "unavailable"} =>
              placeOf(c) = "open" /\ c # serving /\ ~InChannel(c)
         /\ IsCommand(c) /\ phase[c] = "queued" /\ c # serving => placeOf(c) = "open"
         /\ InChannel(c) => placeOf(c) = "open" /\ c # serving /\ Sent(c)
         /\ c = serving => placeOf(c) = "served" /\ Sent(c) /\ ~InChannel(c)
         /\ phase[c] # "done" => answerOf(c) = "none"
<1>1. None \notin Calls
  BY ConstantsAssumption DEF ConstantsAssumption
<1>2. InChannel(c) => Sent(c) /\ c # serving
  BY DEF CallInv, ChannelInv, InChannel
<1>3. c = serving => Sent(c)
  BY <1>1 DEF CallInv, ChannelInv
<1>4. phase[c] # "done" => answerOf(c) = "none"
  BY DEF CallInv, AnswerInv, answerOf
<1>5. /\ Sent(c) => IsCommand(c) /\ phase[c] \in {"queued", "dropped"}
      /\ phase[c] \in {"admitted", "queued", "unavailable"} => IsCommand(c)
  BY DEF Sent, IsCommand, CallInv, RequestInv
<1>6. phase[c] \in {"idle", "waiting", "done", "dropped", "admitted", "queued", "unavailable"}
  BY DEF TypeOK, Phases
<1>7. phase[c] = "idle" \/ ~IsCommand(c) => placeOf(c) = "unmade"
  BY <1>2, <1>3, <1>5 DEF placeOf
<1>8. c = serving => placeOf(c) = "served"
  BY <1>3, <1>5 DEF placeOf
<1>9. InChannel(c) \/ (IsCommand(c) /\ phase[c] \in {"admitted", "unavailable"})
      \/ (IsCommand(c) /\ phase[c] = "queued" /\ c # serving) => placeOf(c) = "open"
  BY <1>2, <1>3, <1>5 DEF placeOf
<1> QED
  BY <1>2, <1>3, <1>4, <1>5, <1>6, <1>7, <1>8, <1>9

\* The caller's steps.
LEMMA KeptByCaller ==
  ASSUME TypeOK, CallInv, NEW c \in Calls, CallerDoes(c)
  PROVE  Kept
<1>1. /\ UNCHANGED <<serving, mixer, report>>
      /\ \A d \in Calls \ {c} : UNCHANGED <<phase[d], request[d], result[d]>>
  BY DEF CallerDoes
<1>2. ASSUME NEW d \in Calls, d # c PROVE InChannel(d)' <=> InChannel(d)
  <2>1. CASE commands' = commands
    BY <2>1 DEF InChannel
  <2>2. CASE commands' = Append(commands, c)
    <3>1. /\ \A i \in DOMAIN commands : i \in DOMAIN commands' /\ commands'[i] = commands[i]
          /\ \A i \in DOMAIN commands' : i \in DOMAIN commands \/ i = Len(commands) + 1
          /\ commands'[Len(commands) + 1] = c
      BY <2>2 DEF TypeOK
    <3> QED
      BY <1>2, <3>1 DEF InChannel
  <2> QED
    BY <2>1, <2>2 DEF CallerDoes, Made, Advances
<1>3. About(c)
  BY <1>1, <1>2, PlaceFrame, AnswerFrame DEF About
<1>4. CASE Made(c)
  <2>1. /\ phase[c] = "idle" /\ placeOf(c) = "unmade" /\ answerOf(c) = "none" /\ c # serving
        /\ ~InChannel(c) /\ result[c] = "none" /\ commands' = commands
    BY <1>4, PlaceFacts DEF Made, CallInv, AnswerInv
  <2>2. InChannel(c)' <=> InChannel(c)
    BY <2>1 DEF InChannel
  <2>3. PICK r \in Requests :
          /\ request' = [request EXCEPT ![c] = r]
          /\ \/ r.kind # "AwaitReady" /\ phase'[c] \in {"admitted", "unavailable"}
                /\ result' = result
             \/ r.kind = "AwaitReady" /\ phase'[c] = "waiting" /\ result' = result
             \/ /\ r.kind # "AwaitReady" /\ phase'[c] = "done"
                /\ result'[c] \in {"NotReady", "Shutdown", "UnsupportedRevision"}
    BY <1>4 DEF Made
  <2>4. request'[c] = r /\ r.size \in Nat
    BY <2>3, ConstantsAssumption DEF TypeOK, ConstantsAssumption, Request
  <2>5. CASE r.kind = "AwaitReady"
    <3>1. request[c].size = 0 /\ r.size = 0
      BY <2>1, <2>5, ConstantsAssumption DEF CallInv, RequestInv, NoRequest, ConstantsAssumption
    <3>2. placeOf(c)' = "unmade" /\ answerOf(c)' = "none"
      BY <1>1, <2>1, <2>2, <2>3, <2>4, <2>5 DEF placeOf, answerOf, IsCommand
    <3> QED
      BY <1>1, <1>3, <2>1, <2>4, <3>1, <3>2, KeptByStutter DEF About
  <2>6. CASE r.kind # "AwaitReady" /\ phase'[c] \in {"admitted", "unavailable"} /\ result' = result
    <3>1. placeOf(c)' = "open" /\ answerOf(c)' = "none"
      BY <1>1, <2>1, <2>4, <2>6 DEF placeOf, answerOf, IsCommand
    <3> QED
      BY <1>1, <1>3, <2>1, <2>4, <3>1, KeptByMake
  <2>7. CASE /\ r.kind # "AwaitReady" /\ phase'[c] = "done"
             /\ result'[c] \in {"NotReady", "Shutdown", "UnsupportedRevision"}
    <3>1. placeOf(c)' = "over"
      BY <1>1, <2>1, <2>2, <2>4, <2>7 DEF placeOf, IsCommand
    <3>2. answerOf(c)' = "refused"
      BY <2>4, <2>7 DEF answerOf, IsCommand
    <3> QED
      BY <1>1, <1>3, <2>1, <2>4, <3>1, <3>2, KeptByMake
  <2> QED
    BY <2>3, <2>5, <2>6, <2>7
<1>5. CASE Advances(c)
  <2>1. request' = request /\ phase[c] # "done" /\ answerOf(c) = "none" /\ result[c] = "none"
    BY <1>5, PlaceFacts DEF Advances, CallInv, AnswerInv
  <2>2. result' = result => answerOf(c)' = "none"
    BY <2>1 DEF answerOf
  <2>3. ASSUME ~IsCommand(c)
        PROVE  placeOf(c)' = "unmade" /\ answerOf(c)' = "none" /\ placeOf(c) = "unmade"
    <3>1. /\ placeOf(c) = "unmade" /\ c # serving /\ ~InChannel(c)
          /\ phase[c] \in {"idle", "waiting", "done", "dropped"}
      BY <2>3, PlaceFacts
    <3>2. commands' = commands /\ phase'[c] \in {"dropped", "done"}
          /\ result'[c] \in {"none", "Ok", "Shutdown"}
      BY <1>5, <2>1, <3>1 DEF Advances
    <3>3. ~InChannel(c)' /\ ~IsCommand(c)'
      BY <2>1, <2>3, <3>1, <3>2 DEF InChannel, IsCommand
    <3>4. placeOf(c)' = "unmade"
      BY <1>1, <3>1, <3>2, <3>3 DEF placeOf
    <3>5. answerOf(c)' = "none"
      BY <3>2, <3>3 DEF answerOf
    <3> QED
      BY <3>1, <3>4, <3>5
  <2>4. CASE ~IsCommand(c)
    BY <1>1, <1>3, <2>1, <2>3, <2>4, KeptByStutter DEF About
  <2>5. CASE IsCommand(c) /\ phase[c] = "admitted"
    <3>1. placeOf(c) = "open" /\ c # serving /\ ~InChannel(c)
      BY <2>5, PlaceFacts
    <3>2. result' = result /\ phase'[c] \in {"queued", "unavailable", "dropped"}
          /\ (phase'[c] = "dropped" => commands' = commands)
      BY <1>5, <2>5 DEF Advances
    <3>3. phase'[c] # "dropped" => placeOf(c)' = "open"
      BY <1>1, <2>1, <2>5, <3>1, <3>2 DEF placeOf, IsCommand
    <3>4. phase'[c] = "dropped" => placeOf(c)' = "over"
      BY <1>1, <2>1, <2>5, <3>1, <3>2 DEF placeOf, IsCommand, InChannel
    <3>5. \A d \in Calls : /\ request'[d] = request[d] /\ answerOf(d)' = answerOf(d)
                           /\ \/ placeOf(d)' = placeOf(d)
                              \/ placeOf(d) = "open" /\ placeOf(d)' = "over"
      BY <1>3, <2>1, <2>2, <3>1, <3>2, <3>3, <3>4 DEF About
    <3> QED
      BY <1>1, <3>5, KeptByGiveUp
  <2>6. CASE IsCommand(c) /\ phase[c] = "queued"
    <3>1. phase'[c] = "dropped" /\ result' = result /\ commands' = commands
      BY <1>5, <2>6 DEF Advances
    <3>2. InChannel(c) \/ c = serving
      BY <2>6 DEF CallInv, ChannelInv
    <3>3. placeOf(c)' = placeOf(c)
      <4>1. InChannel(c)' <=> InChannel(c)
        BY <3>1 DEF InChannel
      <4> QED
        BY <1>1, <2>1, <2>6, <3>1, <3>2, <4>1 DEF placeOf, IsCommand
    <3> QED
      BY <1>1, <1>3, <2>1, <2>2, <3>1, <3>3, KeptByStutter DEF About
  <2>7. CASE IsCommand(c) /\ phase[c] = "unavailable"
    <3>1. /\ phase'[c] = "done" /\ commands' = commands
          /\ result'[c] \in {"NotReady", "Shutdown", "UnsupportedRevision"}
      BY <1>5, <2>7 DEF Advances
    <3>2. placeOf(c) = "open" /\ c # serving /\ ~InChannel(c)
      BY <2>7, PlaceFacts
    <3>3. placeOf(c)' = "over"
      BY <1>1, <2>1, <2>7, <3>1, <3>2 DEF placeOf, IsCommand, InChannel
    <3>4. answerOf(c)' = "refused"
      BY <2>1, <2>7, <3>1 DEF answerOf, IsCommand
    <3> QED
      BY <1>1, <1>3, <2>1, <3>2, <3>3, <3>4, KeptByRefuse
  <2>8. phase[c] = "waiting" => ~IsCommand(c)
    BY DEF CallInv, RequestInv, IsCommand
  <2> QED
    BY <1>5, <2>4, <2>5, <2>6, <2>7, <2>8 DEF Advances
<1> QED
  BY <1>4, <1>5 DEF CallerDoes

\* A command that arrives without a connection.
LEMMA KeptByReject ==
  ASSUME TypeOK, ServingInv, CallInv, reject_command
  PROVE  Kept
<1> DEFINE c == Head(commands)
<1>1. /\ commands # <<>> /\ commands' = Tail(commands) /\ Reply(c, "NotReady", <<>>)
      /\ UNCHANGED <<serving, request, mixer>> /\ serving = None
  BY InService DEF reject_command, taskVars
<1>2. None \notin Calls
  BY ConstantsAssumption DEF ConstantsAssumption
<1>3. c \in Calls /\ InChannel(c) /\ \A d \in Calls : d # c => (InChannel(d)' <=> InChannel(d))
  BY <1>1, TakeHead DEF CallInv
<1>4. \A d \in Calls : d = c => ~InChannel(d)'
  BY <1>1, TakeHead DEF CallInv
<1> HIDE DEF c
<1>5. PICK x \in Calls : x = c
  BY <1>3
<1>6. \A d \in Calls : d # x => UNCHANGED <<phase[d], result[d], report[d]>>
  BY <1>1, <1>5, ReplyEffect
<1>7. About(x)
  BY <1>1, <1>3, <1>5, <1>6, PlaceFrame, AnswerFrame DEF About
<1>8. placeOf(x) = "open" /\ Sent(x) /\ answerOf(x) = "none" /\ IsCommand(x)
  BY <1>3, <1>5, PlaceFacts DEF Sent, IsCommand
<1>9. /\ phase'[x] \in {"done", "dropped"}
      /\ phase[x] = "queued" => result'[x] = "NotReady"
      /\ phase[x] # "queued" => UNCHANGED <<result[x], report[x]>>
  BY <1>1, <1>5, <1>8, ReplyEffect DEF Sent
<1>10. placeOf(x)' = "over"
  BY <1>1, <1>2, <1>4, <1>5, <1>8, <1>9 DEF placeOf, IsCommand
<1>11. CASE phase[x] = "queued"
  <2>1. answerOf(x)' = "refused"
    BY <1>1, <1>8, <1>9, <1>11 DEF answerOf, IsCommand
  <2> QED
    BY <1>1, <1>7, <1>8, <1>10, <2>1, KeptByRefuse
<1>12. CASE phase[x] # "queued"
  <2>1. answerOf(x)' = answerOf(x)
    BY <1>1, <1>9, <1>12, AnswerFrame
  <2> QED
    BY <1>1, <1>7, <1>8, <1>10, <2>1, KeptByGiveUp DEF About
<1> QED
  BY <1>11, <1>12

\* A command is taken from the channel.
LEMMA KeptBySelect ==
  ASSUME TypeOK, ServingInv, CallInv, SelectCommand
  PROVE  Kept
<1> DEFINE c == Head(commands)
<1>1. /\ commands # <<>> /\ commands' = Tail(commands) /\ serving' = c /\ serving = None
      /\ UNCHANGED <<phase, request, result, report, mixer>>
  BY InService DEF SelectCommand, callVars
<1>2. None \notin Calls
  BY ConstantsAssumption DEF ConstantsAssumption
<1>3. c \in Calls /\ InChannel(c) /\ \A d \in Calls : d # c => (InChannel(d)' <=> InChannel(d))
  BY <1>1, TakeHead DEF CallInv
<1> HIDE DEF c
<1>4. PICK x \in Calls : x = c
  BY <1>3
<1>5. \A d \in Calls : answerOf(d)' = answerOf(d)
  BY <1>1, AnswerFrame
<1>6. ASSUME NEW d \in Calls, d # x PROVE placeOf(d)' = placeOf(d)
  BY <1>1, <1>2, <1>3, <1>4, <1>6 DEF placeOf, IsCommand
<1>7. placeOf(x) = "open" /\ Sent(x)
  BY <1>3, <1>4, PlaceFacts
<1>8. placeOf(x)' = "served"
  BY <1>1, <1>4, <1>7 DEF placeOf, IsCommand, Sent
<1>9. \A d \in Calls : placeOf(d) # "served"
  BY <1>1, <1>2 DEF placeOf
<1> QED
  BY <1>1, <1>5, <1>6, <1>7, <1>8, <1>9, KeptByServe DEF About

\* An operation that reached the mixer is the next one.
LEMMA OperatedNext ==
  ASSUME TypeOK, CallInv, pc = "mutating", serving \in Calls, mixer' = Append(mixer, Next1)
  PROVE  Operated(serving)
<1>1. Len(statuses) \in Nat /\ request[serving].size \in Nat
      /\ Len(statuses) < request[serving].size
  BY DEF TypeOK, Request, CallInv, ServedInv
<1>2. \A i \in DOMAIN mixer : mixer[i].op \in Nat
  BY Entries DEF TypeOK
<1>3. \A i \in DOMAIN mixer : mixer[i].call = serving => mixer[i].op < Len(statuses) + 1
  BY <1>1, <1>2 DEF CallInv, ServedInv
<1>4. Len(statuses) + 1 \in 1 .. request[serving].size
  BY <1>1
<1> QED
  BY <1>3, <1>4 DEF Operated, Next1

\* The command in service goes on.
LEMMA KeptByGoing ==
  ASSUME TypeOK, ServingInv, CallInv, serving \in Calls, GoesOn, [Next]_vars
  PROVE  Kept
<1>1. /\ UNCHANGED <<serving, commands, phase, request, result, report>> /\ pc = "mutating"
  BY DEF GoesOn
<1>2. \A d \in Calls : placeOf(d)' = placeOf(d) /\ answerOf(d)' = answerOf(d)
  BY <1>1, PlaceFrame, AnswerFrame DEF InChannel
<1>3. placeOf(serving) = "served"
  BY PlaceFacts
<1>4. CASE mixer' = mixer
  BY <1>1, <1>2, <1>4, KeptByStutter
<1>5. CASE mixer' = Append(mixer, Next1)
  BY <1>1, <1>2, <1>3, <1>5, OperatedNext, KeptByOperate
<1> QED
  BY <1>4, <1>5, MixerEffect

\* A report that is true after a step claims what the mixer shows then.
LEMMA ClaimsOfReport ==
  ASSUME TypeOK', NEW c \in Calls, TrueReport(c, report[c])', IsCommand(c)', result'[c] = "Ok"
  PROVE  Claims(c)'
<1> DEFINE n == request'[c].size
           rep == report'[c]
<1>1. n \in Nat /\ Len(rep) = n /\ rep \in Seq(Status) /\ DOMAIN rep = 1 .. n
  BY DEF TrueReport, TypeOK, Request
<1>2. \A i \in 1 .. n : rep[i] \in {"Succeeded", "Failed", "NotAttempted"}
  BY <1>1 DEF Status
<1>3. \A i \in 1 .. n :
        /\ rep[i] = "Succeeded" => Applied(c, i)' /\ \A j \in 1 .. i - 1 : rep[j] = "Succeeded"
        /\ rep[i] = "NotAttempted" => ~Applied(c, i)' /\ \E j \in 1 .. i - 1 : rep[j] = "Failed"
        /\ rep[i] = "Failed" => \A j \in 1 .. i - 1 : rep[j] = "Succeeded"
  BY <1>1 DEF TrueReport
<1>4. CASE \A i \in 1 .. n : rep[i] = "Succeeded"
  <2>1. answerOf(c)' = "done"
    BY <1>1, <1>4 DEF answerOf
  <2> QED
    BY <1>3, <1>4, <2>1 DEF Claims
<1>5. CASE \E i \in 1 .. n : rep[i] # "Succeeded"
  <2>1. answerOf(c)' = "partial"
    BY <1>1, <1>5 DEF answerOf
  <2>2. PICK k \in 1 .. n : rep[k] = "Failed"
    <3>1. PICK i \in 1 .. n : rep[i] # "Succeeded"
      BY <1>5
    <3>2. CASE rep[i] = "Failed"
      BY <3>2
    <3>3. CASE rep[i] = "NotAttempted"
      BY <1>1, <1>3, <3>3
    <3> QED
      BY <1>2, <3>1, <3>2, <3>3
  <2>3. ASSUME NEW op \in 1 .. n, op < k PROVE Applied(c, op)'
    <3>1. op \in 1 .. k - 1
      BY <1>1, <2>3
    <3> QED
      BY <1>3, <2>2, <3>1
  <2>4. ASSUME NEW op \in 1 .. n, op > k PROVE ~Applied(c, op)'
    <3>1. k \in 1 .. op - 1 /\ rep[k] # "Succeeded"
      BY <1>1, <2>2, <2>4
    <3> QED
      BY <1>2, <1>3, <3>1
  <2> QED
    BY <2>1, <2>3, <2>4 DEF Claims
<1> QED
  BY <1>4, <1>5

\* The service of a command ends.
LEMMA KeptByAnswer ==
  ASSUME TypeOK, TypeOK', ServingInv, CallInv, CallInv', [Next]_vars, NEW c \in Calls, c = serving,
         pc' \notin {"mutating", "resync"}, Answers(c), Serving
  PROVE  Kept
<1>1. serving' = None /\ UNCHANGED <<commands, request>>
  BY DEF Answers
<1>2. None \notin Calls
  BY ConstantsAssumption DEF ConstantsAssumption
<1>3. placeOf(c) = "served" /\ Sent(c) /\ ~InChannel(c) /\ answerOf(c) = "none"
  BY PlaceFacts DEF Sent
<1>4. ASSUME NEW r, NEW rep, Reply(c, r, rep)
      PROVE  /\ \A d \in Calls : d # c => UNCHANGED <<phase[d], result[d], report[d]>>
             /\ phase[c] = "queued" => phase'[c] = "done" /\ result'[c] = r /\ report'[c] = rep
             /\ phase[c] # "queued" => UNCHANGED <<phase[c], result[c], report[c]>>
  BY <1>4, ReplyEffect
<1>5. /\ \A d \in Calls : d # c => UNCHANGED <<phase[d], result[d], report[d]>>
      /\ phase'[c] \in {"done", "dropped"}
      /\ phase[c] # "queued" => UNCHANGED <<result[c], report[c]>>
  BY <1>3, <1>4 DEF Answers, Sent
<1>6. \A d \in Calls : InChannel(d)' <=> InChannel(d)
  BY <1>1 DEF InChannel
<1>7. ASSUME NEW d \in Calls, d # c PROVE placeOf(d)' = placeOf(d) /\ answerOf(d)' = answerOf(d)
  <2>1. answerOf(d)' = answerOf(d)
    BY <1>1, <1>5, <1>7, AnswerFrame
  <2> QED
    BY <1>1, <1>2, <1>5, <1>6, <1>7, <2>1 DEF placeOf, IsCommand
<1>8. About(c)
  BY <1>1, <1>7 DEF About
<1>9. placeOf(c)' = "over"
  BY <1>1, <1>2, <1>3, <1>5, <1>6 DEF placeOf, IsCommand, Sent
<1>10. Operated(c) \/ mixer' = mixer
  BY MixerEffect, OperatedNext
<1>11. CASE phase[c] # "queued"
  <2>1. answerOf(c)' = answerOf(c)
    BY <1>1, <1>5, <1>11, AnswerFrame
  <2> QED
    BY <1>1, <1>3, <1>8, <1>9, <1>10, <2>1, KeptByComplete
<1>12. CASE phase[c] = "queued"
  <2>1. IsCommand(c)'
    BY <1>1, <1>3 DEF Sent, IsCommand
  <2>2. result'[c] \in Refusals => Claims(c)'
    <3> SUFFICES ASSUME result'[c] \in Refusals PROVE Claims(c)'
      OBVIOUS
    <3>1. answerOf(c)' = "refused"
      BY <2>1 DEF answerOf, Refusals
    <3>2. ~Touched(c)'
      BY DEF CallInv, RefusedWritesNothing, Refusals, Touched
    <3> QED
      BY <3>1, <3>2 DEF Claims
  <2>3. result'[c] = "RpcFailed" => Claims(c)'
    BY <2>1 DEF answerOf, Claims
  <2>4. mutation_error \in {"RpcFailed", "UnsupportedRevision"}
    BY DEF mutation_error
  <2>5. CASE MutationSucceeds /\ ~Resnapshots
    <3>1. result'[c] = "Ok" /\ report'[c] = <<>>
      BY <1>4, <1>12, <2>5 DEF MutationSucceeds, ServingInv
    <3>2. answerOf(c)' = "done"
      BY <2>1, <3>1 DEF answerOf
    <3>3. request[c].size = 1 /\ Len(statuses) = 0 /\ mixer' = Append(mixer, Next1)
      <4>1. request[c].size = 1 /\ Len(statuses) < request[c].size /\ Len(statuses) \in Nat
        BY <2>5 DEF MutationSucceeds, Resnapshots, CallInv, RequestInv, ServedInv, TypeOK
      <4> QED
        BY <2>5, <4>1 DEF MutationSucceeds, Next1
    <3>4. (\A op \in 1 .. request[c].size : Applied(c, op))'
      BY <1>1, <3>3, Grows DEF Applied, Next1
    <3> QED
      BY <1>1, <1>3, <1>8, <1>9, <1>10, <3>2, <3>4, KeptByComplete DEF Claims
  <2>6. CASE ResyncSucceeds
    <3>1. /\ report'[c] = statuses /\ pc = "resync" /\ mixer' = mixer
          /\ result'[c] \in {"Ok", mutation_error}
      BY <1>4, <1>12, <2>6 DEF ResyncSucceeds
    <3>2. TrueReport(c, report[c])'
      BY <1>1, <3>1 DEF CallInv, ReportInv, TrueReport, Applied
    <3>3. result'[c] = "Ok" => Claims(c)'
      BY <2>1, <3>2, ClaimsOfReport
    <3>4. Claims(c)'
      BY <2>2, <2>3, <2>4, <3>1, <3>3 DEF Refusals
    <3> QED
      BY <1>1, <1>3, <1>8, <1>9, <1>10, <3>4, KeptByComplete
  <2>7. CASE ResyncFails
    <3>1. result'[c] = "RpcFailed" \/ result'[c] = mutation_error
      BY <1>4, <1>12, <2>7 DEF ResyncFails
    <3>2. Claims(c)'
      BY <2>2, <2>3, <2>4, <3>1 DEF Refusals
    <3> QED
      BY <1>1, <1>3, <1>8, <1>9, <1>10, <3>2, KeptByComplete
  <2>8. ~SelectCommand /\ ~MutationFails /\ ~(MutationSucceeds /\ Resnapshots)
    <3>1. serving' # c
      BY <1>1, <1>2
    <3>2. ~SelectCommand
      BY InService, <1>2 DEF SelectCommand
    <3> QED
      BY <3>1, <3>2 DEF MutationFails, MutationSucceeds
  <2> QED
    BY <2>5, <2>6, <2>7, <2>8 DEF Serving
<1> QED
  BY <1>11, <1>12

\* run() returns, and what is in the channel goes with it.
LEMMA KeptByExit ==
  ASSUME TypeOK, ServingInv, CallInv, Exit
  PROVE  Kept
<1>1. /\ commands' = <<>> /\ serving = None /\ UNCHANGED <<serving, request, result, report, mixer>>
      /\ phase' = [c \in Calls |-> IF phase[c] = "queued" THEN "unavailable" ELSE phase[c]]
  BY InService DEF Exit, Abandon
<1>2. None \notin Calls
  BY ConstantsAssumption DEF ConstantsAssumption
<1>3. \A c \in Calls : ~InChannel(c)'
  BY <1>1 DEF InChannel
<1>4. ASSUME NEW c \in Calls
      PROVE  /\ answerOf(c)' = answerOf(c)
             /\ placeOf(c)' = placeOf(c) \/ (placeOf(c) = "open" /\ placeOf(c)' = "over")
  <2>1. answerOf(c)' = answerOf(c)
    BY <1>1, AnswerFrame
  <2>2. CASE InChannel(c)
    <3>1. placeOf(c) = "open" /\ IsCommand(c)' /\ phase[c] \in {"queued", "dropped"}
      BY <1>1, <2>2, PlaceFacts DEF Sent, IsCommand
    <3>2. placeOf(c)' \in {"open", "over"}
      BY <1>1, <1>2, <1>3, <3>1 DEF placeOf
    <3> QED
      BY <2>1, <3>1, <3>2
  <2>3. CASE ~InChannel(c)
    <3>1. phase[c] # "queued"
      BY <1>1, <1>2, <2>3 DEF CallInv, ChannelInv
    <3>2. phase'[c] = phase[c]
      BY <1>1, <3>1
    <3> QED
      BY <1>1, <1>3, <2>1, <2>3, <3>2, PlaceFrame
  <2> QED
    BY <2>2, <2>3
<1> QED
  BY <1>1, <1>4, KeptByGiveUp

\* Every step of the lifecycle is one of the promise, or changes nothing in it.
LEMMA KeptByStep ==
  ASSUME IInv, IInv', CallInv, CallInv', [Next]_vars
  PROVE  Kept
<1> USE DEF IInv
<1>1. CASE UNCHANGED Ours
  BY <1>1, PlaceFrame, AnswerFrame, KeptByStutter DEF Ours, InChannel
<1>2. CASE Wanders
  BY <1>2, PlaceFrame, AnswerFrame, KeptByStutter DEF Wanders, InChannel
<1>3. CASE Serving
  BY <1>3, ServiceEffect, KeptBySelect, KeptByGoing, KeptByAnswer
<1> QED
  BY <1>1, <1>2, <1>3, StepCases, KeptByCaller, KeptByReject, KeptByExit DEF CommandSteps

------------------------------------------------------------------------------
(* The refinement.                                                         *)

\* At first no call is made.
LEMMA KeptInit == Init => Promise!Init
BY ConstantsAssumption
   DEF ConstantsAssumption, Init, NoRequest, Promise!Init, placeOf, answerOf, IsCommand

\* A command is served once or not at all, one at a time; nothing reaches the mixer for
\* a call before its service or after its answer; and no answer claims what the mixer
\* does not have.
THEOREM LifecycleKeepsCommands == Spec => CommandsKept
<1>1. IInv /\ IInv' /\ CallInv /\ CallInv' /\ [Next]_vars => [Promise!Next]_Promise!vars
  BY KeptByStep DEF Kept
<1> QED
  BY KeptInit, Invariance, CallInvariance, <1>1, PTL DEF Spec, CommandsKept, Promise!Spec

=============================================================================
