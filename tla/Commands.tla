------------------------------ MODULE Commands ------------------------------
(***************************************************************************)
(* What the command API of SynchronizedClient promises, without the task,  *)
(* the channel or the connections behind it: apply, apply_batch and        *)
(* refresh (src/src/lifecycle.rs:183-231) on a mixer.                      *)
(*                                                                         *)
(* A call is refused without effect, given up, or taken into service, once *)
(* and for ever.  Calls are served one at a time; the operations of a call *)
(* reach the mixer in their order, each at most once, only while the call  *)
(* is in service, and never after its answer.  An answer claims no more    *)
(* than the mixer shows.  Lifecycle.tla implements this.                   *)
(***************************************************************************)
EXTENDS Naturals, Sequences

CONSTANT Calls

VARIABLES
  size,     \* the number of operations of each call
  place,    \* where each call is
  answer,   \* what its caller was told
  log       \* the operations that reached the mixer, in order

vars == <<size, place, answer, log>>

Places  == {"unmade", "open", "served", "over"}
Answers == {"none", "done", "partial", "failed", "refused"}

Init ==
  /\ size = [c \in Calls |-> 0]
  /\ place = [c \in Calls |-> "unmade"]
  /\ answer = [c \in Calls |-> "none"]
  /\ log = <<>>

Reached(c, op, l) == \E i \in DOMAIN l : l[i] = [call |-> c, op |-> op]

\* What answer a claims of call c when the mixer's log is l.
Truthful(c, a, l) ==
  CASE a = "done"    -> \A op \in 1..size[c] : Reached(c, op, l)
    [] a = "partial" -> \E k \in 1..size[c] : \A op \in 1..size[c] :
                          /\ op < k => Reached(c, op, l)
                          /\ op > k => ~Reached(c, op, l)
    [] a = "refused" -> \A i \in DOMAIN l : l[i].call # c
    [] OTHER         -> TRUE

\* A call is made; it may be refused at once.
Make(c) ==
  /\ place[c] = "unmade"
  /\ size' = [size EXCEPT ![c] = size'[c]] /\ size'[c] \in Nat
  /\ \/ place' = [place EXCEPT ![c] = "open"] /\ UNCHANGED answer
     \/ /\ place' = [place EXCEPT ![c] = "over"]
        /\ answer' = [answer EXCEPT ![c] = "refused"]
  /\ UNCHANGED log

\* A call that was never served is refused.
Refuse(c) ==
  /\ place[c] = "open"
  /\ place' = [place EXCEPT ![c] = "over"]
  /\ answer' = [answer EXCEPT ![c] = "refused"]
  /\ UNCHANGED <<size, log>>

\* Callers are gone, and their calls, not yet served, with them.
GiveUp ==
  LET gone == {c \in Calls : place'[c] # place[c]}
  IN /\ gone # {} /\ \A c \in gone : place[c] = "open" /\ place'[c] = "over"
     /\ place' = [c \in Calls |-> IF c \in gone THEN "over" ELSE place[c]]
     /\ UNCHANGED <<size, answer, log>>

\* One call at a time.
Serve(c) ==
  /\ place[c] = "open" /\ \A d \in Calls : place[d] # "served"
  /\ place' = [place EXCEPT ![c] = "served"]
  /\ UNCHANGED <<size, answer, log>>

\* The next operation of c, or one after it, reaches the mixer.
Operate(c) ==
  \E op \in 1..size[c] :
    /\ \A i \in DOMAIN log : log[i].call = c => log[i].op < op
    /\ log' = Append(log, [call |-> c, op |-> op])

\* The service ends; the caller is told, if it is still there.
Complete(c) ==
  /\ place' = [place EXCEPT ![c] = "over"]
  /\ \/ UNCHANGED answer
     \/ \E a \in Answers \ {"none"} :
          /\ Truthful(c, a, log')
          /\ answer' = [answer EXCEPT ![c] = a]

\* A step of the service of c.
Work(c) ==
  /\ place[c] = "served"
  /\ \/ Operate(c) /\ UNCHANGED <<place, answer>>
     \/ Complete(c) /\ (Operate(c) \/ UNCHANGED log)
  /\ UNCHANGED size

Next ==
  \/ UNCHANGED vars   \* nothing that a caller could tell
  \/ \E c \in Calls : Make(c) \/ Refuse(c) \/ Serve(c) \/ Work(c)
  \/ GiveUp

Spec == Init /\ [][Next]_vars

==============================================================================
