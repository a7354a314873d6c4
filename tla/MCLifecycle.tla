---------------------------- MODULE MCLifecycle ----------------------------
(* Instances of Lifecycle for TLC. *)
EXTENDS Lifecycle, TLC

Apply(resnapshot) == [kind |-> "Apply", size |-> 1, resnapshot |-> resnapshot]
Batch(n)          == [kind |-> "Batch", size |-> n, resnapshot |-> TRUE]
Refresh           == [kind |-> "Refresh", size |-> 0, resnapshot |-> TRUE]
AwaitReady        == [kind |-> "AwaitReady", size |-> 0, resnapshot |-> TRUE]

\* Every kind of call; Apply(FALSE) is a step of a fade.
MCAll     == {Apply(TRUE), Apply(FALSE), Batch(2), Refresh, AwaitReady}
MCWrites  == {Apply(TRUE), Apply(FALSE), Batch(2)}
MCLoud    == {Apply(TRUE), Refresh, AwaitReady}
MCApply   == {Apply(TRUE)}
MCRefresh == {Refresh}

\* Two callers that compete for the slot and one shutdown(), or one caller of any
\* kind and two shutdowns: the product of both is too large for liveness.  Callers
\* are alike, so it is always the same one that comes first.
FewCallers ==
  LET calls   == {c \in Calls : phase'[c] # "idle"}
      stops   == {s \in Stoppers : stop'[s] # "idle"}
      firstOf(S) == CHOOSE x \in S : TRUE
  IN /\ calls # {} => firstOf(Calls) \in calls
     /\ stops # {} => firstOf(Stoppers) \in stops
     /\ \/ Cardinality(stops) <= 1 /\ \A c \in calls : request'[c] \in MCApply
        \/ Cardinality(calls) <= 1

MCRecoveringSpec == Init /\ [][Next /\ FewCallers]_vars /\ RecoveringFairness

MCSymmetry == Permutations(Calls) \union Permutations(Stoppers)
=============================================================================
