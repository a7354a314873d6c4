--------------------------- MODULE LiveValidation ---------------------------
(***************************************************************************)
(* The live validation (src/src/bin/wave_link_live.rs) and what it runs    *)
(* on: the discovery and the backoff of the client it waits for, and the   *)
(* clock of the fades.                                                     *)
(* It moves five items of a real mixer, one after the other, and puts each *)
(* back.  Every call may fail, with or without its write.  A second        *)
(* program is a caller of WaveLinkClient::fade_channel_volume              *)
(* (src/src/mutation.rs), for the other clock.                             *)
(*                                                                         *)
(* Levels are integers, Full is 1.0 and Reach is the 0.02 of the code; a   *)
(* mute is 0 or 1.  Nobody else moves the items meanwhile, except before   *)
(* the final verification.  That a call ends, and what it is told, is in   *)
(* Lifecycle.tla.                                                          *)
(***************************************************************************)
EXTENDS Backoff, Discovery, FadeClock

CONSTANTS
  Reach,       \* the greatest temporary change of a level
  Full,        \* the greatest level
  FadeTime,    \* the 250 ms of its fades
  Originals    \* bound: the mixers it may meet

Items == {"channel volume", "channel mix volume", "channel mute",
          "mix volume", "mix mute"}
Mutes == {"channel mute", "mix mute"}

\* A mixer: any level it says, also out of range, and a mute for each that can be.
Mixers == {m \in [Items -> Nat] : \A i \in Mutes : m[i] \in {0, 1}}

\* The items in order, and how each is moved: by a mutation or by a fade.
Script == <<[item |-> "channel volume",     how |-> "mutation"],
            [item |-> "channel mix volume", how |-> "Linear"],
            [item |-> "channel mute",       how |-> "mutation"],
            [item |-> "mix volume",         how |-> "mutation"],
            [item |-> "mix mute",           how |-> "mutation"],
            [item |-> "channel volume",     how |-> "Perceptual"]>>

ASSUME LiveAssumption ==
  /\ Reach \in Nat /\ Full \in Nat /\ FadeTime \in 1..MaxFade
  /\ Originals \subseteq Mixers

VARIABLES
  program,     \* the mode, or the other program
  pc,          \* where the program is
  attempt,     \* the attempt counter of its client
  step,        \* how far it is in Script
  original,    \* the mixer as it was captured
  value,       \* the mixer
  start,       \* the level a fade starts from
  curve,       \* its options.curve
  result,      \* "none", "ok", or the call whose error was returned
  unrestored   \* history: a restoration has failed

runVars == <<program, original>>
vars == <<runVars, pc, attempt, step, value, start, curve, result,
          unrestored, discoveryVars, clockVars>>

Programs == {"read", "bounded-write", "other", "fade"}
Curves == {"Linear", "Perceptual"}
Points == {"launch", "connecting", "dialing", "syncing", "backoff", "ready", "moving",
           "fading", "undoing", "restoring", "refreshing", "verifying", "closing", "exited"}
Results == {"none", "ok", "launch", "capture", "mutation", "fade", "restoration",
            "refresh", "verification"}

TypeOK ==
  /\ program \in Programs /\ pc \in Points
  /\ attempt \in Words
  /\ step \in DOMAIN Script
  /\ original \in Mixers /\ value \in Mixers
  /\ start \in Nat /\ curve \in Curves
  /\ result \in Results /\ unrestored \in BOOLEAN
  /\ DiscoveryTypeOK
  /\ clock \in Clocks /\ duration \in 0..MaxFade
  /\ phase \in {"idle", "asleep", "step", "endpoint"}
  /\ (phase # "idle") = (pc = "fading")
  /\ now \in Nat /\ deadline \in Nat
  /\ updates \in Seq(Nat) /\ Len(updates) <= duration

Init ==
  /\ program \in Programs /\ pc = "launch" /\ attempt = 0 /\ step = 1
  /\ original \in Originals /\ value = original
  /\ start = 0 /\ curve = "Linear"
  /\ result = "none" /\ unrestored = FALSE
  /\ DiscoveryInit /\ ClockInit

------------------------------------------------------------------------------
\* Volume::new
Valid(l) == l \in 0..Full

\* bounded_target: downwards, where there is room.
bounded_target(l) ==
  IF l >= Reach THEN l - Reach
  ELSE IF l + Reach < Full THEN l + Reach ELSE Full

Item == Script[step].item
How  == Script[step].how

\* Where a step of the script moves its item.
Target == IF Item \in Mutes THEN 1 - original[Item] ELSE bounded_target(original[Item])

Stay(where) == pc' = where /\ UNCHANGED result
Fail(where, call) == pc' = where /\ result' = call

\* A write of v to the item: it reached the mixer if it succeeded, and perhaps if not.
Written(v) == value' = [value EXCEPT ![Item] = v]
Perhaps(v) == Written(v) \/ UNCHANGED value

------------------------------------------------------------------------------
(* main and run: the mode, the client, the end.                            *)

\* An unknown mode, or no discovery on this machine.
LaunchFails ==
  /\ pc = "launch" /\ program # "fade"
  /\ Fail("exited", "launch")
  /\ UNCHANGED <<runVars, discoveryVars, attempt, step, value, start, curve, unrestored, clockVars>>

Launch ==
  /\ pc = "launch" /\ program \in {"read", "bounded-write"}
  /\ Stay("connecting")
  /\ UNCHANGED <<runVars, discoveryVars, attempt, step, value, start, curve, unrestored, clockVars>>

\* discover: the file is read before every attempt.
Discover ==
  /\ pc = "connecting" /\ discover
  /\ Stay("dialing")
  /\ UNCHANGED <<runVars, attempt, step, value, start, curve, unrestored, clockVars>>

\* No endpoint, or nobody who answers there.
ConnectFails ==
  /\ pc = "dialing" \/ (pc = "connecting" /\ ~ValidPort(metadata))
  /\ Stay("backoff")
  /\ UNCHANGED <<runVars, discoveryVars, attempt, step, value, start, curve, unrestored, clockVars>>

\* wait_or_shutdown(backoff(attempt)), the next attempt.
BackoffElapses ==
  /\ pc = "backoff"
  /\ attempt' = saturatingInc(attempt)
  /\ Stay("connecting")
  /\ UNCHANGED <<runVars, discoveryVars, step, value, start, curve, unrestored, clockVars>>

Dial ==
  /\ pc = "dialing" /\ endpoint = listening
  /\ Stay("syncing")
  /\ UNCHANGED <<runVars, discoveryVars, attempt, step, value, start, curve, unrestored, clockVars>>

\* The next attempt follows at once, and is not counted.
FirstSnapshotFails ==
  /\ pc = "syncing"
  /\ Stay("connecting")
  /\ UNCHANGED <<runVars, discoveryVars, attempt, step, value, start, curve, unrestored, clockVars>>

\* ready() has a snapshot.
Ready ==
  /\ pc = "syncing" /\ endpoint = listening
  /\ attempt' = 0
  /\ Stay("ready")
  /\ UNCHANGED <<runVars, discoveryVars, step, value, start, curve, unrestored, clockVars>>

\* The read-only mode is one refresh.
ReadOnly ==
  /\ pc = "ready" /\ program = "read"
  /\ \/ Fail("closing", "ok")
     \/ Fail("closing", "refresh")
  /\ UNCHANGED <<runVars, discoveryVars, attempt, step, value, start, curve, unrestored, clockVars>>

\* The bounded writes start when everything they need is in the snapshot; the levels
\* of the channel are checked as they are read, that of the mix only as a target.
Capture ==
  /\ pc = "ready" /\ program = "bounded-write"
  /\ \/ /\ Valid(original["channel volume"]) /\ Valid(original["channel mix volume"])
        /\ Valid(bounded_target(original["mix volume"]))
        /\ Stay("moving")
     \/ Fail("closing", "capture")
  /\ UNCHANGED <<runVars, discoveryVars, attempt, step, value, start, curve, unrestored, clockVars>>

\* shutdown(), whatever the validation returned.
Close ==
  /\ pc = "closing"
  /\ Stay("exited")
  /\ UNCHANGED <<runVars, discoveryVars, attempt, step, value, start, curve, unrestored, clockVars>>

------------------------------------------------------------------------------
(* mutate_and_restore.                                                     *)

\* Both operations are built before the first is applied: a level that cannot be
\* restored is not moved.
Unrestorable ==
  /\ pc = "moving" /\ How = "mutation" /\ ~Valid(original[Item])
  /\ Fail("closing", "capture")
  /\ UNCHANGED <<runVars, discoveryVars, attempt, step, value, start, curve, unrestored, clockVars>>

Mutate ==
  /\ pc = "moving" /\ How = "mutation" /\ Valid(original[Item])
  /\ \/ Written(Target) /\ Stay("restoring")
     \/ Perhaps(Target) /\ Fail("undoing", "mutation")
  /\ UNCHANGED <<runVars, discoveryVars, attempt, step, start, curve, unrestored, clockVars>>

\* A mutation that failed is taken to have done nothing.
MutantUndo ==
  /\ pc = "undoing"
  /\ Stay("closing")
  /\ UNCHANGED <<runVars, discoveryVars, attempt, step, value, start, curve, unrestored, clockVars>>

\* The mutation failed: a restoration, its result ignored, and the error.
Undo ==
  /\ pc = "undoing"
  /\ \/ Written(original[Item]) /\ UNCHANGED unrestored
     \/ Perhaps(original[Item]) /\ unrestored' = TRUE
  /\ Stay("closing")
  /\ UNCHANGED <<runVars, discoveryVars, attempt, step, start, curve, clockVars>>

\* A failed restoration goes unnoticed.
MutantRestore ==
  /\ pc = "restoring"
  /\ Perhaps(original[Item]) /\ Stay("refreshing")
  /\ UNCHANGED <<runVars, discoveryVars, attempt, step, start, curve, unrestored, clockVars>>

\* The item is put back, and the next step follows: at once after a fade, after a
\* refresh in mutate_and_restore and at the end.
Restore ==
  /\ pc = "restoring"
  /\ \/ /\ Written(original[Item]) /\ UNCHANGED unrestored
        /\ CASE How = "mutation"   -> Stay("refreshing") /\ UNCHANGED step
             [] step = Len(Script) -> Stay("verifying") /\ UNCHANGED step
             [] OTHER              -> Stay("moving") /\ step' = step + 1
     \/ /\ Perhaps(original[Item]) /\ unrestored' = TRUE
        /\ Fail("closing", "restoration") /\ UNCHANGED step
  /\ UNCHANGED <<runVars, discoveryVars, attempt, start, curve, clockVars>>

\* The item is moved again.
MutantRefresh ==
  /\ pc = "refreshing"
  /\ \/ Stay("moving")
     \/ Fail("closing", "refresh")
  /\ UNCHANGED <<runVars, discoveryVars, attempt, step, value, start, curve, unrestored, clockVars>>

\* The refresh that ends mutate_and_restore.
Refresh ==
  /\ pc = "refreshing"
  /\ \/ Stay("moving") /\ step' = step + 1
     \/ Fail("closing", "refresh") /\ UNCHANGED step
  /\ UNCHANGED <<runVars, discoveryVars, attempt, value, start, curve, unrestored, clockVars>>

\* verify_channel_level on a last refresh: it passes only over the captured level.
Verify ==
  /\ pc = "verifying"
  /\ \/ value["channel volume"] = original["channel volume"] /\ Fail("closing", "ok")
     \/ Fail("closing", "refresh")
     \/ Fail("closing", "verification")
  /\ UNCHANGED <<runVars, discoveryVars, attempt, step, value, start, curve, unrestored, clockVars>>

------------------------------------------------------------------------------
(* The fades.                                                              *)

\* SynchronizedClient::fade: it starts from the level of a fresh snapshot.
StartFade ==
  /\ pc = "moving" /\ How # "mutation"
  /\ \/ /\ BeginFade("grid", FadeTime)
        /\ start' = value[Item] /\ curve' = How
        /\ Stay("fading")
     \/ Fail("closing", "fade") /\ UNCHANGED <<start, curve, clockVars>>
  /\ UNCHANGED <<runVars, discoveryVars, attempt, step, value, unrestored>>

\* WaveLinkClient::fade_channel_volume; the start is the caller's, here the true one.
StartClientFade ==
  /\ pc = "launch" /\ program = "fade"
  /\ \/ \E d \in {0, FadeTime} :
          /\ Valid(value[Item])
          /\ BeginFade("relative", d)
          /\ start' = value[Item] /\ curve' \in Curves
          /\ Stay("fading")
     \/ Fail("exited", "fade") /\ UNCHANGED <<start, curve, clockVars>>
  /\ UNCHANGED <<runVars, discoveryVars, attempt, step, value, unrestored>>

FadeFails(where) == EndFade /\ Fail(where, "fade")

\* Where a fade that failed leaves the program.
AfterFade == IF program = "fade" THEN "exited" ELSE "closing"

FadeWaits ==
  /\ pc = "fading" /\ (Tick \/ Wake)
  /\ UNCHANGED <<runVars, discoveryVars, pc, attempt, step, value, start, curve, result,
                 unrestored>>

FadeStep ==
  /\ pc = "fading" /\ phase = "step"
  /\ LET l == level(curve, start, Target) IN
       \/ Written(l) /\ StepSent /\ Stay("fading")
       \/ Perhaps(l) /\ FadeFails(AfterFade)
  /\ UNCHANGED <<runVars, discoveryVars, attempt, step, start, curve, unrestored>>

\* The session is no longer Ready.
FadeStops ==
  /\ pc = "fading" /\ phase = "asleep" /\ clock = "grid"
  /\ FadeFails("closing")
  /\ UNCHANGED <<runVars, discoveryVars, attempt, step, value, start, curve, unrestored>>

\* The exact target, after which the live validation restores.
FadeEndpoint ==
  /\ pc = "fading" /\ phase = "endpoint"
  /\ \/ /\ Written(Target) /\ EndFade
        /\ IF program = "fade" THEN Fail("exited", "ok") ELSE Stay("restoring")
     \/ Perhaps(Target) /\ FadeFails(AfterFade)
  /\ UNCHANGED <<runVars, discoveryVars, attempt, step, start, curve, unrestored>>

------------------------------------------------------------------------------
\* Wave Link, as long as the program looks for it.  (A restart later on makes calls
\* fail, which each may do anyway.)
WaveLink ==
  /\ pc \in {"connecting", "dialing", "syncing", "backoff"}
  /\ Start \/ Truncate \/ Advertise
  /\ UNCHANGED <<runVars, pc, attempt, step, value, start, curve, result, unrestored, clockVars>>

Exited == pc = "exited" /\ UNCHANGED vars

Program ==
  \/ LaunchFails \/ Launch \/ Discover \/ ConnectFails \/ BackoffElapses
  \/ Dial \/ FirstSnapshotFails \/ Ready
  \/ ReadOnly \/ Capture \/ Close
  \/ Unrestorable \/ Mutate \/ Undo \/ Restore \/ Refresh \/ Verify
  \/ StartFade \/ StartClientFade \/ FadeWaits \/ FadeStep \/ FadeStops \/ FadeEndpoint

Next == Program \/ WaveLink \/ Exited

Spec == Init /\ [][Next]_vars

(***************************************************************************)
(* One program, which the executor runs; its timers elapse and its calls   *)
(* return.  Wave Link is started, writes the file some day after its last  *)
(* start, and accepts a client that comes over and over.                   *)
(***************************************************************************)
FairSpec ==
  /\ Spec
  /\ WF_vars(Program) /\ WF_vars(WaveLink /\ listening' = 1) /\ WF_vars(WaveLink /\ Advertise)
  /\ SF_vars(Dial) /\ SF_vars(Ready)

------------------------------------------------------------------------------
(* What a live mixer may be put through.                                   *)

Distance(i) == IF value[i] > original[i] THEN value[i] - original[i]
               ELSE original[i] - value[i]

\* At every moment, after whatever failures, at most one item is away from where it
\* was captured, by no more than 0.02 if it is a level, and it is a level.
WithinReach ==
  \E i \in Items :
    /\ \A j \in Items \ {i} : value[j] = original[j]
    /\ \/ i \in Mutes \/ value[i] = original[i]
       \/ Distance(i) <= Reach /\ Valid(value[i])

\* An exit with success means what it says: everything is where it was, or where the
\* fade was to take it.  A failed validation leaves an item away only when a
\* restoration was tried and failed; or when a fade failed, after which none is tried.
ExitIsTrue ==
  pc = "exited" =>
    \/ /\ result = "ok"
       /\ value = IF program = "fade" THEN [original EXCEPT ![Item] = Target] ELSE original
    \/ /\ result # "ok"
       /\ value = original \/ unrestored \/ result = "fade"

\* A level on its way to the target of a fade never turns back and never goes
\* beyond it, also over updates that were late, skipped or lost.
FadesForward ==
  [][pc = "fading" =>
       LET target == bounded_target(original[Item])
           from == value[Item]  to == value'[Item]
       IN (from <= to /\ to <= target) \/ (target <= to /\ to <= from)]_vars

\* The delays before a connection stay between 0.2 and 4.8 seconds for every value
\* of the counter, and once four attempts have failed they are no less than 3.2.
BackoffInRange ==
  pc = "backoff" => /\ backoff(attempt) \in 200..4800
                    /\ attempt >= 4 => backoff(attempt) >= 3200

\* Every run comes to an end, if Wave Link is started some day: also if it was not
\* there, moved to another port, or was advertised late and in pieces meanwhile.
Terminates == <>(pc = "exited")

=============================================================================
