------------------------ MODULE LiveValidationProofs ------------------------
(***************************************************************************)
(* Proofs about the live validation and its timing, for every mixer, every *)
(* length of a step and of a fade, and every width of the attempt counter. *)
(***************************************************************************)
EXTENDS LiveValidation, FadeClockProofs

------------------------------------------------------------------------------
(* The backoff.                                                            *)

\* The delay of any attempt is in range: jitter is from 80 to 120 percent of 250 to
\* 4000 milliseconds, so that the cap of 5000 never applies.
LEMMA DelayInRange ==
  ASSUME NEW n \in Nat
  PROVE  /\ backoff(n) \in 200..4800
         /\ n >= 4 => backoff(n) >= 3200
<1> DEFINE r == ((n * 37) % WordSize) % 41
<1>1. r \in 0..40
  <2>1. (n * 37) % WordSize \in Int
    BY WordAssumption
  <2> QED
    BY <2>1
<1>2. jitter(n) \in 80..120
  BY <1>1 DEF jitter
<1>3. base(n) \in {250, 500, 1000, 2000, 4000}
  BY DEF base, doubled, INITIAL_BACKOFF, MAX_BACKOFF
<1>4. n >= 4 => base(n) = 4000
  BY DEF base, doubled, INITIAL_BACKOFF, MAX_BACKOFF
<1> HIDE DEF r
<1>5. \A p \in Int : p >= 20000 /\ p <= 480000 => p \div 100 \in 200..4800
  OBVIOUS
<1>6. ASSUME NEW b \in {250, 500, 1000, 2000, 4000}, NEW j \in 80..120
      PROVE  b * j \in Int /\ b * j >= 20000 /\ b * j <= 480000
  BY <1>6
<1>7. ASSUME NEW j \in 80..120
      PROVE  4000 * j \in Int /\ (4000 * j) \div 100 >= 3200
  BY <1>7
<1>8. base(n) * jitter(n) \in Int /\ (base(n) * jitter(n)) \div 100 \in 200..4800
  <2> DEFINE p == base(n) * jitter(n)
  <2>1. p \in Int /\ p >= 20000 /\ p <= 480000
    BY <1>2, <1>3, <1>6
  <2> HIDE DEF p
  <2>2. p \in Int /\ p \div 100 \in 200..4800
    BY <1>5, <2>1
  <2> QED
    BY <2>2 DEF p
<1> QED
  BY <1>2, <1>4, <1>7, <1>8 DEF backoff

\* The counter is a word.
AttemptInv == attempt \in Words

\* Only an elapsed backoff and a snapshot change it.
LEMMA AttemptStep == AttemptInv /\ [Next]_vars => AttemptInv'
<1> SUFFICES ASSUME AttemptInv, [Next]_vars PROVE attempt' \in Words
  BY DEF AttemptInv
<1> USE DEF AttemptInv, Words
<1>1. CASE BackoffElapses
  BY <1>1, WordAssumption DEF BackoffElapses, saturatingInc
<1>2. CASE Ready
  BY <1>2, WordAssumption DEF Ready
<1>3. CASE LaunchFails \/ Launch \/ ConnectFails \/ ReadOnly \/ Capture \/ Close
  BY <1>3 DEF LaunchFails, Launch, ConnectFails, ReadOnly, Capture, Close
<1>7. CASE Discover \/ Dial \/ FirstSnapshotFails \/ WaveLink
  BY <1>7 DEF Discover, Dial, FirstSnapshotFails, WaveLink
<1>4. CASE Unrestorable \/ Mutate \/ Undo \/ Restore \/ Refresh \/ Verify
  BY <1>4 DEF Unrestorable, Mutate, Undo, Restore, Refresh, Verify
<1>5. CASE StartFade \/ StartClientFade \/ FadeWaits \/ FadeStep \/ FadeStops \/ FadeEndpoint
  BY <1>5 DEF StartFade, StartClientFade, FadeWaits, FadeStep, FadeStops, FadeEndpoint
<1>6. CASE Exited \/ UNCHANGED vars
  BY <1>6 DEF Exited, vars
<1> QED
  BY <1>1, <1>2, <1>3, <1>4, <1>5, <1>6, <1>7 DEF Next, Program

\* BackoffInRange for every value of the counter, up to its saturation.
THEOREM BackoffAlwaysInRange == Spec => []BackoffInRange
<1>1. Init => AttemptInv
  BY WordAssumption DEF Init, AttemptInv, Words
<1>2. AttemptInv => BackoffInRange
  BY DelayInRange, WordAssumption DEF AttemptInv, Words, BackoffInRange
<1> QED
  BY <1>1, <1>2, AttemptStep, PTL DEF Spec

------------------------------------------------------------------------------
(* The fades.                                                              *)

\* No action moves the clock of a fade but as the clock moves.
LEMMA ClockActions == [Next]_vars => [ClockNext]_clockVars
<1> SUFFICES ASSUME [Next]_vars PROVE [ClockNext]_clockVars
  OBVIOUS
<1>1. CASE LaunchFails \/ Launch \/ ConnectFails \/ BackoffElapses \/ Ready \/ ReadOnly
           \/ Capture \/ Close
  BY <1>1 DEF LaunchFails, Launch, ConnectFails, BackoffElapses, Ready, ReadOnly,
              Capture, Close
<1>8. CASE Discover \/ Dial \/ FirstSnapshotFails \/ WaveLink
  BY <1>8 DEF Discover, Dial, FirstSnapshotFails, WaveLink
<1>2. CASE Unrestorable \/ Mutate \/ Undo \/ Restore \/ Refresh \/ Verify
  BY <1>2 DEF Unrestorable, Mutate, Undo, Restore, Refresh, Verify
<1>3. CASE StartFade
  <2>1. FadeTime \in 0..MaxFade /\ "grid" \in Clocks
    BY LiveAssumption, ClockAssumption DEF Clocks
  <2> QED
    BY <1>3, <2>1 DEF StartFade, ClockNext
<1>4. CASE StartClientFade
  <2>1. FadeTime \in 0..MaxFade /\ 0 \in 0..MaxFade /\ "relative" \in Clocks
    BY LiveAssumption, ClockAssumption DEF Clocks
  <2> QED
    BY <1>4, <2>1 DEF StartClientFade, ClockNext
<1>5. CASE FadeWaits \/ FadeStep
  BY <1>5 DEF FadeWaits, FadeStep, FadeFails, ClockNext
<1>6. CASE FadeStops \/ FadeEndpoint
  BY <1>6 DEF FadeStops, FadeEndpoint, FadeFails, ClockNext
<1>7. CASE Exited \/ UNCHANGED vars
  BY <1>7 DEF Exited, vars
<1> QED
  BY <1>1, <1>2, <1>3, <1>4, <1>5, <1>6, <1>7, <1>8 DEF Next, Program

\* The fades of both programs run by the clock and by nothing else.
THEOREM FadesRunByTheClock == Spec => ClockSpec
<1>1. Init => ClockInit
  BY DEF Init
<1> QED
  BY <1>1, ClockActions, PTL DEF Spec, ClockSpec

\* RateCapped, for the fades of the live validation and of WaveLinkClient.
THEOREM FadesKeepRate == Spec => []RateCapped
BY FadesRunByTheClock, ClockKeepsRate, PTL

------------------------------------------------------------------------------
(* What an exit means.                                                     *)

\* Where the program is tells what may be away from where it was captured: nothing
\* between two steps of the script, and only the item of the step inside one.
AwayInv ==
  /\ step \in DOMAIN Script
  /\ DOMAIN value = Items /\ DOMAIN original = Items
  /\ value = [i \in Items |-> value[i]] /\ original = [i \in Items |-> original[i]]
  /\ pc \in {"launch", "connecting", "dialing", "syncing", "backoff", "ready", "moving",
             "refreshing", "verifying"} => value = original
  /\ pc \in {"fading", "undoing", "restoring"} =>
       \A i \in Items \ {Item} : value[i] = original[i]
  /\ pc = "refreshing" => step # 6
  /\ pc = "undoing" => result = "mutation"
  /\ program = "fade" => pc \in {"launch", "fading", "exited"}
  /\ program = "fade" /\ pc = "fading" => clock = "relative"
  /\ pc = "closing" =>
       \/ value = original
       \/ result # "ok" /\ (unrestored \/ result = "fade")
  /\ ExitIsTrue

\* The script has six steps; the last one is no mutation.
LEMMA ScriptItems ==
  /\ DOMAIN Script = 1..6 /\ Len(Script) = 6
  /\ \A k \in 1..6 : Script[k].item \in Items
  /\ Script[6].how # "mutation"
<1>1. DOMAIN Script = 1..6 /\ Len(Script) = 6
  BY DEF Script
<1>2. /\ Script[1].item \in Items /\ Script[2].item \in Items /\ Script[3].item \in Items
      /\ Script[4].item \in Items /\ Script[5].item \in Items /\ Script[6].item \in Items
  BY DEF Script, Items
<1>3. Script[6].how = "Perceptual"
  BY DEF Script
<1> QED
  BY <1>1, <1>2, <1>3

\* A write to the item of the step leaves the others where they are.
LEMMA WriteMovesItem ==
  ASSUME AwayInv, NEW v, Written(v),
         \A i \in Items \ {Item} : value[i] = original[i]
  PROVE  /\ value' = [i \in Items |-> IF i = Item THEN v ELSE original[i]]
         /\ DOMAIN value' = Items
         /\ v = original[Item] => value' = original
         /\ value' = [original EXCEPT ![Item] = v]
<1>1. Item \in Items
  BY ScriptItems DEF AwayInv, Item
<1>2. value' = [i \in Items |-> IF i = Item THEN v ELSE original[i]]
  BY <1>1 DEF AwayInv, Written
<1> HIDE DEF Item
<1> QED
  BY <1>1, <1>2 DEF AwayInv

\* Every action, whichever outcome its call has, leaves the items as AwayInv says.
LEMMA AwayStep == AwayInv /\ [Next]_vars => AwayInv'
<1> SUFFICES ASSUME AwayInv, [Next]_vars PROVE AwayInv'
  OBVIOUS
<1> USE DEF AwayInv, ExitIsTrue, Stay, Fail, runVars
<1>1. CASE LaunchFails \/ Launch \/ ConnectFails \/ BackoffElapses \/ Ready
  BY <1>1 DEF LaunchFails, Launch, ConnectFails, BackoffElapses, Ready, Item
<1>13. CASE Discover \/ Dial \/ FirstSnapshotFails \/ WaveLink
  BY <1>13 DEF Discover, Dial, FirstSnapshotFails, WaveLink, Item
<1>2. CASE ReadOnly \/ Capture \/ Unrestorable \/ Verify
  BY <1>2 DEF ReadOnly, Capture, Unrestorable, Verify, Item
<1>3. CASE Close
  BY <1>3 DEF Close, Item
<1>4. CASE Refresh
  BY <1>4, ScriptItems DEF Refresh, Item
<1>5. CASE Mutate
  BY <1>5, WriteMovesItem DEF Mutate, Perhaps, Item
<1>6. CASE Undo
  BY <1>6, WriteMovesItem DEF Undo, Perhaps, Item
<1>7. CASE Restore
  BY <1>7, WriteMovesItem, ScriptItems DEF Restore, Perhaps, Item, How
<1>8. CASE StartFade \/ StartClientFade
  BY <1>8 DEF StartFade, StartClientFade, BeginFade, Item
<1>9. CASE FadeWaits \/ FadeStops
  BY <1>9 DEF FadeWaits, FadeStops, FadeFails, Tick, Wake, Item
<1>10. CASE FadeStep
  BY <1>10, WriteMovesItem DEF FadeStep, FadeFails, AfterFade, StepSent, Perhaps, Item
<1>11. CASE FadeEndpoint
  <2>1. /\ pc = "fading" /\ step' = step /\ original' = original /\ program' = program
        /\ unrestored' = unrestored /\ Target' = Target /\ Item' = Item
    BY <1>11 DEF FadeEndpoint, Target, bounded_target, Item
  <2>2. CASE Written(Target) /\ EndFade /\ program = "fade"
    <3>1. (pc' = "exited" /\ result' = "ok") \/ FadeFails(AfterFade)
      BY <1>11, <2>2 DEF FadeEndpoint
    <3>2. /\ DOMAIN value' = Items /\ value' = [original EXCEPT ![Item] = Target]
          /\ value' = [i \in Items |-> value'[i]]
      BY <2>1, <2>2, WriteMovesItem
    <3> HIDE DEF Target, Item
    <3> QED
      BY <2>1, <2>2, <3>1, <3>2 DEF FadeFails, AfterFade
  <2>3. CASE Written(Target) /\ EndFade /\ program # "fade"
    BY <1>11, <2>1, <2>3, WriteMovesItem DEF FadeEndpoint, FadeFails, AfterFade, Item
  <2>4. CASE Perhaps(Target) /\ FadeFails(AfterFade)
    BY <2>1, <2>4, WriteMovesItem DEF FadeFails, AfterFade, Perhaps, Item
  <2> QED
    BY <1>11, <2>2, <2>3, <2>4 DEF FadeEndpoint
<1>12. CASE Exited \/ UNCHANGED vars
  <2>1. /\ UNCHANGED <<pc, program, clock, step, original, value, result, unrestored>>
    BY <1>12 DEF Exited, vars, clockVars
  <2>2. Target' = Target /\ Item' = Item
    BY <2>1 DEF Target, bounded_target, Item
  <2> QED
    BY <2>1, <2>2
<1> QED
  BY <1>1, <1>2, <1>3, <1>4, <1>5, <1>6, <1>7, <1>8, <1>9, <1>10, <1>11, <1>12, <1>13
     DEF Next, Program

\* ExitIsTrue, for every mixer and whichever calls fail.
THEOREM ExitAlwaysTrue == Spec => []ExitIsTrue
<1>1. Init => AwayInv
  BY ScriptItems, LiveAssumption DEF Init, AwayInv, ExitIsTrue, Mixers
<1>2. AwayInv => ExitIsTrue
  BY DEF AwayInv
<1> QED
  BY <1>1, <1>2, AwayStep, PTL DEF Spec

------------------------------------------------------------------------------
(* How far an item is moved.                                               *)

\* A level from where the item was to where its step moves it, both included.
Between(l) ==
  /\ l \in Int
  /\ \/ original[Item] <= l /\ l <= Target
     \/ Target <= l /\ l <= original[Item]

\* The item of the step is home, a mute, or a level on its way; the others are home.
NearInv ==
  /\ \A i \in Items \ {Item} : value[i] = original[i]
  /\ \/ Item \in Mutes \/ value[Item] = original[Item]
     \/ Valid(original[Item]) /\ Between(value[Item])

\* What a fade needs to stay on its way.
FadeInv ==
  /\ original \in [Items -> Nat]
  /\ curve \in Curves
  /\ now \in Nat /\ duration \in Nat /\ updates \in Seq(Nat)
  /\ phase = "step" => Elapsed \in Nat /\ Elapsed < duration
  /\ pc = "launch" => step = 1
  /\ pc \in {"moving", "refreshing", "restoring"} =>
       Valid(original["channel volume"]) /\ Valid(original["channel mix volume"])
  /\ pc = "fading" =>
       /\ Item \notin Mutes /\ Valid(original[Item]) /\ start = original[Item]
       /\ program # "fade" =>
            Valid(original["channel volume"]) /\ Valid(original["channel mix volume"])

ReachInv == AwayInv /\ NearInv /\ FadeInv

\* A share of a way is no longer than the way, in either direction.
LEMMA ShareOfWay ==
  ASSUME NEW k \in Int, NEW D \in Nat \ {0}, NEW c \in 0..D
  PROVE  /\ (k * c) \div D \in Int
         /\ k >= 0 => (k * c) \div D \in 0..k
         /\ k <= 0 => (k * c) \div D \in k..0
<1> DEFINE x == k * c
           q == x \div D
<1>1. /\ x \in Int /\ q \in Int
      /\ D * q <= x /\ x < D * q + D
  OBVIOUS
<1>2. k >= 0 => 0 <= x /\ x <= D * k
  OBVIOUS
<1>3. k <= 0 => D * k <= x /\ x <= 0
  OBVIOUS
<1> HIDE DEF x, q
<1>4. ASSUME k >= 0 PROVE q \in 0..k
  <2>1. D * q <= D * k
    <3> DEFINE a == D * q
               b == D * k
    <3>1. a \in Int /\ b \in Int
      BY <1>1
    <3>2. a <= x /\ x <= b
      BY <1>1, <1>2, <1>4
    <3> QED
      BY <1>1, <3>1, <3>2
  <2>2. q <= k
    BY <1>1, <2>1
  <2>3. D * q + D > 0
    <3> DEFINE a == D * q
    <3>1. a \in Int /\ x < a + D /\ 0 <= x
      BY <1>1, <1>2, <1>4
    <3> HIDE DEF a
    <3>2. a + D > 0
      BY <1>1, <3>1
    <3> QED
      BY <3>2 DEF a
  <2>4. q >= 0
    BY <1>1, <2>3
  <2> QED
    BY <1>1, <2>2, <2>4
<1>5. ASSUME k <= 0 PROVE q \in k..0
  <2>1. D * q <= 0
    <3> DEFINE a == D * q
    <3>1. a \in Int /\ a <= x /\ x <= 0
      BY <1>1, <1>3, <1>5
    <3> HIDE DEF a
    <3>2. a <= 0
      BY <1>1, <3>1
    <3> QED
      BY <3>2 DEF a
  <2>2. q <= 0
    BY <1>1, <2>1
  <2>3. D * k < D * q + D
    <3> DEFINE a == D * q
               b == D * k
    <3>1. a \in Int /\ b \in Int /\ b <= x /\ x < a + D
      BY <1>1, <1>3, <1>5
    <3> HIDE DEF a, b
    <3>2. b < a + D
      BY <1>1, <3>1
    <3> QED
      BY <3>2 DEF a, b
  <2>4. q >= k
    BY <1>1, <2>3
  <2> QED
    BY <1>1, <2>2, <2>4
<1> QED
  BY <1>1, <1>4, <1>5 DEF x, q

\* bounded_target stays in the range of a level, and within 0.02.
LEMMA TargetIsNear ==
  ASSUME Item \notin Mutes, Valid(original[Item])
  PROVE  /\ Target \in 0..Full
         /\ Target <= original[Item] + Reach /\ original[Item] <= Target + Reach
<1> DEFINE o == original[Item]
<1>1. o \in 0..Full /\ Target = bounded_target(o)
  BY DEF Valid, Target
<1> HIDE DEF o
<1>2. /\ bounded_target(o) \in 0..Full
      /\ bounded_target(o) <= o + Reach /\ o <= bounded_target(o) + Reach
  BY <1>1, LiveAssumption DEF bounded_target
<1> QED
  BY <1>1, <1>2 DEF o

\* The level of a fade's update is on the way, for both curves and any elapsed time.
LEMMA LevelIsBetween ==
  ASSUME FadeInv, step \in 1..6, pc = "fading", phase = "step"
  PROVE  Between(level(curve, start, Target))
<1> DEFINE o == original[Item]
           D == duration * duration
           c == curved(curve)
           k == Target - start
<1>1. /\ o \in Int /\ Target \in Int /\ start = o
  <2>1. Valid(original[Item]) /\ Item \notin Mutes /\ start = o
    BY DEF FadeInv
  <2>2. Target \in 0..Full
    BY <2>1, TargetIsNear
  <2> QED
    BY <2>1, <2>2 DEF Valid
<1>2. /\ duration \in Nat /\ Elapsed \in Nat /\ Elapsed < duration
  BY DEF FadeInv
<1>3. D \in Nat \ {0} /\ c \in 0..D
  <2>1. D \in Nat \ {0}
    BY <1>2
  <2>2. Elapsed * duration \in 0..D
    BY <1>2
  <2>3. Elapsed * Elapsed \in 0..D
    BY <1>2
  <2> QED
    BY <2>1, <2>2, <2>3 DEF FadeInv, Curves, curved
<1>4. level(curve, start, Target) = start + (k * c) \div D
  BY DEF level
<1>5. k \in Int
  BY <1>1
<1> HIDE DEF o, D, c, k
<1>6. /\ (k * c) \div D \in Int
      /\ k >= 0 => (k * c) \div D \in 0..k
      /\ k <= 0 => (k * c) \div D \in k..0
  BY <1>3, <1>5, ShareOfWay
<1> DEFINE q == (k * c) \div D
<1> HIDE DEF q
<1>7. q \in Int /\ (k >= 0 => q \in 0..k) /\ (k <= 0 => q \in k..0)
  BY <1>6 DEF q
<1>8. level(curve, start, Target) = o + q /\ Target = o + k
  BY <1>1, <1>4 DEF q, k
<1>9. k >= 0 \/ k <= 0
  BY <1>5
<1>10. /\ o + q \in Int
       /\ \/ o <= o + q /\ o + q <= o + k
          \/ o + k <= o + q /\ o + q <= o
  BY <1>1, <1>5, <1>7, <1>9
<1> QED
  BY <1>8, <1>10 DEF Between, o

\* Whatever is on its way to the target is near.
LEMMA NearIsWithinReach == ReachInv => WithinReach
<1> SUFFICES ASSUME ReachInv PROVE WithinReach
  OBVIOUS
<1>1. Item \in Items
  BY ScriptItems DEF ReachInv, AwayInv, Item
<1>2. CASE Item \in Mutes \/ value[Item] = original[Item]
  BY <1>1, <1>2 DEF ReachInv, NearInv, WithinReach
<1>3. CASE Item \notin Mutes /\ Valid(original[Item]) /\ Between(value[Item])
  <2>1. Valid(value[Item]) /\ Distance(Item) <= Reach
    <3> DEFINE o == original[Item]
               v == value[Item]
    <3>1. /\ o \in 0..Full /\ Target \in 0..Full /\ v \in Int
          /\ Target <= o + Reach /\ o <= Target + Reach
          /\ (o <= v /\ v <= Target) \/ (Target <= v /\ v <= o)
      BY <1>3, TargetIsNear DEF Valid, Between
    <3> HIDE DEF o, v, Target
    <3>2. v \in 0..Full /\ v - o <= Reach /\ o - v <= Reach
      BY <3>1, LiveAssumption
    <3> QED
      BY <3>2 DEF Valid, Distance, o, v
  <2> QED
    BY <1>1, <2>1 DEF ReachInv, NearInv, WithinReach
<1> QED
  BY <1>2, <1>3 DEF ReachInv, NearInv

\* A write of a level on the way, or of the level to restore, keeps to NearInv.
LEMMA NearWrite ==
  ASSUME AwayInv, NearInv, NEW v, Perhaps(v), UNCHANGED <<step, original>>,
         \/ v = original[Item] \/ Item \in Mutes
         \/ Valid(original[Item]) /\ Between(v)
  PROVE  NearInv'
<1>1. Item' = Item /\ Target' = Target /\ original' = original
  BY DEF Item, Target, bounded_target
<1>2. Item \in Items
  BY ScriptItems DEF AwayInv, Item
<1>3. CASE UNCHANGED value
  BY <1>1, <1>3 DEF NearInv, Between, Valid
<1>4. CASE Written(v)
  <2>1. value' = [i \in Items |-> IF i = Item THEN v ELSE original[i]]
    BY <1>4, WriteMovesItem DEF NearInv
  <2>2. value'[Item] = v /\ \A i \in Items \ {Item} : value'[i] = original[i]
    BY <1>2, <2>1
  <2> HIDE DEF Item, Target
  <2> QED
    BY <1>1, <2>2 DEF NearInv, Between, Valid
<1> QED
  BY <1>3, <1>4 DEF Perhaps

\* The target itself is on the way.
LEMMA TargetIsBetween ==
  ASSUME FadeInv, Item \notin Mutes, Valid(original[Item])
  PROVE  Between(Target)
<1>1. Target \in Int /\ original[Item] \in Int
  BY TargetIsNear, LiveAssumption DEF Valid
<1> QED
  BY <1>1 DEF Between

\* Without a write, and in the same step of the script, nothing moves.
LEMMA NearFrame ==
  ASSUME NearInv, UNCHANGED <<step, original, value>>
  PROVE  NearInv'
BY DEF NearInv, Between, Valid, Item, Target, bounded_target

\* With everything home, any step of the script may come next.
LEMMA NearHome == AwayInv /\ value = original => NearInv
BY DEF AwayInv, NearInv

\* Every action keeps the item of the step near and the others home.
LEMMA NearStep == ReachInv /\ [Next]_vars => NearInv'
<1> SUFFICES ASSUME ReachInv, [Next]_vars PROVE NearInv'
  OBVIOUS
<1> USE DEF ReachInv, runVars
<1>0. AwayInv' /\ AwayInv /\ NearInv /\ FadeInv
  BY AwayStep
<1>1. CASE LaunchFails \/ Launch \/ ConnectFails \/ BackoffElapses \/ Ready \/ ReadOnly
           \/ Capture \/ Close
  BY <1>1, NearFrame DEF LaunchFails, Launch, ConnectFails, BackoffElapses, Ready,
                         ReadOnly, Capture, Close
<1>10. CASE Discover \/ Dial \/ FirstSnapshotFails \/ WaveLink
  BY <1>10, NearFrame DEF Discover, Dial, FirstSnapshotFails, WaveLink
<1>2. CASE Unrestorable \/ Verify \/ StartFade \/ StartClientFade \/ FadeWaits \/ FadeStops
  BY <1>2, NearFrame DEF Unrestorable, Verify, StartFade, StartClientFade, FadeWaits,
                         FadeStops
<1>3. CASE Refresh
  <2>1. value' = value /\ original' = original /\ value = original
    BY <1>3 DEF Refresh, AwayInv
  <2>2. (NearInv)'
    BY <1>0, <2>1, NearHome DEF AwayInv, NearInv
  <2> QED
    BY <2>2
<1>4. CASE Mutate
  <2>1. Perhaps(Target) /\ UNCHANGED <<step, original>> /\ Valid(original[Item])
    BY <1>4 DEF Mutate, Perhaps
  <2> QED
    BY <1>0, <2>1, NearWrite, TargetIsBetween
<1>5. CASE Undo
  <2>1. Perhaps(original[Item]) /\ UNCHANGED <<step, original>>
    BY <1>5 DEF Undo, Perhaps
  <2> QED
    BY <1>0, <2>1, NearWrite
<1>6. CASE Restore
  <2>1. CASE step' = step
    <3>1. Perhaps(original[Item]) /\ UNCHANGED <<step, original>>
      BY <1>6, <2>1 DEF Restore, Perhaps
    <3> QED
      BY <1>0, <3>1, NearWrite
  <2>2. CASE step' # step
    <3>1. pc' = "moving" /\ original' = original
      BY <1>6, <2>2 DEF Restore, Stay
    <3>2. value' = original'
      BY <1>0, <3>1 DEF AwayInv
    <3> QED
      BY <1>0, <3>2 DEF AwayInv, NearInv
  <2> QED
    BY <2>1, <2>2
<1>7. CASE FadeStep
  <2>1. /\ Perhaps(level(curve, start, Target)) /\ UNCHANGED <<step, original>>
        /\ pc = "fading" /\ phase = "step"
    BY <1>7 DEF FadeStep, Perhaps
  <2>2. Between(level(curve, start, Target))
    BY <1>0, <2>1, LevelIsBetween, ScriptItems DEF AwayInv
  <2>3. Valid(original[Item])
    BY <1>0, <2>1 DEF FadeInv
  <2> QED
    BY <1>0, <2>1, <2>2, <2>3, NearWrite
<1>8. CASE FadeEndpoint
  <2>1. Perhaps(Target) /\ UNCHANGED <<step, original>> /\ pc = "fading"
    BY <1>8 DEF FadeEndpoint, Perhaps
  <2>2. Valid(original[Item]) /\ Item \notin Mutes
    BY <1>0, <2>1 DEF FadeInv
  <2> QED
    BY <1>0, <2>1, <2>2, NearWrite, TargetIsBetween
<1>9. CASE Exited \/ UNCHANGED vars
  BY <1>9, NearFrame DEF Exited, vars
<1> QED
  BY <1>1, <1>2, <1>3, <1>4, <1>5, <1>6, <1>7, <1>8, <1>9, <1>10 DEF Next, Program

\* What the clock contributes: the time behind an update is short of the duration.
LEMMA ClockKeepsFadeInv ==
  ASSUME FadeInv, [ClockNext]_clockVars
  PROVE  /\ now' \in Nat /\ duration' \in Nat /\ updates' \in Seq(Nat)
         /\ phase' = "step" => Elapsed' \in Nat /\ Elapsed' < duration'
<1>0. /\ now \in Nat /\ duration \in Nat /\ updates \in Seq(Nat)
      /\ phase = "step" => Elapsed \in Nat /\ Elapsed < duration
  BY DEF FadeInv
<1>1. ASSUME NEW c \in Clocks, NEW d \in 0..MaxFade, BeginFade(c, d)
      PROVE  /\ now' \in Nat /\ duration' \in Nat /\ updates' \in Seq(Nat)
             /\ phase' # "step"
  BY <1>1, ClockAssumption DEF BeginFade
<1>2. CASE Tick
  BY <1>0, <1>2 DEF Tick, Elapsed
<1>3. CASE Wake
  <2>1. /\ updates' = Append(updates, now) /\ now' = now /\ duration' = duration
        /\ phase' = "step" => ~(now >= duration)
    BY <1>3 DEF Wake
  <2>2. Elapsed' = now /\ updates' \in Seq(Nat)
    BY <1>0, <2>1 DEF Elapsed
  <2> QED
    BY <1>0, <2>1, <2>2
<1>4. CASE StepSent
  BY <1>0, <1>4 DEF StepSent
<1>5. CASE EndFade
  BY <1>5 DEF EndFade
<1>6. CASE UNCHANGED clockVars
  BY <1>0, <1>6 DEF clockVars, Elapsed
<1> QED
  BY <1>1, <1>2, <1>3, <1>4, <1>5, <1>6 DEF ClockNext

\* The steps that are no mutation move a level of the channel.
LEMMA FadedItems ==
  \A k \in 1..6 : Script[k].how # "mutation" =>
    /\ Script[k].item \in {"channel volume", "channel mix volume"}
    /\ Script[k].how \in Curves
<1>1. /\ Script[1].how = "mutation" /\ Script[3].how = "mutation"
      /\ Script[4].how = "mutation" /\ Script[5].how = "mutation"
  BY DEF Script
<1>2. /\ Script[2].item = "channel mix volume" /\ Script[2].how = "Linear"
      /\ Script[6].item = "channel volume" /\ Script[6].how = "Perceptual"
  BY DEF Script
<1>3. SUFFICES ASSUME NEW k \in 1..6, Script[k].how # "mutation"
               PROVE  /\ Script[k].item \in {"channel volume", "channel mix volume"}
                      /\ Script[k].how \in Curves
  OBVIOUS
<1>4. k = 2 \/ k = 6
  <2>1. k = 1 \/ k = 2 \/ k = 3 \/ k = 4 \/ k = 5 \/ k = 6
    OBVIOUS
  <2> QED
    BY <1>1, <1>3, <2>1
<1> QED
  BY <1>2, <1>4 DEF Curves

\* The level that a fade starts from is the captured one.
LEMMA FadeStarts == ReachInv /\ (StartFade \/ StartClientFade) => FadeInv'
<1> SUFFICES ASSUME ReachInv, StartFade \/ StartClientFade PROVE FadeInv'
  OBVIOUS
<1>0. /\ step \in 1..6 /\ step' = step /\ original' = original /\ Item' = Item
      /\ value = original /\ FadeInv /\ program' = program
  BY ScriptItems DEF StartFade, StartClientFade, ReachInv, AwayInv, runVars, Item
<1>1. [ClockNext]_clockVars
  <2>1. FadeTime \in 0..MaxFade /\ 0 \in 0..MaxFade /\ Clocks = {"grid", "relative"}
    BY LiveAssumption, ClockAssumption DEF Clocks
  <2> QED
    BY <2>1 DEF StartFade, StartClientFade, ClockNext
<1>2. /\ now' \in Nat /\ duration' \in Nat /\ updates' \in Seq(Nat)
      /\ phase' = "step" => Elapsed' \in Nat /\ Elapsed' < duration'
  BY <1>0, <1>1, ClockKeepsFadeInv
<1>3. CASE StartFade
  <2>1. /\ Valid(original["channel volume"]) /\ Valid(original["channel mix volume"])
        /\ Item \in {"channel volume", "channel mix volume"} /\ How \in Curves
    BY <1>0, <1>3, FadedItems DEF StartFade, FadeInv, Item, How
  <2>2. Item \notin Mutes /\ Valid(original[Item])
    BY <2>1 DEF Mutes
  <2>3. \/ pc' = "fading" /\ start' = original[Item] /\ curve' = How
        \/ pc' = "closing" /\ curve' = curve
    BY <1>0, <1>3 DEF StartFade, Stay, Fail
  <2> HIDE DEF Item
  <2> QED
    BY <1>0, <1>2, <2>1, <2>2, <2>3 DEF FadeInv, Valid
<1>4. CASE StartClientFade
  <2>1. step = 1 /\ Script[1].item = "channel volume" /\ program = "fade"
    BY <1>4, <1>0 DEF StartClientFade, FadeInv, Script
  <2>2. Item = "channel volume" /\ Item \notin Mutes
    BY <2>1 DEF Item, Mutes
  <2>3. \/ /\ pc' = "fading" /\ start' = original[Item] /\ curve' \in Curves
           /\ Valid(original[Item])
        \/ pc' = "exited" /\ curve' = curve
    BY <1>0, <1>4 DEF StartClientFade, Stay, Fail
  <2> HIDE DEF Item
  <2> QED
    BY <1>0, <1>2, <2>1, <2>2, <2>3 DEF FadeInv, Valid
<1> QED
  BY <1>3, <1>4

\* Every action keeps what a fade needs.
LEMMA FadeInvStep == ReachInv /\ [Next]_vars => FadeInv'
<1> SUFFICES ASSUME ReachInv, [Next]_vars PROVE FadeInv'
  OBVIOUS
<1>0. AwayInv /\ FadeInv
  BY DEF ReachInv
<1> USE DEF runVars, Stay, Fail
<1>1. CASE LaunchFails \/ Launch \/ ConnectFails \/ BackoffElapses \/ Ready \/ ReadOnly
           \/ Close \/ Unrestorable \/ Verify \/ Mutate \/ Undo
  BY <1>0, <1>1 DEF LaunchFails, Launch, ConnectFails, BackoffElapses, Ready, ReadOnly,
     Close, Unrestorable, Verify, Mutate, Undo, FadeInv, clockVars, Elapsed, Valid
<1>7. CASE Discover \/ Dial \/ FirstSnapshotFails \/ WaveLink
  BY <1>0, <1>7 DEF Discover, Dial, FirstSnapshotFails, WaveLink, FadeInv, clockVars,
     Elapsed, Valid
<1>2. CASE Capture
  BY <1>0, <1>2 DEF Capture, FadeInv, clockVars, Elapsed, Valid
<1>3. CASE Refresh \/ Restore
  BY <1>0, <1>3 DEF Refresh, Restore, FadeInv, clockVars, Elapsed, Valid
<1>4. CASE StartFade \/ StartClientFade
  BY <1>4, FadeStarts
<1>5. CASE FadeWaits \/ FadeStep \/ FadeStops \/ FadeEndpoint
  <2>1. [ClockNext]_clockVars
    BY <1>5 DEF FadeWaits, FadeStep, FadeStops, FadeEndpoint, FadeFails, ClockNext
  <2>2. /\ now' \in Nat /\ duration' \in Nat /\ updates' \in Seq(Nat)
        /\ phase' = "step" => Elapsed' \in Nat /\ Elapsed' < duration'
    BY <1>0, <2>1, ClockKeepsFadeInv
  <2>3. /\ UNCHANGED <<program, original, step, start, curve>> /\ Item' = Item
        /\ pc = "fading" /\ pc' \in {"fading", "restoring", "closing", "exited"}
        /\ pc' = "restoring" => program # "fade"
    BY <1>5 DEF FadeWaits, FadeStep, FadeStops, FadeEndpoint, FadeFails, AfterFade, Item
  <2> HIDE DEF Item
  <2> QED
    BY <1>0, <2>2, <2>3 DEF FadeInv, Valid
<1>6. CASE Exited \/ UNCHANGED vars
  BY <1>0, <1>6 DEF Exited, vars, FadeInv, clockVars, Elapsed, Valid, Item
<1> QED
  BY <1>1, <1>2, <1>3, <1>4, <1>5, <1>6, <1>7 DEF Next, Program

\* So they hold in every behaviour.
LEMMA ReachHolds == Spec => []ReachInv
<1>1. Init => ReachInv
  <2> SUFFICES ASSUME Init PROVE ReachInv
    OBVIOUS
  <2>1. AwayInv
    BY ScriptItems, LiveAssumption DEF Init, AwayInv, ExitIsTrue, Mixers
  <2>2. FadeInv
    BY LiveAssumption DEF Init, ClockInit, FadeInv, Curves, Mixers
  <2>3. value = original
    BY DEF Init
  <2> QED
    BY <2>1, <2>2, <2>3, NearHome DEF ReachInv
<1>2. ReachInv /\ [Next]_vars => ReachInv'
  BY AwayStep, NearStep, FadeInvStep DEF ReachInv
<1> QED
  BY <1>1, <1>2, PTL DEF Spec

\* WithinReach, for every mixer, every limit of 0.02 and every clock of the fades.
THEOREM AlwaysWithinReach == Spec => []WithinReach
BY ReachHolds, NearIsWithinReach, PTL

------------------------------------------------------------------------------
(* The way of a fade.                                                      *)

\* The level of a fade at time t.
LevelAt(t) ==
  start + ((Target - start) * (IF curve = "Linear" THEN t * duration ELSE t * t))
            \div (duration * duration)

\* In a fade the item has the level of some earlier time: of an earlier update.
TrailInv ==
  pc = "fading" =>
    \/ value[Item] = start
    \/ \E t \in 0..now : /\ t <= duration /\ value[Item] = LevelAt(t)
                         /\ phase = "step" => t <= Elapsed

\* A greater share of a way is no shorter, in either direction.
LEMMA SharesOrdered ==
  ASSUME NEW k \in Int, NEW D \in Nat \ {0}, NEW c \in 0..D, NEW e \in 0..D, c <= e
  PROVE  /\ k >= 0 => (k * c) \div D <= (k * e) \div D
         /\ k <= 0 => (k * e) \div D <= (k * c) \div D
<1> DEFINE x == k * c
           y == k * e
           q == x \div D
           r == y \div D
<1>1. /\ x \in Int /\ y \in Int /\ q \in Int /\ r \in Int
      /\ D * q <= x /\ x < D * q + D
      /\ D * r <= y /\ y < D * r + D
  OBVIOUS
<1>2. (k >= 0 => x <= y) /\ (k <= 0 => y <= x)
  OBVIOUS
<1> HIDE DEF x, y, q, r
<1>3. \A a, b, u, v \in Int : D * a <= u /\ u <= v /\ v < D * b + D => a <= b
  <2> SUFFICES ASSUME NEW a \in Int, NEW b \in Int, NEW u \in Int, NEW v \in Int,
                      D * a <= u, u <= v, v < D * b + D
               PROVE  a <= b
    OBVIOUS
  <2>1. D * a < D * b + D
    <3> DEFINE s == D * a
               t == D * b
    <3>1. s \in Int /\ t \in Int /\ s <= u /\ v < t + D
      OBVIOUS
    <3> HIDE DEF s, t
    <3>2. s < t + D
      BY <3>1
    <3> QED
      BY <3>2 DEF s, t
  <2> QED
    BY <2>1
<1>4. (k >= 0 => q <= r) /\ (k <= 0 => r <= q)
  BY <1>1, <1>2, <1>3
<1> QED
  BY <1>4 DEF x, y, q, r

\* Levels of a fade at two times are on its way in the order of the times.
LEMMA LevelsOrdered ==
  ASSUME ReachInv, pc = "fading", NEW t \in Nat, NEW u \in Nat, t <= u, u <= duration,
         duration # 0
  PROVE  /\ LevelAt(t) \in Int /\ LevelAt(u) \in Int
         /\ \/ LevelAt(t) <= LevelAt(u) /\ LevelAt(u) <= Target
            \/ Target <= LevelAt(u) /\ LevelAt(u) <= LevelAt(t)
<1> DEFINE D == duration * duration
           At(w) == IF curve = "Linear" THEN w * duration ELSE w * w
           c == At(t)
           e == At(u)
           k == Target - start
<1>1. start \in Int /\ Target \in Int /\ duration \in Nat
  <2>1. Valid(original[Item]) /\ Item \notin Mutes /\ start = original[Item] /\ duration \in Nat
    BY DEF ReachInv, FadeInv
  <2> QED
    BY <2>1, TargetIsNear DEF Valid
<1>2. D \in Nat \ {0} /\ c \in 0..D /\ e \in 0..D /\ c <= e
  <2>1. D \in Nat \ {0}
    BY <1>1
  <2>2. /\ t * duration \in 0..D /\ u * duration \in 0..D /\ t * duration <= u * duration
    BY <1>1
  <2>3. /\ t * t \in 0..D /\ u * u \in 0..D /\ t * t <= u * u
    BY <1>1
  <2> QED
    BY <2>1, <2>2, <2>3
<1>3. LevelAt(t) = start + (k * c) \div D /\ LevelAt(u) = start + (k * e) \div D
  BY DEF LevelAt
<1>4. k \in Int /\ Target = start + k
  BY <1>1
<1> HIDE DEF D, c, e, k
<1>5. /\ (k * c) \div D \in Int /\ (k * e) \div D \in Int
      /\ k >= 0 => (k * e) \div D \in 0..k /\ (k * c) \div D <= (k * e) \div D
      /\ k <= 0 => (k * e) \div D \in k..0 /\ (k * e) \div D <= (k * c) \div D
  BY <1>2, <1>4, ShareOfWay, SharesOrdered
<1> DEFINE q == (k * c) \div D
           r == (k * e) \div D
<1> HIDE DEF q, r
<1>6. /\ q \in Int /\ r \in Int
      /\ k >= 0 => r \in 0..k /\ q <= r
      /\ k <= 0 => r \in k..0 /\ r <= q
  BY <1>5 DEF q, r
<1>7. \/ start + q <= start + r /\ start + r <= start + k
      \/ start + k <= start + r /\ start + r <= start + q
  BY <1>1, <1>4, <1>6
<1>8. LevelAt(t) = start + q /\ LevelAt(u) = start + r
  BY <1>3 DEF q, r
<1> QED
  BY <1>1, <1>4, <1>6, <1>7, <1>8

\* The level of an update is that of the time that was read last.
LEMMA LevelIsNow ==
  ASSUME curve \in Curves
  PROVE  level(curve, start, Target) = LevelAt(Elapsed)
BY DEF level, curved, LevelAt, Curves

\* Between two steps of the script nothing is on its way: where no fade is, or the item
\* does not move, the trail stays.
LEMMA TrailFrame ==
  ASSUME TrailInv, pc' = "fading" => pc = "fading",
         UNCHANGED <<step, original, value, start, curve, duration>>,
         now' \in Nat, now \in Nat, now <= now',
         phase' = "step" => (phase = "step" /\ Elapsed' = Elapsed) \/ Elapsed' = now
  PROVE  TrailInv'
<1> SUFFICES ASSUME pc' = "fading", pc = "fading" PROVE TrailInv'
  BY DEF TrailInv
<1>1. Item' = Item /\ Target' = Target
  BY DEF Item, Target, bounded_target
<1>2. \A t : LevelAt(t)' = LevelAt(t)
  BY <1>1 DEF LevelAt
<1>3. CASE value[Item] = start
  BY <1>1, <1>3 DEF TrailInv
<1>4. CASE \E t \in 0..now : /\ t <= duration /\ value[Item] = LevelAt(t)
                             /\ phase = "step" => t <= Elapsed
  <2>1. PICK t \in 0..now : /\ t <= duration /\ value[Item] = LevelAt(t)
                            /\ phase = "step" => t <= Elapsed
    BY <1>4
  <2>2. t \in 0..now' /\ t <= now
    BY <2>1
  <2>3. phase' = "step" => t <= Elapsed'
    BY <2>1, <2>2
  <2> HIDE DEF Item
  <2> QED
    BY <1>1, <1>2, <2>1, <2>2, <2>3 DEF TrailInv
<1> QED
  BY <1>3, <1>4 DEF TrailInv

\* An update that was sent is the last of the trail.
LEMMA TrailStep ==
  ASSUME ReachInv, TrailInv, FadeStep, Elapsed <= now
  PROVE  TrailInv'
<1>1. /\ UNCHANGED <<step, original, start, curve>> /\ pc = "fading" /\ phase = "step"
      /\ \/ Written(level(curve, start, Target)) /\ StepSent
         \/ pc' # "fading"
  BY DEF FadeStep, FadeFails, AfterFade, Fail, runVars
<1>2. CASE pc' # "fading"
  BY <1>2 DEF TrailInv
<1>3. CASE Written(level(curve, start, Target)) /\ StepSent
  <2>1. UNCHANGED <<duration, now>> /\ phase' = "asleep"
    BY <1>3 DEF StepSent
  <2>2. Item' = Item /\ Target' = Target
    BY <1>1 DEF Item, Target, bounded_target
  <2>3. \A t : LevelAt(t)' = LevelAt(t)
    BY <1>1, <2>1, <2>2 DEF LevelAt
  <2>4. /\ Item \in Items /\ \A i \in Items \ {Item} : value[i] = original[i]
        /\ curve \in Curves /\ Elapsed \in Nat /\ Elapsed < duration /\ duration \in Nat
        /\ now \in Nat
    BY <1>1, ScriptItems DEF ReachInv, AwayInv, NearInv, FadeInv, Item
  <2>5. value'[Item] = LevelAt(Elapsed)
    <3>1. value' = [i \in Items |-> IF i = Item THEN level(curve, start, Target)
                                                ELSE original[i]]
      BY <1>3, <2>4, WriteMovesItem DEF ReachInv
    <3> HIDE DEF Item
    <3> QED
      BY <2>4, <3>1, LevelIsNow
  <2>6. Elapsed \in 0..now' /\ Elapsed <= duration'
    BY <2>1, <2>4
  <2>7. \E t \in 0..now' : t <= duration' /\ value'[Item] = LevelAt(t)'
    <3>1. PICK t : t = Elapsed
      OBVIOUS
    <3>2. value'[Item] = LevelAt(t)
      BY <2>5, <3>1
    <3> HIDE DEF Item
    <3> QED
      BY <2>3, <2>6, <3>1, <3>2
  <2> HIDE DEF Item
  <2> QED
    BY <2>1, <2>2, <2>7 DEF TrailInv
<1> QED
  BY <1>1, <1>2, <1>3

\* Every action keeps the trail.
LEMMA TrailKeeps == ReachInv /\ ClockInv /\ TrailInv /\ [Next]_vars => TrailInv'
<1> SUFFICES ASSUME ReachInv, ClockInv, TrailInv, [Next]_vars PROVE TrailInv'
  OBVIOUS
<1> USE DEF runVars, Stay, Fail
<1>1. CASE LaunchFails \/ Launch \/ ConnectFails \/ BackoffElapses \/ Ready \/ ReadOnly
           \/ Capture \/ Close \/ Discover \/ Dial \/ FirstSnapshotFails \/ WaveLink
  BY <1>1 DEF LaunchFails, Launch, ConnectFails, BackoffElapses, Ready, ReadOnly, Capture,
              Close, Discover, Dial, FirstSnapshotFails, WaveLink, TrailInv
<1>2. CASE Unrestorable \/ Mutate \/ Undo \/ Restore \/ Refresh \/ Verify
  BY <1>2 DEF Unrestorable, Mutate, Undo, Restore, Refresh, Verify, TrailInv
<1>3. CASE StartFade \/ StartClientFade
  BY <1>3 DEF StartFade, StartClientFade, TrailInv, Item
<1>4. CASE FadeWaits
  <2>1. /\ UNCHANGED <<step, original, value, start, curve>> /\ pc' = pc
        /\ now \in Nat /\ updates \in Seq(Nat)
    BY <1>4 DEF FadeWaits, ClockInv, DeadlineInv
  <2>2. CASE Tick
    BY <2>1, <2>2, TrailFrame DEF Tick, Elapsed
  <2>3. CASE Wake
    <3>1. now' = now /\ duration' = duration /\ Elapsed' = now
      BY <2>1, <2>3 DEF Wake, Elapsed
    <3> QED
      BY <2>1, <3>1, TrailFrame
  <2> QED
    BY <1>4, <2>2, <2>3 DEF FadeWaits
<1>5. CASE FadeStep
  <2>1. Elapsed <= now
    BY <1>5 DEF FadeStep, ClockInv, DeadlineInv
  <2> QED
    BY <1>5, <2>1, TrailStep
<1>6. CASE FadeStops \/ FadeEndpoint
  BY <1>6 DEF FadeStops, FadeEndpoint, FadeFails, AfterFade, TrailInv
<1>7. CASE Exited \/ UNCHANGED vars
  <2>1. UNCHANGED <<pc, step, original, value, start, curve, duration, now, updates, phase>>
    BY <1>7 DEF Exited, vars, clockVars
  <2> QED
    BY <2>1, TrailFrame DEF ClockInv, DeadlineInv, Elapsed
<1> QED
  BY <1>1, <1>2, <1>3, <1>4, <1>5, <1>6, <1>7 DEF Next, Program

\* A move from one level to another is forward on the way of the step.
Forward(from, to) ==
  \/ from <= to /\ to <= Target
  \/ Target <= to /\ to <= from

\* Every action, during a fade, moves its level forward or not at all.
LEMMA MovesForward ==
  ASSUME ReachInv, TrailInv, [Next]_vars, pc = "fading"
  PROVE  Forward(value[Item], value'[Item])
<1>1. /\ Item \in Items /\ Item \notin Mutes /\ Valid(original[Item]) /\ start = original[Item]
      /\ step \in 1..6 /\ duration \in Nat
      /\ \A v : Written(v) => value'[Item] = v
  BY ScriptItems DEF ReachInv, AwayInv, FadeInv, Item, Written
<1>2. original[Item] \in Int /\ Target \in Int
  BY <1>1, TargetIsNear DEF Valid
<1>3. Between(value[Item])
  BY <1>1, <1>2 DEF ReachInv, NearInv, Between
<1> HIDE DEF Item
<1>4. CASE value' = value
  BY <1>2, <1>3, <1>4 DEF Between, Forward
<1>5. CASE Written(Target)
  BY <1>1, <1>2, <1>3, <1>5 DEF Between, Forward
<1>6. CASE phase = "step" /\ Written(level(curve, start, Target))
  <2>1. value'[Item] = level(curve, start, Target) /\ Between(level(curve, start, Target))
    BY <1>1, <1>6, LevelIsBetween DEF ReachInv
  <2>2. CASE value[Item] = start
    BY <1>1, <1>2, <2>1, <2>2 DEF Between, Forward
  <2>3. CASE \E t \in 0..now : /\ t <= duration /\ value[Item] = LevelAt(t)
                               /\ phase = "step" => t <= Elapsed
    <3>1. PICK t \in 0..now : t <= duration /\ value[Item] = LevelAt(t) /\ t <= Elapsed
      BY <1>6, <2>3
    <3>2. Elapsed \in Nat /\ Elapsed < duration /\ curve \in Curves /\ t \in Nat
      <4>1. Elapsed \in Nat /\ Elapsed < duration /\ curve \in Curves /\ now \in Nat
        BY <1>6 DEF ReachInv, FadeInv
      <4> HIDE DEF LevelAt, Elapsed
      <4> QED
        BY <3>1, <4>1
    <3>3. value'[Item] = LevelAt(Elapsed)
      BY <2>1, <3>2, LevelIsNow
    <3> HIDE DEF LevelAt, Elapsed
    <3> QED
      BY <1>1, <3>1, <3>2, <3>3, LevelsOrdered DEF Forward
  <2> QED
    BY <2>2, <2>3 DEF TrailInv
<1> QED
  <2>1. \/ value' = value
        \/ FadeStep \/ FadeEndpoint
    BY DEF Next, Program, LaunchFails, Launch, Discover, ConnectFails, BackoffElapses, Dial,
           FirstSnapshotFails, Ready, ReadOnly, Capture, Close, Unrestorable, Mutate, Undo,
           Restore, Refresh, Verify, StartFade, StartClientFade, FadeWaits, FadeStops,
           WaveLink, Exited, vars
  <2>2. CASE FadeStep
    BY <1>4, <1>6, <2>2 DEF FadeStep, Perhaps
  <2>3. CASE FadeEndpoint
    BY <1>4, <1>5, <2>3 DEF FadeEndpoint, Perhaps
  <2> QED
    BY <1>4, <2>1, <2>2, <2>3

\* The clock of the fades is the clock, in every behaviour.
LEMMA ClockHolds == Spec => []ClockInv
<1>1. ClockInit => ClockInv
  BY ClockAssumption DEF ClockInit, ClockInv, DeadlineInv, RateCapped, Clocks
<1> QED
  BY <1>1, ClockStep, FadesRunByTheClock, PTL DEF ClockSpec

\* FadesForward, for every curve, every duration and however late or skipped its updates
\* are: a level never turns back and never goes beyond the target.
THEOREM FadesAlwaysForward == Spec => FadesForward
<1>1. Init => TrailInv
  BY DEF Init, TrailInv
<1>2. ReachInv /\ TrailInv /\ [Next]_vars =>
        [pc = "fading" =>
           LET target == bounded_target(original[Item])
               from == value[Item]  to == value'[Item]
           IN (from <= to /\ to <= target) \/ (target <= to /\ to <= from)]_vars
  <2> SUFFICES ASSUME ReachInv, TrailInv, [Next]_vars, pc = "fading"
               PROVE  LET target == bounded_target(original[Item])
                          from == value[Item]  to == value'[Item]
                      IN (from <= to /\ to <= target) \/ (target <= to /\ to <= from)
    OBVIOUS
  <2>1. Target = bounded_target(original[Item])
    BY DEF ReachInv, FadeInv, Target
  <2> QED
    BY <2>1, MovesForward DEF Forward
<1> QED
  BY <1>1, <1>2, ReachHolds, ClockHolds, TrailKeeps, PTL DEF Spec, FadesForward

------------------------------------------------------------------------------
(* The types.                                                              *)

\* A fade has an update left while it sleeps, and never more of them than ticks.
CountInv ==
  /\ duration \in 0..MaxFade
  /\ Len(updates) <= duration
  /\ phase = "asleep" => Len(updates) < duration

\* What the other invariants leave of TypeOK.
RestInv ==
  /\ program \in Programs /\ pc \in Points
  /\ original \in Mixers /\ value \in Mixers
  /\ start \in Nat
  /\ result \in Results /\ unrestored \in BOOLEAN
  /\ DiscoveryTypeOK
  /\ (phase # "idle") = (pc = "fading")

\* The count follows from the rate: n updates take n ticks or more, and the time of an
\* update is short of the duration.
LEMMA CountStep ==
  ASSUME ClockInv, FadeInv, CountInv, [ClockNext]_clockVars
  PROVE  CountInv'
<1>0. /\ updates \in Seq(Nat) /\ Len(updates) \in Nat /\ duration \in Nat
      /\ phase = "step" => Elapsed \in Nat /\ Elapsed < duration
  <2>1. updates \in Seq(Nat) /\ duration \in Nat
    BY DEF FadeInv
  <2>2. phase = "step" => Elapsed \in Nat /\ Elapsed < duration
    BY DEF FadeInv
  <2> QED
    BY <2>1, <2>2
<1>1. ASSUME NEW c \in Clocks, NEW d \in 0..MaxFade, BeginFade(c, d)
      PROVE  CountInv'
  BY <1>1, ClockAssumption DEF BeginFade, CountInv
<1>2. CASE Tick
  BY <1>2 DEF Tick, CountInv
<1>3. CASE Wake
  <2>1. /\ Len(updates') = Len(updates) + 1 /\ duration' = duration
        /\ phase' # "asleep" /\ Len(updates) < duration
    BY <1>0, <1>3 DEF Wake, CountInv
  <2> QED
    BY <1>0, <2>1 DEF CountInv
<1>4. CASE StepSent
  <2> DEFINE n == Len(updates)
  <2>1. /\ phase = "step" /\ UNCHANGED <<duration, updates>>
    BY <1>4 DEF StepSent
  <2>2. n \in DOMAIN updates /\ n \in Nat
    BY <1>0, <2>1 DEF ClockInv, DeadlineInv
  <2>3. Elapsed >= n * Step
    BY <2>2 DEF ClockInv, RateCapped, Elapsed
  <2> HIDE DEF n
  <2>4. n * Step >= n /\ n * Step \in Int
    BY <2>2, ClockAssumption
  <2>5. n < duration
    BY <1>0, <2>1, <2>2, <2>3, <2>4
  <2> QED
    BY <2>1, <2>5 DEF CountInv, n
<1>5. CASE EndFade
  BY <1>5, ClockAssumption DEF EndFade, CountInv
<1>6. CASE UNCHANGED clockVars
  BY <1>6 DEF clockVars, CountInv
<1> QED
  BY <1>1, <1>2, <1>3, <1>4, <1>5, <1>6 DEF ClockNext

\* Where a step moves its item is a level or a mute.
LEMMA TargetType ==
  ASSUME AwayInv, original \in Mixers
  PROVE  /\ Item \in Items /\ original[Item] \in Nat /\ Target \in Nat
         /\ Item \in Mutes => original[Item] \in {0, 1} /\ Target \in {0, 1}
<1>1. Item \in Items
  BY ScriptItems DEF AwayInv, Item
<1> HIDE DEF Item
<1>2. original[Item] \in Nat /\ (Item \in Mutes => original[Item] \in {0, 1})
  BY <1>1 DEF Mixers
<1>3. \A l \in Nat : bounded_target(l) \in Nat
  BY LiveAssumption DEF bounded_target
<1> QED
  BY <1>1, <1>2, <1>3 DEF Target

\* So a write leaves a mixer.
LEMMA WriteType ==
  ASSUME AwayInv, value \in Mixers, NEW v \in Nat, Item \in Mutes => v \in {0, 1}, Perhaps(v)
  PROVE  value' \in Mixers
<1>1. Item \in Items
  BY ScriptItems DEF AwayInv, Item
<1> HIDE DEF Item
<1>2. CASE Written(v)
  <2>1. value' \in [Items -> Nat] /\ value'[Item] = v
        /\ \A i \in Items \ {Item} : value'[i] = value[i]
    BY <1>1, <1>2 DEF Written, Mixers
  <2> QED
    BY <1>1, <2>1 DEF Mixers, Mutes, Items
<1>3. CASE UNCHANGED value
  BY <1>3
<1> QED
  BY <1>2, <1>3 DEF Perhaps

\* Every action writes what belongs in the mixer.
LEMMA MixerStep ==
  ASSUME ReachInv, original \in Mixers, value \in Mixers, [Next]_vars
  PROVE  value' \in Mixers /\ original' = original
<1>0. /\ AwayInv /\ Item \in Items /\ original[Item] \in Nat /\ Target \in Nat
      /\ Item \in Mutes => original[Item] \in {0, 1} /\ Target \in {0, 1}
  BY TargetType DEF ReachInv
<1> HIDE DEF Item, Target
<1>1. original' = original
  BY DEF Next, Program, LaunchFails, Launch, Discover, ConnectFails, BackoffElapses, Dial,
         FirstSnapshotFails, Ready, ReadOnly, Capture, Close, Unrestorable, Mutate, Undo,
         Restore, Refresh, Verify, StartFade, StartClientFade, FadeWaits, FadeStep,
         FadeStops, FadeEndpoint, WaveLink, Exited, vars, runVars
<1>2. CASE value' = value
  BY <1>1, <1>2
<1>3. CASE Mutate \/ FadeEndpoint
  <2>1. Perhaps(Target)
    BY <1>3 DEF Mutate, FadeEndpoint, Perhaps
  <2> QED
    BY <1>0, <1>1, <2>1, WriteType
<1>4. CASE Undo \/ Restore
  <2>1. Perhaps(original[Item])
    BY <1>4 DEF Undo, Restore, Perhaps
  <2> QED
    BY <1>0, <1>1, <2>1, WriteType
<1>5. CASE FadeStep
  <2>1. /\ Perhaps(level(curve, start, Target)) /\ pc = "fading" /\ phase = "step"
        /\ Item \notin Mutes
    BY <1>5 DEF FadeStep, Perhaps, ReachInv, FadeInv
  <2>2. Between(level(curve, start, Target))
    BY <2>1, LevelIsBetween, ScriptItems DEF ReachInv, AwayInv
  <2>3. level(curve, start, Target) \in Nat
    BY <1>0, <2>2 DEF Between
  <2> QED
    BY <1>0, <1>1, <2>1, <2>3, WriteType
<1> QED
  <2>1. \/ value' = value
        \/ Mutate \/ Undo \/ Restore \/ FadeStep \/ FadeEndpoint
    BY DEF Next, Program, LaunchFails, Launch, Discover, ConnectFails, BackoffElapses, Dial,
           FirstSnapshotFails, Ready, ReadOnly, Capture, Close, Unrestorable, Refresh, Verify,
           StartFade, StartClientFade, FadeWaits, FadeStops, WaveLink, Exited, vars
  <2> QED
    BY <1>1, <1>2, <1>3, <1>4, <1>5, <2>1

\* Every action keeps the types.
LEMMA RestStep ==
  ASSUME ReachInv, RestInv, [Next]_vars
  PROVE  RestInv'
<1> USE DEF RestInv, Stay, Fail, runVars, Points, Results
<1>0. value' \in Mixers /\ original' \in Mixers /\ program' \in Programs
  <2>1. program' = program
    BY DEF Next, Program, LaunchFails, Launch, Discover, ConnectFails, BackoffElapses, Dial,
           FirstSnapshotFails, Ready, ReadOnly, Capture, Close, Unrestorable, Mutate, Undo,
           Restore, Refresh, Verify, StartFade, StartClientFade, FadeWaits, FadeStep,
           FadeStops, FadeEndpoint, WaveLink, Exited, vars
  <2> QED
    BY <2>1, MixerStep
<1>1. CASE LaunchFails \/ Launch \/ ConnectFails \/ BackoffElapses \/ Ready \/ ReadOnly
           \/ Capture \/ Close \/ Dial \/ FirstSnapshotFails
  BY <1>0, <1>1 DEF LaunchFails, Launch, ConnectFails, BackoffElapses, Ready, ReadOnly, Capture,
              Close, Dial, FirstSnapshotFails, discoveryVars, DiscoveryTypeOK, clockVars
<1>2. CASE Unrestorable \/ Mutate \/ Undo \/ Refresh \/ Verify
  BY <1>0, <1>2 DEF Unrestorable, Mutate, Undo, Refresh, Verify, discoveryVars,
                    DiscoveryTypeOK, clockVars
<1>3. CASE Restore
  BY <1>0, <1>3 DEF Restore, discoveryVars, DiscoveryTypeOK, clockVars
<1>4. CASE Discover
  BY <1>0, <1>4 DEF Discover, discover, ValidPort, DiscoveryTypeOK, clockVars
<1>5. CASE WaveLink
  <2>1. DiscoveryTypeOK'
    BY <1>5, PortAssumption DEF WaveLink, Start, Truncate, Advertise, DiscoveryTypeOK
  <2> QED
    BY <1>0, <1>5, <2>1 DEF WaveLink, clockVars
<1>6. CASE StartFade \/ StartClientFade
  <2>1. value[Item] \in Nat
    BY TargetType DEF ReachInv, Mixers
  <2> HIDE DEF Item
  <2> QED
    BY <1>0, <1>6, <2>1 DEF StartFade, StartClientFade, BeginFade, discoveryVars,
                            DiscoveryTypeOK, clockVars
<1>7. CASE FadeWaits
  BY <1>0, <1>7 DEF FadeWaits, Tick, Wake, discoveryVars, DiscoveryTypeOK
<1>8. CASE FadeStep \/ FadeStops \/ FadeEndpoint
  BY <1>0, <1>8 DEF FadeStep, StepSent, FadeStops, FadeEndpoint, FadeFails, AfterFade, EndFade,
                    discoveryVars, DiscoveryTypeOK
<1>9. CASE Exited \/ UNCHANGED vars
  BY <1>0, <1>9 DEF Exited, vars, discoveryVars, DiscoveryTypeOK, clockVars
<1> QED
  BY <1>1, <1>2, <1>3, <1>4, <1>5, <1>6, <1>7, <1>8, <1>9 DEF Next, Program

\* The types, for every mixer: levels are never negative, mutes stay mutes, and a fade sends
\* no more updates than it has ticks.
THEOREM LiveTypesCorrect == Spec => []TypeOK
<1>1. Init => RestInv /\ CountInv /\ AttemptInv
  <2> SUFFICES ASSUME Init PROVE RestInv /\ CountInv /\ AttemptInv
    OBVIOUS
  <2>1. DiscoveryTypeOK
    BY PortAssumption DEF Init, DiscoveryInit, DiscoveryTypeOK
  <2>2. CountInv
    BY ClockAssumption DEF Init, ClockInit, CountInv
  <2>3. AttemptInv
    BY WordAssumption DEF Init, AttemptInv, Words
  <2>4. original \in Mixers /\ value \in Mixers
    BY LiveAssumption DEF Init
  <2> QED
    BY <2>1, <2>2, <2>3, <2>4 DEF Init, ClockInit, RestInv, Points, Results
<1>2. [Next]_vars => [ClockNext]_clockVars
  BY ClockActions
<1>3. ReachInv /\ ClockInv /\ RestInv /\ CountInv /\ [Next]_vars => RestInv' /\ CountInv'
  BY <1>2, RestStep, CountStep DEF ReachInv
<1>4. ReachInv /\ ClockInv /\ RestInv /\ CountInv /\ AttemptInv => TypeOK
  BY DEF TypeOK, ReachInv, AwayInv, FadeInv, ClockInv, DeadlineInv, RestInv, CountInv,
         AttemptInv
<1> QED
  BY <1>1, <1>3, <1>4, AttemptStep, ReachHolds, ClockHolds, PTL DEF Spec
==============================================================================
