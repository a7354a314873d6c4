--------------------------- MODULE FadeClockProofs ---------------------------
(***************************************************************************)
(* The rate of a fade's updates, for every length of a step, every         *)
(* duration and however late its timers and writes are.                    *)
(***************************************************************************)
EXTENDS FadeClock, TLAPS

\* What RateCapped needs of the deadline: it is n steps after the start when n updates
\* have been or are to be sent by it, and every update was that much before it.
DeadlineInv ==
  /\ now \in Nat /\ deadline \in Nat
  /\ updates \in Seq(Nat)
  /\ clock \in Clocks
  /\ phase \in {"idle", "asleep", "step", "endpoint"}
  /\ phase = "asleep" =>
       /\ deadline >= (Len(updates) + 1) * Step
       /\ \A i \in 1..Len(updates) : deadline > updates[i] + (Len(updates) - i) * Step
  /\ phase = "step" =>
       /\ Len(updates) > 0
       /\ deadline >= Len(updates) * Step
       /\ Elapsed >= deadline /\ Elapsed <= now
       /\ \A i \in 1 .. Len(updates) - 1 :
            deadline > updates[i] + (Len(updates) - 1 - i) * Step

ClockInv == DeadlineInv /\ RateCapped

\* One step more.
LEMMA OneMore == ASSUME NEW k \in Int PROVE (k + 1) * Step = k * Step + Step
BY ClockAssumption

\* An update that is sent at its deadline or later keeps the rate.
LEMMA WakeKeepsRate == ClockInv /\ Wake => ClockInv'
<1> SUFFICES ASSUME ClockInv, Wake PROVE ClockInv'
  OBVIOUS
<1> DEFINE n == Len(updates)
<1> USE ClockAssumption
<1>1. /\ n \in Nat /\ now \in Nat /\ deadline \in Nat /\ now >= deadline
      /\ updates \in Seq(Nat) /\ updates' = Append(updates, now)
      /\ now' = now /\ deadline' = deadline /\ clock' = clock /\ clock \in Clocks
      /\ phase' \in {"step", "endpoint"}
      /\ deadline >= (n + 1) * Step
      /\ \A i \in 1..n : deadline > updates[i] + (n - i) * Step
  BY DEF ClockInv, DeadlineInv, Wake
<1>2. /\ updates' \in Seq(Nat) /\ Len(updates') = n + 1
      /\ updates'[n + 1] = now
      /\ \A i \in 1..n : updates'[i] = updates[i] /\ updates[i] \in Nat
  BY <1>1
<1>3. DeadlineInv'
  <2>1. Elapsed' = now
    BY <1>2 DEF Elapsed
  <2>2. \A i \in 1 .. Len(updates') - 1 :
          deadline' > updates'[i] + (Len(updates') - 1 - i) * Step
    <3> SUFFICES ASSUME NEW i \in 1 .. Len(updates') - 1
                 PROVE  deadline' > updates'[i] + (Len(updates') - 1 - i) * Step
      OBVIOUS
    <3>1. i \in 1..n /\ Len(updates') - 1 - i = n - i
      BY <1>1, <1>2
    <3> QED
      BY <1>1, <1>2, <3>1
  <2>3. deadline' >= Len(updates') * Step
    BY <1>1, <1>2
  <2> QED
    BY <1>1, <1>2, <2>1, <2>2, <2>3 DEF DeadlineInv
<1>4. \A i \in DOMAIN updates' : updates'[i] >= i * Step
  <2>1. now >= (n + 1) * Step
    <3>1. (n + 1) * Step \in Int
      BY <1>1
    <3> QED
      BY <1>1, <3>1
  <2> SUFFICES ASSUME NEW i \in 1 .. n + 1 PROVE updates'[i] >= i * Step
    BY <1>2
  <2>2. CASE i = n + 1
    BY <1>2, <2>1, <2>2
  <2>3. CASE i # n + 1
    <3>1. i \in 1..n
      BY <1>1, <2>3
    <3>2. updates[i] >= i * Step
      BY <3>1 DEF ClockInv, RateCapped
    <3> QED
      BY <1>2, <3>1, <3>2
  <2> QED
    BY <2>2, <2>3
<1>5. \A i, j \in DOMAIN updates' :
        i < j => updates'[j] - updates'[i] > (j - i - 1) * Step
  <2> SUFFICES ASSUME NEW i \in 1 .. n + 1, NEW j \in 1 .. n + 1, i < j
               PROVE  updates'[j] - updates'[i] > (j - i - 1) * Step
    BY <1>2
  <2>1. i \in 1..n
    BY <1>1
  <2>2. CASE j = n + 1
    <3>1. now > updates[i] + (n - i) * Step
      <4>1. deadline > updates[i] + (n - i) * Step
        BY <1>1, <2>1
      <4>2. (n - i) * Step \in Int /\ updates[i] \in Int
        BY <1>1, <1>2, <2>1
      <4> HIDE DEF n
      <4> QED
        BY <1>1, <4>1, <4>2
    <3>2. j - i - 1 = n - i /\ (n - i) * Step \in Int
      BY <1>1, <2>1, <2>2
    <3> QED
      BY <1>1, <1>2, <2>1, <2>2, <3>1, <3>2
  <2>3. CASE j # n + 1
    <3>1. j \in 1..n
      <4>1. n \in Nat
        BY <1>1
      <4> QED
        BY <2>3, <4>1
    <3>2. updates[j] - updates[i] > (j - i - 1) * Step
      BY <2>1, <3>1 DEF ClockInv, RateCapped
    <3> QED
      BY <1>2, <2>1, <3>1, <3>2
  <2> QED
    BY <2>2, <2>3
<1> QED
  BY <1>3, <1>4, <1>5 DEF ClockInv, RateCapped

\* The next deadline, on either clock, is a step or more after the one before and
\* later than the update just sent.
LEMMA NextDeadlineIsLater ==
  ASSUME NEW d \in Nat, ClockInv, phase = "step", NextDeadline(d)
  PROVE  /\ d >= deadline + Step
         /\ d > Elapsed
<1>1. /\ Elapsed \in Nat /\ Elapsed >= deadline /\ Elapsed <= now
      /\ deadline \in Nat /\ now \in Nat /\ clock \in Clocks
  BY DEF ClockInv, DeadlineInv, Elapsed
<1>2. CASE clock = "grid"
  BY <1>1, <1>2 DEF NextDeadline
<1>3. CASE clock = "relative"
  BY <1>1, <1>3, ClockAssumption DEF NextDeadline
<1> QED
  BY <1>1, <1>2, <1>3 DEF Clocks

\* A deadline that is set keeps the rate.
LEMMA StepSentKeepsRate == ClockInv /\ StepSent => ClockInv'
<1> SUFFICES ASSUME ClockInv, StepSent PROVE ClockInv'
  OBVIOUS
<1> DEFINE n == Len(updates)
<1> USE ClockAssumption
<1>1. /\ phase = "step" /\ phase' = "asleep" /\ deadline \in Nat /\ now \in Nat
      /\ now' = now /\ updates' = updates /\ clock' = clock /\ clock \in Clocks
      /\ updates \in Seq(Nat) /\ n \in Nat /\ n > 0
      /\ NextDeadline(deadline')
      /\ deadline' \in deadline + 1 .. deadline + MaxLate + Step
      /\ deadline >= n * Step /\ Elapsed >= deadline
      /\ \A i \in 1 .. n - 1 : deadline > updates[i] + (n - 1 - i) * Step
  BY DEF ClockInv, DeadlineInv, StepSent
<1>2. deadline' \in Nat
  BY <1>1
<1>3. deadline' >= deadline + Step /\ deadline' > Elapsed
  BY <1>1, <1>2, NextDeadlineIsLater
<1>4. deadline' >= (n + 1) * Step
  <2>1. (n + 1) * Step = n * Step + Step /\ n * Step \in Int
    BY <1>1, OneMore
  <2> QED
    BY <1>1, <1>2, <1>3, <2>1
<1>5. \A i \in 1..n : deadline' > updates[i] + (n - i) * Step
  <2> SUFFICES ASSUME NEW i \in 1..n PROVE deadline' > updates[i] + (n - i) * Step
    OBVIOUS
  <2>1. CASE i = n
    <3>1. (n - i) * Step = 0 /\ updates[i] = Elapsed /\ Elapsed \in Nat
      BY <1>1, <2>1 DEF Elapsed
    <3> QED
      BY <1>2, <1>3, <3>1
  <2>2. CASE i # n
    <3>1. i \in 1 .. n - 1 /\ n - 1 - i \in Int /\ updates[i] \in Nat
      BY <1>1, <2>2
    <3>2. (n - 1 - i) * Step \in Int /\ (n - i) * Step = (n - 1 - i) * Step + Step
      <4>1. (n - 1 - i) + 1 = n - i
        BY <1>1
      <4> QED
        BY <3>1, <4>1, OneMore
    <3>3. deadline > updates[i] + (n - 1 - i) * Step
      BY <1>1, <3>1
    <3>4. \A u, v, w, d, e \in Int : d > u + v /\ w = v + Step /\ e >= d + Step => e > u + w
      OBVIOUS
    <3>5. /\ updates[i] \in Int /\ deadline \in Int /\ deadline' \in Int
          /\ (n - i) * Step \in Int /\ deadline' >= deadline + Step
      BY <1>1, <1>2, <1>3, <3>1, <3>2
    <3> HIDE DEF n
    <3> QED
      BY <3>2, <3>3, <3>4, <3>5
  <2> QED
    BY <2>1, <2>2
<1>6. DeadlineInv'
  BY <1>1, <1>2, <1>4, <1>5 DEF DeadlineInv
<1> QED
  BY <1>1, <1>6 DEF ClockInv, RateCapped

\* A fade that begins has sent nothing.
LEMMA NewFadeKeepsRate ==
  ASSUME updates' = <<>>, now' = 0, deadline' \in {0, Step}, clock' \in Clocks,
         phase' \in {"idle", "endpoint"} \/ (phase' = "asleep" /\ deadline' = Step)
  PROVE  ClockInv'
<1>1. Len(updates') = 0 /\ updates' \in Seq(Nat) /\ DOMAIN updates' = {}
  OBVIOUS
<1> QED
  BY <1>1, ClockAssumption DEF ClockInv, DeadlineInv, RateCapped

\* Every step of the clock, together.
LEMMA ClockStep == ClockInv /\ [ClockNext]_clockVars => ClockInv'
<1> SUFFICES ASSUME ClockInv, [ClockNext]_clockVars PROVE ClockInv'
  OBVIOUS
<1>1. ASSUME NEW c \in Clocks, NEW d \in 0..MaxFade, BeginFade(c, d) PROVE ClockInv'
  BY <1>1, NewFadeKeepsRate DEF BeginFade
<1>2. CASE Tick
  BY <1>2 DEF Tick, ClockInv, DeadlineInv, RateCapped, Elapsed
<1>3. CASE Wake
  BY <1>3, WakeKeepsRate
<1>4. CASE StepSent
  BY <1>4, StepSentKeepsRate
<1>5. CASE EndFade
  BY <1>5, NewFadeKeepsRate DEF EndFade, Clocks
<1>6. CASE UNCHANGED clockVars
  BY <1>6 DEF clockVars, ClockInv, DeadlineInv, RateCapped, Elapsed
<1> QED
  BY <1>1, <1>2, <1>3, <1>4, <1>5, <1>6 DEF ClockNext

\* RateCapped, for a fade on either clock.
THEOREM ClockKeepsRate == ClockSpec => []RateCapped
<1>1. ClockInit => ClockInv
  BY ClockAssumption DEF ClockInit, ClockInv, DeadlineInv, RateCapped, Clocks
<1>2. ClockInv => RateCapped
  BY DEF ClockInv
<1> QED
  BY <1>1, <1>2, ClockStep, PTL DEF ClockSpec

==============================================================================
