----------------------------- MODULE FadeClock -----------------------------
(***************************************************************************)
(* The clock of a fade: when it sends its next level, and which.  There    *)
(* are two in the code.  SynchronizedClient keeps its deadlines on a grid  *)
(* and skips those it has missed (src/src/lifecycle.rs); WaveLinkClient    *)
(* sets each deadline one step after the update before it                  *)
(* (src/src/mutation.rs).  Both send, at a deadline or later, the level of *)
(* the time that has really passed, and last the exact target.             *)
(*                                                                         *)
(* Times are ticks since the start of the fade.  An update is counted when *)
(* its level is taken; its way to the mixer is in Transport.tla.           *)
(***************************************************************************)
EXTENDS Integers, Sequences

CONSTANTS
  Step,      \* FADE_STEP
  MaxFade,   \* MAX_FADE
  MaxLate    \* bound: how late a timer and the write after it may be, together

ASSUME ClockAssumption == Step \in Nat \ {0} /\ MaxFade \in Nat /\ MaxLate \in Nat

VARIABLES
  clock,      \* whose fade it is, hence which clock
  duration,   \* options.duration
  phase,      \* what the fade does
  now,        \* the time since it started
  deadline,   \* its next wake-up, or the one it has just passed
  updates     \* history: when it took the levels it sent

clockVars == <<clock, duration, phase, now, deadline, updates>>

Clocks == {"grid", "relative"}

ClockInit ==
  /\ clock = "grid" /\ duration = 0 /\ phase = "idle"
  /\ now = 0 /\ deadline = 0 /\ updates = <<>>

\* A duration of zero is one immediate write, without a clock.
BeginFade(c, d) ==
  /\ phase = "idle" /\ d <= MaxFade
  /\ clock' = c /\ duration' = d
  /\ phase' = IF d = 0 THEN "endpoint" ELSE "asleep"
  /\ now' = 0 /\ deadline' = Step /\ updates' = <<>>

Tick ==
  /\ phase # "idle" /\ now < deadline + MaxLate
  /\ now' = now + 1
  /\ UNCHANGED <<clock, duration, phase, deadline, updates>>

\* The sleep is over: the time is read, and a level or the target is to be sent.
Wake ==
  /\ phase = "asleep" /\ now >= deadline
  /\ phase' = IF now >= duration THEN "endpoint" ELSE "step"
  /\ updates' = Append(updates, now)
  /\ UNCHANGED <<clock, duration, now, deadline>>

Elapsed == updates[Len(updates)]   \* the time that was read last

\* Missed deadlines are made up for.
MutantNextDeadline(d) ==
  \/ clock = "grid" /\ d = deadline + Step
  \/ clock = "relative" /\ d = Elapsed + Step

\* On the grid, the first deadline that is still to come.
NextDeadline(d) ==
  \/ /\ clock = "grid"
     /\ d >= deadline + Step /\ d \in now + 1 .. now + Step
     /\ (d - deadline) % Step = 0
  \/ clock = "relative" /\ d = Elapsed + Step

\* A level has been sent.
StepSent ==
  /\ phase = "step" /\ phase' = "asleep"
  /\ deadline' \in deadline + 1 .. deadline + MaxLate + Step /\ NextDeadline(deadline')
  /\ UNCHANGED <<clock, duration, now, updates>>

\* The target has been sent, a write has failed, or the fade is stopped.
EndFade ==
  /\ phase # "idle"
  /\ clock' = "grid" /\ duration' = 0 /\ phase' = "idle"
  /\ now' = 0 /\ deadline' = 0 /\ updates' = <<>>

ClockNext ==
  \/ \E c \in Clocks, d \in 0..MaxFade : BeginFade(c, d)
  \/ Tick \/ Wake \/ StepSent \/ EndFade

ClockSpec == ClockInit /\ [][ClockNext]_clockVars

------------------------------------------------------------------------------
\* The time since the last update.
MutantCurved(curve) ==
  LET e == IF Len(updates) > 1 THEN Elapsed - updates[Len(updates) - 1] ELSE Elapsed
  IN CASE curve = "Linear"     -> e * duration
       [] curve = "Perceptual" -> e * e

\* How far the level has come, of duration * duration.
curved(curve) ==
  CASE curve = "Linear"     -> Elapsed * duration
    [] curve = "Perceptual" -> Elapsed * Elapsed

\* The level between start and target.
level(curve, start, target) ==
  start + ((target - start) * curved(curve)) \div (duration * duration)

------------------------------------------------------------------------------
(* The limit of 30 updates per second, as far as a step of 34 ms keeps it. *)

\* However late timers and writes are, n updates take n steps from the start of the
\* fade, on either clock; and n of them in a row take more than n - 2 steps, so that
\* no burst makes up for a delay.  (One late update may be followed at once by the
\* next one of the grid.)
RateCapped ==
  /\ \A i \in DOMAIN updates : updates[i] >= i * Step
  /\ \A i, j \in DOMAIN updates :
       i < j => updates[j] - updates[i] > (j - i - 1) * Step

=============================================================================
