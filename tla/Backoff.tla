------------------------------ MODULE Backoff ------------------------------
(***************************************************************************)
(* The delay between two connection attempts: backoff and the counter that *)
(* run() gives it (src/src/lifecycle.rs).  The counter saturates at the    *)
(* end of a machine word, the product behind the jitter wraps around it.   *)
(***************************************************************************)
EXTENDS Integers

CONSTANT WordSize   \* the numbers an attempt counter can hold, 2^32 in the code

ASSUME WordAssumption == WordSize \in Nat /\ WordSize > 4

Words == 0 .. WordSize - 1

INITIAL_BACKOFF == 250    \* milliseconds, like all that follows
MAX_BACKOFF     == 5000

\* The counter is not limited.
MutantSaturatingInc(n) == n + 1

\* min with the greatest number of a word: saturating_add.
saturatingInc(n) == IF n = WordSize - 1 THEN n ELSE n + 1

\* Doubling without the limit on the shift.
MutantDoubled(attempt) ==
  INITIAL_BACKOFF * (IF attempt < 6 THEN 2 ^ attempt ELSE 64)

\* Four doublings at most.
doubled(attempt) ==
  INITIAL_BACKOFF * CASE attempt = 0 -> 1
                      [] attempt = 1 -> 2
                      [] attempt = 2 -> 4
                      [] attempt = 3 -> 8
                      [] OTHER       -> 16

base(attempt) == IF doubled(attempt) > MAX_BACKOFF THEN MAX_BACKOFF ELSE doubled(attempt)

\* From 80 to 120 percent.
jitter(attempt) == 80 + (((attempt * 37) % WordSize) % 41)

backoff(attempt) == (base(attempt) * jitter(attempt)) \div 100

=============================================================================
