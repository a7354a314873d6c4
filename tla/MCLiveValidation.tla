-------------------------- MODULE MCLiveValidation --------------------------
(* Instances of LiveValidation for TLC. *)
EXTENDS LiveValidation

\* A fade of between four and five steps; 250 ms are between seven and eight of 34 ms.
MCReach == FadeTime * FadeTime
MCFull  == 3 * MCReach

\* Levels at both ends of the range and next to the point where bounded_target
\* turns; any may be out of range.
MCOriginals ==
  {[i \in Items |-> CASE i = "channel volume" -> v
                      [] i = "channel mix volume" -> w
                      [] i = "mix volume" -> m
                      [] OTHER -> 0] :
     v \in {MCReach - 1, MCFull, MCFull + 1}, w \in {0, MCReach},
     m \in {MCReach, MCFull + 1, MCFull + MCReach + 1}}
=============================================================================
