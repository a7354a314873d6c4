------------------------------ MODULE MCEvents ------------------------------
(* Instances of Events for TLC; the configurations give the constants. *)
EXTENDS Events
==============================================================================
