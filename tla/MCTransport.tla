----------------------------- MODULE MCTransport -----------------------------
(* Instances of Transport for TLC; the configurations give the constants. *)
EXTENDS Transport
==============================================================================
