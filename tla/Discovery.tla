----------------------------- MODULE Discovery -----------------------------
(***************************************************************************)
(* How the client finds Wave Link (src/src/discovery.rs): a file with the  *)
(* port it listens on, read again before every connection attempt.         *)
(*                                                                         *)
(* Wave Link, which is external, takes another port whenever it starts and *)
(* writes the file some time later.  Until then the file is absent or      *)
(* half written, has no usable port, or still has the one before.          *)
(***************************************************************************)
EXTENDS Integers

CONSTANT MaxPort   \* bound: Wave Link starts at most so often, on ports 1, 2, ...

ASSUME PortAssumption == MaxPort \in Nat \ {0}

VARIABLES
  listening,   \* the port Wave Link listens on, 0 before it starts
  metadata,    \* what ws-info.json says: a port, which may be 0, or Unreadable
  endpoint     \* the port that was discovered last, 0 if none

discoveryVars == <<listening, metadata, endpoint>>

Unreadable == -1

DiscoveryTypeOK ==
  /\ listening \in 0..MaxPort /\ endpoint \in 0..MaxPort
  /\ metadata \in 0..MaxPort \union {Unreadable}

DiscoveryInit == listening = 0 /\ metadata \in {0, Unreadable} /\ endpoint = 0

------------------------------------------------------------------------------
(* Wave Link.                                                              *)

Start ==
  /\ listening < MaxPort
  /\ listening' = listening + 1
  /\ UNCHANGED <<metadata, endpoint>>

\* The file is opened to be written again.
Truncate ==
  /\ listening # 0 /\ metadata \notin {listening, Unreadable}
  /\ metadata' = Unreadable
  /\ UNCHANGED <<listening, endpoint>>

Advertise ==
  /\ listening # 0 /\ metadata # listening
  /\ metadata' = listening
  /\ UNCHANGED <<listening, endpoint>>

------------------------------------------------------------------------------
(* The client.                                                             *)

\* Endpoint::new
ValidPort(p) == p \in 1..MaxPort

\* The endpoint that was discovered once is used for ever.
MutantDiscover ==
  /\ endpoint' = IF ValidPort(endpoint) THEN endpoint ELSE metadata
  /\ ValidPort(endpoint')
  /\ UNCHANGED <<listening, metadata>>

discover ==
  /\ ValidPort(metadata)
  /\ endpoint' = metadata
  /\ UNCHANGED <<listening, metadata>>

=============================================================================
