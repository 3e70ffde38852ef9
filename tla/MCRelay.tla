------------------------------- MODULE MCRelay -------------------------------
(* Small instances of Relay. *)
EXTENDS Relay

CONSTANTS p1

\* All requests come from one PC.
OneSender == [r \in Request |-> p1]
===============================================================================
