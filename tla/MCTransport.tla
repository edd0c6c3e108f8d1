---------------------------- MODULE MCTransport ----------------------------
(* Two engines, a and b, for TLC. *)
EXTENDS Transport

CONSTANTS a, b

MCSeed == [p \in Peers |-> IF p = a THEN 1 ELSE 2]
MCBodies == 1 .. MAX_SENDS
=============================================================================
