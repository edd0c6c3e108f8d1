----------------------------- MODULE MCSession -----------------------------
(* A client and a passive endpoint, for TLC. *)
EXTENDS Session

CONSTANTS client, passive

MCSeed == [p \in Peers |-> IF p = client THEN 1 ELSE 2]
MCBodies == 0 .. MAX_SENDS
=============================================================================
