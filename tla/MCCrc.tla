------------------------------- MODULE MCCrc -------------------------------
(* The polynomial and the bytes of the CRC run. *)
EXTENDS Crc

\* x^16 + x^12 + x^5 + 1
Poly16 == {0, 5, 12}

\* The bytes with at most one bit set, and the byte of ones.
SomeBytes == {b \in Byte : Cardinality({i \in DOMAIN b : b[i] = 1}) \in {0, 1, 8}}

SomePatterns == {{}, 1 .. WIDTH - 1} \cup {{e} : e \in 1 .. WIDTH - 1}
=============================================================================
