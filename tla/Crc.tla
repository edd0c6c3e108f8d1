-------------------------------- MODULE Crc --------------------------------
(***************************************************************************)
(* The CRC backends (integrity/crc.rs).  A run reads a message byte by     *)
(* byte through both routines, crc_msb (Crc8, Crc16, Crc64) and crc_lsb    *)
(* (Crc32), for a width and a polynomial given by the constants.  A u64    *)
(* register is its bits, bit 0 the least significant, and has REGISTER of  *)
(* them: what a shift moves above the width stays there until it is masked *)
(* off, as in the code, and what it moves above REGISTER is lost.          *)
(***************************************************************************)
EXTENDS Naturals, Sequences, FiniteSets

CONSTANTS
    BITS,             \* bits of a byte: 8
    WIDTH,            \* width of the CRC, a multiple of BITS
    REGISTER,         \* bits of the register: 64
    Poly,             \* the exponents of the polynomial below WIDTH
    Initial,          \* the bits set in the initial value
    Bytes,            \* the bytes a message is made of
    MAX_LEN,          \* bound: length of a message
    Patterns          \* bursts: the bits flipped after the first

Bit == {0, 1}
Byte == [0 .. BITS - 1 -> Bit]

ASSUME CrcAssumption ==
    /\ {BITS, WIDTH, REGISTER, MAX_LEN} \subseteq Nat
    /\ 0 < BITS /\ BITS <= WIDTH /\ WIDTH <= REGISTER /\ WIDTH % BITS = 0
    /\ Poly \subseteq 0 .. WIDTH - 1 /\ 0 \in Poly
    /\ Initial \subseteq 0 .. WIDTH - 1
    /\ \A b \in Bytes : b \in Byte
    /\ \A S \in Patterns : S \subseteq 1 .. WIDTH - 1

VARIABLES
    message,          \* the bytes read so far
    msb,              \* the checksum of crc_msb
    lsb               \* the checksum of crc_lsb

vars == <<message, msb, lsb>>

-----------------------------------------------------------------------------
(* Registers *)

\* The register whose set bits are S.
Set(S) == [i \in 0 .. REGISTER - 1 |-> IF i \in S THEN 1 ELSE 0]

Xor(a, b) == [i \in DOMAIN a |-> (a[i] + b[i]) % 2]

ShiftLeft(r) == [i \in 0 .. REGISTER - 1 |-> IF i = 0 THEN 0 ELSE r[i - 1]]
ShiftRight(r) == [i \in 0 .. REGISTER - 1 |-> IF i = REGISTER - 1 THEN 0 ELSE r[i + 1]]

\* crc_mask
Masked(r) == [i \in 0 .. REGISTER - 1 |-> IF i < WIDTH THEN r[i] ELSE 0]

\* A byte as a register, shifted left by n.
ByteAt(b, n) ==
    [i \in 0 .. REGISTER - 1 |-> IF i - n \in 0 .. BITS - 1 THEN b[i - n] ELSE 0]

-----------------------------------------------------------------------------
(* The two loops over the bits of a byte *)

\* The polynomial constant of crc_msb, and its reversal for crc_lsb.
PolyMsb == Set(Poly)
PolyLsb == Set({WIDTH - 1 - e : e \in Poly})

MsbBit(r) == IF r[WIDTH - 1] # 0 THEN Xor(ShiftLeft(r), PolyMsb) ELSE ShiftLeft(r)
LsbBit(r) == IF r[0] # 0 THEN Xor(ShiftRight(r), PolyLsb) ELSE ShiftRight(r)

\* Faulty variant: the loop stops one bit early.
crc_bits_msb_short(r) ==
    LET after[n \in 0 .. BITS] == IF n = 0 THEN r ELSE MsbBit(after[n - 1])
    IN  Masked(after[BITS - 1])

crc_bits_msb(r) ==
    LET after[n \in 0 .. BITS] == IF n = 0 THEN r ELSE MsbBit(after[n - 1])
    IN  Masked(after[BITS])

\* Faulty variant: the top bit is tested instead of the lowest.
crc_bits_lsb_top(r) ==
    LET step(s) == IF s[WIDTH - 1] # 0 THEN Xor(ShiftRight(s), PolyLsb) ELSE ShiftRight(s)
        after[n \in 0 .. BITS] == IF n = 0 THEN r ELSE step(after[n - 1])
    IN  Masked(after[BITS])

crc_bits_lsb(r) ==
    LET after[n \in 0 .. BITS] == IF n = 0 THEN r ELSE LsbBit(after[n - 1])
    IN  Masked(after[BITS])

-----------------------------------------------------------------------------
(* The loops over the bytes of a message *)

crc_msb(r, b) == crc_bits_msb(Xor(r, ByteAt(b, WIDTH - BITS)))
crc_lsb(r, b) == crc_bits_lsb(Xor(r, ByteAt(b, 0)))

Start == Masked(Set(Initial))

Init ==
    /\ message = <<>>
    /\ msb = Start
    /\ lsb = Start

Read(b) ==
    /\ Len(message) < MAX_LEN
    /\ message' = Append(message, b)
    /\ msb' = crc_msb(msb, b)
    /\ lsb' = crc_lsb(lsb, b)

Next == \E b \in Bytes : Read(b)

Spec == Init /\ [][Next]_vars

\* calculate, by crc_msb, of a message that need not be the one being read.
Calculate(s) ==
    LET after[n \in 0 .. Len(s)] == IF n = 0 THEN Start ELSE crc_msb(after[n - 1], s[n])
    IN  Masked(after[Len(s)])

-----------------------------------------------------------------------------
(* Tags *)

TAG_LEN == WIDTH \div BITS

\* seal_value: least significant byte first.
seal(r) == [k \in 1 .. TAG_LEN |-> [i \in 0 .. BITS - 1 |-> r[(k - 1) * BITS + i]]]

\* Faulty variant: the most significant byte first.
read_be(tag) ==
    [i \in 0 .. REGISTER - 1 |->
        IF i < WIDTH THEN tag[TAG_LEN - i \div BITS][i % BITS] ELSE 0]

read_le(tag) ==
    [i \in 0 .. REGISTER - 1 |-> IF i < WIDTH THEN tag[i \div BITS + 1][i % BITS] ELSE 0]

\* verify_value: a tag that is too short does not match.
verify(r, tag) == Len(tag) >= TAG_LEN /\ r = read_le(tag)

-----------------------------------------------------------------------------
(* Properties *)

\* x^n modulo the polynomial x^WIDTH + Poly.
Power[n \in Nat] ==
    IF n < WIDTH THEN {n}
    ELSE LET p == {e + 1 : e \in Power[n - 1]}
         IN  IF WIDTH \in p THEN ((p \ {WIDTH}) \ Poly) \cup (Poly \ p) ELSE p

\* The coefficients of a polynomial, given by its exponents, modulo Poly.
Remainder(S) ==
    LET powers == [n \in S |-> Power[n]]
    IN  Set({e \in 0 .. WIDTH - 1 : Cardinality({n \in S : e \in powers[n]}) % 2 = 1})

\* The exponents of a message of which bit order[i] of a byte is the i-th to be
\* sent, followed by WIDTH zeros.
Exponents(s, order) ==
    {WIDTH + (Len(s) - k) * BITS + (BITS - i) :
        <<k, i>> \in {c \in (1 .. Len(s)) \X (1 .. BITS) : s[c[1]][order[c[2]]] = 1}}

\* The initial value is added to the first WIDTH bits of the message.
Preset(s) == {e + Len(s) * BITS : e \in Initial}

Added(S, T) == (S \ T) \cup (T \ S)

Descending == [i \in 1 .. BITS |-> BITS - i]
Ascending == [i \in 1 .. BITS |-> i - 1]

\* crc_msb computes what a CRC is defined to be: the remainder of the message,
\* as a polynomial whose first coefficient is the top bit of its first byte, by
\* the generator polynomial.  The loop never sees that polynomial.
MsbIsRemainder == msb = Remainder(Added(Exponents(message, Descending), Preset(message)))

Reversed(r) == [i \in 0 .. REGISTER - 1 |-> IF i < WIDTH THEN r[WIDTH - 1 - i] ELSE 0]

\* crc_lsb computes the remainder of the message with the bits of every byte
\* taken from the lowest, bit reversed: the routine that shifts right and the one
\* that shifts left are the same code on mirrored bits.
LsbIsRemainder ==
    LET preset == {WIDTH - 1 - e + Len(message) * BITS : e \in Initial}
    IN  lsb = Reversed(Remainder(Added(Exponents(message, Ascending), preset)))

\* The message with the bits at the positions S, counted from its end, flipped.
Flip(s, S) ==
    [k \in 1 .. Len(s) |->
        [i \in 0 .. BITS - 1 |->
            IF (Len(s) - k) * BITS + i \in S THEN 1 - s[k][i] ELSE s[k][i]]]

\* Bursts no longer than the CRC, within the message.
Bursts(s) ==
    {S \in {{n + e : e \in P \cup {0}} : n \in 0 .. Len(s) * BITS - 1, P \in Patterns} :
        \A e \in S : e < Len(s) * BITS}

\* A tag that seal wrote is accepted for its message, and refused for every
\* message that differs from it in one burst no longer than the CRC; and the
\* message is refused with every tag in which a single bit is flipped.
DamageDetected ==
    LET tag == seal(msb)
    IN  /\ verify(Calculate(message), tag)
        /\ \A S \in Bursts(message) :
               ~verify(Calculate(Flip(message, S)), tag)
        /\ \A k \in 1 .. TAG_LEN, i \in 0 .. BITS - 1 :
               ~verify(msb, [tag EXCEPT ![k][i] = 1 - @])
=============================================================================
