------------------------ MODULE StreamDecoderProofs ------------------------
(***************************************************************************)
(* For every alphabet, buffer capacity, tag length, pair of check          *)
(* functions and set of chunks: the buffer indices stay in bounds, a call  *)
(* leaves less than one envelope behind, and the decoder with its loop     *)
(* implements module Framing.                                              *)
(***************************************************************************)
EXTENDS StreamDecoder, SequenceTheorems, TLAPS

\* The capacity of the buffer is a number.
LEMMA CapacityIsNat == N \in Nat
  BY StreamAssumption

\* Consuming n of the bytes of s leaves the others, in order.
LEMMA ConsumeProperties ==
    ASSUME NEW s \in Seq(Byte), NEW n \in 0 .. Len(s)
    PROVE  /\ Consume(s, n) \in Seq(Byte)
           /\ Len(Consume(s, n)) = Len(s) - n
           /\ \A i \in 1 .. Len(s) - n : Consume(s, n)[i] = s[n + i]
  BY SubSeqProperties, SMT DEF Consume

\* Consuming nothing changes nothing.
LEMMA ConsumeNothing ==
    ASSUME NEW s \in Seq(Byte)
    PROVE  Consume(s, 0) = s
  <1>1. /\ Consume(s, 0) \in Seq(Byte)
        /\ Len(Consume(s, 0)) = Len(s)
        /\ \A i \in 1 .. Len(s) : Consume(s, 0)[i] = s[i]
    BY ConsumeProperties
  <1> QED
    BY <1>1, SeqEqual

\* Appending nothing changes nothing, and appending keeps the front.
LEMMA AppendedBytes ==
    ASSUME NEW s \in Seq(Byte), NEW t \in Seq(Byte)
    PROVE  /\ s \o <<>> = s
           /\ s \o t \in Seq(Byte)
           /\ Len(s \o t) = Len(s) + Len(t)
           /\ SubSeq(s \o t, 1, Len(s)) = s
  BY SMT

-----------------------------------------------------------------------------
(* Types and bounds *)

\* What is fed to a call is part of the stream, until append has taken it.
InputInStream == input # NoCall => Len(input) <= Len(stream)

IInv == TypeOK /\ InputInStream

\* What a feed looks at is a byte sequence, and so is what is kept.
LEMMA FedIsBytes ==
    ASSUME IInv
    PROVE  /\ Kept \in Seq(Byte)
           /\ input # NoCall => /\ input \in Seq(Byte)
                               /\ Fed \in Seq(Byte)
                               /\ Len(Fed) = Len(Kept) + Len(input)
  BY ConsumeProperties, AppendedBytes DEF IInv, TypeOK, Kept, Fed

\* The envelope at the front of the buffer lies inside it.
LEMMA CompleteIsInside ==
    ASSUME IInv, Complete
    PROVE  /\ Fed \in Seq(Byte)
           /\ total_len(Fed) \in 0 .. Len(Fed)
           /\ PacketIn(Fed) \in Seq(Byte)
  <1>1. Fed \in Seq(Byte) /\ Len(Fed) >= 3
    BY FedIsBytes DEF Complete, Aligned, HasHeader, WIRE_HEADER_LEN
  <1>2. Fed[2] \in Nat /\ TAG_LEN \in Nat
    <2>1. Fed[2] \in Byte
      BY <1>1
    <2>2. Byte \subseteq Nat /\ TAG_LEN \in Nat
      BY EnvelopeAssumption
    <2> QED
      BY <2>1, <2>2
  <1>3. total_len(Fed) \in 0 .. Len(Fed) /\ WIRE_HEADER_LEN + Fed[2] \in 3 .. Len(Fed)
    BY <1>1, <1>2 DEF Complete, total_len, WIRE_HEADER_LEN
  <1>4. PacketIn(Fed) \in Seq(Byte)
    BY <1>1, <1>3, SubSeqProperties DEF PacketIn, WIRE_HEADER_LEN
  <1> QED
    BY <1>1, <1>3, <1>4

\* A round of the loop that keeps s for the next one keeps the bounds.
LEMMA GoesOnKeepsBounds ==
    ASSUME IInv, NEW s \in Seq(Byte), NEW n \in 0 .. Len(s), Len(s) <= N,
           FeedGoesOn(s, n), report' \in Reports, packets' \in Seq(Seq(Byte))
    PROVE  IInv'
  BY DEF IInv, TypeOK, InputInStream, FeedGoesOn

\* Every step keeps the types, and the buffer indices in bounds.
LEMMA BoundsStep == IInv /\ [Next]_vars => IInv'
  <1> SUFFICES ASSUME IInv, [Next]_vars PROVE IInv'
    OBVIOUS
  <1>1. ASSUME NEW chunk \in Chunks, Receive(chunk) PROVE IInv'
    BY <1>1, AppendedBytes, StreamAssumption
       DEF Receive, IInv, TypeOK, InputInStream, decoderVars, Reports
  <1>2. CASE FeedTooLong
    <2>1. Kept \in Seq(Byte) /\ Len(Kept) <= N
      <3>1. bytes \in Seq(Byte) /\ pending_consume \in 0 .. Len(bytes) /\ Len(bytes) <= N
        BY DEF IInv, TypeOK
      <3>2. Kept \in Seq(Byte) /\ Len(Kept) = Len(bytes) - pending_consume
        BY <3>1, ConsumeProperties DEF Kept
      <3> QED
        BY <3>1, <3>2, CapacityIsNat
    <2>2. stream' \in Seq(Byte)
      BY <1>2, FedIsBytes, SubSeqProperties DEF FeedTooLong, IInv, TypeOK, InputInStream
    <2> QED
      BY <1>2, <2>1, <2>2 DEF FeedTooLong, IInv, TypeOK, InputInStream, Reports
  <1>3. CASE FeedNoise
    <2>1. PICK n \in 1 .. Len(Fed) : FeedGoesOn(Consume(Fed, n), 0)
      BY <1>3 DEF FeedNoise
    <2>2. Fed \in Seq(Byte) /\ Len(Fed) <= N
      BY <1>3, FedIsBytes DEF FeedNoise, Fits
    <2>3. Consume(Fed, n) \in Seq(Byte) /\ Len(Consume(Fed, n)) = Len(Fed) - n
      BY <2>2, ConsumeProperties
    <2>4. Len(Consume(Fed, n)) <= N
      BY <2>2, <2>3, CapacityIsNat
    <2> QED
      BY <1>3, <2>1, <2>3, <2>4, GoesOnKeepsBounds DEF FeedNoise, IInv, TypeOK, Reports
  <1>4. CASE FeedResync
    <2>1. Fed \in Seq(Byte) /\ Len(Fed) <= N /\ Len(Fed) >= 3
      BY <1>4, FedIsBytes DEF FeedResync, Aligned, Fits, WIRE_HEADER_LEN
    <2>2. Consume(Fed, 1) \in Seq(Byte) /\ Len(Consume(Fed, 1)) = Len(Fed) - 1
      BY <2>1, ConsumeProperties
    <2>3. Len(Consume(Fed, 1)) <= N
      BY <2>1, <2>2, CapacityIsNat
    <2> QED
      BY <1>4, <2>2, <2>3, GoesOnKeepsBounds DEF FeedResync, IInv, TypeOK, Reports
  <1>5. CASE FeedNeedMore
    BY <1>5, FedIsBytes DEF FeedNeedMore, Fits, IInv, TypeOK, InputInStream
  <1>6. CASE FeedCorrupted
    BY <1>6, CompleteIsInside, GoesOnKeepsBounds
       DEF FeedCorrupted, Complete, Aligned, Fits, IInv, TypeOK, Reports
  <1>7. CASE FeedPacket
    <2>1. packets' \in Seq(Seq(Byte))
      BY <1>7, CompleteIsInside DEF FeedPacket, IInv, TypeOK
    <2> QED
      BY <1>7, <2>1, CompleteIsInside, GoesOnKeepsBounds
         DEF FeedPacket, Complete, Aligned, Fits, Reports
  <1>8. CASE FeedPacketError
    <2>1. packets' \in Seq(Seq(Byte))
      BY <1>8, CompleteIsInside DEF FeedPacketError, IInv, TypeOK
    <2> QED
      BY <1>8, <2>1, CompleteIsInside
         DEF FeedPacketError, Complete, Aligned, Fits, IInv, TypeOK, InputInStream, Reports
  <1>9. CASE UNCHANGED vars
    BY <1>9 DEF vars, decoderVars, IInv, TypeOK, InputInStream
  <1> QED
    BY <1>1, <1>2, <1>3, <1>4, <1>5, <1>6, <1>7, <1>8, <1>9 DEF Next, Feed

\* The slices the decoder takes of its buffer are always within it.
THEOREM BoundsKept == Spec => []TypeOK
  <1>1. Init => IInv
    BY StreamAssumption DEF Init, IInv, TypeOK, InputInStream, Reports
  <1>2. IInv => TypeOK
    BY DEF IInv
  <1> QED
    BY <1>1, <1>2, BoundsStep, PTL DEF Spec
-----------------------------------------------------------------------------
(* What a call leaves behind *)

\* A buffer that waits for more holds less than the longest envelope.
LEMMA WaitingIsShort ==
    ASSUME NEW s \in Seq(Byte), Waits(s), NEW n \in WIRE_HEADER_LEN .. N, IsLongest(n)
    PROVE  Len(s) < n
  <1>1. CASE s = <<>>
    BY <1>1, CapacityIsNat DEF WIRE_HEADER_LEN
  <1>2. CASE Len(s) < WIRE_HEADER_LEN
    BY <1>2, CapacityIsNat DEF WIRE_HEADER_LEN
  <1>3. CASE s # <<>> /\ ~(Len(s) < WIRE_HEADER_LEN)
    <2>1. Len(s) < total_len(s) /\ total_len(s) <= N
      BY <1>3 DEF Waits
    <2>2. s[2] \in Byte
      BY <1>3 DEF WIRE_HEADER_LEN
    <2>3. s[2] \in Nat /\ TAG_LEN \in Nat
      BY <2>2, EnvelopeAssumption
    <2>4. total_len(s) <= n
      BY <2>1, <2>2 DEF IsLongest, total_len
    <2> QED
      BY <2>1, <2>3, <2>4, CapacityIsNat DEF total_len, WIRE_HEADER_LEN
  <1> QED
    BY <1>1, <1>2, <1>3

\* What is kept changes with a step only as the step says.
LEMMA LeftoverStep == IInv /\ LeftoverShort /\ [Next]_vars => LeftoverShort'
  <1> SUFFICES ASSUME IInv, LeftoverShort, [Next]_vars, input' = NoCall, report' # "error",
                      NEW n \in WIRE_HEADER_LEN .. N, IsLongest(n)
               PROVE  Len(Kept') < n
    BY DEF LeftoverShort, IsLongest
  <1>1. ASSUME NEW chunk \in Chunks, Receive(chunk) PROVE FALSE
    BY <1>1, StreamAssumption DEF Receive
  <1>2. CASE FeedNeedMore
    <2>1. Fed \in Seq(Byte)
      BY <1>2, FedIsBytes DEF FeedNeedMore
    <2>2. Kept' = Consume(Fed, 0)
      BY <1>2 DEF FeedNeedMore, Kept
    <2>3. Kept' = Fed
      BY <2>1, <2>2, ConsumeNothing
    <2> QED
      BY <1>2, <2>1, <2>3, WaitingIsShort DEF FeedNeedMore
  <1>3. CASE FeedTooLong \/ FeedPacketError
    BY <1>3 DEF FeedTooLong, FeedPacketError
  <1>4. CASE FeedNoise \/ FeedResync \/ FeedCorrupted \/ FeedPacket
    <2>1. input' = <<>>
      BY <1>4 DEF FeedNoise, FeedResync, FeedCorrupted, FeedPacket, FeedGoesOn
    <2>2. <<>> \in Seq(Byte)
      OBVIOUS
    <2> QED
      BY <2>1, <2>2, StreamAssumption
  <1>5. CASE UNCHANGED vars
    <2>1. Kept' = Kept
      BY <1>5 DEF vars, decoderVars, Kept
    <2> QED
      BY <1>5, <2>1 DEF vars, decoderVars, LeftoverShort
  <1> QED
    BY <1>1, <1>2, <1>3, <1>4, <1>5 DEF Next, Feed

\* A call that ends without an error leaves less than one envelope behind,
\* whatever was fed before.
THEOREM LeftoverBounded == Spec => []LeftoverShort
  <1>1. Init => IInv
    BY CapacityIsNat DEF Init, IInv, TypeOK, InputInStream, Reports
  <1>2. Init => LeftoverShort
    <2> SUFFICES ASSUME Init, NEW n \in WIRE_HEADER_LEN .. N PROVE Len(Kept) < n
      BY DEF LeftoverShort
    <2>1. Kept = Consume(<<>>, 0)
      BY DEF Init, Kept
    <2>2. <<>> \in Seq(Byte) /\ Len(<<>>) = 0
      OBVIOUS
    <2>3. Kept = <<>>
      BY <2>1, <2>2, ConsumeNothing
    <2> QED
      BY <2>3, CapacityIsNat DEF WIRE_HEADER_LEN
  <1> QED
    BY <1>1, <1>2, BoundsStep, LeftoverStep, PTL DEF Spec
-----------------------------------------------------------------------------
(* Refinement *)

Fresh == IF input = NoCall THEN 0 ELSE Len(input)

\* A round that goes on leaves the promise with s less its first n bytes.
LEMMA GoesOnTakes ==
    ASSUME NEW s \in Seq(Byte), NEW n \in 0 .. Len(s), FeedGoesOn(s, n)
    PROVE  Rest' = Consume(s, n) /\ Fresh' = 0
  <1>1. Kept' = Consume(s, n) /\ input' = <<>>
    BY DEF FeedGoesOn, Kept
  <1>2. Consume(s, n) \in Seq(Byte)
    BY ConsumeProperties
  <1>3. Fed' = Consume(s, n)
    BY <1>1, <1>2, AppendedBytes DEF Fed
  <1>4. input' # NoCall
    <2>1. <<>> \in Seq(Byte)
      OBVIOUS
    <2> QED
      BY <1>1, <2>1, StreamAssumption
  <1> QED
    BY <1>1, <1>3, <1>4 DEF Rest, Fresh

\* A call that ends leaves the promise with s less its first n bytes.
LEMMA EndTakes ==
    ASSUME NEW s, NEW n, bytes' = s, pending_consume' = n, input' = NoCall
    PROVE  Rest' = Consume(s, n) /\ Fresh' = 0
  BY DEF Rest, Fresh, Kept

\* Every step of the decoder is a step of the promise, or none.
LEMMA RefinementStep == IInv /\ [Next]_vars => [Promise!Next]_(Promise!vars)
  <1> SUFFICES ASSUME IInv, [Next]_vars PROVE [Promise!Next]_(Promise!vars)
    OBVIOUS
  <1>0. input # NoCall => Rest = Fed /\ Fresh = Len(input)
    BY DEF Rest, Fresh
  <1>1. ASSUME NEW chunk \in Chunks, Receive(chunk) PROVE Promise!Arrive
    <2>1. chunk \in Seq(Byte) /\ input' = chunk /\ input' # NoCall
      BY <1>1, StreamAssumption DEF Receive
    <2>2. Rest = Kept /\ Kept' = Kept /\ Rest' = Kept \o chunk /\ Fresh' = Len(chunk)
      BY <1>1, <2>1 DEF Receive, Rest, Fresh, Kept, Fed, decoderVars
    <2>3. Kept \in Seq(Byte)
      BY FedIsBytes
    <2>4. /\ Kept \o chunk \in Seq(Byte)
          /\ Len(Kept \o chunk) = Len(Kept) + Len(chunk)
          /\ SubSeq(Kept \o chunk, 1, Len(Kept)) = Kept
      BY <2>1, <2>3, AppendedBytes
    <2>5. Len(Kept) \in Nat /\ Len(chunk) \in Nat
      BY <2>1, <2>3
    <2>6. Len(Rest') >= Len(Rest) /\ Fresh' = Len(Rest') - Len(Rest)
      BY <2>2, <2>4, <2>5
    <2>7. packets' = packets
      BY <1>1 DEF Receive
    <2> QED
      BY <2>2, <2>4, <2>6, <2>7 DEF Promise!Arrive, Fresh
  <1>2. CASE FeedTooLong
    <2>1. input # NoCall
      BY <1>2 DEF FeedTooLong
    <2>2. Kept \in Seq(Byte) /\ input \in Seq(Byte) /\ Fed = Kept \o input
      BY <2>1, FedIsBytes DEF Fed
    <2>3. Rest' = Kept /\ Fresh' = 0
      BY <1>2, <2>2, EndTakes, ConsumeNothing DEF FeedTooLong
    <2>4. Len(Rest) - Fresh = Len(Kept)
      BY <1>0, <2>1, <2>2, AppendedBytes
    <2>5. Rest' = SubSeq(Rest, 1, Len(Rest) - Fresh)
      BY <1>0, <2>1, <2>2, <2>3, <2>4, AppendedBytes
    <2> QED
      BY <1>2, <2>3, <2>5 DEF FeedTooLong, Promise!Next, Promise!Refuse, Fresh
  <1>3. CASE FeedNoise
    <2>1. PICK n \in 1 .. Len(Fed) : find_magic(Fed, n) /\ FeedGoesOn(Consume(Fed, n), 0)
      BY <1>3 DEF FeedNoise
    <2>2. input # NoCall /\ Fed \in Seq(Byte)
      BY <1>3, FedIsBytes DEF FeedNoise
    <2>3. Consume(Fed, n) \in Seq(Byte)
      BY <2>2, ConsumeProperties
    <2>4. Rest' = Consume(Consume(Fed, n), 0) /\ Fresh' = 0
      BY <2>1, <2>3, GoesOnTakes
    <2>5. Rest' = Consume(Rest, n)
      BY <1>0, <2>2, <2>3, <2>4, ConsumeNothing
    <2>6. n \in 1 .. Len(Rest) /\ \A i \in 1 .. n : Rest[i] # MAGIC
      BY <1>0, <2>1, <2>2 DEF find_magic
    <2> QED
      BY <1>3, <2>4, <2>5, <2>6
         DEF FeedNoise, Promise!Next, Promise!SkipNoise, Promise!Take, Promise!Consume, Consume, Fresh
  <1>4. CASE FeedResync
    <2>1. input # NoCall /\ Fed \in Seq(Byte) /\ Len(Fed) >= 3
      BY <1>4, FedIsBytes DEF FeedResync, Aligned, WIRE_HEADER_LEN
    <2>2. Consume(Fed, 1) \in Seq(Byte)
      BY <2>1, ConsumeProperties
    <2>3. Rest' = Consume(Consume(Fed, 1), 0) /\ Fresh' = 0
      BY <1>4, <2>2, GoesOnTakes DEF FeedResync
    <2>4. Rest' = Consume(Rest, 1)
      BY <1>0, <2>1, <2>2, <2>3, ConsumeNothing
    <2> QED
      BY <1>0, <1>4, <2>1, <2>3, <2>4
         DEF FeedResync, Aligned, Promise!Next, Promise!SkipMagic, Promise!Take, Fresh,
             Promise!Consume, Consume, Promise!HasHeader, HasHeader,
             Promise!total_len, total_len, Promise!WIRE_HEADER_LEN, WIRE_HEADER_LEN
  <1>5. CASE FeedNeedMore
    <2>1. input # NoCall /\ Fed \in Seq(Byte)
      BY <1>5, FedIsBytes DEF FeedNeedMore
    <2>2. Rest' = Rest /\ Fresh' = 0
      BY <1>0, <1>5, <2>1, EndTakes, ConsumeNothing DEF FeedNeedMore
    <2> QED
      BY <1>5, <2>2 DEF FeedNeedMore, Promise!Next, Promise!Wait, Fresh
  <1>6. ASSUME Complete PROVE Rest = Fed /\ Promise!Candidate
    <2>1. Rest = Fed /\ HasHeader(Fed) /\ Len(Fed) <= N
      BY <1>0, <1>6 DEF Complete, Aligned, Fits
    <2>2. total_len(Fed) \in Nat /\ Len(Fed) \in Nat /\ total_len(Fed) <= Len(Fed)
      BY <1>6, CompleteIsInside
    <2>3. total_len(Fed) <= N
      BY <2>1, <2>2, CapacityIsNat
    <2> QED
      BY <2>1, <2>2, <2>3
         DEF Promise!Candidate, Promise!HasHeader, HasHeader,
             Promise!total_len, total_len, Promise!WIRE_HEADER_LEN, WIRE_HEADER_LEN
  <1>7. ASSUME Complete, FeedGoesOn(Fed, total_len(Fed))
        PROVE  Promise!Take(Promise!total_len(Rest))
    <2>1. Rest' = Consume(Fed, total_len(Fed)) /\ Fresh' = 0
      BY <1>7, CompleteIsInside, GoesOnTakes
    <2> QED
      BY <1>6, <1>7, <2>1
         DEF Promise!Take, Fresh, Promise!Consume, Consume,
             Promise!total_len, total_len, Promise!WIRE_HEADER_LEN, WIRE_HEADER_LEN
  <1>8. Promise!verify(Rest) = verify(Rest) /\ Promise!PacketIn(Rest) = PacketIn(Rest)
    BY DEF Promise!verify, verify, Promise!total_len, total_len, Promise!PacketIn, PacketIn,
           Promise!WIRE_HEADER_LEN, WIRE_HEADER_LEN
  <1>9. CASE FeedCorrupted
    BY <1>6, <1>7, <1>8, <1>9 DEF FeedCorrupted, Promise!Next, Promise!SkipCorrupted
  <1>10. CASE FeedPacket
    BY <1>6, <1>7, <1>8, <1>10 DEF FeedPacket, Promise!Next, Promise!Recover
  <1>11. CASE FeedPacketError
    <2>1. Rest' = Consume(Fed, total_len(Fed)) /\ Fresh' = 0
      BY <1>11, EndTakes DEF FeedPacketError
    <2>2. Promise!Take(Promise!total_len(Rest))
      BY <1>6, <1>11, <2>1
         DEF FeedPacketError, Promise!Take, Fresh, Promise!Consume, Consume,
             Promise!total_len, total_len, Promise!WIRE_HEADER_LEN, WIRE_HEADER_LEN
    <2> QED
      BY <1>6, <1>8, <1>11, <2>2 DEF FeedPacketError, Promise!Next, Promise!Recover
  <1>12. CASE UNCHANGED vars
    BY <1>12 DEF vars, decoderVars, Promise!vars, Rest, Kept, Fed
  <1> QED
    BY <1>1, <1>2, <1>3, <1>4, <1>5, <1>9, <1>10, <1>11, <1>12 DEF Next, Feed, Promise!Next

\* The decoder and its loop implement the wire layer's promise: for every
\* capacity, every cut of the stream into chunks and every check function.
THEOREM DecoderImplementsFraming == Spec => ImplementsFraming
  <1>1. Init => IInv
    BY CapacityIsNat DEF Init, IInv, TypeOK, InputInStream, Reports
  <1>2. Init => Promise!Init
    <2>1. <<>> \in Seq(Byte)
      OBVIOUS
    <2>2. ASSUME Init PROVE Rest = <<>> /\ Fresh = 0
      BY <2>1, <2>2, ConsumeNothing DEF Init, Rest, Kept, Fresh
    <2> QED
      BY <2>2 DEF Init, Promise!Init, Fresh
  <1> QED
    BY <1>1, <1>2, BoundsStep, RefinementStep, PTL DEF Spec, ImplementsFraming, Promise!Spec
=============================================================================
