------------------------------- MODULE Header -------------------------------
(***************************************************************************)
(* ByteOrder and PvaHeader: the 8 bytes in front of every PVA message.     *)
(* Bytes are numbers below 256; an integer has at most four of them.       *)
(***************************************************************************)
EXTENDS Integers, Sequences

PVA_MAGIC == 202
HEADER_SIZE == 8

Weights == << 1, 256, 256 * 256, 256 * 256 * 256 >>

\* i32.
I32 == LET top == 127 * Weights[4] + (Weights[4] - 1) IN (-top - 1)..top

\* The bytes of an integer, least significant first, and the integer.
LittleEndian(v, width) == [i \in 1..width |-> (v \div Weights[i]) % 256]

Number(bytes, signed) ==
  LET n == Len(bytes)
      At(i) == IF i > n THEN 0
               ELSE IF i = n /\ signed /\ bytes[i] >= 128 THEN bytes[i] - 256 ELSE bytes[i] IN
  At(1) + Weights[2] * At(2) + Weights[3] * At(3) + Weights[4] * At(4)

\* Bytes that are least significant first, put in the given order, and back.
InOrder(bytes, order) ==
  IF order = "BE" THEN [i \in 1..Len(bytes) |-> bytes[Len(bytes) + 1 - i]] ELSE bytes

write_int(v, width, order) == InOrder(LittleEndian(v, width), order)

----------------------------------------------------------------------------
(* PvaHeader: [version, flags, command, payload_size].                     *)

Bits(f, low, width) == (f \div 2^low) % 2^width

is_control(h) == Bits(h.flags, 0, 1) = 1
byte_order(flags) == IF Bits(flags, 7, 1) = 1 THEN "BE" ELSE "LE"

Segmentations == << "None", "First", "Last", "Middle" >>
segmentation(h) == Segmentations[Bits(h.flags, 4, 2) + 1]

with_segmentation(h, seg) ==
  LET i == CHOOSE i \in 1..4 : Segmentations[i] = seg IN
  [h EXCEPT !.flags = @ + 16 * (i - 1 - Bits(@, 4, 2))]

EncodeHeader(h) ==
  << PVA_MAGIC, h.version, h.flags, h.command >>
    \o write_int(h.payload_size, 4, byte_order(h.flags))

\* decode: only the magic is looked at.
DecodeHeader(buf) ==
  [version |-> buf[2], flags |-> buf[3], command |-> buf[4],
   payload_size |-> Number(InOrder(SubSeq(buf, 5, 8), byte_order(buf[3])), TRUE)]
=============================================================================
