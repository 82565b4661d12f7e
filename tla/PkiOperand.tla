----------------------------- MODULE PkiOperand -----------------------------
(* Operands of the software big-number library that the PKA programs carry   *)
(* (src/pka/pka_helper.c): a buffer of bytes in one of two byte orders, and  *)
(* the helpers that measure, trim, fill and draw them.                       *)
(*                                                                           *)
(* An operand is the bytes that actual_len covers, in buffer order, and its  *)
(* big_endian flag. What lies in the buffer past actual_len is left out: no  *)
(* helper reads it before it is written, with the two exceptions named at    *)
(* adjust_actual_len and dup_operand. A byte has Bits bits (8 in the code),  *)
(* so that all carries, borrows and length changes happen on small numbers.  *)
EXTENDS Integers, Sequences, SequencesExt, FiniteSetsExt

CONSTANT Bits   \* bits of a byte

ASSUME BitsAssumption == Bits \in Nat /\ Bits >= 2

Base == 2^Bits
Byte == 0..(Base - 1)

\* The bytes of an operand, most significant first.
MsFirst(op) == IF op.big_endian THEN op.buf ELSE Reverse(op.buf)

\* The number that an operand stands for; what the helpers are checked against.
ValueOf[s \in Seq(Byte)] ==
  IF s = <<>> THEN 0 ELSE Base * ValueOf[Front(s)] + Last(s)
Value(op) == ValueOf[MsFirst(op)]

\* Number of bytes without the leading zeros; 0 for the number zero.
operand_byte_len(op) ==
  LET nonzero == {i \in DOMAIN op.buf : MsFirst(op)[i] # 0}
  IN  IF nonzero = {} THEN 0 ELSE Len(op.buf) + 1 - Min(nonzero)

bits_in_byte(b) ==
  IF b = 0 THEN 0 ELSE Max({n \in 1..Bits : (b \div 2^(n - 1)) % 2 = 1})

operand_bit_len(op) ==
  LET n == operand_byte_len(op)
  IN  IF n = 0 THEN 0
      ELSE Bits * (n - 1) + bits_in_byte(MsFirst(op)[Len(op.buf) - n + 1])

\* Index (from 0) of the most significant nonzero byte of a nonzero operand.
get_msb_idx(op) ==
  IF op.big_endian THEN Len(op.buf) - operand_byte_len(op)
                   ELSE operand_byte_len(op) - 1

\* An operand of one significant byte is taken for zero when the FIRST byte of
\* the buffer is zero, also for a big-endian one with leading zeros.
is_zero(op) ==
  LET n == operand_byte_len(op)
  IN  n = 0 \/ (n = 1 /\ op.buf[1] = 0)

is_one(op) == operand_byte_len(op) = 1 /\ op.buf[1] = 1

count_leading_zeros(op) ==
  IF is_zero(op) THEN Len(op.buf) - 1 ELSE Len(op.buf) - operand_byte_len(op)

\* A copy of the bytes without n leading zeros.
Drop(op, n) ==
  [op EXCEPT !.buf = IF op.big_endian THEN SubSeq(@, n + 1, Len(@))
                                      ELSE SubSeq(@, 1, Len(@) - n)]

\* For an operand of length 0 the code exposes the first byte of the buffer,
\* which is zero in every buffer that init_operand prepared.
adjust_actual_len(op) ==
  CASE is_zero(op) /\ op.buf = <<>> -> [op EXCEPT !.buf = <<0>>]
    [] is_zero(op) /\ op.buf # <<>> -> [op EXCEPT !.buf = <<Head(@)>>]
    [] OTHER                        -> Drop(op, count_leading_zeros(op))

\* The length of the copy of an empty operand is 1 as well.
dup_operand(op) ==
  IF op.buf = <<>> THEN [op EXCEPT !.buf = <<0>>]
                   ELSE Drop(op, count_leading_zeros(op))

-----------------------------------------------------------------------------
(* Filling operands.                                                         *)

init_operand(be) == [buf |-> <<>>, big_endian |-> be]

byte_swap_copy(bytes) == Reverse(bytes)

\* Callers give the bytes most significant first.
operand_byte_copy(bytes, be) ==
  [buf |-> IF be THEN bytes ELSE byte_swap_copy(bytes), big_endian |-> be]

make_operand(bytes, be) == operand_byte_copy(bytes, be)

\* The number of bytes that set_operand uses is 0 to 4.
set_operand(n, be) ==
  LET len == IF n = 0 THEN 0
             ELSE Min({4} \cup {l \in 1..3 : n < Base^l})
      low == [i \in 1..len |-> (n \div Base^(i - 1)) % Base]
  IN  [buf |-> IF be THEN Reverse(low) ELSE low, big_endian |-> be]

operand_to_uint32(op) ==
  IF operand_byte_len(op) > 4 THEN 0
  ELSE ValueOf[SubSeq(MsFirst(op), Len(op.buf) - operand_byte_len(op) + 1,
                      Len(op.buf))]

\* The bit of a little-endian operand; bit_idx counts from 0.
get_bit(op, bit_idx) ==
  (op.buf[bit_idx \div Bits + 1] \div 2^(bit_idx % Bits)) % 2

\* Variant: the highest bit is set but those above it are not cut off.
RandOperandUncut(bytes, bit_len, make_odd, be) ==
  LET byte_len == (bit_len + Bits - 1) \div Bits
      top      == bit_len - Bits * (byte_len - 1)
      msb_idx  == IF be THEN 1 ELSE byte_len
      set      == [bytes EXCEPT ![msb_idx] =
                     IF (@ \div 2^(top - 1)) % 2 = 1 THEN @ ELSE @ + 2^(top - 1)]
      op       == [buf |-> set, big_endian |-> be]
  IN  [op |-> op, ok |-> operand_bit_len(op) = bit_len]

\* The operand drawn from the random bytes: the top byte is cut to the wanted
\* number of bits with its highest bit set, and the number made odd on demand.
\* ok is the assertion at its end.
rand_operand(bytes, bit_len, make_odd, be) ==
  LET byte_len == (bit_len + Bits - 1) \div Bits
      top      == bit_len - Bits * (byte_len - 1)
      msb_idx  == IF be THEN 1 ELSE byte_len
      lsb_idx  == IF be THEN byte_len ELSE 1
      cut      == [bytes EXCEPT ![msb_idx] = 2^(top - 1) + (@ % 2^(top - 1))]
      odd      == IF make_odd
                  THEN [cut EXCEPT ![lsb_idx] = @ + 1 - (@ % 2)] ELSE cut
      op       == [buf |-> odd, big_endian |-> be]
  IN  [op |-> op, ok |-> operand_bit_len(op) = bit_len]
=============================================================================
