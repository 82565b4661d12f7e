--------------------------- MODULE PkiArithmetic ----------------------------
(* The software arithmetic of pka_helper.c on operands: comparison, sums,    *)
(* products, long division, modular operations, the modular inverse by the   *)
(* extended Euclidean algorithm, and the draw of random numbers in a range.  *)
(*                                                                           *)
(* The code indexes the bytes from the least significant one, whatever the   *)
(* big_endian flag says. A function returns its code rc and what it leaves   *)
(* in the result operand, which an early return does not touch (old). The    *)
(* assertions met on the way are collected in ok.                            *)
EXTENDS PkiOperand

LEFT_IS_SMALLER  == "left"
RIGHT_IS_SMALLER == "right"
COMPARE_EQUAL    == "equal"

RC_NO_ERROR           == "no_error"
RC_CALCULATION_ERR    == "calculation_err"
RC_INVALID_ARGUMENT   == "invalid_argument"
RC_NO_MODULAR_INVERSE == "no_modular_inverse"

\* The assertion that opens most functions. A CASE that has it as its only arm
\* has no value where the assertion fails.
SameOrder(a, b) == a.big_endian = b.big_endian

ByteAt(s, i) == IF i \in DOMAIN s THEN s[i] ELSE 0

\* The bytes up to the last nonzero one, at least one byte.
TrimHigh(s) == SubSeq(s, 1, Max({1} \cup {i \in DOMAIN s : s[i] # 0}))

\* Comparison of two byte strings of the same length from the high end.
CompareBytes(l, r) ==
  LET differ == {i \in DOMAIN l : l[i] # r[i]}
  IN  CASE differ = {}                         -> COMPARE_EQUAL
        [] differ # {} /\ l[Max(differ)] < r[Max(differ)] -> LEFT_IS_SMALLER
        [] OTHER                               -> RIGHT_IS_SMALLER

\* The lengths decide first.
CompareTrimmed(l, r) ==
  CASE Len(l) < Len(r) -> LEFT_IS_SMALLER
    [] Len(r) < Len(l) -> RIGHT_IS_SMALLER
    [] OTHER           -> CompareBytes(l, r)

pki_compare(left, right) ==
  IF is_zero(left)
  THEN IF is_zero(right) THEN COMPARE_EQUAL ELSE LEFT_IS_SMALLER
  ELSE IF is_zero(right) THEN RIGHT_IS_SMALLER
                         ELSE CompareTrimmed(TrimHigh(left.buf), TrimHigh(right.buf))

pki_add(value, addend) ==
  LET n == Max({Len(value.buf), Len(addend.buf)})
      carry[i \in 0..n] ==
        IF i = 0 THEN 0
        ELSE (ByteAt(value.buf, i) + ByteAt(addend.buf, i) + carry[i - 1]) \div Base
      sum == [i \in 1..(n + 1) |->
                IF i > n THEN carry[n]
                ELSE (ByteAt(value.buf, i) + ByteAt(addend.buf, i) + carry[i - 1]) % Base]
  IN  [value EXCEPT !.buf = TrimHigh(sum)]

pki_subtract(value, subtrahend, old) ==
  LET n == Len(value.buf)
      borrow[i \in 0..n] ==
        IF i = 0 THEN 0
        ELSE IF ByteAt(subtrahend.buf, i) + borrow[i - 1] <= value.buf[i]
             THEN 0 ELSE 1
      diff == [i \in 1..n |-> value.buf[i] + Base * borrow[i]
                                - ByteAt(subtrahend.buf, i) - borrow[i - 1]]
  IN  IF pki_compare(value, subtrahend) = LEFT_IS_SMALLER
      THEN [rc |-> RC_CALCULATION_ERR, op |-> old]
      ELSE [rc |-> RC_NO_ERROR,
            op |-> adjust_actual_len([value EXCEPT !.buf = diff])]

\* One pass of the outer loop: add value_byte times the multiplier at val_idx.
AddRow(res, val_idx, value_byte, mul) ==
  LET n == Len(mul)
      cell(i, c) == res[val_idx + i - 1] + value_byte * mul[i] + c
      carry[i \in 0..n] == IF i = 0 THEN 0 ELSE cell(i, carry[i - 1]) \div Base
  IN  [j \in DOMAIN res |->
         IF j \in val_idx..(val_idx + n - 1)
         THEN cell(j - val_idx + 1, carry[j - val_idx]) % Base
         ELSE IF j = val_idx + n THEN carry[n] ELSE res[j]]

pki_multiply(value, multiplier) ==
  LET n == Len(value.buf)
      m == Len(multiplier.buf)
      rows[i \in 0..n] ==
        IF i = 0 THEN [j \in 1..(n + m) |-> 0]
        ELSE AddRow(rows[i - 1], i, value.buf[i], multiplier.buf)
  IN  adjust_actual_len([value EXCEPT !.buf = rows[n]])

-----------------------------------------------------------------------------
(* Long division.                                                            *)

\* The two most significant bytes; 0 stands in for a missing second one.
get_two_ms_bytes(op) ==
  LET i == get_msb_idx(op) + 1
  IN  op.buf[i] * Base + (IF operand_byte_len(op) <= 1 THEN 0 ELSE op.buf[i - 1])

get_three_ms_bytes(op, two_ms_bytes) ==
  two_ms_bytes * Base
    + (IF operand_byte_len(op) < 3 THEN 0 ELSE op.buf[get_msb_idx(op) - 1])

\* The divisor against as many of the most significant bytes of the dividend.
cmp_ms_dividend_to_ms_divisor(dividend, divisor) ==
  LET n == operand_byte_len(divisor)
      h == get_msb_idx(dividend) + 1
  IN  CompareBytes(SubSeq(dividend.buf, h - n + 1, h), SubSeq(divisor.buf, 1, n))

\* dividend - quot_byte * divisor * Base^shift, byte by byte with a carry of
\* the product and a borrow of the difference.
subtract_product(dividend, divisor, quot_byte, shift) ==
  LET n == Len(divisor.buf)
      step[i \in 0..n] ==
        IF i = 0 THEN [carry |-> 0, borrow |-> 0, byte |-> 0]
        ELSE LET product == quot_byte * divisor.buf[i] + step[i - 1].carry
                 prod    == (product % Base) + step[i - 1].borrow
                 byte    == ByteAt(dividend.buf, shift + i)
             IN  [carry  |-> product \div Base,
                  borrow |-> IF prod <= byte THEN 0 ELSE 1,
                  byte   |-> IF prod <= byte THEN byte - prod
                                             ELSE Base + byte - prod]
      rest == step[n].carry + step[n].borrow
      diff == [j \in DOMAIN dividend.buf |->
                 IF j \in (shift + 1)..(shift + n) THEN step[j - shift].byte
                 ELSE IF j = shift + n + 1 THEN dividend.buf[j] - rest
                 ELSE dividend.buf[j]]
  IN  IF /\ Len(dividend.buf) = n /\ quot_byte = 1
         /\ pki_compare(dividend, divisor) = COMPARE_EQUAL
      THEN [op |-> [dividend EXCEPT !.buf = <<0>>], ok |-> TRUE]
      ELSE IF rest <= ByteAt(dividend.buf, shift + n + 1)
           THEN [op |-> adjust_actual_len([dividend EXCEPT !.buf = diff]), ok |-> TRUE]
           ELSE [op |-> dividend, ok |-> FALSE]

add_quot_byte(quotient, quot_byte, shift) ==
  LET fits == /\ shift < Len(quotient.buf)
              /\ quotient.buf[shift + 1] + quot_byte <= Base - 1
  IN  [op |-> IF fits THEN [quotient EXCEPT !.buf[shift + 1] = @ + quot_byte]
                      ELSE quotient,
       ok |-> fits]

\* The places that are left between the tops of dividend and divisor.
QuotShift(dividend, divisor) == operand_byte_len(dividend) - operand_byte_len(divisor)

\* Variant: the estimate divides by the top of the divisor itself.
QuotByteHigh(dividend, divisor, ms_dividend, ms_divisor) ==
  IF ms_dividend < ms_divisor
  THEN [byte |-> get_three_ms_bytes(dividend, ms_dividend) \div ms_divisor,
        shift |-> QuotShift(dividend, divisor) - 1]
  ELSE [byte |-> ms_dividend \div ms_divisor, shift |-> QuotShift(dividend, divisor)]

\* The estimate of the next quotient byte and the place it belongs to, from
\* the two most significant bytes of each. Equal ones are told apart by the
\* bytes that follow; the divisor then fits once or, one place lower, more often.
NextQuotByte(dividend, divisor, ms_dividend, ms_divisor) ==
  CASE \/ ms_dividend < ms_divisor
       \/ /\ ms_dividend = ms_divisor
          /\ cmp_ms_dividend_to_ms_divisor(dividend, divisor) = LEFT_IS_SMALLER ->
         [byte |-> get_three_ms_bytes(dividend, ms_dividend) \div (ms_divisor + 1),
          shift |-> QuotShift(dividend, divisor) - 1]
    [] ms_dividend > ms_divisor ->
         [byte |-> ms_dividend \div (ms_divisor + 1), shift |-> QuotShift(dividend, divisor)]
    [] OTHER -> [byte |-> 1, shift |-> QuotShift(dividend, divisor)]

\* The loop of bignum_div_mod: sub and add are what the last turn left of the
\* dividend and made of the quotient.
RECURSIVE DivLoop(_, _, _), DivTurn(_, _, _, _)
DivLoop(sub, divisor, add) ==
  IF ~(sub.ok /\ add.ok) \/ pki_compare(sub.op, divisor) = LEFT_IS_SMALLER
  THEN [remain |-> sub.op, quot |-> add.op, ok |-> sub.ok /\ add.ok]
  ELSE DivTurn(sub.op, divisor, add.op,
               NextQuotByte(sub.op, divisor, get_two_ms_bytes(sub.op),
                            get_two_ms_bytes(divisor)))
DivTurn(dividend, divisor, quotient, q) ==
  IF q.byte \in 1..(Base - 1)
  THEN DivLoop(subtract_product(dividend, divisor, q.byte, q.shift), divisor,
               add_quot_byte(quotient, q.byte, q.shift))
  ELSE [remain |-> dividend, quot |-> quotient, ok |-> FALSE]

bignum_div_mod(dividend, divisor, quotient) ==
  DivLoop([op |-> dividend, ok |-> Len(dividend.buf) <= operand_byte_len(dividend) + 4],
          divisor,
          [op |-> quotient, ok |-> get_two_ms_bytes(divisor) \in Base..(Base^2 - 1)])

\* A larger dividend: numbers of up to three bytes are divided as machine words.
DivideLarger(dividend, divisor, n, d, be) ==
  CASE is_one(divisor) ->
         [quot |-> dividend, remain |-> set_operand(0, be), ok |-> TRUE]
    [] ~is_one(divisor) /\ n < 4 /\ d < 4 ->
         [quot |-> set_operand(operand_to_uint32(dividend) \div operand_to_uint32(divisor), be),
          remain |-> set_operand(operand_to_uint32(dividend) % operand_to_uint32(divisor), be),
          ok |-> TRUE]
    [] OTHER ->
         bignum_div_mod(dividend, divisor,
                        [buf |-> [i \in 1..(n + 1 - d) |-> 0], big_endian |-> be])

\* The division once the operands are compared.
DivideCompared(dividend, divisor, cmp, be) ==
  CASE cmp = LEFT_IS_SMALLER ->
         [quot |-> set_operand(0, be), remain |-> dividend, ok |-> TRUE]
    [] cmp = COMPARE_EQUAL ->
         [quot |-> set_operand(1, be), remain |-> set_operand(0, be), ok |-> TRUE]
    [] OTHER ->
         DivideLarger(dividend, divisor, operand_byte_len(dividend),
                      operand_byte_len(divisor), be)

divide_with_remainder(dividend, divisor) ==
  CASE SameOrder(dividend, divisor) ->
    DivideCompared(dividend, divisor, pki_compare(dividend, divisor), dividend.big_endian)

-----------------------------------------------------------------------------
(* Modular operations. None of them looks at the assertions; the callers     *)
(* throw most of the return codes away.                                      *)

pki_modulo(value, modulus) == divide_with_remainder(value, modulus).remain

\* A sum below twice the modulus is brought below it.
ReducedSum(sum, modulus, sub) ==
  IF pki_compare(sum, modulus) = LEFT_IS_SMALLER
  THEN [rc |-> RC_NO_ERROR, op |-> sum]
  ELSE [rc |-> sub.rc, op |-> adjust_actual_len(sub.op)]

SumLess(sum, modulus, old) == ReducedSum(sum, modulus, pki_subtract(sum, modulus, old))

pki_mod_add(value, addend, modulus, old) ==
  CASE SameOrder(value, modulus) /\ SameOrder(addend, modulus) ->
    SumLess(adjust_actual_len(pki_add(value, addend)), modulus, old)

\* Variant: a negative difference is not taken from the modulus.
DifferenceAbs(value, subtrahend, modulus, old, cmp) ==
  CASE cmp = COMPARE_EQUAL    -> [rc |-> RC_INVALID_ARGUMENT, op |-> old]
    [] cmp = RIGHT_IS_SMALLER -> pki_subtract(value, subtrahend, old)
    [] OTHER                  -> pki_subtract(subtrahend, value, old)

\* The difference once the operands are compared. Equal operands are refused
\* and the result keeps what was in it.
Difference(value, subtrahend, modulus, old, cmp) ==
  CASE cmp = COMPARE_EQUAL    -> [rc |-> RC_INVALID_ARGUMENT, op |-> old]
    [] cmp = RIGHT_IS_SMALLER -> pki_subtract(value, subtrahend, old)
    [] OTHER ->
         LET reversed_diff == pki_subtract(subtrahend, value, init_operand(value.big_endian)).op
         IN  [rc |-> RC_NO_ERROR, op |-> pki_subtract(modulus, reversed_diff, old).op]

pki_mod_subtract(value, subtrahend, modulus, old) ==
  CASE SameOrder(value, modulus) /\ SameOrder(subtrahend, modulus) ->
    Difference(value, subtrahend, modulus, old, pki_compare(value, subtrahend))

pki_mod_multiply(value, multiplier, modulus) ==
  CASE SameOrder(value, modulus) /\ SameOrder(multiplier, modulus) ->
    pki_modulo(pki_multiply(value, multiplier), modulus)

\* Variant: coefficients of opposite signs are subtracted, not added.
CoefficientOneSign(s, quot, prod) ==
  IF s.x_sign = 0 \/ is_zero(quot)
  THEN [abs |-> s.last_abs_x, sign |-> s.last_x_sign]
  ELSE IF pki_compare(prod, s.last_abs_x) = LEFT_IS_SMALLER
       THEN [abs |-> pki_subtract(s.last_abs_x, prod, s.abs_x).op, sign |-> s.x_sign]
       ELSE [abs |-> pki_subtract(prod, s.last_abs_x, s.abs_x).op, sign |-> -s.x_sign]

\* last_x - prod for coefficients of the same sign.
CoefficientLess(s, prod, cmp) ==
  CASE cmp = COMPARE_EQUAL   -> [abs |-> set_operand(0, prod.big_endian), sign |-> 0]
    [] cmp = LEFT_IS_SMALLER ->
         [abs |-> pki_subtract(s.last_abs_x, prod, s.abs_x).op, sign |-> s.x_sign]
    [] OTHER ->
         [abs |-> pki_subtract(prod, s.last_abs_x, s.abs_x).op, sign |-> -s.x_sign]

\* The coefficient and its sign that follow (abs_x, x_sign) in the extended
\* Euclidean algorithm: last_x - quot * x on absolute values and signs.
NextCoefficient(s, quot, prod) ==
  IF s.x_sign = 0 \/ is_zero(quot) THEN [abs |-> s.last_abs_x, sign |-> s.last_x_sign]
  ELSE CASE s.last_x_sign = 0 -> [abs |-> prod, sign |-> -s.x_sign]
         [] s.last_x_sign = -s.x_sign ->
              [abs |-> pki_add(s.last_abs_x, prod), sign |-> s.last_x_sign]
         [] OTHER -> CoefficientLess(s, prod, pki_compare(prod, s.last_abs_x))

\* One turn of the Euclidean algorithm, from the division and the coefficient.
EuclidTurn(s, d, x) ==
  [a |-> s.b, b |-> d.remain, abs_x |-> x.abs, x_sign |-> x.sign,
   last_abs_x |-> s.abs_x, last_x_sign |-> s.x_sign]

EuclidDivided(s, d) ==
  EuclidTurn(s, d, NextCoefficient(s, d.quot, pki_multiply(d.quot, s.abs_x)))

RECURSIVE EuclidLoop(_)
EuclidLoop(s) ==
  IF is_zero(s.b) THEN s
  ELSE EuclidLoop(EuclidDivided(s, divide_with_remainder(s.a, s.b)))

\* The last coefficient as a number below the modulus.
InverseFrom(last, modulus, old) ==
  IF last.last_x_sign = -1 THEN pki_subtract(modulus, last.last_abs_x, old).op
                           ELSE last.last_abs_x

\* The inverse is multiplied out at the end, and only that decides rc.
CheckedInverse(value, modulus, inv) ==
  [rc |-> IF is_one(pki_mod_multiply(value, inv, modulus))
          THEN RC_NO_ERROR ELSE RC_NO_MODULAR_INVERSE,
   op |-> inv]

\* The inverse of value, from the value reduced modulo the modulus.
InverseOfReduced(value, a, modulus, old, be) ==
  IF is_zero(a) \/ is_zero(modulus)
  THEN [rc |-> RC_NO_MODULAR_INVERSE, op |-> old]
  ELSE CheckedInverse(value, modulus,
         InverseFrom(EuclidLoop([a |-> a, b |-> modulus,
                                 abs_x |-> set_operand(0, be), x_sign |-> 0,
                                 last_abs_x |-> set_operand(1, be), last_x_sign |-> 1]),
                     modulus, old))

pki_mod_inverse(value, modulus, old) ==
  CASE SameOrder(value, modulus) ->
    InverseOfReduced(value,
                     IF pki_compare(value, modulus) # LEFT_IS_SMALLER
                     THEN pki_modulo(value, modulus) ELSE value,
                     modulus, old, value.big_endian)

-----------------------------------------------------------------------------
(* Random numbers below max_plus_1. A loop that draws until the bytes fit is *)
(* the set of the draws it can end with.                                     *)

Draws(len, be) == {[buf |-> s, big_endian |-> be] : s \in [1..len -> Byte]}

\* A draw that is not below the maximum has its top byte reduced.
rand_non_zero_integer(max_plus_1, be) ==
  LET reduced(r) ==
        [r EXCEPT !.buf[get_msb_idx(r) + 1] =
                    @ % max_plus_1.buf[get_msb_idx(max_plus_1) + 1]]
  IN  {IF pki_compare(r, max_plus_1) = LEFT_IS_SMALLER THEN r ELSE reduced(r) :
         r \in {d \in Draws(operand_byte_len(max_plus_1), be) : ~is_zero(d)}}

rand_non_zero_integer_wo_syscall(max_plus_1, be) ==
  {r \in Draws(operand_byte_len(max_plus_1), be) :
     ~is_zero(r) /\ pki_compare(r, max_plus_1) = LEFT_IS_SMALLER}

rand_non_zero_integer_w_pka_hwrng(max_plus_1, be) ==
  {r \in Draws(operand_byte_len(max_plus_1), be) :
     ~is_zero(r) /\ pki_compare(r, max_plus_1) = LEFT_IS_SMALLER}
=============================================================================
