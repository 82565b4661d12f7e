------------------------------ MODULE PkiCurve ------------------------------
(* Point arithmetic on y^2 = x^3 + a*x + b over the numbers modulo p and the *)
(* ECDSA signatures built on it, as pka_helper.c computes them in software.  *)
(*                                                                           *)
(* A computation carries in rcs the return codes that the code receives and  *)
(* throws away. Coordinates that a refused subtraction did not write keep    *)
(* what the result point had before, so that point is a parameter (old).     *)
EXTENDS PkiArithmetic

CONSTANT MAX_BYTE_LEN   \* bytes of the longest hardware operand

ASSUME MaxByteLenAssumption == MAX_BYTE_LEN \in Nat

RC_INTERMEDIATE_PAI  == "intermediate_pai"
RC_OPERAND_VALUE_ERR == "operand_value_err"

init_ecc_point == [x |-> init_operand(FALSE), y |-> init_operand(FALSE)]

\* The point of the coordinates, and the codes that they were computed with.
PointXY(x, ac_xdiff, y, rcs) ==
  [pt |-> [x |-> x.op, y |-> y.op], rc |-> RC_NO_ERROR,
   rcs |-> rcs \cup {x.rc, ac_xdiff.rc, y.rc}]

\* The y coordinate, from x and the difference of x to that of pointA.
PointWithX(curve, pointA, slope, x, ac_xdiff, old, rcs) ==
  PointXY(x, ac_xdiff,
          pki_mod_subtract(pki_mod_multiply(slope, ac_xdiff.op, curve.p),
                           pointA.y, curve.p, old.y), rcs)

PointFrom(curve, pointA, slope, x, old, rcs) ==
  PointWithX(curve, pointA, slope, x,
             pki_mod_subtract(pointA.x, x.op, curve.p, init_operand(FALSE)), old, rcs)

\* The common end of doubling and addition: the point on the line of the given
\* slope through pointA, where xsum is the sum of the two x coordinates.
PointOnLine(curve, pointA, slope, xsum, old, rcs) ==
  PointFrom(curve, pointA, slope,
            pki_mod_subtract(pki_mod_multiply(slope, slope, curve.p),
                             xsum, curve.p, old.x), old, rcs)

\* The assertions of the point functions.
OnSameOrder(curve, point) ==
  /\ SameOrder(curve.p, curve.a) /\ SameOrder(curve.p, curve.b)
  /\ SameOrder(curve.p, point.x) /\ SameOrder(curve.p, point.y)

\* n + n modulo the prime of the curve.
Twice(curve, n) == pki_mod_add(n, n, curve.p, init_operand(FALSE)).op

\* Variant: the coefficient of x is left out of the slope.
SlopeWithoutA(curve, x_squared) ==
  pki_mod_add(Twice(curve, x_squared), x_squared, curve.p, init_operand(FALSE)).op

\* Three times the square of x, plus a.
SlopeNumerator(curve, x_squared) ==
  pki_mod_add(pki_mod_add(Twice(curve, x_squared), x_squared, curve.p,
                          init_operand(FALSE)).op,
              curve.a, curve.p, init_operand(FALSE)).op

\* The doubled point, from the inverse of 2y.
DoubleWith(curve, pointA, dbl_y_inv, old) ==
  PointOnLine(curve, pointA,
    pki_mod_multiply(
      SlopeNumerator(curve, pki_mod_multiply(pointA.x, pointA.x, curve.p)),
      dbl_y_inv.op, curve.p),
    Twice(curve, pointA.x), old, {dbl_y_inv.rc})

ecc_double(curve, pointA, old) ==
  CASE OnSameOrder(curve, pointA) ->
    DoubleWith(curve, pointA,
               pki_mod_inverse(Twice(curve, pointA.y), curve.p, init_operand(FALSE)), old)

\* The sum of points that differ in both coordinates, from the inverse of the
\* difference in x.
AddWith(curve, pointA, pointB, ab_ydiff, inverse, old) ==
  PointOnLine(curve, pointA, pki_mod_multiply(ab_ydiff, inverse.op, curve.p),
              pki_mod_add(pointA.x, pointB.x, curve.p, init_operand(FALSE)).op,
              old, {inverse.rc})

\* The case that the differences of the coordinates select.
AddByDifference(curve, pointA, pointB, ab_xdiff, ab_ydiff, old) ==
  CASE is_zero(ab_xdiff) /\ is_zero(ab_ydiff) -> ecc_double(curve, pointA, old)
    [] is_zero(ab_xdiff) # is_zero(ab_ydiff)  ->
         [pt |-> old, rc |-> RC_INTERMEDIATE_PAI, rcs |-> {RC_INTERMEDIATE_PAI}]
    [] OTHER ->
         [AddWith(curve, pointA, pointB, ab_ydiff,
                  pki_mod_inverse(ab_xdiff, curve.p, init_operand(FALSE)), old)
            EXCEPT !.pt.x = adjust_actual_len(@), !.pt.y = adjust_actual_len(@)]

pki_ecc_add(curve, pointA, pointB, old) ==
  CASE OnSameOrder(curve, pointA) /\ OnSameOrder(curve, pointB) ->
    AddByDifference(curve, pointA, pointB,
      pki_mod_subtract(pointA.x, pointB.x, curve.p, init_operand(FALSE)).op,
      pki_mod_subtract(pointA.y, pointB.y, curve.p, init_operand(FALSE)).op, old)

\* A turn of double and add. The points that receive a sum and a doubled base
\* are reused from one turn to the next.
AddTurn(curve, t, set) ==
  IF set /\ ~t.zero THEN pki_ecc_add(curve, t.result, t.base, t.new_result)
  ELSE [pt |-> t.new_result, rc |-> RC_NO_ERROR, rcs |-> {}]

Turn(t, set, last, add, dbl) ==
  [result |-> CASE ~set -> t.result
                [] set /\ t.zero -> t.base
                [] OTHER -> add.pt,
   new_result |-> add.pt, zero |-> t.zero /\ ~set,
   base |-> dbl.pt, new_base |-> dbl.pt,
   rcs |-> t.rcs \cup add.rcs \cup (IF last THEN {} ELSE dbl.rcs)]

MultiplyTurn(curve, t, set, last) ==
  Turn(t, set, last, AddTurn(curve, t, set), ecc_double(curve, t.base, t.new_base))

TrimmedResult(t) ==
  [pt |-> [x |-> adjust_actual_len(t.result.x), y |-> adjust_actual_len(t.result.y)],
   rc |-> RC_NO_ERROR, rcs |-> t.rcs]

\* Double and add, from the lowest bit.
pki_ecc_multiply(curve, pointA, multiplier) ==
  LET bits == operand_bit_len(multiplier)
      turn[i \in 0..bits] ==
        IF i = 0
        THEN [result |-> init_ecc_point, new_result |-> init_ecc_point, zero |-> TRUE,
              base |-> pointA, new_base |-> init_ecc_point, rcs |-> {}]
        ELSE MultiplyTurn(curve, turn[i - 1], get_bit(multiplier, i - 1) # 0, i = bits)
  IN  CASE OnSameOrder(curve, pointA) /\ SameOrder(curve.p, multiplier) ->
        IF bits < 2
        THEN [pt |-> init_ecc_point, rc |-> RC_OPERAND_VALUE_ERR, rcs |-> {}]
        ELSE TrimmedResult(turn[bits])

\* Variant: the hash is multiplied by the key instead of r.
SignOverHash(order, private_key, hash, r) ==
  pki_mod_add(r, pki_mod_multiply(private_key, hash, order), order, init_operand(FALSE))

\* hash + key * r modulo the order.
SignSum(order, private_key, hash, r) ==
  pki_mod_add(hash, pki_mod_multiply(private_key, r, order), order, init_operand(FALSE))

Signature(order, kG, k_inv, r, sum) ==
  [r |-> adjust_actual_len(r),
   s |-> adjust_actual_len(pki_mod_multiply(k_inv.op, sum.op, order)), rc |-> RC_NO_ERROR,
   rcs |-> kG.rcs \cup {k_inv.rc, kG.rc, sum.rc}]

\* The two halves, from the point kG and its x coordinate modulo the order.
SignWith(order, private_key, hash, kG, k_inv, r) ==
  Signature(order, kG, k_inv, r, SignSum(order, private_key, hash, r))

SignPoint(order, private_key, hash, kG, k_inv) ==
  SignWith(order, private_key, hash, kG, k_inv, pki_modulo(kG.pt.x, order))

pki_ecdsa_generate(curve, base_pt, order, private_key, hash, k) ==
  CASE /\ OnSameOrder(curve, base_pt) /\ SameOrder(curve.p, order)
       /\ SameOrder(curve.p, private_key)
       /\ SameOrder(hash, private_key) /\ SameOrder(k, hash) ->
    SignPoint(order, private_key, hash, pki_ecc_multiply(curve, base_pt, k),
              pki_mod_inverse(k, order, init_operand(FALSE)))

\* The wrapper hands out the signature whatever the codes inside were.
sw_ecdsa_gen(curve, base_pt, order, private_key, hash, k) ==
  pki_ecdsa_generate(curve, base_pt, order, private_key, hash, k)

-----------------------------------------------------------------------------
(* Key generation of the benchmarks, which waits for one hardware command    *)
(* after the other. The hardware computes exactly; a result that is not a    *)
(* point is reported in the status of the command.                           *)

\* The result operand that the hardware writes for a number.
HwNumber(n) ==
  [buf |-> [i \in 1..Max({1} \cup {l \in 1..8 : n >= Base^(l - 1)}) |->
              (n \div Base^(i - 1)) % Base],
   big_endian |-> FALSE]

sw_add(value, addend) == pki_add(value, addend)

\* A sum that may not fit a hardware operand is computed in software.
sync_add(value, addend) ==
  IF Max({Len(value.buf), Len(addend.buf)}) + 1 >= MAX_BYTE_LEN
  THEN sw_add(value, addend)
  ELSE HwNumber(Value(value) + Value(addend))

sync_subtract(value, subtrahend) == HwNumber(Value(value) - Value(subtrahend))

sync_modulo(value, modulus) ==
  IF pki_compare(value, modulus) = LEFT_IS_SMALLER
  THEN dup_operand(value)
  ELSE HwNumber(Value(value) % Value(modulus))

\* get_results returns 0 both on success and when the status reports an error;
\* the caller then keeps the empty point that malloc_ecc_point made. Product
\* is the point as the hardware computes it, <<>> if there is none.
get_results(Product) ==
  IF Product = <<>> THEN init_ecc_point
  ELSE [x |-> HwNumber(Product[1]), y |-> HwNumber(Product[2])]

\* Variant: the one is added before the reduction.
NonceReducedLast(c, order) ==
  sync_modulo(sync_add(c, HwNumber(1)), sync_subtract(order, HwNumber(1)))

\* The nonce of a signature: a random number of more bits than the order,
\* reduced modulo order - 1, plus one.
NonceFrom(c, order) ==
  LET one       == HwNumber(1)
      n_minus_1 == sync_subtract(order, one)
      temp      == sync_modulo(c, n_minus_1)
  IN  sync_add(temp, one)
=============================================================================
