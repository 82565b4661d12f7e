------------------------------ MODULE PkiCalls ------------------------------
(* Calls of the software arithmetic and what they return, beside a reference *)
(* definition on integers: one action per function that the benchmarks and   *)
(* their key generation call, and the properties that compare the two.       *)
EXTENDS PkiCurve

CONSTANTS
  Dividends, Divisors,   \* byte strings, least significant byte first
  Moduli,                \* numbers
  Prime, CoefA, CoefB,   \* the curve
  Generator, Order,      \* a point that generates all points, and their number
  Keys, Hashes           \* private keys and hashes for signatures

ASSUME CurveAssumption ==
  /\ Prime \in Nat /\ Order \in Nat /\ Prime > 3 /\ Order > 3
  /\ (Generator[2]^2 - Generator[1]^3 - CoefA * Generator[1] - CoefB) % Prime = 0

VARIABLES call, ret
vars == <<call, ret>>

None == [fn |-> "none"]

-----------------------------------------------------------------------------
(* Reference definitions.                                                    *)

\* The inverse of n modulo the prime m.
RefInv(n, m) == CHOOSE i \in 1..(m - 1) : (n * i) % m = 1

Infinity == <<>>

\* The group law of the curve.
RefAdd(P, Q) ==
  IF P = Infinity THEN Q
  ELSE IF Q = Infinity THEN P
  ELSE IF P[1] = Q[1] /\ (P[2] + Q[2]) % Prime = 0 THEN Infinity
  ELSE LET slope == IF P = Q
                    THEN ((3 * P[1]^2 + CoefA) * RefInv((2 * P[2]) % Prime, Prime)) % Prime
                    ELSE ((P[2] - Q[2]) * RefInv((P[1] - Q[1]) % Prime, Prime)) % Prime
           x == (slope^2 - P[1] - Q[1]) % Prime
       IN  <<x, (slope * (P[1] - x) - P[2]) % Prime>>

\* n times the generator.
RefMultiple[n \in 0..(2 * Order)] ==
  IF n = 0 THEN Infinity ELSE RefAdd(RefMultiple[n - 1], Generator)

\* Whether (r, s) is a signature of hash under the public key of key.
RefVerifies(r, s, hash, key) ==
  LET w == RefInv(s, Order)
      R == RefMultiple[(hash * w + r * w * key) % Order]
  IN  R # Infinity /\ R[1] % Order = r

-----------------------------------------------------------------------------

\* A number as an operand of the shortest length.
Op(n) ==
  LET len == Max({1} \cup {l \in 1..8 : n >= Base^(l - 1)})
  IN  make_operand([i \in 1..len |-> (n \div Base^(len - i)) % Base], FALSE)
Bytes(s) == [buf |-> s, big_endian |-> FALSE]

Curve == [p |-> Op(Prime), a |-> Op(CoefA), b |-> Op(CoefB)]
Point(P) == [x |-> Op(P[1]), y |-> Op(P[2])]

Calls ==
       [fn : {"divide"}, dividend : Dividends, divisor : Divisors]
  \cup [fn : {"inverse"}, value : 0..(2 * Prime), modulus : Moduli]
  \cup [fn : {"mod_subtract"}, value : 0..(Prime - 1), subtrahend : 0..(Prime - 1)]
  \cup [fn : {"multiply"}, point : 1..(Order - 1), k : 0..(Order - 1)]
  \cup [fn : {"sign"}, key : Keys, hash : Hashes, k : 1..(Order - 1)]
  \cup [fn : {"rand"}, bit_len : 1..(3 * Bits), make_odd : BOOLEAN, be : BOOLEAN,
        bytes : [1..3 -> Byte]]
  \cup [fn : {"nonce"}, c : [1..5 -> Byte]]
  \cup [fn : {"p256"}, priv_key : 0..(Order - 1), remote_priv_key : 0..(Order - 1)]
  \cup [fn : {"draw"}, max : 2..(Base^2 + Base)]

Init == call \in Calls /\ ret = None

Returns(fn) == call.fn = fn /\ ret = None /\ UNCHANGED call

Divide ==
  /\ Returns("divide")
  /\ ret' = divide_with_remainder(Bytes(call.dividend), Bytes(call.divisor))

ModInverse ==
  /\ Returns("inverse")
  /\ ret' = pki_mod_inverse(Op(call.value), Op(call.modulus), init_operand(FALSE))

ModSubtract ==
  /\ Returns("mod_subtract")
  /\ ret' = pki_mod_subtract(Op(call.value), Op(call.subtrahend), Op(Prime), Op(1))

Multiply ==
  /\ Returns("multiply")
  /\ ret' = pki_ecc_multiply(Curve, Point(RefMultiple[call.point]), Op(call.k))

Sign ==
  /\ Returns("sign")
  /\ ret' = sw_ecdsa_gen(Curve, Point(Generator), Op(Order),
                         Op(call.key), Op(call.hash), Op(call.k))

Nonce ==
  /\ Returns("nonce")
  /\ ret' = [op |-> NonceFrom(Bytes(call.c), Op(Order))]

\* What the hardware computes for a point and a multiplier.
HwMultiply(point, n) ==
  LET m == CHOOSE i \in 0..(Order - 1) :
             \/ i = 0 /\ point.x.buf = <<>>
             \/ i > 0 /\ RefMultiple[i] = <<Value(point.x), Value(point.y)>>
  IN  RefMultiple[(m * n) % Order]

sync_ecc_multiply(point, multiplier) ==
  get_results(HwMultiply(point, Value(multiplier)))

\* A key pair, a remote key pair, and the shared secret that the answers to
\* the benchmark's commands are compared with.
Get_P256_key_pair(base_pt, priv_key, remote_priv_key) ==
  LET pub_key == sync_ecc_multiply(base_pt, priv_key)
  IN  [pub_key |-> pub_key,
       remote_pub_key |-> sync_ecc_multiply(base_pt, remote_priv_key),
       remote_shared_secret |-> sync_ecc_multiply(pub_key, remote_priv_key)]

KeyPair ==
  /\ Returns("p256")
  /\ LET generated == Get_P256_key_pair(Point(Generator), Op(call.priv_key),
                                        Op(call.remote_priv_key))
     IN  ret' = generated @@ [answer |-> sync_ecc_multiply(generated.remote_pub_key,
                                                           Op(call.priv_key))]

Rand ==
  /\ Returns("rand")
  /\ ret' = rand_operand(SubSeq(call.bytes, 1, (call.bit_len + Bits - 1) \div Bits),
                         call.bit_len, call.make_odd, call.be)

Draw ==
  /\ Returns("draw")
  /\ \E how \in {"dev", "rand", "hwrng"} :
       \E op \in CASE how = "dev"  -> rand_non_zero_integer(Op(call.max), FALSE)
                   [] how = "rand" -> rand_non_zero_integer_wo_syscall(Op(call.max), FALSE)
                   [] how = "hwrng" -> rand_non_zero_integer_w_pka_hwrng(Op(call.max), FALSE) :
         ret' = [op |-> op, how |-> how]

Next == Divide \/ ModInverse \/ ModSubtract \/ Multiply \/ Sign \/ Nonce \/ KeyPair \/ Rand \/ Draw

Spec == Init /\ [][Next]_vars

Done(fn) == call.fn = fn /\ ret # None

-----------------------------------------------------------------------------
(* Properties.                                                               *)

\* No function reads or leaves anything but bytes: results are operands whose
\* buffers hold bytes (pka_helper.c:1276-2374).
TypeOK ==
  /\ call \in Calls
  /\ LET ops == CASE ret = None -> {}
                  [] Done("divide") -> {ret.quot, ret.remain}
                  [] Done("multiply") -> {ret.pt.x, ret.pt.y}
                  [] Done("sign") -> {ret.r, ret.s}
                  [] Done("p256") -> {ret.pub_key.x, ret.answer.x, ret.answer.y}
                  [] OTHER -> {ret.op}
     IN  \A op \in ops : DOMAIN op = {"buf", "big_endian"} /\ op.buf \in Seq(Byte)

\* Long division (pka_helper.c:1361-1485) returns the quotient and the
\* remainder, also for operands with leading zero bytes, and no assertion on
\* the way fails: the estimated quotient byte is never zero, too large for its
\* place or more than what is left of the dividend.
DivisionExact ==
  Done("divide") =>
    /\ ret.ok
    /\ Value(Bytes(call.dividend))
         = Value(ret.quot) * Value(Bytes(call.divisor)) + Value(ret.remain)
    /\ Value(ret.remain) < Value(Bytes(call.divisor))

\* pki_mod_inverse (pka_helper.c:2077-2189) finds an inverse exactly when there
\* is one, and it is the inverse in 1..modulus-1, although the coefficients of
\* the Euclidean algorithm are kept as absolute values with signs.
InverseExact ==
  Done("inverse") =>
    LET v == call.value
        m == call.modulus
        coprime == \A d \in 2..m : ~(v % d = 0 /\ m % d = 0)
    IN  /\ ret.rc = RC_NO_ERROR <=> coprime
        /\ coprime => Value(ret.op) \in 1..(m - 1) /\ (v * Value(ret.op)) % m = 1

\* pki_mod_subtract (pka_helper.c:1963-1991) writes the difference modulo the
\* prime or reports that it wrote nothing; the callers that ignore the report
\* rely on the result operand being zero before.
SubtractExact ==
  Done("mod_subtract") =>
    IF ret.rc = RC_NO_ERROR
    THEN Value(ret.op) = (call.value - call.subtrahend) % Prime
    ELSE call.value = call.subtrahend /\ ret.op = Op(1)

\* Double and add (pka_helper.c:2255-2321) gives the multiple of the point,
\* unless one of the return codes that it throws away reported a difference of
\* zero: only then do coordinates of an earlier turn remain in the result.
PointExact ==
  (Done("multiply") /\ ret.rcs \subseteq {RC_NO_ERROR} /\ call.k > 1) =>
    <<Value(ret.pt.x), Value(ret.pt.y)>>
      = RefMultiple[(call.point * call.k) % Order]

\* A signature of sw_ecdsa_gen (pka_helper.c:2323-2431) verifies under the
\* public key, for hashes above the order too, when no code that it throws
\* away reported a failure and neither half is zero.
SignatureVerifies ==
  (/\ Done("sign") /\ ret.rcs \subseteq {RC_NO_ERROR}
   /\ Value(ret.r) # 0 /\ Value(ret.s) # 0) =>
    RefVerifies(Value(ret.r), Value(ret.s), call.hash, call.key)

\* Random operands have exactly the wanted number of bits in both byte orders
\* (the assertion at pka_helper.c:555), and the numbers drawn below a maximum
\* (1051-1119) are below it; the two functions that draw again until the bytes
\* fit never return zero.
RandomsInRange ==
  /\ Done("rand") =>
       /\ ret.ok
       /\ Value(ret.op) \in 2^(call.bit_len - 1)..(2^call.bit_len - 1)
       /\ call.make_odd => Value(ret.op) % 2 = 1
  /\ Done("draw") =>
       /\ Value(ret.op) < call.max
       /\ ret.how \in {"rand", "hwrng"} => Value(ret.op) > 0

\* The keys that the benchmark prepares (helpers.c:329-626): a nonce is never
\* zero and never the order, whatever the longer random number was; and for
\* private keys other than zero the shared secret kept as the answer is the
\* one that the command for the other side's public key returns. (A private
\* key of zero, which rand_non_zero_integer can return, leaves an empty public
\* key behind, because get_results reports a failed status as success.)
KeysSound ==
  /\ Done("nonce") => Value(ret.op) \in 1..(Order - 1)
  /\ Done("p256") /\ call.priv_key # 0 /\ call.remote_priv_key # 0 =>
       ret.answer = ret.remote_shared_secret /\ ret.answer.x.buf # <<>>

\* The arithmetic on operands returns bytes, and what integers give: quotient
\* and remainder, the inverse, the difference modulo the prime.
ArithmeticExact == TypeOK /\ DivisionExact /\ InverseExact /\ SubtractExact

\* What is drawn at random and the keys that are prepared from it are in their
\* ranges, and both sides of a key agreement find the same secret.
DrawnKeysSound == RandomsInRange /\ KeysSound
=============================================================================
