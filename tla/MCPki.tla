-------------------------------- MODULE MCPki --------------------------------
(* Bounded inputs for PkiCalls: bytes of two bits, dividends of five bytes   *)
(* with and without leading zeros, and a curve whose number of points is     *)
(* prime and whose products need long division.                              *)
EXTENDS PkiCalls

MCDividends == [1..5 -> Byte]
MCDivisors == {s \in UNION {[1..n -> Byte] : n \in 1..3} : \E i \in DOMAIN s : s[i] # 0}
MCGenerator == CHOOSE P \in (1..(Prime - 1)) \X (1..(Prime - 1)) :
                 (P[2]^2 - P[1]^3 - CoefA * P[1] - CoefB) % Prime = 0
=============================================================================
