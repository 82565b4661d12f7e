SPECIFICATION Spec
CONSTANTS
  Bits = 2
  Dividends <- MCDividends
  Divisors <- MCDivisors
  Moduli = {2, 6, 15, 16, 23, 29}
  Prime = 23
  CoefA = 1
  CoefB = 19
  Generator <- MCGenerator
  Order = 19
  MAX_BYTE_LEN = 4
  Keys = {1, 5, 18}
  Hashes = {0, 7, 18, 19, 60}
INVARIANTS ArithmeticExact PointExact SignatureVerifies DrawnKeysSound
CHECK_DEADLOCK FALSE
