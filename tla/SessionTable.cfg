CONSTANTS
  c1 = c1
  c2 = c2
  k1 = k1
  k2 = k2
  b1 = b1
  b2 = b2
  Conn = {c1, c2}
  Key = {k1, k2}
  Isn = {1, 2}
  Bin = {b1}
  Hash <- OneBin
  Eras = 1
  NoKey = NoKey
  NoIsn = NoIsn
SPECIFICATION Spec
INVARIANTS TableSound MigrationMatches NotExhausted
PROPERTIES OnloadedUntilClosed ClosedIsRemoved
