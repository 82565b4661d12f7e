--------------------------- MODULE MCSessionTable ---------------------------
(***************************************************************************)
(* Small instances of SessionTable.  All four-tuples share one bin (the    *)
(* collision case) or have one of two.                                     *)
(***************************************************************************)
EXTENDS SessionTable

CONSTANTS c1, c2, k1, k2, b1, b2

OneBin(k) == b1
TwoBins(k) == IF k = k1 THEN b1 ELSE b2
=============================================================================
