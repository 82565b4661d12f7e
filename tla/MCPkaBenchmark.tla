--------------------------- MODULE MCPkaBenchmark ---------------------------
(* Small instances of PkaBenchmark.                                         *)
EXTENDS PkaBenchmark

MCModes == Simple \cup Tls \cup {"RAND"}
=============================================================================
