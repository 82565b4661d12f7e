---------------------------- MODULE MCHostServer ----------------------------
(* Instances of HostServer for TLC.                                          *)
EXTENDS HostServer, TLC

\* Structures and clients are interchangeable; used for safety only.
Symmetry == Permutations(Slot) \cup Permutations(Client)
=============================================================================
