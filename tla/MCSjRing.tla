------------------------------ MODULE MCSjRing ------------------------------
(* Three objects through a ring of four slots: it fills, refuses, wraps and *)
(* empties, and every object can be in it twice.                            *)
EXTENDS SjRing

CONSTANTS o1, o2, o3

MCObj == {o1, o2, o3}
=============================================================================
