--------------------------- MODULE MCPkaPipeline ---------------------------
(* Small instances of PkaPipeline: sessions and ops with their worker core. *)
EXTENDS PkaPipeline

\* Two sessions on one worker, with three ops each.
Session2 == {"s1", "s2"}
Op6 == {"o1", "o2", "o3", "o4", "o5", "o6"}
OneWorker(x) == 1

\* One session.
Session1 == {"s1"}
Op3 == {"o1", "o2", "o3"}
=============================================================================
