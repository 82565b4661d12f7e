------------------------------ MODULE Handover ------------------------------
(***************************************************************************)
(* What the migration promises for the connections that one client opens,  *)
(* one after the other, from one address and port: the SmartNIC offers a   *)
(* connection to the host, the host takes it, and only then does the       *)
(* client get the server's flight and finish the handshake.                *)
(***************************************************************************)
EXTENDS Naturals

CONSTANT MaxInc  \* connections that the client opens

VARIABLE phase

Incarnation == 1 .. MaxInc

\* The host may take over only what was offered, and the flight goes out only
\* for what the host has taken.
After == [unborn |-> {"handshake"}, handshake |-> {"offered"}, offered |-> {"taken"},
          taken |-> {"flight"}, flight |-> {"serving"}, serving |-> {}, over |-> {}]

Live(i) == phase[i] \notin {"unborn", "over"}

Init == phase = [i \in Incarnation |-> "unborn"]

Begin(i) ==
  /\ phase[i] = "unborn" /\ \A j \in Incarnation : j < i => phase[j] # "unborn"
  /\ phase' = [j \in Incarnation |-> IF j = i THEN "handshake"
                                     ELSE IF j < i THEN "over" ELSE phase[j]]

Advance(i) ==
  /\ Live(i)
  /\ \E p \in After[phase[i]] : phase' = [phase EXCEPT ![i] = p]

End(i) == Live(i) /\ phase' = [phase EXCEPT ![i] = "over"]

Next == \E i \in Incarnation : Begin(i) \/ Advance(i) \/ End(i)

Spec == Init /\ [][Next]_phase
=============================================================================
