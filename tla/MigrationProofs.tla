-------------------------- MODULE MigrationProofs ---------------------------
(***************************************************************************)
(* Migration implements Handover, for any number of connections that the   *)
(* client opens and any number of packets on their way.                    *)
(***************************************************************************)
EXTENDS Migration, SequenceTheorems, TLAPS

\* The connections for which send_key_meta has been called.
Offered == {i \in 1 .. client.inc : i = dpu.inc => dpu.hs # "HELLO"}

Answer(T) == [type : {"MIG_FIN", "CLOSE"}, inc : T]

\* The session is that of the client's latest connection or there is none, it
\* has its MIG_FIN only if the host has taken the connection, and the host
\* has taken only what was offered.
Sessions ==
  /\ client \in ClientState /\ dpu \in DpuState /\ host \in HostState /\ hasty \in BOOLEAN
  /\ dpu.inc \in {0, client.inc}
  /\ dpu.inc = 0 <=> dpu.hs = "none"
  /\ dpu.mig => dpu.inc \in taken
  /\ taken \subseteq Offered
  /\ host.inc # 0 => host.inc \in taken
  /\ host.st # "none" => host.inc # 0

\* Key meta packets are for connections that were offered, answers and resets
\* for connections that the host has taken.
Queues ==
  /\ metas \in Seq(Offered) /\ resets \in Seq(taken) /\ toDpu \in Seq(Answer(taken))

\* What the steps preserve together.
IInv == Sessions /\ Queues

\* A queue keeps its type when the set that it draws from grows, when a
\* packet is added and when one is taken.
LEMMA QueueFacts ==
  ASSUME NEW S, NEW T, S \subseteq T, NEW q \in Seq(S)
  PROVE  /\ q \in Seq(T)
         /\ \A x \in T : Append(q, x) \in Seq(T)
         /\ q # <<>> => Head(q) \in S /\ Tail(q) \in Seq(T)
<1>1. q \in Seq(T)
  <2>1. Len(q) \in Nat /\ q \in [1 .. Len(q) -> S] BY LenProperties
  <2>2. q \in [1 .. Len(q) -> T] BY <2>1
  <2> QED BY <2>1, <2>2, SeqDef
<1>2. q # <<>> => Head(q) \in S BY HeadTailProperties
<1>3. q # <<>> => Tail(q) \in Seq(T) BY <1>1, HeadTailProperties
<1> QED BY <1>1, <1>2, <1>3, AppendProperties

\* The invariant implies the type invariant.
LEMMA InvType == IInv => TypeOK
<1> SUFFICES ASSUME IInv PROVE TypeOK OBVIOUS
<1>1. client.inc \in 0 .. MaxInc BY DEF IInv, Sessions, ClientState
<1>2. Offered \subseteq Incarnation /\ taken \subseteq Incarnation
  BY <1>1, MigrationAssumption DEF IInv, Sessions, Offered, Incarnation
<1>3. Answer(taken) \subseteq ToDpu BY <1>2 DEF Answer, ToDpu
<1>4. metas \in Seq(Incarnation) BY <1>2, QueueFacts DEF IInv, Queues
<1>5. resets \in Seq(Incarnation) BY <1>2, QueueFacts DEF IInv, Queues
<1>6. toDpu \in Seq(ToDpu) BY <1>3, QueueFacts DEF IInv, Queues
<1> QED BY <1>2, <1>4, <1>5, <1>6 DEF IInv, Sessions, TypeOK

\* The records that the steps write have their types.
LEMMA RecordTypes ==
  /\ NoSession \in DpuState /\ NoConn \in HostState
  /\ \A i \in 1 .. MaxInc : Fresh(i) \in DpuState
  /\ \A i \in 1 .. MaxInc : [inc |-> i, st |-> "INIT", up |-> TRUE, data |-> FALSE] \in HostState
  /\ NoSession.inc = 0 /\ NoSession.hs = "none" /\ ~NoSession.mig
  /\ NoConn.inc = 0 /\ NoConn.st = "none"
<1>1. 0 \in 0 .. MaxInc /\ \A i \in 1 .. MaxInc : i \in 0 .. MaxInc BY MigrationAssumption
<1>2. NoSession \in DpuState BY <1>1, Zenon DEF NoSession, DpuState
<1>3. NoConn \in HostState BY <1>1, Zenon DEF NoConn, HostState
<1>4. \A i \in 1 .. MaxInc : Fresh(i) \in DpuState BY <1>1, <1>2, Zenon DEF Fresh, DpuState
<1>5. \A i \in 1 .. MaxInc : [inc |-> i, st |-> "INIT", up |-> TRUE, data |-> FALSE] \in HostState
  BY <1>1, Zenon DEF HostState
<1> QED BY <1>2, <1>3, <1>4, <1>5 DEF NoSession, NoConn

\* The initial states satisfy the invariant.
LEMMA InitInv == Init => IInv
<1> SUFFICES ASSUME Init PROVE IInv OBVIOUS
<1>1. Sessions
  <2>1. [inc |-> 0, st |-> "gone"] \in ClientState BY MigrationAssumption DEF ClientState
  <2> QED BY <2>1, RecordTypes, Zenon DEF Init, Sessions, Offered
<1>2. Queues BY EmptySeq DEF Init, Queues
<1> QED BY <1>1, <1>2 DEF IInv

\* Every step preserves what Sessions says.
LEMMA SessionsStep == IInv /\ [Next]_vars => Sessions'
<1> SUFFICES ASSUME IInv, [Next]_vars PROVE Sessions'
  OBVIOUS
<1> DEFINE
      Types == client' \in ClientState /\ dpu' \in DpuState /\ host' \in HostState /\ hasty' \in BOOLEAN
      Rest == /\ dpu'.inc \in {0, client'.inc}
              /\ dpu'.inc = 0 <=> dpu'.hs = "none"
              /\ dpu'.mig => dpu'.inc \in taken'
              /\ \A i \in taken' : i \in 1 .. client'.inc /\ (i = dpu'.inc => dpu'.hs # "HELLO")
              /\ host'.inc # 0 => host'.inc \in taken'
              /\ host'.st # "none" => host'.inc # 0
<1>0. /\ client \in ClientState /\ dpu \in DpuState /\ host \in HostState /\ hasty \in BOOLEAN
      /\ dpu.inc \in {0, client.inc} /\ (dpu.inc = 0 <=> dpu.hs = "none")
      /\ (dpu.mig => dpu.inc \in taken)
      /\ \A i \in taken : i \in 1 .. client.inc /\ (i = dpu.inc => dpu.hs # "HELLO")
      /\ (host.inc # 0 => host.inc \in taken) /\ (host.st # "none" => host.inc # 0)
  BY DEF IInv, Sessions, Offered
<1>a. ASSUME Types, Rest PROVE Sessions' BY <1>a DEF Sessions, Offered
<1>b. /\ client.inc \in 0 .. MaxInc /\ dpu.inc \in 0 .. MaxInc /\ host.inc \in 0 .. MaxInc
      /\ 0 \notin taken
  BY <1>0, MigrationAssumption DEF ClientState, DpuState, HostState
<1> HIDE DEF Types, Rest
<1>1. CASE Connect
  <2>0. client.inc + 1 \in 1 .. MaxInc BY <1>1, <1>b, MigrationAssumption DEF Connect
  <2>1. Types BY <1>1, <1>0, <2>0, RecordTypes DEF Types, ClientState, Connect
  <2>2. Rest BY <1>1, <1>0, <1>b DEF Rest, ClientState, DpuState, HostState, Connect, Fresh, NoSession
  <2> QED BY <2>1, <2>2, <1>a
<1>2. CASE ClientEnds
  <2>1. Types
    <3>1. client' \in ClientState BY <1>2, <1>0 DEF ClientEnds, ClientState
    <3>2. dpu' \in DpuState BY <1>2, <1>0, RecordTypes DEF ClientEnds
    <3>3. host' \in HostState BY <1>2, <1>0, Zenon DEF ClientEnds, HostState
    <3> QED BY <1>2, <1>0, <3>1, <3>2, <3>3 DEF Types, ClientEnds
  <2>2. Rest BY <1>2, <1>0, <1>b DEF Rest, ClientState, DpuState, HostState, ClientEnds, NoSession
  <2> QED BY <2>1, <2>2, <1>a
<1>3. CASE ClientVanishes
  <2>1. Types BY <1>3, <1>0, <1>b, MigrationAssumption
    DEF Types, ClientState, DpuState, HostState, ClientVanishes
  <2>2. Rest BY <1>3, <1>0, <1>b DEF Rest, ClientState, DpuState, HostState, ClientVanishes
  <2> QED BY <2>1, <2>2, <1>a
<1>4. CASE ClientData
  <2>1. Types BY <1>4, <1>0, <1>b, MigrationAssumption, Zenon
    DEF Types, ClientState, DpuState, HostState, ClientData
  <2>2. Rest BY <1>4, <1>0, <1>b DEF Rest, ClientState, DpuState, HostState, ClientData
  <2> QED BY <2>1, <2>2, <1>a
<1>5. CASE SignedFlight
  <2>1. Types BY <1>5, <1>0, <1>b, MigrationAssumption, Zenon
    DEF Types, ClientState, DpuState, HostState, SignedFlight
  <2>2. Rest BY <1>5, <1>0, <1>b DEF Rest, ClientState, DpuState, HostState, SignedFlight
  <2> QED BY <2>1, <2>2, <1>a
<1>6. CASE SendPending
  <2>1. Types BY <1>6, <1>0, <1>b, MigrationAssumption
    DEF Types, ClientState, DpuState, HostState, SendPending
  <2>2. Rest BY <1>6, <1>0, <1>b DEF Rest, ClientState, DpuState, HostState, SendPending
  <2> QED BY <2>1, <2>2, <1>a
<1>7. CASE RepeatedHello
  <2>1. Types BY <1>7, <1>0, <1>b, MigrationAssumption, Zenon
    DEF Types, ClientState, DpuState, HostState, RepeatedHello, send_key_meta
  <2>2. Rest BY <1>7, <1>0, <1>b DEF Rest, ClientState, DpuState, HostState, RepeatedHello, send_key_meta
  <2> QED BY <2>1, <2>2, <1>a
<1>8. CASE ClientFinished
  <2>1. Types BY <1>8, <1>0, <1>b, MigrationAssumption
    DEF Types, ClientState, DpuState, HostState, ClientFinished
  <2>2. Rest BY <1>8, <1>0, <1>b DEF Rest, ClientState, DpuState, HostState, ClientFinished
  <2> QED BY <2>1, <2>2, <1>a
<1>9. CASE LoopVisit
  <2>1. Types BY <1>9, <1>0, RecordTypes, Zenon DEF Types, DpuState, LoopVisit
  <2>2. Rest BY <1>9, <1>0, <1>b DEF Rest, ClientState, DpuState, HostState, LoopVisit, NoSession
  <2> QED BY <2>1, <2>2, <1>a
<1>10. CASE process_host_mig_fin
  <2>0. Head(toDpu) \in Answer(taken) BY <1>10, QueueFacts DEF process_host_mig_fin, IInv, Queues
  <2>1. Types BY <1>10, <1>0, <1>b, MigrationAssumption, <2>0, ZenonT(40)
    DEF Types, ClientState, DpuState, HostState, process_host_mig_fin, send_raw_reset,
        send_rst_conn_meta, Matches, Answer, NoSession
  <2>2. Rest BY <1>10, <1>0, <1>b, <2>0 DEF Rest, ClientState, DpuState, HostState, process_host_mig_fin, send_raw_reset,
        send_rst_conn_meta, Matches, Answer, NoSession
  <2> QED BY <2>1, <2>2, <1>a
<1>11. CASE process_host_close
  <2>1. Types BY <1>11, <1>0, <1>b, MigrationAssumption, Zenon
    DEF Types, ClientState, DpuState, HostState, process_host_close, Matches, NoSession
  <2>2. Rest BY <1>11, <1>0, <1>b DEF Rest, ClientState, DpuState, HostState, process_host_close, Matches, NoSession
  <2> QED BY <2>1, <2>2, <1>a
<1>12. CASE handle_key_packet
  <2>0. Head(metas) \in 1 .. client.inc /\ (Head(metas) = dpu.inc => dpu.hs # "HELLO")
    BY <1>12, QueueFacts DEF handle_key_packet, IInv, Queues, Offered
  <2>1. Types
    <3>1. Head(metas) \in 1 .. MaxInc BY <1>b, <2>0, MigrationAssumption
    <3> QED BY <1>12, <1>0, <3>1, RecordTypes DEF Types, handle_key_packet
  <2>2. Rest BY <1>12, <1>0, <1>b, <2>0 DEF Rest, ClientState, DpuState, HostState, handle_key_packet, SendDpu
  <2> QED BY <2>1, <2>2, <1>a
<1>13. CASE ResetArrives
  <2>1. Types BY <1>13, <1>0, <1>b, MigrationAssumption
    DEF Types, ClientState, DpuState, HostState, ResetArrives
  <2>2. Rest BY <1>13, <1>0, <1>b DEF Rest, ClientState, DpuState, HostState, ResetArrives
  <2> QED BY <2>1, <2>2, <1>a
<1>14. CASE mig_tls_conn
  <2>1. Types BY <1>14, <1>0, <1>b, MigrationAssumption
    DEF Types, ClientState, DpuState, HostState, mig_tls_conn
  <2>2. Rest BY <1>14, <1>0, <1>b DEF Rest, ClientState, DpuState, HostState, mig_tls_conn
  <2> QED BY <2>1, <2>2, <1>a
<1>15. CASE send_mig_fin_to_arm
  <2>1. Types BY <1>15, <1>0, <1>b, MigrationAssumption
    DEF Types, ClientState, DpuState, HostState, send_mig_fin_to_arm
  <2>2. Rest BY <1>15, <1>0, <1>b DEF Rest, ClientState, DpuState, HostState, send_mig_fin_to_arm
  <2> QED BY <2>1, <2>2, <1>a
<1>16. CASE close_tcp_conn
  <2>1. Types BY <1>16, <1>0, <1>b, MigrationAssumption
    DEF Types, ClientState, DpuState, HostState, close_tcp_conn, HostClosed, NoConn
  <2>2. Rest BY <1>16, <1>0, <1>b DEF Rest, ClientState, DpuState, HostState, close_tcp_conn, HostClosed, NoConn
  <2> QED BY <2>1, <2>2, <1>a
<1>17. CASE Lose
  <2>1. Types BY <1>17, <1>0, <1>b, MigrationAssumption
    DEF Types, ClientState, DpuState, HostState, Lose
  <2>2. Rest BY <1>17, <1>0, <1>b DEF Rest, ClientState, DpuState, HostState, Lose
  <2> QED BY <2>1, <2>2, <1>a
<1>18. CASE UNCHANGED vars
  <2>1. Types BY <1>18, <1>0, <1>b, MigrationAssumption
    DEF Types, ClientState, DpuState, HostState, vars
  <2>2. Rest BY <1>18, <1>0, <1>b DEF Rest, ClientState, DpuState, HostState, vars
  <2> QED BY <2>1, <2>2, <1>a
<1> QED
  BY <1>1, <1>2, <1>3, <1>4, <1>5, <1>6, <1>7, <1>8, <1>9, <1>10, <1>11, <1>12, <1>13,
     <1>14, <1>15, <1>16, <1>17, <1>18 DEF Next

\* What was offered or taken stays so.
LEMMA SetsGrow == IInv /\ [Next]_vars => Offered \subseteq Offered' /\ taken \subseteq taken'
<1> SUFFICES ASSUME IInv, [Next]_vars PROVE Offered \subseteq Offered' /\ taken \subseteq taken'
  OBVIOUS
<1>1. client.inc \in Nat /\ client \in ClientState /\ dpu \in DpuState /\ dpu.inc \in {0, client.inc}
  BY MigrationAssumption DEF IInv, Sessions, ClientState
<1>2. CASE Connect
  BY <1>2, <1>1 DEF Connect, Offered, Fresh, NoSession
<1>3. CASE ~Connect
  <2>1. client'.inc = client.inc
    BY <1>3, <1>1 DEF Next, vars, ClientState, Connect, ClientEnds, ClientVanishes, ClientData,
       SignedFlight, SendPending, RepeatedHello, send_key_meta, ClientFinished, LoopVisit,
       process_host_mig_fin, send_rst_conn_meta, process_host_close, handle_key_packet, ResetArrives, mig_tls_conn,
       send_mig_fin_to_arm, close_tcp_conn, HostClosed, Lose
  <2>2. dpu' = NoSession \/ (dpu'.inc = dpu.inc /\ (dpu'.hs = "HELLO" => dpu.hs = "HELLO"))
    BY <1>3, <1>1, Zenon DEF Next, vars, DpuState, Connect, ClientEnds, ClientVanishes, ClientData,
       SignedFlight, SendPending, RepeatedHello, send_key_meta, ClientFinished, LoopVisit,
       process_host_mig_fin, send_rst_conn_meta, process_host_close, handle_key_packet, ResetArrives, mig_tls_conn,
       send_mig_fin_to_arm, close_tcp_conn, Lose
  <2>3. taken \subseteq taken'
    BY <1>3 DEF Next, vars, Connect, ClientEnds, ClientVanishes, ClientData,
       SignedFlight, SendPending, RepeatedHello, send_key_meta, ClientFinished, LoopVisit,
       process_host_mig_fin, send_rst_conn_meta, process_host_close, handle_key_packet, ResetArrives, mig_tls_conn,
       send_mig_fin_to_arm, close_tcp_conn, Lose
  <2> QED BY <2>1, <2>2, <2>3, <1>1, RecordTypes DEF Offered
<1> QED BY <1>2, <1>3

\* Every step preserves what Queues says.
LEMMA QueuesStep == IInv /\ [Next]_vars => Queues'
<1> SUFFICES ASSUME IInv, [Next]_vars PROVE Queues'
  OBVIOUS
<1>0. Offered \subseteq Offered' /\ taken \subseteq taken' BY SetsGrow
<1>a. Answer(taken) \subseteq Answer(taken') BY <1>0 DEF Answer
<1>b. metas \in Seq(Offered) /\ resets \in Seq(taken) /\ toDpu \in Seq(Answer(taken))
  BY DEF IInv, Queues
<1>c. /\ metas \in Seq(Offered') /\ (metas # <<>> => Tail(metas) \in Seq(Offered'))
      /\ resets \in Seq(taken') /\ (resets # <<>> => Tail(resets) \in Seq(taken'))
      /\ toDpu \in Seq(Answer(taken')) /\ (toDpu # <<>> => Tail(toDpu) \in Seq(Answer(taken')))
  <2>1. metas \in Seq(Offered') /\ (metas # <<>> => Tail(metas) \in Seq(Offered'))
    BY <1>0, <1>b, QueueFacts
  <2>2. resets \in Seq(taken') /\ (resets # <<>> => Tail(resets) \in Seq(taken'))
    BY <1>0, <1>b, QueueFacts
  <2>3. toDpu \in Seq(Answer(taken')) /\ (toDpu # <<>> => Tail(toDpu) \in Seq(Answer(taken')))
    BY <1>a, <1>b, QueueFacts
  <2> QED BY <2>1, <2>2, <2>3
\* A key meta packet is sent.
<1>1. CASE metas' = Append(metas, dpu.inc) /\ (SignedFlight \/ RepeatedHello)
  <2>1. dpu.inc \in 1 .. client.inc
    BY <1>1, MigrationAssumption DEF SignedFlight, RepeatedHello, IInv, Sessions, DpuState, ClientState
  <2>2. client'.inc = client.inc /\ dpu'.hs # "HELLO"
    BY <1>1, Zenon DEF SignedFlight, RepeatedHello, send_key_meta, IInv, Sessions, DpuState, ClientState
  <2>3. metas' \in Seq(Offered') BY <1>1, <2>1, <2>2, <1>0, <1>b, QueueFacts DEF Offered
  <2>4. UNCHANGED <<resets, toDpu>> BY <1>1 DEF SignedFlight, RepeatedHello
  <2> QED BY <2>3, <2>4, <1>c DEF Queues
\* A reset is sent.
<1>2. CASE process_host_mig_fin
  <2>1. Head(toDpu).inc \in taken'
    <3>1. Head(toDpu) \in Answer(taken) BY <1>2, <1>b, QueueFacts DEF process_host_mig_fin
    <3> QED BY <3>1, <1>0 DEF Answer
  <2>2. Append(resets, Head(toDpu).inc) \in Seq(taken') BY <2>1, <1>0, <1>b, QueueFacts
  <2> QED BY <1>2, <2>2, <1>c, Zenon DEF process_host_mig_fin, send_raw_reset, Queues
\* An answer is sent.
<1>3. ASSUME NEW t \in {"MIG_FIN", "CLOSE"}, host.inc # 0, SendDpu(t, host.inc)
      PROVE  toDpu' \in Seq(Answer(taken'))
  <2>1. host.inc \in taken' BY <1>3, <1>0 DEF IInv, Sessions
  <2>2. [type |-> t, inc |-> host.inc] \in Answer(taken') BY <2>1 DEF Answer
  <2> QED BY <1>3, <2>2, <1>a, <1>b, QueueFacts DEF SendDpu
<1>4. CASE handle_key_packet
  BY <1>4, <1>3, <1>c DEF handle_key_packet, Queues
<1>5. CASE send_mig_fin_to_arm \/ close_tcp_conn
  BY <1>5, <1>3, <1>c DEF send_mig_fin_to_arm, close_tcp_conn, Queues, IInv, Sessions
<1>6. CASE process_host_close BY <1>6, <1>c DEF process_host_close, Queues
<1>7. CASE ResetArrives BY <1>7, <1>c DEF ResetArrives, Queues
<1>8. CASE Lose BY <1>8, <1>c, Zenon DEF Lose, Queues
<1>9. CASE UNCHANGED <<metas, resets, toDpu>> BY <1>9, <1>c DEF Queues
<1> QED
  BY <1>1, <1>2, <1>4, <1>5, <1>6, <1>7, <1>8, <1>9
  DEF Next, vars, Connect, ClientEnds, ClientVanishes, ClientData, SignedFlight, SendPending,
      RepeatedHello, send_key_meta, ClientFinished, LoopVisit, mig_tls_conn

\* The invariant holds in every reachable state.
THEOREM Invariance == Spec => []IInv
<1>1. IInv /\ [Next]_vars => IInv' BY SessionsStep, QueuesStep DEF IInv
<1> QED BY <1>1, InitInv, PTL DEF Spec

\* The records and queues of SmartNIC and host keep their types.
THEOREM TypeCorrect == Spec => []TypeOK
BY Invariance, InvType, PTL
-----------------------------------------------------------------------------
(* The steps of Migration, as Handover sees them.                           *)

\* A step that leaves the session's connection, its handshake state and what
\* the host has taken alone is a stutter.
LEMMA PhaseSame ==
  ASSUME client'.inc = client.inc, dpu'.inc = dpu.inc, dpu'.hs = dpu.hs, taken' = taken
  PROVE  Phase' = Phase
BY DEF Phase, Incarnation

\* The phase of the session's connection is the only one that its own steps
\* can change.
LEMMA PhaseMoves ==
  ASSUME IInv, client'.inc = client.inc, dpu.inc # 0, dpu'.inc \in {dpu.inc, 0}
  PROVE  /\ dpu.inc \in Incarnation /\ ~(dpu.inc > client.inc)
         /\ Abstract!Live(dpu.inc)
         /\ Phase' = [Phase EXCEPT ![dpu.inc] = Phase'[dpu.inc]]
<1>1. dpu.inc \in Incarnation /\ ~(dpu.inc > client.inc)
  BY MigrationAssumption DEF IInv, Sessions, ClientState, DpuState, Incarnation
<1>2. Abstract!Live(dpu.inc) BY <1>1 DEF Abstract!Live, Phase
<1>3. \A j \in Incarnation : j # dpu.inc => Phase'[j] = Phase[j]
  BY <1>1, MigrationAssumption DEF Phase, Incarnation
<1>4. Phase' = [j \in Incarnation |-> Phase'[j]] /\ Phase = [j \in Incarnation |-> Phase[j]]
  BY DEF Phase
<1> QED BY <1>1, <1>2, <1>3, <1>4

\* One step along the chain of phases.
LEMMA Advances ==
  ASSUME IInv, client'.inc = client.inc, dpu.inc # 0, dpu'.inc = dpu.inc,
         Phase'[dpu.inc] \in Abstract!After[Phase[dpu.inc]]
  PROVE  Abstract!Next
<1>1. Abstract!Advance(dpu.inc) BY PhaseMoves DEF Abstract!Advance
<1> QED BY <1>1, PhaseMoves DEF Abstract!Next, Abstract!Incarnation, Incarnation

\* The session is given up.
LEMMA Ends ==
  ASSUME IInv, client'.inc = client.inc, dpu' = NoSession
  PROVE  Abstract!Next \/ Phase' = Phase
<1>1. dpu'.inc = 0 /\ dpu'.hs = "none" BY RecordTypes
<1>2. CASE dpu.inc = 0
  BY <1>1, <1>2, MigrationAssumption DEF Phase, Incarnation
<1>3. CASE dpu.inc # 0
  <2>1. Phase'[dpu.inc] = "over" BY <1>1, <1>3, PhaseMoves DEF Phase
  <2>2. Abstract!End(dpu.inc) BY <2>1, <1>1, <1>3, PhaseMoves DEF Abstract!End
  <2> QED BY <2>2, <1>1, <1>3, PhaseMoves DEF Abstract!Next, Abstract!Incarnation, Incarnation
<1> QED BY <1>2, <1>3

\* A step of Migration is a step of Handover or a stutter.
LEMMA StepRefines == IInv /\ [Next]_vars => [Abstract!Next]_Phase
<1> SUFFICES ASSUME IInv, [Next]_vars PROVE Abstract!Next \/ Phase' = Phase
  OBVIOUS
<1>0. /\ client \in ClientState /\ dpu \in DpuState /\ client.inc \in 0 .. MaxInc
      /\ dpu.inc \in 0 .. MaxInc /\ dpu.inc \in {0, client.inc}
      /\ (dpu.inc = 0 <=> dpu.hs = "none") /\ (dpu.mig => dpu.inc \in taken)
      /\ (dpu.hs = "HELLO" => dpu.inc \notin taken)
  BY DEF IInv, Sessions, ClientState, DpuState, Offered
<1>1. CASE Connect
  <2> DEFINE i == client.inc + 1
  <2>1. i \in Incarnation /\ client'.inc = i /\ dpu'.inc = i /\ dpu'.hs = "HELLO"
    BY <1>1, <1>0, MigrationAssumption DEF Connect, Fresh, NoSession, Incarnation
  <2>2. Phase[i] = "unborn" /\ \A j \in Incarnation : j < i => Phase[j] # "unborn"
    BY <2>1, <1>0, MigrationAssumption DEF Phase, Incarnation
  <2>3. Phase' = [j \in Incarnation |-> IF j = i THEN "handshake"
                                       ELSE IF j < i THEN "over" ELSE Phase[j]]
    BY <2>1, <1>0, MigrationAssumption DEF Phase, Incarnation
  <2>4. Abstract!Begin(i) BY <2>2, <2>3 DEF Abstract!Begin, Abstract!Incarnation, Incarnation
  <2> QED BY <2>1, <2>4 DEF Abstract!Next, Abstract!Incarnation, Incarnation
<1>2. CASE ClientEnds
  <2>1. client'.inc = client.inc /\ taken' = taken BY <1>2, <1>0 DEF ClientEnds, ClientState
  <2>2. CASE dpu' = dpu BY <2>1, <2>2, PhaseSame
  <2>3. CASE dpu' = NoSession BY <2>1, <2>3, Ends
  <2> QED BY <1>2, <2>2, <2>3 DEF ClientEnds
<1>3. CASE SignedFlight
  <2>1. /\ client' = client /\ taken' = taken /\ dpu.inc # 0 /\ dpu'.inc = dpu.inc
        /\ dpu.hs = "HELLO" /\ dpu'.hs = "CERTIFICATE_VERIFY"
    BY <1>3, <1>0 DEF SignedFlight, DpuState
  <2>2. Phase[dpu.inc] = "handshake" /\ Phase'[dpu.inc] = "offered"
    BY <2>1, <1>0, PhaseMoves DEF Phase
  <2> QED BY <2>1, <2>2, Advances DEF Abstract!After
<1>4. CASE SendPending
  <2>1. /\ client'.inc = client.inc /\ taken' = taken /\ dpu.inc # 0 /\ dpu'.inc = dpu.inc
        /\ dpu.hs = "CERTIFICATE_VERIFY" /\ dpu.mig /\ dpu'.hs = "FINISHED"
    BY <1>4, <1>0 DEF SendPending, DpuState, ClientState
  <2>2. Phase[dpu.inc] = "taken" /\ Phase'[dpu.inc] = "flight"
    BY <2>1, <1>0, PhaseMoves DEF Phase
  <2> QED BY <2>1, <2>2, Advances DEF Abstract!After
<1>5. CASE ClientFinished
  <2>1. /\ client'.inc = client.inc /\ taken' = taken /\ dpu.inc # 0 /\ dpu'.inc = dpu.inc
        /\ dpu.hs = "FINISHED" /\ dpu'.hs = "ACTIVE"
    BY <1>5, <1>0 DEF ClientFinished, DpuState, ClientState
  <2>2. Phase[dpu.inc] = "flight" /\ Phase'[dpu.inc] = "serving"
    BY <2>1, <1>0, PhaseMoves DEF Phase
  <2> QED BY <2>1, <2>2, Advances DEF Abstract!After
<1>6. CASE LoopVisit
  <2>1. client' = client /\ taken' = taken BY <1>6 DEF LoopVisit
  <2>2. CASE dpu' = NoSession BY <2>1, <2>2, Ends
  <2>3. CASE dpu' # NoSession
    <3>1. dpu'.inc = dpu.inc /\ dpu'.hs = dpu.hs BY <1>6, <2>3, <1>0 DEF LoopVisit, DpuState
    <3> QED BY <2>1, <3>1, PhaseSame
  <2> QED BY <2>2, <2>3
<1>7. CASE handle_key_packet
  <2> DEFINE k == Head(metas)
  <2>1. UNCHANGED <<client, dpu>> BY <1>7 DEF handle_key_packet
  <2>2. CASE taken' = taken BY <2>1, <2>2, PhaseSame
  <2>3. CASE taken' = taken \cup {k} /\ k = dpu.inc /\ dpu.inc # 0
             /\ dpu.hs = "CERTIFICATE_VERIFY" /\ k \notin taken
    <3>1. Phase[dpu.inc] = "offered" /\ Phase'[dpu.inc] = "taken"
      BY <2>1, <2>3, <1>0, PhaseMoves DEF Phase
    <3> QED BY <2>1, <2>3, <3>1, Advances DEF Abstract!After
  <2>4. CASE taken' = taken \cup {k}
             /\ ~(k = dpu.inc /\ dpu.inc # 0 /\ dpu.hs = "CERTIFICATE_VERIFY" /\ k \notin taken)
    BY <2>1, <2>4 DEF Phase, Incarnation
  <2> QED BY <1>7, <2>2, <2>3, <2>4 DEF handle_key_packet
<1>8. CASE RepeatedHello
  BY <1>8, <1>0, PhaseSame DEF RepeatedHello, send_key_meta, ClientState, DpuState
<1>9. CASE process_host_mig_fin \/ process_host_close
  BY <1>9, <1>0, PhaseSame DEF process_host_mig_fin, send_rst_conn_meta, process_host_close, DpuState
<1>10. CASE ClientVanishes BY <1>10, <1>0, PhaseSame DEF ClientVanishes, ClientState
<1>11. CASE close_tcp_conn BY <1>11, <1>0, PhaseSame DEF close_tcp_conn, HostClosed, ClientState
<1>12. CASE UNCHANGED <<client, dpu, taken>> BY <1>12, PhaseSame
<1> QED
  BY <1>1, <1>2, <1>3, <1>4, <1>5, <1>6, <1>7, <1>8, <1>9, <1>10, <1>11, <1>12
  DEF Next, vars, ClientData, ResetArrives, mig_tls_conn, send_mig_fin_to_arm, Lose

\* The initial state of Migration is that of Handover.
LEMMA InitRefines == Init => Abstract!Init
<1> SUFFICES ASSUME Init PROVE Phase = [i \in Incarnation |-> "unborn"]
  BY DEF Abstract!Init, Abstract!Incarnation, Incarnation
<1>1. client.inc = 0 BY DEF Init
<1>2. \A i \in Incarnation : i > client.inc BY <1>1, MigrationAssumption DEF Incarnation
<1> QED BY <1>2 DEF Phase

\* The SmartNIC and the host together implement Handover: the server's flight
\* goes out only after the host has opened the connection, and what the host
\* says of an older connection never moves the present one, with any losses,
\* repetitions and reconnections.
THEOREM Refinement == Spec => HandoverKept
<1>1. IInv /\ [Next]_vars => [Abstract!Next]_Phase BY StepRefines
<1> QED BY <1>1, Invariance, InitRefines, PTL DEF Spec, HandoverKept, Abstract!Spec
-----------------------------------------------------------------------------
(***************************************************************************)
(* While no ClientHello is repeated in haste, no reset and no close hits   *)
(* the connection that the client uses.                                    *)
(***************************************************************************)

\* What a queue of incarnations holds: i somewhere, nothing but i, i only as
\* the youngest packet.
Has(q, i) == \E k \in DOMAIN q : q[k] = i
Only(q, i) == \A k \in DOMAIN q : q[k] = i
AtEnd(q, i) == \A k \in DOMAIN q : q[k] = i => k = Len(q)

\* What the host's answers tell: of i, of nothing else, of nothing else once
\* they have told of i, of a close of i.
Tells(q, i) == \E k \in DOMAIN q : q[k].inc = i
TellsOnly(q, i) == \A k \in DOMAIN q : q[k].inc = i
Settles(q, i) == \A k, l \in DOMAIN q : k <= l /\ q[k].inc = i => q[l].inc = i
Closes(q, i) == \E k \in DOMAIN q : q[k].type = "CLOSE" /\ q[k].inc = i

\* The client is using the connection of the session, and was never hasty.
Present == ~hasty /\ client.st # "gone" /\ dpu.inc = client.inc

\* The packets and the host come to the present connection i in order.
InOrder(i) ==
  /\ AtEnd(metas, i) /\ Settles(toDpu, i)
  /\ Tells(toDpu, i) \/ host.inc = i => Only(metas, i)
  /\ Tells(toDpu, i) => host.inc \in {0, i}

\* With the numbers of the key meta packet in meta_hdr, nothing is under way
\* that ends the connection; from the MIG_FIN on, nothing changes meta_hdr.
Kept(i) ==
  /\ dpu.meta = "key" => ~Has(resets, i) /\ (host.inc = i => host.up) /\ ~Closes(toDpu, i)
  /\ dpu.mig => dpu.meta = "key" /\ TellsOnly(toDpu, i) /\ Only(metas, i) /\ host.inc \in {0, i}
  /\ ~dpu.ready

\* A key meta packet of i finds the host without answers about i, or with the
\* connection that it has asked for already.
Asked(i) ==
  /\ host.inc = i /\ host.st \in {"INIT", "CONNECTED"} =>
       host.up /\ ~Has(resets, i) /\ ~Tells(toDpu, i) /\ ~Has(metas, i)
  /\ Has(metas, i) /\ host.inc # i => ~Tells(toDpu, i) /\ ~Has(resets, i)
  /\ Has(metas, i) /\ host.inc = i => dpu.meta = "key" /\ TellsOnly(toDpu, i)

\* How far the client and its session have come.
Stages ==
  /\ dpu.hs \in {"FINISHED", "ACTIVE"} => dpu.mig
  /\ client.st = "done" => dpu.hs = "ACTIVE"

\* What the steps preserve together with IInv.
Undisturbed ==
  /\ host.inc # 0 => host.st # "none"
  /\ client.inc = 0 => client.st = "gone"
  /\ Present => InOrder(dpu.inc) /\ Kept(dpu.inc) /\ Asked(dpu.inc) /\ Stages


\* A packet is added to the key meta packets or the resets, or taken.
LEMMA IncQueue ==
  ASSUME NEW S, NEW q \in Seq(S), NEW i
  PROVE  /\ \A x \in S : /\ Has(Append(q, x), i) <=> Has(q, i) \/ x = i
                         /\ Only(Append(q, x), i) <=> Only(q, i) /\ x = i
                         /\ ~Has(q, i) => AtEnd(Append(q, x), i)
         /\ q # <<>> => /\ Has(q, Head(q))
                        /\ Has(Tail(q), i) => Has(q, i)
                        /\ Only(q, i) => Only(Tail(q), i) /\ Head(q) = i
                        /\ AtEnd(q, i) => AtEnd(Tail(q), i)
                        /\ AtEnd(q, i) /\ Head(q) = i => ~Has(Tail(q), i) /\ Only(Tail(q), i)
         /\ q = <<>> => ~Has(q, i) /\ Only(q, i) /\ AtEnd(q, i)
<1>1. Len(q) \in Nat /\ DOMAIN q = 1 .. Len(q) BY LenProperties
<1>2. ASSUME NEW x \in S
      PROVE  /\ Has(Append(q, x), i) <=> Has(q, i) \/ x = i
             /\ Only(Append(q, x), i) <=> Only(q, i) /\ x = i
             /\ ~Has(q, i) => AtEnd(Append(q, x), i)
  <2> DEFINE r == Append(q, x)
  <2>1. /\ Len(r) = Len(q) + 1 /\ DOMAIN r = 1 .. Len(q) + 1
        /\ \A k \in 1 .. Len(q) : r[k] = q[k]
        /\ r[Len(q) + 1] = x
    BY AppendProperties, LenProperties
  <2> HIDE DEF r
  <2>2. ASSUME NEW k \in DOMAIN r, k # Len(q) + 1 PROVE k \in DOMAIN q /\ r[k] = q[k]
    <3>1. k \in 1 .. Len(q) BY <1>1, <2>1, <2>2
    <3> QED BY <1>1, <2>1, <3>1
  <2>3. \A k \in DOMAIN q : k \in DOMAIN r /\ r[k] = q[k] BY <1>1, <2>1
  <2>4. Len(q) + 1 \in DOMAIN r BY <1>1, <2>1
  <2>5. Has(r, i) <=> Has(q, i) \/ x = i BY <2>1, <2>2, <2>3, <2>4 DEF Has
  <2>6. Only(r, i) <=> Only(q, i) /\ x = i BY <2>1, <2>2, <2>3, <2>4 DEF Only
  <2>7. ~Has(q, i) => AtEnd(r, i) BY <2>1, <2>2 DEF Has, AtEnd
  <2> QED BY <2>5, <2>6, <2>7 DEF r
<1>3. ASSUME q # <<>>
      PROVE  /\ Has(q, Head(q)) /\ (Has(Tail(q), i) => Has(q, i))
             /\ Only(q, i) => Only(Tail(q), i) /\ Head(q) = i
             /\ AtEnd(q, i) => AtEnd(Tail(q), i)
             /\ AtEnd(q, i) /\ Head(q) = i => ~Has(Tail(q), i) /\ Only(Tail(q), i)
  <2> DEFINE r == Tail(q)
  <2>1. /\ Len(q) # 0 /\ Len(r) = Len(q) - 1 /\ DOMAIN r = 1 .. Len(q) - 1
        /\ \A k \in 1 .. Len(q) - 1 : r[k] = q[k + 1]
        /\ Head(q) = q[1]
    BY <1>1, <1>3, HeadTailProperties, LenProperties, EmptySeq
  <2> HIDE DEF r
  <2>2. 1 \in DOMAIN q BY <1>1, <2>1
  <2>3. \A k \in DOMAIN r : k \in Nat /\ k + 1 \in DOMAIN q /\ r[k] = q[k + 1] /\ 1 # Len(q)
    BY <1>1, <2>1
  <2>4. Has(q, Head(q)) BY <2>1, <2>2 DEF Has
  <2>5. Has(r, i) => Has(q, i) BY <2>3 DEF Has
  <2>6. Only(q, i) => Only(r, i) /\ Head(q) = i BY <2>1, <2>2, <2>3 DEF Only
  <2>7. AtEnd(q, i) => AtEnd(r, i)
    <3>1. ASSUME AtEnd(q, i), NEW k \in DOMAIN r, r[k] = i PROVE k = Len(r)
      <4>1. k + 1 = Len(q) BY <2>3, <3>1 DEF AtEnd
      <4> QED BY <1>1, <2>1, <2>3, <4>1
    <3> QED BY <3>1 DEF AtEnd
  <2>8. AtEnd(q, i) /\ Head(q) = i => DOMAIN r = {}
    BY <2>1, <2>2, <2>3 DEF AtEnd
  <2>9. AtEnd(q, i) /\ Head(q) = i => ~Has(r, i) /\ Only(r, i) BY <2>8 DEF Has, Only
  <2> QED BY <2>4, <2>5, <2>6, <2>7, <2>9 DEF r
<1>4. q = <<>> => ~Has(q, i) /\ Only(q, i) /\ AtEnd(q, i) BY EmptySeq DEF Has, Only, AtEnd
<1> QED BY <1>2, <1>3, <1>4

\* The same for the answers of the host.
LEMMA AnswerQueue ==
  ASSUME NEW S, NEW q \in Seq(S), NEW i
  PROVE  /\ \A x \in S : /\ Tells(Append(q, x), i) <=> Tells(q, i) \/ x.inc = i
                         /\ TellsOnly(Append(q, x), i) <=> TellsOnly(q, i) /\ x.inc = i
                         /\ Settles(q, i) /\ (x.inc = i \/ ~Tells(q, i)) => Settles(Append(q, x), i)
                         /\ Closes(Append(q, x), i) <=> Closes(q, i) \/ (x.type = "CLOSE" /\ x.inc = i)
         /\ q # <<>> => /\ Head(q).inc = i => Tells(q, i)
                        /\ Head(q).type = "CLOSE" /\ Head(q).inc = i => Closes(q, i)
                        /\ Tells(Tail(q), i) => Tells(q, i)
                        /\ Closes(Tail(q), i) => Closes(q, i)
                        /\ TellsOnly(q, i) => TellsOnly(Tail(q), i) /\ Head(q).inc = i
                        /\ Settles(q, i) => Settles(Tail(q), i)
                        /\ Settles(q, i) /\ Head(q).inc = i => TellsOnly(Tail(q), i)
         /\ q = <<>> => ~Tells(q, i) /\ TellsOnly(q, i) /\ Settles(q, i) /\ ~Closes(q, i)
<1>1. Len(q) \in Nat /\ DOMAIN q = 1 .. Len(q) BY LenProperties
<1>2. ASSUME NEW x \in S
      PROVE  /\ Tells(Append(q, x), i) <=> Tells(q, i) \/ x.inc = i
             /\ TellsOnly(Append(q, x), i) <=> TellsOnly(q, i) /\ x.inc = i
             /\ Settles(q, i) /\ (x.inc = i \/ ~Tells(q, i)) => Settles(Append(q, x), i)
             /\ Closes(Append(q, x), i) <=> Closes(q, i) \/ (x.type = "CLOSE" /\ x.inc = i)
  <2> DEFINE r == Append(q, x)
  <2>1. /\ DOMAIN r = 1 .. Len(q) + 1 /\ r[Len(q) + 1] = x
        /\ \A k \in 1 .. Len(q) : r[k] = q[k]
    BY AppendProperties, LenProperties
  <2> HIDE DEF r
  <2>2. ASSUME NEW k \in DOMAIN r, k # Len(q) + 1 PROVE k \in DOMAIN q /\ r[k] = q[k]
    <3>1. k \in 1 .. Len(q) BY <1>1, <2>1, <2>2
    <3> QED BY <1>1, <2>1, <3>1
  <2>3. \A k \in DOMAIN q : k \in DOMAIN r /\ r[k] = q[k] BY <1>1, <2>1
  <2>4. Len(q) + 1 \in DOMAIN r BY <1>1, <2>1
  <2>5. Tells(r, i) <=> Tells(q, i) \/ x.inc = i BY <2>1, <2>2, <2>3, <2>4 DEF Tells
  <2>6. TellsOnly(r, i) <=> TellsOnly(q, i) /\ x.inc = i BY <2>1, <2>2, <2>3, <2>4 DEF TellsOnly
  <2>7. ASSUME Settles(q, i), x.inc = i \/ ~Tells(q, i), NEW k \in DOMAIN r, NEW l \in DOMAIN r,
               k <= l, r[k].inc = i
        PROVE  r[l].inc = i
    <3>1. CASE l = Len(q) + 1 /\ k = Len(q) + 1 BY <2>7, <3>1
    <3>2. CASE l = Len(q) + 1 /\ k \in DOMAIN q
      <4>1. Tells(q, i) BY <2>3, <2>7, <3>2 DEF Tells
      <4> QED BY <2>1, <2>7, <3>2, <4>1
    <3>3. CASE l \in DOMAIN q
      <4>1. k \in DOMAIN q BY <1>1, <2>1, <2>7, <3>3
      <4> QED BY <2>3, <2>7, <3>3, <4>1 DEF Settles
    <3> QED BY <2>2, <3>1, <3>2, <3>3
  <2>8. Closes(r, i) <=> Closes(q, i) \/ (x.type = "CLOSE" /\ x.inc = i)
    BY <2>1, <2>2, <2>3, <2>4 DEF Closes
  <2> QED BY <2>5, <2>6, <2>7, <2>8 DEF r, Settles
<1>3. ASSUME q # <<>>
      PROVE  /\ Head(q).inc = i => Tells(q, i)
             /\ Head(q).type = "CLOSE" /\ Head(q).inc = i => Closes(q, i)
             /\ Tells(Tail(q), i) => Tells(q, i)
             /\ Closes(Tail(q), i) => Closes(q, i)
             /\ TellsOnly(q, i) => TellsOnly(Tail(q), i) /\ Head(q).inc = i
             /\ Settles(q, i) => Settles(Tail(q), i)
             /\ Settles(q, i) /\ Head(q).inc = i => TellsOnly(Tail(q), i)
  <2> DEFINE r == Tail(q)
  <2>1. /\ Len(q) # 0 /\ DOMAIN r = 1 .. Len(q) - 1 /\ Head(q) = q[1]
        /\ \A k \in 1 .. Len(q) - 1 : r[k] = q[k + 1]
    BY <1>1, <1>3, HeadTailProperties, LenProperties, EmptySeq
  <2> HIDE DEF r
  <2>2. 1 \in DOMAIN q BY <1>1, <2>1
  <2>3. \A k \in DOMAIN r : k \in Nat /\ k + 1 \in DOMAIN q /\ r[k] = q[k + 1] /\ 1 <= k + 1
    BY <1>1, <2>1
  <2>4. Head(q).inc = i => Tells(q, i) BY <2>1, <2>2 DEF Tells
  <2>5. Head(q).type = "CLOSE" /\ Head(q).inc = i => Closes(q, i) BY <2>1, <2>2 DEF Closes
  <2>6. Tells(r, i) => Tells(q, i) BY <2>3 DEF Tells
  <2>7. Closes(r, i) => Closes(q, i) BY <2>3 DEF Closes
  <2>8. TellsOnly(q, i) => TellsOnly(r, i) /\ Head(q).inc = i BY <2>1, <2>2, <2>3 DEF TellsOnly
  <2>9. ASSUME Settles(q, i), NEW k \in DOMAIN r, NEW l \in DOMAIN r, k <= l, r[k].inc = i
        PROVE  r[l].inc = i
    <3>1. k + 1 <= l + 1 BY <2>3, <2>9
    <3> QED BY <2>3, <2>9, <3>1 DEF Settles
  <2>10. Settles(q, i) /\ Head(q).inc = i => TellsOnly(r, i)
    BY <2>1, <2>2, <2>3 DEF Settles, TellsOnly
  <2> QED BY <2>4, <2>5, <2>6, <2>7, <2>8, <2>9, <2>10 DEF r, Settles
<1>4. q = <<>> => ~Tells(q, i) /\ TellsOnly(q, i) /\ Settles(q, i) /\ ~Closes(q, i)
  BY EmptySeq DEF Tells, TellsOnly, Settles, Closes
<1> QED BY <1>2, <1>3, <1>4


\* What the invariants say while the client uses the connection of its
\* session.
LEMMA PresentFacts ==
  ASSUME IInv, Undisturbed, Present
  PROVE  /\ InOrder(dpu.inc) /\ Kept(dpu.inc) /\ Asked(dpu.inc) /\ Stages
         /\ client \in ClientState /\ dpu \in DpuState /\ host \in HostState
         /\ dpu.inc # 0 /\ dpu.inc \in Nat
         /\ metas \in Seq(Offered) /\ resets \in Seq(taken) /\ toDpu \in Seq(Answer(taken))
         /\ host.inc # 0 => host.inc \in taken /\ host.st # "none"
         /\ dpu.hs = "HELLO" => /\ dpu.inc \notin taken /\ ~Has(metas, dpu.inc)
                                /\ ~Has(resets, dpu.inc) /\ ~Tells(toDpu, dpu.inc)
                                /\ ~Closes(toDpu, dpu.inc)
<1>1. /\ client \in ClientState /\ dpu \in DpuState /\ host \in HostState
      /\ metas \in Seq(Offered) /\ resets \in Seq(taken) /\ toDpu \in Seq(Answer(taken))
      /\ taken \subseteq Offered
  BY DEF IInv, Sessions, Queues
<1>2. dpu.inc # 0 /\ dpu.inc \in Nat BY <1>1, MigrationAssumption DEF Undisturbed, Present, DpuState
<1>3. ASSUME dpu.hs = "HELLO"
      PROVE  /\ dpu.inc \notin taken /\ ~Has(metas, dpu.inc)
             /\ ~Has(resets, dpu.inc) /\ ~Tells(toDpu, dpu.inc) /\ ~Closes(toDpu, dpu.inc)
  <2>1. dpu.inc \notin Offered /\ dpu.inc \notin taken BY <1>1, <1>3, Zenon DEF Offered
  <2>2. \A k \in DOMAIN metas : metas[k] \in Offered BY <1>1, ElementOfSeq, LenProperties
  <2>3. \A k \in DOMAIN resets : resets[k] \in taken BY <1>1, ElementOfSeq, LenProperties
  <2>4. \A k \in DOMAIN toDpu : toDpu[k].inc \in taken
    <3>1. \A k \in DOMAIN toDpu : toDpu[k] \in Answer(taken) BY <1>1, ElementOfSeq, LenProperties
    <3> QED BY <3>1 DEF Answer
  <2>5. ~Has(metas, dpu.inc) BY <2>1, <2>2 DEF Has
  <2>6. ~Has(resets, dpu.inc) BY <2>1, <2>3 DEF Has
  <2>7. ~Tells(toDpu, dpu.inc) /\ ~Closes(toDpu, dpu.inc) BY <2>1, <2>4 DEF Tells, Closes
  <2> QED BY <2>1, <2>5, <2>6, <2>7
<1> QED BY <1>1, <1>2, <1>3 DEF Undisturbed, IInv, Sessions

\* A new connection: nothing has been said of it yet.
LEMMA ConnectUndisturbed ==
  ASSUME IInv, Connect
  PROVE  (InOrder(dpu.inc) /\ Kept(dpu.inc) /\ Asked(dpu.inc) /\ Stages)'
<1> DEFINE i == client.inc + 1
<1>1. /\ dpu' = Fresh(i) /\ client'.st = "hello"
      /\ UNCHANGED <<host, metas, resets, toDpu, taken, hasty>>
  BY DEF Connect
<1>2. /\ dpu'.inc = i /\ dpu'.hs = "HELLO" /\ dpu'.meta = "none" /\ ~dpu'.mig /\ ~dpu'.ready
  BY <1>1 DEF Fresh, NoSession
<1>3. /\ client.inc \in Nat /\ host.inc \in Nat /\ taken \subseteq 1 .. client.inc
      /\ metas \in Seq(Offered) /\ toDpu \in Seq(Answer(taken)) /\ Offered \subseteq 1 .. client.inc
      /\ host.inc # 0 => host.inc \in taken
  BY MigrationAssumption DEF IInv, Sessions, Queues, ClientState, HostState, Offered
<1>4. i \notin Offered /\ i \notin taken /\ host.inc # i BY <1>3
<1>5. ~Has(metas, i) /\ AtEnd(metas, i)
  <2>1. \A k \in DOMAIN metas : metas[k] \in Offered BY <1>3, ElementOfSeq, LenProperties
  <2> QED BY <1>4, <2>1 DEF Has, AtEnd
<1>6. ~Tells(toDpu, i) /\ Settles(toDpu, i)
  <2>1. \A k \in DOMAIN toDpu : toDpu[k] \in Answer(taken) BY <1>3, ElementOfSeq, LenProperties
  <2> QED BY <1>4, <2>1 DEF Tells, Settles, Answer
<1> HIDE DEF i
<1> QED BY <1>1, <1>2, <1>4, <1>5, <1>6 DEF InOrder, Kept, Asked, Stages

\* The steps of the client and of the SmartNIC's own loop.
LEMMA SessionUndisturbed ==
  ASSUME IInv, Undisturbed, Present,
         \/ ClientData \/ SignedFlight \/ SendPending \/ RepeatedHello \/ ClientFinished \/ LoopVisit,
         ~hasty'
  PROVE  (InOrder(dpu.inc) /\ Kept(dpu.inc) /\ Asked(dpu.inc) /\ Stages)'
<1> DEFINE i == dpu.inc
           Inv == InOrder(i) /\ Kept(i) /\ Asked(i) /\ Stages
<1>0. /\ Inv /\ client \in ClientState /\ dpu \in DpuState /\ host \in HostState
      /\ i \in Nat /\ i # 0
      /\ host.inc # 0 => host.inc \in taken /\ host.st # "none"
      /\ dpu.hs = "HELLO" => /\ i \notin taken /\ ~Has(metas, i)
                             /\ ~Has(resets, i) /\ ~Tells(toDpu, i) /\ ~Closes(toDpu, i)
  BY PresentFacts
<1>1. metas \in Seq(Incarnation) /\ resets \in Seq(Incarnation) /\ toDpu \in Seq(ToDpu)
  BY InvType DEF TypeOK
<1>2. i \in Incarnation BY <1>0, MigrationAssumption DEF DpuState, Incarnation
<1>3. /\ Has(Append(metas, i), i)
      /\ Only(metas, i) => Only(Append(metas, i), i)
      /\ ~Has(metas, i) => AtEnd(Append(metas, i), i)
  BY <1>1, <1>2, IncQueue
<1>4. CASE ClientData
  <2>1. /\ UNCHANGED <<client, dpu, metas, resets, toDpu>>
        /\ host'.inc = host.inc /\ host'.st = host.st /\ host'.up = host.up
    BY <1>0, <1>4, Zenon DEF ClientData, HostState
  <2> QED BY <1>0, <2>1 DEF InOrder, Kept, Asked, Stages
<1>5. CASE SignedFlight
  <2>1. /\ UNCHANGED <<client, host, resets, toDpu>> /\ metas' = Append(metas, i)
        /\ dpu.hs = "HELLO" /\ dpu'.inc = i /\ dpu'.hs = "CERTIFICATE_VERIFY" /\ dpu'.meta = "key"
        /\ dpu'.mig = dpu.mig /\ dpu'.ready = dpu.ready
    BY <1>0, <1>5 DEF SignedFlight, DpuState
  <2>2. ~dpu.mig BY <1>0, <2>1 DEF IInv, Sessions
  <2>3. host.inc # i BY <1>0, <2>1
  <2> HIDE DEF i
  <2> QED BY <1>0, <1>3, <2>1, <2>2, <2>3 DEF InOrder, Kept, Asked, Stages
<1>6. CASE SendPending
  <2>1. /\ UNCHANGED <<host, metas, resets, toDpu>>
        /\ dpu.mig /\ dpu.hs = "CERTIFICATE_VERIFY"
        /\ dpu'.inc = i /\ dpu'.hs = "FINISHED" /\ dpu'.meta = dpu.meta
        /\ dpu'.mig = dpu.mig /\ dpu'.ready = dpu.ready
    BY <1>0, <1>6, Zenon DEF SendPending, DpuState
  <2>2. client'.st = "done" => client.st = "done" BY <1>0, <1>6 DEF SendPending, ClientState
  <2> HIDE DEF i
  <2> QED BY <1>0, <2>1, <2>2 DEF InOrder, Kept, Asked, Stages
<1>7. CASE RepeatedHello
  <2>1. CASE dpu.hs = "CERTIFICATE_VERIFY"
    <3>1. /\ UNCHANGED <<client, host, resets, toDpu>> /\ metas' = Append(metas, i) /\ Answered
          /\ dpu'.inc = i /\ dpu'.hs = dpu.hs /\ dpu'.meta = "key"
          /\ dpu'.mig = dpu.mig /\ dpu'.ready = dpu.ready
      BY <1>0, <1>7, <2>1, Zenon DEF RepeatedHello, send_key_meta, DpuState
    <3>2. metas = <<>> /\ resets = <<>> /\ toDpu = <<>> BY <3>1 DEF Answered
    <3>3. ~Has(metas, i) /\ Only(metas, i) /\ ~Has(resets, i) BY <1>1, <3>2, IncQueue, Zenon
    <3>4. ~Tells(toDpu, i) /\ TellsOnly(toDpu, i) /\ Settles(toDpu, i) /\ ~Closes(toDpu, i)
      BY <1>1, <3>2, AnswerQueue, Zenon
    <3>5. host.inc = i => host.st = "READY" /\ host.up
      BY <1>0, <3>1 DEF Answered, HostState, Asked
    <3> HIDE DEF i
    <3> QED BY <1>0, <1>3, <3>1, <3>3, <3>4, <3>5 DEF InOrder, Kept, Asked, Stages
  <2>2. CASE dpu.hs = "FINISHED"
    <3>1. UNCHANGED <<dpu, host, metas, resets, toDpu>> /\ client'.st = "flight"
      BY <1>0, <1>7, <2>2 DEF RepeatedHello, ClientState
    <3> QED BY <1>0, <3>1 DEF InOrder, Kept, Asked, Stages
  <2> QED BY <1>7, <2>1, <2>2 DEF RepeatedHello
<1>8. CASE ClientFinished
  <2>1. /\ UNCHANGED <<host, metas, resets, toDpu>> /\ dpu.hs = "FINISHED"
        /\ dpu'.inc = i /\ dpu'.hs = "ACTIVE" /\ dpu'.meta = dpu.meta
        /\ dpu'.mig = dpu.mig /\ dpu'.ready = dpu.ready
    BY <1>0, <1>8 DEF ClientFinished, DpuState
  <2> HIDE DEF i
  <2> QED BY <1>0, <2>1 DEF InOrder, Kept, Asked, Stages
<1>9. CASE LoopVisit
  <2>1. ~dpu.ready BY <1>0 DEF Kept
  <2>2. /\ UNCHANGED <<client, host, metas, resets, toDpu>>
        /\ dpu'.inc = i /\ dpu'.hs = dpu.hs /\ dpu'.meta = dpu.meta
        /\ dpu'.mig = dpu.mig /\ dpu'.ready = dpu.ready
    BY <1>0, <1>9, <2>1, Zenon DEF LoopVisit, DpuState
  <2> HIDE DEF i
  <2> QED BY <1>0, <2>2 DEF InOrder, Kept, Asked, Stages
<1> QED BY <1>4, <1>5, <1>6, <1>7, <1>8, <1>9

\* A packet from the host is taken by the SmartNIC.
LEMMA AnswerUndisturbed ==
  ASSUME IInv, Undisturbed, Present, process_host_mig_fin \/ process_host_close
  PROVE  (InOrder(dpu.inc) /\ Kept(dpu.inc) /\ Asked(dpu.inc) /\ Stages)'
<1> DEFINE i == dpu.inc
           Inv == InOrder(i) /\ Kept(i) /\ Asked(i) /\ Stages
           m == Head(toDpu)
           T == Tail(toDpu)
<1>0. /\ Inv /\ client \in ClientState /\ dpu \in DpuState /\ host \in HostState
      /\ i \in Nat /\ i # 0
      /\ host.inc # 0 => host.st # "none"
  BY PresentFacts
<1>1. metas \in Seq(Incarnation) /\ resets \in Seq(Incarnation) /\ toDpu \in Seq(ToDpu)
  BY InvType DEF TypeOK
<1>2. toDpu # <<>> /\ toDpu' = T /\ UNCHANGED <<client, host, metas>>
  BY DEF process_host_mig_fin, process_host_close
<1>3. /\ m.inc = i => Tells(toDpu, i)
      /\ m.type = "CLOSE" /\ m.inc = i => Closes(toDpu, i)
      /\ Tells(T, i) => Tells(toDpu, i)
      /\ Closes(T, i) => Closes(toDpu, i)
      /\ TellsOnly(toDpu, i) => TellsOnly(T, i) /\ m.inc = i
      /\ Settles(toDpu, i) => Settles(T, i)
      /\ Settles(toDpu, i) /\ m.inc = i => TellsOnly(T, i)
  BY <1>1, <1>2, AnswerQueue
<1>4. m.inc \in Incarnation
  <2>1. m \in ToDpu BY <1>1, <1>2, HeadTailProperties
  <2> QED BY <2>1 DEF ToDpu
<1>5. Has(Append(resets, m.inc), i) <=> Has(resets, i) \/ m.inc = i
  <2> DEFINE n == m.inc
  <2>1. n \in Incarnation BY <1>4
  <2> HIDE DEF n, i
  <2>2. Has(Append(resets, n), i) <=> Has(resets, i) \/ n = i BY <1>1, <2>1, IncQueue
  <2> QED BY <2>2 DEF n
<1>9. dpu.inc # 0 BY <1>0
<1>6. CASE process_host_mig_fin /\ Matches(m)
  <2>1. /\ dpu.meta = "key" /\ m.inc = i /\ resets' = resets
        /\ dpu'.inc = i /\ dpu'.hs = dpu.hs /\ dpu'.meta = dpu.meta /\ dpu'.mig
        /\ dpu'.ready = dpu.ready
    <3>1. dpu.meta = "key" /\ m.inc = i BY <1>6 DEF Matches
    <3>2. dpu' = [dpu EXCEPT !.mig = TRUE] /\ resets' = resets
      BY <1>6, <1>9, Zenon DEF process_host_mig_fin
    <3> HIDE DEF m
    <3> QED BY <1>0, <3>1, <3>2 DEF DpuState
  <2> HIDE DEF i, m, T
  <2> QED BY <1>0, <1>2, <1>3, <2>1 DEF InOrder, Kept, Asked, Stages
<1>7. CASE process_host_mig_fin /\ ~Matches(m)
  <2>1. /\ dpu.meta = "key" => m.inc # i
        /\ resets' = Append(resets, m.inc)
        /\ dpu'.inc = i /\ dpu'.hs = dpu.hs /\ dpu'.meta = "rst" /\ dpu'.mig = dpu.mig
        /\ dpu'.ready = dpu.ready
    <3>1. dpu.meta = "key" => m.inc # i BY <1>7 DEF Matches
    <3>2. dpu' = [dpu EXCEPT !.meta = "rst"] /\ resets' = Append(resets, m.inc)
      BY <1>7, <1>9, Zenon DEF process_host_mig_fin, send_raw_reset, send_rst_conn_meta
    <3> HIDE DEF m
    <3> QED BY <1>0, <3>1, <3>2 DEF DpuState
  <2> HIDE DEF i, m, T
  <2>2. ~dpu.mig BY <1>0, <1>3, <2>1 DEF Kept
  <2> QED BY <1>0, <1>2, <1>3, <1>5, <2>1, <2>2 DEF InOrder, Kept, Asked, Stages
<1>8. CASE process_host_close
  <2>1. ~Matches(m) BY <1>0, <1>3, <1>8 DEF process_host_close, Matches, Kept
  <2>2. /\ resets' = resets
        /\ dpu'.inc = i /\ dpu'.hs = dpu.hs /\ dpu'.meta = dpu.meta /\ dpu'.mig = dpu.mig
        /\ ~dpu'.ready
    BY <1>0, <1>8, <2>1 DEF process_host_close, DpuState, Kept
  <2> HIDE DEF i, m, T
  <2> QED BY <1>0, <1>2, <1>3, <2>2 DEF InOrder, Kept, Asked, Stages
<1> QED BY <1>6, <1>7, <1>8

\* The host takes a key meta packet, or a reset arrives, or a packet is lost.
LEMMA PacketUndisturbed ==
  ASSUME IInv, Undisturbed, Present, handle_key_packet \/ ResetArrives \/ Lose
  PROVE  (InOrder(dpu.inc) /\ Kept(dpu.inc) /\ Asked(dpu.inc) /\ Stages)'
<1> DEFINE i == dpu.inc
           Inv == InOrder(i) /\ Kept(i) /\ Asked(i) /\ Stages
           a == [type |-> "MIG_FIN", inc |-> host.inc]
<1>0. /\ Inv /\ client \in ClientState /\ dpu \in DpuState /\ host \in HostState
      /\ i \in Nat /\ i # 0
      /\ host.inc # 0 => host.st # "none"
  BY PresentFacts
<1>1. metas \in Seq(Incarnation) /\ resets \in Seq(Incarnation) /\ toDpu \in Seq(ToDpu)
  BY InvType DEF TypeOK
<1>2. UNCHANGED <<client, dpu>> BY DEF handle_key_packet, ResetArrives, Lose
<1>3. ASSUME metas # <<>>
      PROVE  /\ Head(metas) \in Nat
             /\ Has(metas, Head(metas))
             /\ Has(Tail(metas), i) => Has(metas, i)
             /\ Only(metas, i) => Only(Tail(metas), i) /\ Head(metas) = i
             /\ AtEnd(metas, i) => AtEnd(Tail(metas), i)
             /\ AtEnd(metas, i) /\ Head(metas) = i => ~Has(Tail(metas), i) /\ Only(Tail(metas), i)
  <2>1. Head(metas) \in Incarnation BY <1>1, <1>3, HeadTailProperties
  <2>2. Head(metas) \in Nat BY <2>1, MigrationAssumption DEF Incarnation
  <2> QED BY <1>1, <1>3, <2>2, IncQueue
<1>4. ASSUME resets # <<>>
      PROVE  /\ Has(resets, Head(resets))
             /\ Has(Tail(resets), i) => Has(resets, i)
  BY <1>1, <1>4, IncQueue
<1>5. ASSUME toDpu # <<>>
      PROVE  /\ Tells(Tail(toDpu), i) => Tells(toDpu, i)
             /\ Closes(Tail(toDpu), i) => Closes(toDpu, i)
             /\ TellsOnly(toDpu, i) => TellsOnly(Tail(toDpu), i)
             /\ Settles(toDpu, i) => Settles(Tail(toDpu), i)
  BY <1>1, <1>5, AnswerQueue
<1>6. CASE handle_key_packet
  <2>0. metas # <<>> /\ metas' = Tail(metas) /\ resets' = resets BY <1>6 DEF handle_key_packet
  <2>1. CASE host.inc # 0
    <3>1. toDpu' = Append(toDpu, a) /\ UNCHANGED host
      BY <1>6, <2>1 DEF handle_key_packet, SendDpu
    <3>2. a \in ToDpu BY <1>0, <2>1, MigrationAssumption DEF ToDpu, HostState, Incarnation
    <3>3. a.inc = host.inc /\ a.type # "CLOSE" OBVIOUS
    <3> HIDE DEF a
    <3>4. /\ Tells(toDpu', i) <=> Tells(toDpu, i) \/ host.inc = i
          /\ TellsOnly(toDpu', i) <=> TellsOnly(toDpu, i) /\ host.inc = i
          /\ Settles(toDpu, i) /\ (host.inc = i \/ ~Tells(toDpu, i)) => Settles(toDpu', i)
          /\ Closes(toDpu', i) <=> Closes(toDpu, i)
      BY <1>1, <3>1, <3>2, <3>3, AnswerQueue
    <3>5. Tells(toDpu, i) => host.inc = i BY <1>0, <2>1 DEF InOrder
    <3>6. InOrder(dpu.inc)' BY <1>0, <1>2, <1>3, <2>0, <3>1, <3>4, <3>5 DEF InOrder
    <3>7. Kept(dpu.inc)' BY <1>0, <1>2, <1>3, <2>0, <2>1, <3>1, <3>4 DEF Kept
    <3>8. Asked(dpu.inc)' BY <1>0, <1>2, <1>3, <2>0, <3>1, <3>4 DEF Asked, InOrder
    <3> QED BY <1>0, <1>2, <3>6, <3>7, <3>8 DEF Stages
  <2>2. CASE host.inc = 0
    <3>1. /\ toDpu' = toDpu
          /\ host'.inc = Head(metas) /\ host'.st = "INIT" /\ host'.up
      BY <1>6, <2>2 DEF handle_key_packet
    <3>2. InOrder(dpu.inc)' BY <1>0, <1>2, <1>3, <2>0, <2>2, <3>1 DEF InOrder
    <3>3. Kept(dpu.inc)' BY <1>0, <1>2, <1>3, <2>0, <2>2, <3>1 DEF Kept
    <3>4. Asked(dpu.inc)'
      <4>1. CASE Head(metas) = i BY <1>0, <1>2, <1>3, <2>0, <2>2, <3>1, <4>1 DEF Asked, InOrder
      <4>2. CASE Head(metas) # i BY <1>0, <1>2, <1>3, <2>0, <2>2, <3>1, <4>2 DEF Asked
      <4> QED BY <4>1, <4>2
    <3> QED BY <1>0, <1>2, <3>2, <3>3, <3>4 DEF Stages
  <2> QED BY <2>1, <2>2
<1>7. CASE ResetArrives
  <2>1. /\ resets # <<>> /\ resets' = Tail(resets) /\ UNCHANGED <<metas, toDpu>>
        /\ host'.inc = host.inc /\ host'.st = host.st
        /\ host.inc # Head(resets) => host'.up = host.up
    BY <1>0, <1>7 DEF ResetArrives, HostState
  <2>2. host.inc = i /\ ~Has(resets, i) => host'.up = host.up BY <1>4, <2>1
  <2> HIDE DEF i
  <2> QED BY <1>0, <1>2, <1>4, <2>1, <2>2 DEF i, InOrder, Kept, Asked, Stages
<1>8. CASE Lose
  <2>0. UNCHANGED host BY <1>8 DEF Lose
  <2>1. CASE metas # <<>> /\ metas' = Tail(metas) /\ UNCHANGED <<resets, toDpu>>
    BY <1>0, <1>2, <1>3, <2>0, <2>1 DEF InOrder, Kept, Asked, Stages
  <2>2. CASE resets # <<>> /\ resets' = Tail(resets) /\ UNCHANGED <<metas, toDpu>>
    BY <1>0, <1>2, <1>4, <2>0, <2>2 DEF InOrder, Kept, Asked, Stages
  <2>3. CASE toDpu # <<>> /\ toDpu' = Tail(toDpu) /\ UNCHANGED <<metas, resets>>
    BY <1>0, <1>2, <1>5, <2>0, <2>3 DEF InOrder, Kept, Asked, Stages
  <2> QED BY <1>8, <2>1, <2>2, <2>3 DEF Lose
<1> QED BY <1>6, <1>7, <1>8

\* The steps of the host's own loop, while the client stays.
LEMMA HostUndisturbed ==
  ASSUME IInv, Undisturbed, Present, mig_tls_conn \/ send_mig_fin_to_arm \/ close_tcp_conn,
         client'.st # "gone"
  PROVE  (InOrder(dpu.inc) /\ Kept(dpu.inc) /\ Asked(dpu.inc) /\ Stages)'
<1> DEFINE i == dpu.inc
           Inv == InOrder(i) /\ Kept(i) /\ Asked(i) /\ Stages
           a(t) == [type |-> t, inc |-> host.inc]
<1>0. /\ Inv /\ client \in ClientState /\ dpu \in DpuState /\ host \in HostState
      /\ i \in Nat /\ i # 0
  BY PresentFacts
<1>1. toDpu \in Seq(ToDpu) BY InvType DEF TypeOK
<1>2. UNCHANGED <<dpu, metas, resets>> BY DEF mig_tls_conn, send_mig_fin_to_arm, close_tcp_conn
<1>3. host.inc # 0 /\ host.inc \in Incarnation
  <2>1. host.st # "none" BY DEF mig_tls_conn, send_mig_fin_to_arm, close_tcp_conn
  <2>2. host.inc # 0 BY <2>1 DEF IInv, Sessions
  <2> QED BY <1>0, <2>2, MigrationAssumption DEF HostState, Incarnation
<1>4. ASSUME NEW t \in {"MIG_FIN", "CLOSE"}, toDpu' = Append(toDpu, a(t))
      PROVE  /\ Tells(toDpu', i) <=> Tells(toDpu, i) \/ host.inc = i
             /\ TellsOnly(toDpu', i) <=> TellsOnly(toDpu, i) /\ host.inc = i
             /\ Settles(toDpu, i) /\ (host.inc = i \/ ~Tells(toDpu, i)) => Settles(toDpu', i)
             /\ Closes(toDpu', i) <=> Closes(toDpu, i) \/ (t = "CLOSE" /\ host.inc = i)
  <2> DEFINE x == a(t)
  <2>1. x \in ToDpu /\ x.inc = host.inc /\ x.type = t BY <1>3 DEF ToDpu
  <2>2. toDpu' = Append(toDpu, x) BY <1>4
  <2> HIDE DEF x, i
  <2>3. /\ Tells(Append(toDpu, x), i) <=> Tells(toDpu, i) \/ x.inc = i
        /\ TellsOnly(Append(toDpu, x), i) <=> TellsOnly(toDpu, i) /\ x.inc = i
        /\ Settles(toDpu, i) /\ (x.inc = i \/ ~Tells(toDpu, i)) => Settles(Append(toDpu, x), i)
        /\ Closes(Append(toDpu, x), i) <=> Closes(toDpu, i) \/ (x.type = "CLOSE" /\ x.inc = i)
    BY <1>1, <2>1, AnswerQueue, Zenon
  <2> QED BY <2>1, <2>2, <2>3
<1>5. Tells(toDpu, i) => host.inc = i BY <1>0, <1>3 DEF InOrder
<1>6. dpu.mig => host.inc = i BY <1>0, <1>3 DEF Kept
<1>7. CASE mig_tls_conn
  <2>1. /\ UNCHANGED <<client, toDpu>> /\ host.st = "INIT"
        /\ host'.inc = host.inc /\ host'.st = "CONNECTED" /\ host'.up = host.up
    BY <1>0, <1>7, Zenon DEF mig_tls_conn, HostState
  <2> QED BY <1>0, <1>2, <2>1 DEF InOrder, Kept, Asked, Stages
<1>8. CASE send_mig_fin_to_arm
  <2>1. /\ client' = client /\ host.st = "CONNECTED" /\ toDpu' = Append(toDpu, a("MIG_FIN"))
        /\ host'.inc = host.inc /\ host'.st = "READY" /\ host'.up = host.up
    BY <1>0, <1>8 DEF send_mig_fin_to_arm, SendDpu, HostState
  <2>2. /\ Tells(toDpu', i) <=> Tells(toDpu, i) \/ host.inc = i
        /\ TellsOnly(toDpu', i) <=> TellsOnly(toDpu, i) /\ host.inc = i
        /\ Settles(toDpu, i) /\ (host.inc = i \/ ~Tells(toDpu, i)) => Settles(toDpu', i)
        /\ Closes(toDpu', i) <=> Closes(toDpu, i)
    BY <1>4, <2>1
  <2>3. InOrder(dpu.inc)' BY <1>0, <1>2, <1>5, <2>1, <2>2 DEF InOrder
  <2>4. Kept(dpu.inc)' BY <1>0, <1>2, <1>6, <2>1, <2>2 DEF Kept
  <2>5. Asked(dpu.inc)' BY <1>0, <1>2, <2>1, <2>2 DEF Asked
  <2> QED BY <1>0, <1>2, <2>1, <2>3, <2>4, <2>5 DEF Stages
<1>9. CASE close_tcp_conn
  <2>1. /\ toDpu' = Append(toDpu, a("CLOSE")) /\ host'.inc = 0 /\ HostClosed
    BY <1>9 DEF close_tcp_conn, SendDpu, NoConn
  <2>2. client'.st = client.st /\ (host.inc = i => ~host.up)
    BY <1>0, <2>1 DEF HostClosed, ClientState, Present
  <2>3. /\ Tells(toDpu', i) <=> Tells(toDpu, i) \/ host.inc = i
        /\ TellsOnly(toDpu', i) <=> TellsOnly(toDpu, i) /\ host.inc = i
        /\ Settles(toDpu, i) /\ (host.inc = i \/ ~Tells(toDpu, i)) => Settles(toDpu', i)
        /\ Closes(toDpu', i) <=> Closes(toDpu, i) \/ host.inc = i
    BY <1>4, <2>1
  <2>4. host.inc = i => dpu.meta # "key" /\ ~dpu.mig BY <1>0, <2>2 DEF Kept
  <2>5. InOrder(dpu.inc)' BY <1>0, <1>2, <1>5, <2>1, <2>3 DEF InOrder
  <2>6. Kept(dpu.inc)' BY <1>0, <1>2, <1>6, <2>1, <2>3, <2>4 DEF Kept
  <2>7. Asked(dpu.inc)' BY <1>0, <1>2, <2>1, <2>3, <2>4 DEF Asked
  <2> QED BY <1>0, <1>2, <2>2, <2>5, <2>6, <2>7 DEF Stages
<1> QED BY <1>7, <1>8, <1>9

\* The initial states and the steps keep the packets of the present
\* connection in order.
LEMMA InitUndisturbed == Init => Undisturbed
BY DEF Init, Undisturbed, Present, NoConn

LEMMA UndisturbedStep == IInv /\ Undisturbed /\ [Next]_vars => Undisturbed'
<1> SUFFICES ASSUME IInv, Undisturbed, [Next]_vars PROVE Undisturbed' OBVIOUS
<1> DEFINE Kept4 == InOrder(dpu.inc) /\ Kept(dpu.inc) /\ Asked(dpu.inc) /\ Stages
<1>0. client \in ClientState /\ dpu \in DpuState /\ host \in HostState /\ hasty \in BOOLEAN
  BY DEF IInv, Sessions
<1>1. (host.inc # 0 => host.st # "none")'
  <2>1. host.inc # 0 => host.st # "none" BY DEF Undisturbed
  <2>2. CASE UNCHANGED host BY <2>1, <2>2
  <2>3. CASE ClientEnds BY <1>0, <2>1, <2>3 DEF ClientEnds, HostState
  <2>4. CASE ClientData BY <1>0, <2>1, <2>4 DEF ClientData, HostState
  <2>5. CASE handle_key_packet BY <1>0, <2>1, <2>5 DEF handle_key_packet
  <2>6. CASE ResetArrives BY <1>0, <2>1, <2>6 DEF ResetArrives, HostState
  <2>7. CASE mig_tls_conn BY <1>0, <2>7 DEF mig_tls_conn, HostState
  <2>8. CASE send_mig_fin_to_arm BY <1>0, <2>8 DEF send_mig_fin_to_arm, HostState
  <2>9. CASE close_tcp_conn BY <2>9 DEF close_tcp_conn, NoConn
  <2> QED BY <2>2, <2>3, <2>4, <2>5, <2>6, <2>7, <2>8, <2>9
          DEF Next, vars, Connect, ClientVanishes, SignedFlight, SendPending, RepeatedHello,
              ClientFinished, LoopVisit, process_host_mig_fin, process_host_close, Lose
<1>2. (client.inc = 0 => client.st = "gone")'
  <2>1. client.inc = 0 => client.st = "gone" BY DEF Undisturbed
  <2>2. CASE UNCHANGED client BY <2>1, <2>2
  <2>3. CASE Connect BY <1>0, <2>3, MigrationAssumption DEF Connect, ClientState
  <2>4. CASE ClientEnds \/ ClientVanishes BY <1>0, <2>4 DEF ClientEnds, ClientVanishes, ClientState
  <2>5. CASE SendPending \/ RepeatedHello \/ ClientFinished
    BY <1>0, <2>1, <2>5 DEF SendPending, RepeatedHello, ClientFinished, ClientState
  <2>6. CASE close_tcp_conn BY <1>0, <2>1, <2>6 DEF close_tcp_conn, HostClosed, ClientState
  <2> QED BY <2>2, <2>3, <2>4, <2>5, <2>6
          DEF Next, vars, ClientData, SignedFlight, LoopVisit, process_host_mig_fin,
              process_host_close, handle_key_packet, ResetArrives, mig_tls_conn,
              send_mig_fin_to_arm, Lose
<1>3. ASSUME Present' PROVE Kept4'
  <2>1. CASE Connect BY <2>1, ConnectUndisturbed
  <2>2. CASE ClientEnds \/ ClientVanishes
    BY <1>0, <1>3, <2>2 DEF ClientEnds, ClientVanishes, ClientState, Present
  <2>3. ASSUME ~Connect, ~ClientEnds, ~ClientVanishes PROVE Present
    <3>1. dpu'.inc # 0 BY <1>2, <1>3, SessionsStep DEF Present
    <3>2. ~hasty
      BY <1>0, <1>3, <2>3 DEF Present, Next, vars, ClientData, SignedFlight, SendPending,
         RepeatedHello, ClientFinished, LoopVisit, process_host_mig_fin, process_host_close,
         handle_key_packet, ResetArrives, mig_tls_conn, send_mig_fin_to_arm, close_tcp_conn, Lose
    <3>3. dpu'.inc = dpu.inc
      <4>1. CASE UNCHANGED dpu BY <4>1
      <4>2. CASE SignedFlight BY <1>0, <4>2 DEF SignedFlight, DpuState
      <4>3. CASE SendPending BY <1>0, <4>3 DEF SendPending, DpuState
      <4>4. CASE RepeatedHello BY <1>0, <4>4 DEF RepeatedHello, send_key_meta, DpuState
      <4>5. CASE ClientFinished BY <1>0, <4>5 DEF ClientFinished, DpuState
      <4>6. CASE LoopVisit BY <1>0, <3>1, <4>6 DEF LoopVisit, DpuState, NoSession
      <4>7. CASE process_host_mig_fin
        BY <1>0, <4>7 DEF process_host_mig_fin, DpuState, send_rst_conn_meta
      <4>8. CASE process_host_close BY <1>0, <4>8 DEF process_host_close, DpuState
      <4> QED BY <2>3, <4>1, <4>2, <4>3, <4>4, <4>5, <4>6, <4>7, <4>8
              DEF Next, vars, ClientData, handle_key_packet, ResetArrives, mig_tls_conn,
                  send_mig_fin_to_arm, close_tcp_conn, Lose
    <3>4. client'.inc = client.inc /\ (client.st = "gone" => client'.st = "gone")
      <4>1. CASE UNCHANGED client BY <4>1
      <4>2. CASE SendPending BY <1>0, <4>2 DEF SendPending, ClientState
      <4>3. CASE RepeatedHello BY <1>0, <4>3 DEF RepeatedHello, ClientState
      <4>4. CASE ClientFinished BY <1>0, <4>4 DEF ClientFinished, ClientState
      <4>5. CASE close_tcp_conn BY <1>0, <4>5 DEF close_tcp_conn, HostClosed, ClientState
      <4> QED BY <2>3, <4>1, <4>2, <4>3, <4>4, <4>5
              DEF Next, vars, ClientData, SignedFlight, LoopVisit, process_host_mig_fin,
                  process_host_close, handle_key_packet, ResetArrives, mig_tls_conn,
                  send_mig_fin_to_arm, Lose
    <3> QED BY <1>3, <3>2, <3>3, <3>4, Zenon DEF Present
  <2>4. CASE Present /\ (\/ ClientData \/ SignedFlight \/ SendPending \/ RepeatedHello
                         \/ ClientFinished \/ LoopVisit)
    <3>1. ~hasty' BY <1>3 DEF Present
    <3> QED BY <2>4, <3>1, SessionUndisturbed
  <2>5. CASE Present /\ (process_host_mig_fin \/ process_host_close) BY <2>5, AnswerUndisturbed
  <2>6. CASE Present /\ (handle_key_packet \/ ResetArrives \/ Lose) BY <2>6, PacketUndisturbed
  <2>7. CASE Present /\ (mig_tls_conn \/ send_mig_fin_to_arm \/ close_tcp_conn)
    <3>1. client'.st # "gone" BY <1>3 DEF Present
    <3> QED BY <2>7, <3>1, HostUndisturbed
  <2>8. CASE Present /\ UNCHANGED vars
    <3>1. Kept4 BY <2>8 DEF Undisturbed
    <3> QED BY <2>8, <3>1 DEF vars, InOrder, Kept, Asked, Stages
  <2> QED BY <2>1, <2>2, <2>3, <2>4, <2>5, <2>6, <2>7, <2>8 DEF Next
<1> QED BY <1>1, <1>2, <1>3 DEF Undisturbed

LEMMA AlwaysUndisturbed == Spec => []Undisturbed
<1>1. Spec => []IInv BY Invariance
<1> QED BY <1>1, InitUndisturbed, UndisturbedStep, PTL DEF Spec

\* Without a ClientHello repeated in haste, the resets and the answers of
\* process_host_mig_fin and handle_key_packet leave the connection of a client
\* whose handshake is done alone, whatever is late, repeated or lost.
THEOREM NotCutOff == Spec => []NeverCutOff
<1>1. IInv /\ Undisturbed => NeverCutOff
  <2> SUFFICES ASSUME IInv, Undisturbed, ~hasty, client.st = "done", dpu.inc = client.inc,
                      host.inc = client.inc
               PROVE  host.up
    BY DEF NeverCutOff
  <2>1. Present BY DEF Present
  <2>2. Kept(dpu.inc) /\ Stages BY <2>1 DEF Undisturbed
  <2> QED BY <2>2 DEF Kept, Stages
<1> QED BY <1>1, Invariance, AlwaysUndisturbed, PTL

\* remove_hws never gives up the session of a client that is being served:
\* no CLOSE whose numbers match comes while the host has the connection.
THEOREM ServesToTheEnd == Spec => ServedToTheEnd
<1> DEFINE A == ~hasty /\ client.st = "done" /\ dpu.hs = "ACTIVE" /\ dpu'.inc = 0
                  => ~(host.inc = dpu.inc /\ host.up)
<1>1. IInv /\ Undisturbed /\ [Next]_vars => [A]_vars
  <2> SUFFICES ASSUME IInv, Undisturbed, Next, ~hasty, client.st = "done", dpu.hs = "ACTIVE",
                      dpu'.inc = 0
               PROVE  FALSE
    OBVIOUS
  <2>0. client \in ClientState /\ dpu \in DpuState BY DEF IInv, Sessions
  <2>1. dpu.inc # 0 /\ dpu.inc = client.inc BY DEF IInv, Sessions
  <2>2. Present BY <2>1 DEF Present
  <2>3. ~dpu.ready BY <2>2 DEF Undisturbed, Kept
  <2>4. CASE UNCHANGED dpu BY <2>1, <2>4
  <2>5. CASE Connect BY <2>5 DEF Connect
  <2>6. CASE LoopVisit BY <2>0, <2>1, <2>3, <2>6 DEF LoopVisit, DpuState
  <2>7. CASE ClientEnds BY <2>1, <2>7 DEF ClientEnds
  <2>8. CASE process_host_mig_fin
    BY <2>0, <2>1, <2>8 DEF process_host_mig_fin, send_rst_conn_meta, DpuState
  <2>9. CASE process_host_close BY <2>0, <2>1, <2>9 DEF process_host_close, DpuState
  <2>10. CASE SignedFlight \/ SendPending \/ RepeatedHello \/ ClientFinished
    BY <2>10 DEF SignedFlight, SendPending, RepeatedHello, ClientFinished
  <2> QED BY <2>4, <2>5, <2>6, <2>7, <2>8, <2>9, <2>10
          DEF Next, ClientVanishes, ClientData, handle_key_packet, ResetArrives, mig_tls_conn,
              send_mig_fin_to_arm, close_tcp_conn, Lose
<1> QED BY <1>1, Invariance, AlwaysUndisturbed, PTL DEF Spec, ServedToTheEnd

=============================================================================
