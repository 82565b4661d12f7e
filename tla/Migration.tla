----------------------------- MODULE Migration ------------------------------
(***************************************************************************)
(* The migration of the connections that one client opens from one address *)
(* and port: the session of the SmartNIC's worker, the connection of the   *)
(* host's worker, and the meta packets, resets and answers between them.   *)
(* A connection is known by its incarnation; the sequence numbers in meta  *)
(* packets are an incarnation and whether they are those of a key meta     *)
(* packet.                                                                 *)
(***************************************************************************)
EXTENDS Naturals, Sequences

CONSTANTS MaxInc,    \* bound: connections that the client opens
          MaxQueue   \* bound: packets on their way when a ClientHello is repeated

ASSUME MigrationAssumption == MaxInc \in Nat /\ MaxQueue \in Nat

VARIABLES
  client,  \* the client's latest connection, and how far it has come
  dpu,     \* tcp_connection_t and ssl_session_t of the SmartNIC
  host,    \* conn_state of the host's server
  metas,   \* key meta packets, up to the host's meta socket
  resets,  \* raw resets, which the host's kernel takes
  toDpu,   \* MIG_FIN and CLOSE
  taken,   \* incarnations that the host has opened a socket for
  hasty    \* a ClientHello was repeated before the last one could be answered

vars == <<client, dpu, host, metas, resets, toDpu, taken, hasty>>

Incarnation == 1 .. MaxInc

NoSession == [inc |-> 0, hs |-> "none", meta |-> "none", mig |-> FALSE,
              applied |-> FALSE, ready |-> FALSE]

\* A session after SYN; meta says which numbers meta_hdr holds.
Fresh(i) == [NoSession EXCEPT !.inc = i, !.hs = "HELLO"]

NoConn == [inc |-> 0, st |-> "none", up |-> FALSE, data |-> FALSE]

ClientState == [inc : 0 .. MaxInc, st : {"hello", "flight", "done", "gone"}]
DpuState == [inc : 0 .. MaxInc, hs : {"none", "HELLO", "CERTIFICATE_VERIFY", "FINISHED", "ACTIVE"},
             meta : {"none", "key", "rst"}, mig : BOOLEAN, applied : BOOLEAN, ready : BOOLEAN]
HostState == [inc : 0 .. MaxInc, st : {"none", "INIT", "CONNECTED", "READY"},
              up : BOOLEAN, data : BOOLEAN]
ToDpu == [type : {"MIG_FIN", "CLOSE"}, inc : Incarnation]

Init ==
  /\ client = [inc |-> 0, st |-> "gone"]
  /\ dpu = NoSession
  /\ host = NoConn
  /\ metas = <<>> /\ resets = <<>> /\ toDpu = <<>>
  /\ taken = {} /\ hasty = FALSE

SendDpu(t, i) == toDpu' = Append(toDpu, [type |-> t, inc |-> i])
-----------------------------------------------------------------------------
(* The client.                                                              *)

\* process_syn: a SYN with a new sequence number replaces the session.
Connect ==
  /\ client.st = "gone" /\ client.inc < MaxInc
  /\ client' = [inc |-> client.inc + 1, st |-> "hello"]
  /\ dpu' = Fresh(client.inc + 1)
  /\ UNCHANGED <<host, metas, resets, toDpu, taken, hasty>>

\* FIN and RST are forwarded to the host once the session is onloaded and
\* ignored before; an alert ends a session that is not yet onloaded.
ClientEnds ==
  /\ client.st # "gone"
  /\ client' = [client EXCEPT !.st = "gone"]
  /\ \/ /\ dpu.inc = client.inc /\ dpu.hs = "ACTIVE"
        /\ host' = [host EXCEPT !.up = @ /\ host.inc # client.inc]
        /\ UNCHANGED dpu
     \/ /\ dpu.hs # "ACTIVE"
        /\ dpu' \in {dpu, NoSession}
        /\ UNCHANGED host
  /\ UNCHANGED <<metas, resets, toDpu, taken, hasty>>

ClientVanishes ==
  /\ client.st # "gone"
  /\ client' = [client EXCEPT !.st = "gone"]
  /\ UNCHANGED <<dpu, host, metas, resets, toDpu, taken, hasty>>

\* A request of the client reaches the connection that its numbers fit.
ClientData ==
  /\ client.st = "done" /\ dpu.inc = client.inc /\ dpu.applied
  /\ host.inc = client.inc /\ host.up /\ host.st = "READY"
  /\ host' = [host EXCEPT !.data = TRUE]
  /\ UNCHANGED <<client, dpu, metas, resets, toDpu, taken, hasty>>
-----------------------------------------------------------------------------
(* The SmartNIC.                                                            *)

\* send_key_meta writes meta_hdr and sends it.
send_key_meta ==
  /\ metas' = Append(metas, dpu.inc)
  /\ dpu' = [dpu EXCEPT !.meta = "key"]

\* send_remain_server_records, when the certificate has been signed.
SignedFlight ==
  /\ dpu.hs = "HELLO"
  /\ metas' = Append(metas, dpu.inc)
  /\ dpu' = [dpu EXCEPT !.hs = "CERTIFICATE_VERIFY", !.meta = "key"]
  /\ UNCHANGED <<client, host, resets, toDpu, taken, hasty>>

\* Variant: the flight does not wait for MIG_FIN.
SendAtOnce ==
  /\ dpu.hs = "CERTIFICATE_VERIFY"
  /\ dpu' = [dpu EXCEPT !.hs = "FINISHED"]
  /\ \/ client' = [client EXCEPT !.st = IF @ = "hello" /\ client.inc = dpu.inc THEN "flight" ELSE @]
     \/ UNCHANGED client
  /\ UNCHANGED <<host, metas, resets, toDpu, taken, hasty>>

\* send_remain_server_records and send_pending_records, once MIG_FIN is in.
\* The client may miss the flight.
SendPending ==
  /\ dpu.hs = "CERTIFICATE_VERIFY" /\ dpu.mig
  /\ dpu' = [dpu EXCEPT !.hs = "FINISHED"]
  /\ \/ client' = [client EXCEPT !.st = IF @ = "hello" /\ client.inc = dpu.inc THEN "flight" ELSE @]
     \/ UNCHANGED client
  /\ UNCHANGED <<host, metas, resets, toDpu, taken, hasty>>

\* No packet is on its way and the host is not at work on one.
Answered ==
  /\ metas = <<>> /\ resets = <<>> /\ toDpu = <<>>
  /\ host.st = "INIT" => ~host.up
  /\ host.st = "CONNECTED" => FALSE
  /\ host.st = "READY" => host.up

\* Variant: nothing is repeated while MIG_FIN is awaited.
RepeatedHelloLate ==
  /\ client.st = "hello" /\ dpu.inc = client.inc /\ dpu.hs = "FINISHED"
  /\ client' = [client EXCEPT !.st = "flight"]
  /\ UNCHANGED <<dpu, host, metas, resets, toDpu, taken, hasty>>

\* process_read_record, for a ClientHello that is repeated: the key meta
\* packet is sent again, or the flight is.
RepeatedHello ==
  /\ client.st = "hello" /\ dpu.inc = client.inc
  /\ \/ /\ dpu.hs = "CERTIFICATE_VERIFY"
        /\ Len(metas) + Len(resets) + Len(toDpu) < MaxQueue
        /\ send_key_meta
        /\ hasty' = (hasty \/ ~Answered)
        /\ UNCHANGED client
     \/ /\ dpu.hs = "FINISHED"
        /\ client' = [client EXCEPT !.st = "flight"]
        /\ UNCHANGED <<dpu, metas, hasty>>
  /\ UNCHANGED <<host, resets, toDpu, taken>>

\* handle_application_data, for the client's Finished.
ClientFinished ==
  /\ client.st = "flight" /\ dpu.inc = client.inc /\ dpu.hs = "FINISHED"
  /\ client' = [client EXCEPT !.st = "done"]
  /\ dpu' = [dpu EXCEPT !.hs = "ACTIVE"]
  /\ UNCHANGED <<host, metas, resets, toDpu, taken, hasty>>

\* apply_hws and remove_hws in one visit of the main loop.
LoopVisit ==
  /\ dpu.hs = "ACTIVE" /\ dpu.mig
  /\ dpu' = IF dpu.ready THEN NoSession ELSE [dpu EXCEPT !.applied = TRUE]
  /\ UNCHANGED <<client, host, metas, resets, toDpu, taken, hasty>>

\* The numbers of a packet from the host are those that meta_hdr holds.
Matches(m) == dpu.meta = "key" /\ m.inc = dpu.inc

\* Variant: the host's connection is reset whatever the numbers.
MigFinResets ==
  /\ toDpu # <<>> /\ Head(toDpu).type = "MIG_FIN"
  /\ toDpu' = Tail(toDpu)
  /\ dpu' = [dpu EXCEPT !.mig = @ \/ Matches(Head(toDpu))]
  /\ resets' = Append(resets, Head(toDpu).inc)
  /\ UNCHANGED <<client, host, metas, taken, hasty>>

send_raw_reset(i) == resets' = Append(resets, i)

\* The host does not take this packet, but its numbers stay in meta_hdr.
send_rst_conn_meta == dpu' = [dpu EXCEPT !.meta = "rst"]

\* process_host_mig_fin: other numbers make it reset the host's connection,
\* by the number that came with the packet.
process_host_mig_fin ==
  /\ toDpu # <<>> /\ Head(toDpu).type = "MIG_FIN"
  /\ toDpu' = Tail(toDpu)
  /\ IF dpu.inc = 0
     THEN UNCHANGED <<dpu, resets>>
     ELSE IF Matches(Head(toDpu))
     THEN dpu' = [dpu EXCEPT !.mig = TRUE] /\ UNCHANGED resets
     ELSE send_raw_reset(Head(toDpu).inc) /\ send_rst_conn_meta
  /\ UNCHANGED <<client, host, metas, taken, hasty>>

\* Variant: the numbers of the packet are not looked at.
CloseUnchecked ==
  /\ toDpu # <<>> /\ Head(toDpu).type = "CLOSE"
  /\ toDpu' = Tail(toDpu)
  /\ dpu' = [dpu EXCEPT !.ready = dpu.inc # 0]
  /\ UNCHANGED <<client, host, metas, resets, taken, hasty>>

process_host_close ==
  /\ toDpu # <<>> /\ Head(toDpu).type = "CLOSE"
  /\ toDpu' = Tail(toDpu)
  /\ dpu' = [dpu EXCEPT !.ready = @ \/ Matches(Head(toDpu))]
  /\ UNCHANGED <<client, host, metas, resets, taken, hasty>>
-----------------------------------------------------------------------------
(* The host.                                                                *)

\* handle_key_packet: a client that is known is answered with the numbers of
\* the connection that the host has.
handle_key_packet ==
  /\ metas # <<>>
  /\ metas' = Tail(metas)
  /\ IF host.inc # 0
     THEN SendDpu("MIG_FIN", host.inc) /\ UNCHANGED <<host, taken>>
     ELSE /\ host' = [inc |-> Head(metas), st |-> "INIT", up |-> TRUE, data |-> FALSE]
          /\ taken' = taken \cup {Head(metas)}
          /\ UNCHANGED toDpu
  /\ UNCHANGED <<client, dpu, resets, hasty>>

\* The kernel takes the reset when its number is the next one it expects:
\* ack_num_for_rst is that number until the connection has received data.
ResetArrives ==
  /\ resets # <<>>
  /\ resets' = Tail(resets)
  /\ host' = [host EXCEPT !.up = @ /\ (host.inc # Head(resets) \/ host.data)]
  /\ UNCHANGED <<client, dpu, metas, toDpu, taken, hasty>>

mig_tls_conn ==
  /\ host.st = "INIT" /\ host.up
  /\ host' = [host EXCEPT !.st = "CONNECTED"]
  /\ UNCHANGED <<client, dpu, metas, resets, toDpu, taken, hasty>>

send_mig_fin_to_arm ==
  /\ host.st = "CONNECTED"
  /\ SendDpu("MIG_FIN", host.inc)
  /\ host' = [host EXCEPT !.st = "READY"]
  /\ UNCHANGED <<client, dpu, metas, resets, taken, hasty>>

\* The client learns of a connection that the host closes by itself.
HostClosed ==
  client' = [client EXCEPT !.st = IF host.up /\ client.inc = host.inc THEN "gone" ELSE @]

\* close_tcp_conn, when the client or a reset has ended the connection, or
\* after the response to a request that says so.
close_tcp_conn ==
  /\ host.st = "READY" /\ (~host.up \/ host.data)
  /\ SendDpu("CLOSE", host.inc)
  /\ host' = NoConn
  /\ HostClosed
  /\ UNCHANGED <<dpu, metas, resets, taken, hasty>>

\* A packet between SmartNIC and host is lost.
Lose ==
  /\ \/ metas # <<>> /\ metas' = Tail(metas) /\ UNCHANGED <<resets, toDpu>>
     \/ resets # <<>> /\ resets' = Tail(resets) /\ UNCHANGED <<metas, toDpu>>
     \/ toDpu # <<>> /\ toDpu' = Tail(toDpu) /\ UNCHANGED <<metas, resets>>
  /\ UNCHANGED <<client, dpu, host, taken, hasty>>
-----------------------------------------------------------------------------
Next ==
  \/ Connect \/ ClientEnds \/ ClientVanishes \/ ClientData
  \/ SignedFlight \/ SendPending \/ RepeatedHello \/ ClientFinished \/ LoopVisit
  \/ process_host_mig_fin \/ process_host_close
  \/ handle_key_packet \/ ResetArrives
  \/ mig_tls_conn \/ send_mig_fin_to_arm \/ close_tcp_conn
  \/ Lose

Spec == Init /\ [][Next]_vars

\* The main loops run, the client repeats its ClientHello, and a packet that
\* is sent again and again gets through.
Fairness ==
  /\ WF_vars(SignedFlight) /\ WF_vars(SendPending) /\ WF_vars(LoopVisit)
  /\ SF_vars(RepeatedHello)
  /\ SF_vars(process_host_mig_fin) /\ WF_vars(process_host_close)
  /\ SF_vars(handle_key_packet) /\ SF_vars(ResetArrives)
  /\ WF_vars(mig_tls_conn) /\ SF_vars(send_mig_fin_to_arm) /\ SF_vars(close_tcp_conn)

FairSpec == Spec /\ Fairness
-----------------------------------------------------------------------------
\* The state has the shape that the code gives it.
TypeOK ==
  /\ client \in ClientState /\ dpu \in DpuState /\ host \in HostState
  /\ metas \in Seq(Incarnation) /\ resets \in Seq(Incarnation) /\ toDpu \in Seq(ToDpu)
  /\ taken \in SUBSET Incarnation /\ hasty \in BOOLEAN

\* The phase of each connection, as Handover sees it.
Phase == [i \in Incarnation |->
  IF i > client.inc THEN "unborn"
  ELSE IF i # dpu.inc THEN "over"
  ELSE IF dpu.hs = "HELLO" THEN "handshake"
  ELSE IF dpu.hs = "CERTIFICATE_VERIFY" THEN IF i \in taken THEN "taken" ELSE "offered"
  ELSE IF dpu.hs = "FINISHED" THEN "flight" ELSE "serving"]

Abstract == INSTANCE Handover WITH phase <- Phase

\* send_remain_server_records, process_host_mig_fin and handle_key_packet
\* together keep the promise of Handover: the flight goes out only for a
\* connection that the host has taken, whatever answers are repeated, late or
\* lost, and no answer for an older connection moves the present one.
HandoverKept == Abstract!Spec

\* process_read_record sends the key meta packet again for each ClientHello
\* that the client repeats, so a client that keeps at it gets the flight.
FlightArrives ==
  ([](host.st = "INIT" => host.up) /\ [](host.data => host.inc = client.inc))
     => ((client.st = "hello") ~> (client.st # "hello"))

\* While no ClientHello is repeated in haste, the numbers that meta_hdr holds
\* when a MIG_FIN comes are those of the last key meta packet, so the resets
\* of process_host_mig_fin hit older connections only: the client's own
\* connection is up when its session is ACTIVE, until the client ends it.
NeverCutOff ==
  ~hasty /\ client.st = "done" /\ dpu.inc = client.inc /\ host.inc = client.inc => host.up

\* remove_hws gives a session up only when the host has closed its connection:
\* not while the client uses it and the host serves it.
ServedToTheEnd ==
  [][~hasty /\ client.st = "done" /\ dpu.hs = "ACTIVE" /\ dpu'.inc = 0
       => ~(host.inc = dpu.inc /\ host.up)]_vars
=============================================================================
