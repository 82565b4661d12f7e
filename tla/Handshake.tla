----------------------------- MODULE Handshake ------------------------------
(***************************************************************************)
(* One connection in the SmartNIC's worker between SYN and host: what it   *)
(* makes of the client's TCP segments (lost, repeated, reordered, cut and  *)
(* merged), of the TLS records in them, and what the client is told.       *)
(* The client's stream is a ClientHello in two parts, ChangeCipherSpec,    *)
(* Finished and a request.  A position in it is the number of parts before *)
(* it; a sequence number is a byte count modulo SeqSpace.                  *)
(***************************************************************************)
EXTENDS Integers, Sequences

CONSTANTS RequestLen,  \* bytes in the record of the client's request
          Cuts,        \* positions where the client may cut a segment
          Isns,        \* sequence numbers of the first byte
          SeqSpace,    \* size of the sequence space, 2^32 in the code
          MaxRecvQ     \* bound: records that wait in recv_q

Stream == <<"CH1", "CH2", "CCS", "CF", "REQ">>
Offset == <<0, 100, 200, 206, 280, 280 + RequestLen>>
HelloEnd == 2
StreamEnd == 5

ASSUME HandshakeAssumption ==
  /\ RequestLen \in Nat \ {0} /\ MaxRecvQ \in Nat
  /\ Cuts \subseteq 0 .. StreamEnd /\ {0, HelloEnd, StreamEnd} \subseteq Cuts
  /\ SeqSpace \in Nat /\ SeqSpace % 2 = 0 /\ SeqSpace > 2 * Offset[StreamEnd + 1]
  /\ Isns \subseteq 0 .. SeqSpace - 1

VARIABLES
  isn,     \* sequence number of the client's first byte
  client,  \* una: oldest byte not acknowledged; flight: the server's flight is in
  dpu,     \* tcp_connection_t and ssl_session_t
  host,    \* the host's socket: next byte expected, and whether the request is in
  said,    \* packets on their way to the client
  odd      \* what befell the records, see Mishap

vars == <<isn, client, dpu, host, said, odd>>

\* A ClientHello that comes in two parts; the first part again after the whole;
\* a record that is read twice; one that is not given back; one that is put
\* together from the wrong parts; a Finished that is refused.  The connection
\* is not followed after one of Lost.
Mishap == {"split", "rewound", "reread", "lost", "broken", "refused"}
Lost == {"rewound", "reread", "broken", "refused"}

SeqNo == 0 .. SeqSpace - 1
At(p) == (isn + Offset[p + 1]) % SeqSpace

SEQ_LT(a, b) == (a - b) % SeqSpace >= SeqSpace \div 2
SEQ_GT(a, b) == a # b /\ ~SEQ_LT(a, b)

\* Parts from + 1 .. to of the stream; ack is 1 once the flight was received.
\* from = to is a packet without payload.
Segment == [from : 0 .. StreamEnd, to : 0 .. StreamEnd, ack : {0, 1}]
SegLen(s) == Offset[s.to + 1] - Offset[s.from + 1]
PureAck == [from |-> HelloEnd, to |-> HelloEnd, ack |-> 1]
NoPacket == [from |-> 0, to |-> 0, ack |-> 0]

\* enum handshake_state.
Order == [HELLO_REQUEST |-> 0, CLIENT_HELLO |-> 1, SERVER_HELLO |-> 2, ENCRYPTED_EXTENSIONS |-> 8,
          CERTIFICATE |-> 11, CERTIFICATE_VERIFY |-> 15, CLIENT_CIPHER_SPEC |-> 17, FINISHED |-> 20]

\* insert_tcp_connection, after the SYN; tx and lapse are the packets sent
\* and the mishaps met in the step under way.
Inserted(i) ==
  [seq |-> i, len |-> 0, ack |-> 0, sentAck |-> i,
   crr |-> <<>>, recvQ |-> <<>>, held |-> 0, waiting |-> FALSE,
   hs |-> "HELLO_REQUEST", key |-> <<>>, appKeys |-> <<>>, signed |-> FALSE, active |-> FALSE,
   readSp |-> FALSE, writeSp |-> FALSE, sendSeq |-> 0,
   msgs |-> <<>>, toSign |-> <<>>, vd |-> <<>>, sendBuffer |-> <<>>, serverRecords |-> <<>>,
   metaAck |-> i, mig |-> FALSE, applied |-> FALSE, pending |-> NoPacket,
   tx |-> {}, lapse |-> {}]

Init ==
  /\ isn \in Isns
  /\ client = [una |-> isn, flight |-> FALSE]
  /\ dpu = Inserted(isn)
  /\ host = [next |-> isn, got |-> FALSE]
  /\ said = {} /\ odd = {}
-----------------------------------------------------------------------------
(* Sending.                                                                 *)

\* Variant: what came behind the Finished is acknowledged with it.
AckNoAll(d) == (d.seq + d.len) % SeqSpace

\* The acknowledgement that send_tcp_packet writes: a request that came in
\* one segment with the Finished is left for the host.
AckNo(d) == (d.seq + d.len - (IF d.active /\ d.len > 126 THEN 126 ELSE 0)) % SeqSpace

send_tcp_packet(d, flight) ==
  [d EXCEPT !.sentAck = AckNo(d), !.tx = @ \cup {[ack |-> AckNo(d), flight |-> flight]}]

\* The host is told to expect the byte behind ChangeCipherSpec and Finished.
send_key_meta(d) == [d EXCEPT !.metaAck = (d.seq + d.len + 80) % SeqSpace]

\* handshake_msgs takes each message once, by the order of the states.
store_handshake(d, t) == IF Order[t] > Order[d.hs] THEN [d EXCEPT !.msgs = Append(@, t)] ELSE d

\* A record of the flight: the number in its nonce (-1 before write_sp is set)
\* and the messages that a signature or MAC in it covers.
encrypt_record(d, t, over) ==
  [d EXCEPT !.sendBuffer = Append(@, [msg |-> t, nonce |-> d.sendSeq, over |-> over]),
            !.sendSeq = @ + 1]

send_record(d, t, over) ==
  LET s == store_handshake(d, t)
  IN  IF d.writeSp THEN encrypt_record(s, t, over)
      ELSE [s EXCEPT !.sendBuffer = Append(@, [msg |-> t, nonce |-> -1, over |-> over])]

send_server_hello(d) == send_record(d, "SERVER_HELLO", <<>>)
send_encrypted_extensions(d) == send_record(d, "ENCRYPTED_EXTENSIONS", <<>>)
send_certificate(d) == send_record(d, "CERTIFICATE", <<>>)
send_certificate_verify(d) == send_record(d, "CERTIFICATE_VERIFY", d.toSign)
send_server_finished(d) == send_record(d, "FINISHED", d.msgs)

\* The messages hashed when the signature is asked for.
signature_certificate(d) == [d EXCEPT !.toSign = d.msgs, !.waiting = TRUE]

\* The keys are derived from the messages up to their calculation.
handle_after_ecdhe_shared_secret_calc(d) == [d EXCEPT !.key = d.msgs]
handle_after_ecdsa_signature(d) == [d EXCEPT !.signed = TRUE]
handle_app_keys_calculation(d) == [d EXCEPT !.appKeys = d.msgs]

\* What the client's Finished has to cover.
handle_verify_data_calculation(d) == [d EXCEPT !.vd = d.msgs]

send_pending_records(d) ==
  [send_tcp_packet(d, d.sendBuffer) EXCEPT !.serverRecords = d.sendBuffer, !.sendBuffer = <<>>]
-----------------------------------------------------------------------------
(* Records.                                                                 *)

delete_record(d) == [d EXCEPT !.held = @ - 1]
Lapse(d, what) == [d EXCEPT !.lapse = @ \cup {what}]

\* decrypt_record deletes a record that it cannot decrypt, and so does its caller.
DecryptFails(d) == Lapse(delete_record(delete_record(d)), "reread")

\* A record whose content cannot be unpacked goes back to no pool.
UnpackFails(d) == Lapse(d, "lost")

\* Variant: the record of a repeated ClientHello is kept.
HelloKept(d) ==
  IF d.hs = "HELLO_REQUEST" THEN [d EXCEPT !.waiting = TRUE]
  ELSE IF d.hs = "CERTIFICATE_VERIFY" THEN send_key_meta(d)
  ELSE IF d.hs = "FINISHED" THEN send_tcp_packet(d, d.serverRecords) ELSE delete_record(d)

\* Variant: a repeated ClientHello is added to the transcript.
HelloStored(d) ==
  IF d.hs = "HELLO_REQUEST" THEN [d EXCEPT !.waiting = TRUE]
  ELSE delete_record(IF d.hs = "FINISHED" THEN send_tcp_packet(d, d.serverRecords)
                     ELSE [d EXCEPT !.msgs = Append(@, "CLIENT_HELLO")])

\* Variant: the flight is sent once only.
HelloUnanswered(d) ==
  IF d.hs = "HELLO_REQUEST" THEN [d EXCEPT !.waiting = TRUE]
  ELSE delete_record(IF d.hs = "CERTIFICATE_VERIFY" THEN send_key_meta(d) ELSE d)

\* process_read_record for a ClientHello: the first one starts the key
\* generation, which keeps the record.
ReadHello(d) ==
  IF d.hs = "HELLO_REQUEST" THEN [d EXCEPT !.waiting = TRUE]
  ELSE delete_record(IF d.hs = "CERTIFICATE_VERIFY" THEN send_key_meta(d)
                     ELSE IF d.hs = "FINISHED" THEN send_tcp_packet(d, d.serverRecords) ELSE d)

\* handle_change_cipher_spec; with read_sp in place the record is decrypted first.
ReadCipherSpec(d) ==
  IF d.readSp /\ ~d.active THEN DecryptFails(d)
  ELSE IF d.hs = "CLIENT_CIPHER_SPEC" THEN delete_record(d)
  ELSE delete_record([d EXCEPT !.hs = "CLIENT_CIPHER_SPEC", !.readSp = TRUE])

\* The messages that the client's Finished covers.
Transcript == <<"CLIENT_HELLO", "SERVER_HELLO", "ENCRYPTED_EXTENSIONS", "CERTIFICATE",
                "CERTIFICATE_VERIFY", "FINISHED">>

\* handle_application_data, for the Finished.
ReadFinished(d) ==
  IF ~d.readSp \/ d.active THEN UnpackFails(d)
  ELSE IF d.hs = "FINISHED" THEN delete_record(d)
  ELSE IF d.vd # Transcript THEN Lapse(d, "refused")
  ELSE delete_record(send_tcp_packet([d EXCEPT !.hs = "FINISHED", !.active = TRUE], <<>>))

\* The SmartNIC has no key for the request.
ReadRequest(d) == IF d.readSp /\ ~d.active THEN DecryptFails(d) ELSE UnpackFails(d)

process_read_record(d, r) ==
  CASE r = "CH" -> ReadHello(d) [] r = "CCS" -> ReadCipherSpec(d)
    [] r = "CF" -> ReadFinished(d) [] OTHER -> ReadRequest(d)

\* A record that is complete waits while an answer of the PKA core is awaited.
ReadOrWait(d, r) ==
  IF d.waiting THEN [d EXCEPT !.recvQ = Append(@, r)] ELSE process_read_record(d, r)

Complete(d, r) == ReadOrWait([d EXCEPT !.crr = <<>>], r)

\* One round of process_new_record.  A part that is not the next one of the
\* record under way, or that is taken for a header, makes a record of which
\* nothing can be said.
ReadPart(d, u) ==
  LET n == IF d.crr = <<>> THEN [d EXCEPT !.held = @ + 1] ELSE d
      c == Append(d.crr, u)
  IN  IF d.lapse \cap Lost # {} THEN d
      ELSE IF c = <<"CH1">> THEN [n EXCEPT !.crr = c]
      ELSE IF c = <<"CH1", "CH2">> THEN Complete(n, "CH")
      ELSE IF u \in {"CH1", "CH2"} THEN Lapse(n, "broken")
      ELSE Complete(n, u)

\* After the parts of the stream up to k, and all that the segment brings.
ReadParts(d, s) ==
  LET after[k \in s.from .. s.to] == IF k = s.from THEN d ELSE ReadPart(after[k - 1], Stream[k])
  IN  after

process_new_record(d, s) == ReadParts(d, s)[s.to]
-----------------------------------------------------------------------------
(* Segments.                                                                *)

validate_sequence(d, s) ==
  LET seq == At(s.from)
      end == (d.seq + d.len) % SeqSpace
  IN  IF \/ seq = d.seq /\ s.ack = d.ack /\ SegLen(s) = d.len
         \/ seq \in {d.sentAck, end}
      THEN "OK"
      ELSE IF SEQ_LT(seq, d.seq) \/ s.ack < d.ack THEN "UNDER"
      ELSE IF SEQ_GT(seq, d.sentAck) /\ SEQ_GT(seq, end) THEN "OVER" ELSE "WEIRD"

\* The sequence numbers cover the whole segment before it is read; a record
\* that is not complete is acknowledged.
process_normal_seq_case(d, s) ==
  LET r == process_new_record([d EXCEPT !.seq = At(s.from), !.len = SegLen(s), !.ack = s.ack], s)
      part == IF d.hs = "HELLO_REQUEST" /\ ~d.waiting THEN "split" ELSE "rewound"
  IN  IF r.crr # <<>> THEN Lapse(send_tcp_packet(r, <<>>), part) ELSE r

InSequence(d, s) ==
  LET v == validate_sequence(d, s)
  IN  IF v = "OK" THEN process_normal_seq_case(d, s)
      ELSE IF v = "OVER" THEN send_tcp_packet(d, <<>>) ELSE d

\* Variant: the SmartNIC acknowledges what it keeps for the host.
KeepAndAck(d, s) ==
  IF d.active THEN [send_tcp_packet(d, <<>>) EXCEPT !.pending = s] ELSE InSequence(d, s)

\* process_handshake_packet: once onloaded, the packet takes the place of the
\* one that waits for the host.
process_handshake_packet(d, s) ==
  IF d.active THEN [d EXCEPT !.pending = s] ELSE InSequence(d, s)
-----------------------------------------------------------------------------
(* One visit of the main loop to the session.                               *)

\* After the first k records of recv_q, and all of them.
ReadQueue(d) ==
  LET after[k \in 0 .. Len(d.recvQ)] ==
        IF k = 0 THEN [d EXCEPT !.recvQ = <<>>] ELSE ReadOrWait(after[k - 1], d.recvQ[k])
  IN  after

process_session_read(d) == ReadQueue(d)[Len(d.recvQ)]

\* An operation of the session is with the PKA core.
Asked(d) ==
  \/ d.hs \in {"HELLO_REQUEST", "CERTIFICATE"} /\ d.waiting
  \/ d.hs = "SERVER_HELLO"

\* The ClientHello is handled when the key generation is done.
handle_handshake(d) ==
  LET d1 == [store_handshake(d, "CLIENT_HELLO") EXCEPT !.hs = "CLIENT_HELLO"]
      d2 == [send_server_hello(d1) EXCEPT !.hs = "SERVER_HELLO", !.writeSp = TRUE, !.sendSeq = 0]
  IN  delete_record(d2)

\* waiting_crypto is cleared although the shared secret has been asked for.
get_processed_crypto(d) ==
  IF d.hs = "HELLO_REQUEST" THEN [handle_handshake(d) EXCEPT !.waiting = FALSE]
  ELSE IF d.hs = "SERVER_HELLO"
  THEN [handle_after_ecdhe_shared_secret_calc(d) EXCEPT !.waiting = FALSE]
  ELSE [handle_after_ecdsa_signature(d) EXCEPT !.waiting = FALSE]

apply_hws(d) == [d EXCEPT !.applied = @ \/ (d.active /\ d.mig)]

Forwards(d) == d.applied /\ d.pending # NoPacket
forward_app_data(d) == IF Forwards(d) THEN [d EXCEPT !.pending = NoPacket] ELSE d

send_remain_server_records(d) ==
  IF d.hs = "SERVER_HELLO" /\ d.key # <<>>
  THEN LET d1 == [send_encrypted_extensions(d) EXCEPT !.hs = "ENCRYPTED_EXTENSIONS"]
       IN  signature_certificate([send_certificate(d1) EXCEPT !.hs = "CERTIFICATE"])
  ELSE IF d.hs = "CERTIFICATE" /\ d.signed
  THEN LET d1 == [send_certificate_verify(d) EXCEPT !.hs = "CERTIFICATE_VERIFY"]
           d2 == handle_app_keys_calculation(send_server_finished(d1))
       IN  send_key_meta(handle_verify_data_calculation(d2))
  ELSE IF d.hs = "CERTIFICATE_VERIFY" /\ d.mig
  THEN [send_pending_records(d) EXCEPT !.hs = "FINISHED"] ELSE d
-----------------------------------------------------------------------------
(* Actions.                                                                 *)

\* The packets and mishaps of a step leave the session.
Becomes(d, more) ==
  /\ dpu' = [d EXCEPT !.tx = {}, !.lapse = {}]
  /\ said' = said \cup d.tx \cup more
  /\ odd' = odd \cup d.lapse

Followed == odd \cap Lost = {}

\* A segment that the client may have sent: the ClientHello before the flight
\* is in, the rest after it.
Sendable(s) ==
  /\ s.from < s.to /\ {s.from, s.to} \subseteq Cuts
  /\ IF s.ack = 0 THEN s.to <= HelloEnd ELSE s.from >= HelloEnd /\ client.flight

\* Any such segment may arrive, at any time and any number of times.
Arrive(s) ==
  /\ Sendable(s)
  /\ Len(dpu.recvQ) < MaxRecvQ
  /\ IF Followed THEN Becomes(process_handshake_packet(dpu, s), {})
     ELSE UNCHANGED <<dpu, said, odd>>
  /\ UNCHANGED <<isn, client, host>>

\* process_ack_packet: so does a packet without payload.
process_ack_packet ==
  /\ client.flight /\ dpu.active /\ Followed
  /\ dpu' = [dpu EXCEPT !.pending = PureAck]
  /\ UNCHANGED <<isn, client, host, said, odd>>

\* The host has made the connection and says so.
process_host_mig_fin ==
  /\ dpu.hs = "CERTIFICATE_VERIFY" /\ ~dpu.mig /\ Followed
  /\ dpu' = [dpu EXCEPT !.mig = TRUE]
  /\ host' = [host EXCEPT !.next = dpu.metaAck]
  /\ UNCHANGED <<isn, client, said, odd>>

\* The host's kernel takes what it has not seen and acknowledges any payload.
HostTakes(s) ==
  LET new == s.from < s.to /\ At(s.to) # host.next /\ ~SEQ_LT(At(s.to), host.next)
                           /\ ~SEQ_GT(At(s.from), host.next)
  IN  IF new THEN [next |-> At(s.to), got |-> TRUE] ELSE host

\* One visit of ssloff_main_loop; done: an answer of the PKA core is there;
\* through: a packet that is forwarded reaches the host.
Visit(done, through) ==
  LET d1 == process_session_read(dpu)
      d2 == IF done THEN get_processed_crypto(d1) ELSE d1
      d3 == apply_hws(d2)
      d4 == forward_app_data(d3)
  IN  /\ Followed
      /\ done => Asked(dpu)
      /\ through => Forwards(d3)
      /\ IF through
         THEN /\ host' = HostTakes(d3.pending)
              /\ Becomes(send_remain_server_records(d4),
                         IF d3.pending = PureAck THEN {} ELSE {[ack |-> host'.next, flight |-> <<>>]})
         ELSE Becomes(send_remain_server_records(d4), {}) /\ UNCHANGED host
      /\ UNCHANGED <<isn, client>>

\* The client receives a packet.
Hear(m) ==
  /\ Followed
  /\ client' = [una |-> IF SEQ_GT(m.ack, client.una) THEN m.ack ELSE client.una,
                flight |-> client.flight \/ m.flight # <<>>]
  /\ said' = said \ {m}
  /\ UNCHANGED <<isn, dpu, host, odd>>

Lose(m) ==
  /\ Followed
  /\ said' = said \ {m}
  /\ UNCHANGED <<isn, client, dpu, host, odd>>

Next ==
  \/ \E s \in Segment : Arrive(s)
  \/ process_ack_packet
  \/ process_host_mig_fin
  \/ \E done, through \in BOOLEAN : Visit(done, through)
  \/ \E m \in said : Hear(m)
  \/ \E m \in said : Lose(m)

Spec == Init /\ [][Next]_vars

\* The client sends again what is not acknowledged.
Retransmit == \E s \in Segment : At(s.from) = client.una /\ Arrive(s)

\* The main loop runs, the PKA core and the host answer, the client repeats,
\* and what is sent again and again gets through: to the SmartNIC, from it
\* past the single slot to the host, and back to the client.
Fairness ==
  /\ WF_vars(\E done \in BOOLEAN : Visit(done, FALSE))
  /\ WF_vars(Visit(TRUE, FALSE))
  /\ WF_vars(process_host_mig_fin)
  /\ SF_vars(Retransmit)
  /\ SF_vars(Visit(FALSE, TRUE) /\ host' # host)
  /\ SF_vars(Visit(FALSE, TRUE) /\ said' # said)
  /\ SF_vars(\E m \in said : Hear(m) /\ client' # client)

FairSpec == Spec /\ Fairness
-----------------------------------------------------------------------------
\* The state has the shape that the code gives it.
TypeOK ==
  /\ isn \in SeqNo /\ client.una \in SeqNo /\ host.next \in SeqNo
  /\ {dpu.seq, dpu.sentAck, dpu.metaAck} \subseteq SeqNo
  /\ dpu.pending \in Segment /\ dpu.hs \in DOMAIN Order
  /\ \A m \in said : m.ack \in SeqNo
  /\ odd \subseteq Mishap

\* send_tcp_packet and send_key_meta agree where the SmartNIC's part of the
\* stream ends: the last byte it acknowledges is the one before the first that
\* the host expects, however the Finished was cut or merged with the request,
\* and over the end of the sequence space, where all numbers keep their width.
SeamFits ==
  /\ TypeOK
  /\ dpu.active /\ Followed => /\ dpu.sentAck = dpu.metaAck
                              /\ \A m \in said : ~SEQ_GT(m.ack, host.next)

\* new_recv_record and delete_record balance: a record is in one place or back
\* in the pool.  A session loses one at most, when the request comes in one
\* segment with the Finished.
RecordsKept == Followed =>
  dpu.held = Len(dpu.recvQ) + (IF dpu.crr # <<>> THEN 1 ELSE 0)
             + (IF dpu.hs = "HELLO_REQUEST" /\ dpu.waiting THEN 1 ELSE 0)
             + (IF "lost" \in odd THEN 1 ELSE 0)

\* send_remain_server_records builds one flight, in order, with a fresh nonce
\* in each record, signed and MACed over the messages up to there, and derives
\* its keys from the right ones, whatever the client repeats meanwhile; what is
\* sent again is the same, and a client that got it has its Finished accepted.
FlightIntact ==
  /\ "refused" \notin odd
  /\ dpu.hs \in {"CERTIFICATE_VERIFY", "CLIENT_CIPHER_SPEC", "FINISHED"} =>
       dpu.key = SubSeq(Transcript, 1, 2) /\ dpu.appKeys = Transcript
  /\ \A m \in said : m.flight # <<>> =>
       /\ Len(m.flight) = 5
       /\ \A k \in 1 .. 5 :
            /\ m.flight[k].msg = Transcript[k + 1] /\ m.flight[k].nonce = k - 2
            /\ k >= 4 => m.flight[k].over = SubSeq(Transcript, 1, k)

\* Once the Finished has been handled the SmartNIC says nothing more to the
\* client, so that SmartNIC and host never both speak in one connection.
OneSpeaker ==
  [][dpu.active => \A m \in said' \ said : m.flight = <<>> /\ m.ack = host'.next]_vars

\* The handshake ends and the host gets the request, whatever is lost, late,
\* repeated or overwritten in pending_app_data, unless the client's segments
\* cut the ClientHello or make a record be read twice.
RequestHandedOver == <>(host.got \/ "split" \in odd \/ ~Followed)
=============================================================================
