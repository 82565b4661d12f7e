-------------------------- MODULE HandshakeProofs ---------------------------
(***************************************************************************)
(* The handshake of one connection, for any initial sequence number, any   *)
(* cuts of the client's stream and any length of recv_q: the visits of the *)
(* main loop, the steps, and the theorems.                                 *)
(***************************************************************************)
EXTENDS HandshakePacketProofs, WellFoundedInduction
-----------------------------------------------------------------------------
(* A visit of the main loop to the session.                                 *)

\* The session after the first k ClientHellos of its queue.
ReadTo(d, k) ==
  [d EXCEPT !.recvQ = IF d.waiting THEN [i \in 1 .. k |-> "CH"] ELSE <<>>,
            !.held = IF d.waiting THEN @ ELSE @ - k,
            !.metaAck = IF d.hs = "CERTIFICATE_VERIFY" /\ k > 0
                        THEN (d.seq + d.len + 80) % SeqSpace ELSE @]

\* One visit of the main loop: what comes before the records that remain, and
\* all of it.
Before(d, done) ==
  LET d1 == process_session_read(d) IN apply_hws(IF done THEN get_processed_crypto(d1) ELSE d1)
Visited(d, done) == send_remain_server_records(forward_app_data(Before(d, done)))

\* What a visit leaves alone.
Same(d, e) == e.lapse = d.lapse /\ e.mig = d.mig /\ e.active = d.active

\* Changes that leave a followed session as described.
LEMMA FollowFrame ==
  ASSUME NEW d, NEW lost \in BOOLEAN, Follows(d, lost), NEW e,
         Frame(d, e, {"recvQ", "held", "metaAck", "applied", "pending", "mig"}),
         Balance(e) = Balance(d), e.metaAck = d.metaAck \/ e.metaAck = At(4)
  PROVE  Follows(e, lost)
<1>1. /\ e.seq = d.seq /\ e.len = d.len /\ e.ack = d.ack /\ e.sentAck = d.sentAck /\ e.crr = d.crr
      /\ e.hs = d.hs /\ e.waiting = d.waiting /\ e.active = d.active /\ e.readSp = d.readSp
      /\ e.tx = d.tx
  BY DEF Frame, Fields
<1>2. Progress(e)
  <2>1. Progress(d) BY DEF Follows
  <2> QED BY <1>1, <2>1 DEF Progress, Covers, Begun, Sent
<1>3. Holds(e, lost) BY <1>1 DEF Follows, Holds
<1>4. RequestLen = 126 => Meets(e)
  <2> SUFFICES ASSUME RequestLen = 126 PROVE Meets(e) OBVIOUS
  <2>1. Meets(d) BY DEF Follows
  <2> QED BY <1>1, <2>1 DEF Meets, Sent
<1> QED BY <1>2, <1>3, <1>4 DEF Follows

\* ReadTo field by field.
LEMMA ReadToFields ==
  ASSUME NEW d, Sound(d), NEW k \in Nat
  PROVE  LET e == ReadTo(d, k) IN
         /\ Frame(d, e, {"recvQ", "held", "metaAck"})
         /\ e.recvQ = IF d.waiting THEN [i \in 1 .. k |-> "CH"] ELSE <<>>
         /\ e.held = IF d.waiting THEN d.held ELSE d.held - k
         /\ e.metaAck = IF d.hs = "CERTIFICATE_VERIFY" /\ k > 0
                        THEN (d.seq + d.len + 80) % SeqSpace ELSE d.metaAck
         /\ e = [x \in Fields |-> e[x]]
BY Zenon DEF Sound, Shape, ReadTo, Frame, Fields

\* A queue of k ClientHellos.
LEMMA Hellos ==
  ASSUME NEW k \in Nat
  PROVE  LET h == [i \in 1 .. k |-> "CH"] IN
         /\ h \in Seq({"CH"}) /\ Len(h) = k
         /\ Append(h, "CH") = [i \in 1 .. k + 1 |-> "CH"]
<1> DEFINE h == [i \in 1 .. k |-> "CH"]
           g == [i \in 1 .. k + 1 |-> "CH"]
<1>1. h \in Seq({"CH"}) /\ Len(h) = k OBVIOUS
<1>2. g \in Seq({"CH"}) /\ Len(g) = k + 1 OBVIOUS
<1>3. \A i \in 1 .. k : h[i] = g[i] OBVIOUS
<1>4. g[k + 1] = "CH" OBVIOUS
<1> HIDE DEF h, g
<1>5. Append(h, "CH") = g BY <1>1, <1>2, <1>3, <1>4, Grown
<1> QED BY <1>1, <1>5 DEF h, g

\* One more.
LEMMA ReadOne ==
  ASSUME NEW d, Sound(d), Begun(d), ~Sent(d), NEW k \in Nat
  PROVE  ReadOrWait(ReadTo(d, k), "CH") = ReadTo(d, k + 1)
<1> DEFINE x == ReadTo(d, k)
           y == ReadTo(d, k + 1)
<1>1. /\ Frame(d, x, {"recvQ", "held", "metaAck"})
      /\ x.recvQ = IF d.waiting THEN [i \in 1 .. k |-> "CH"] ELSE <<>>
      /\ x.held = IF d.waiting THEN d.held ELSE d.held - k
      /\ x.metaAck = IF d.hs = "CERTIFICATE_VERIFY" /\ k > 0
                     THEN (d.seq + d.len + 80) % SeqSpace ELSE d.metaAck
      /\ x = [z \in Fields |-> x[z]]
  BY ReadToFields
<1>2. /\ Frame(d, y, {"recvQ", "held", "metaAck"})
      /\ y.recvQ = IF d.waiting THEN [i \in 1 .. k + 1 |-> "CH"] ELSE <<>>
      /\ y.held = IF d.waiting THEN d.held ELSE d.held - (k + 1)
      /\ y.metaAck = IF d.hs = "CERTIFICATE_VERIFY" /\ k + 1 > 0
                     THEN (d.seq + d.len + 80) % SeqSpace ELSE d.metaAck
      /\ y = [z \in Fields |-> y[z]]
  <2>1. k + 1 \in Nat OBVIOUS
  <2> QED BY <2>1, ReadToFields, Zenon
<1> HIDE DEF x, y
<1>3. /\ x.waiting = d.waiting /\ x.hs = d.hs /\ x.seq = d.seq /\ x.len = d.len
      /\ DOMAIN x = Fields
  BY <1>1, Zenon DEF Frame, Fields
<1>4. d.held \in Int /\ d.waiting \in BOOLEAN BY DEF Sound, Shape, Flags
<1>5. CASE d.waiting
  <2> DEFINE e == [x EXCEPT !.recvQ = Append(@, "CH")]
  <2>1. ReadOrWait(x, "CH") = e BY <1>3, <1>5 DEF ReadOrWait
  <2>2. x.recvQ = [i \in 1 .. k |-> "CH"] BY <1>1, <1>5
  <2>3. Append(x.recvQ, "CH") = [i \in 1 .. k + 1 |-> "CH"] BY <2>2, Hellos
  <2>4. d.hs # "CERTIFICATE_VERIFY" BY <1>5 DEF Sound, Flags
  <2>5. Frame(x, e, {"recvQ"}) /\ e.recvQ = Append(x.recvQ, "CH") BY <1>3 DEF Frame, Fields
  <2>6. e = [z \in Fields |-> e[z]] BY <1>3
  <2> HIDE DEF e
  <2>7. \A z \in Fields : e[z] = y[z]
    <3>1. e.recvQ = y.recvQ BY <1>2, <1>5, <2>3, <2>5
    <3>2. e.held = y.held BY <1>1, <1>2, <1>5, <2>5, Zenon DEF Frame, Fields
    <3>3. e.metaAck = y.metaAck BY <1>1, <1>2, <2>4, <2>5, Zenon DEF Frame, Fields
    <3>4. \A z \in Fields \ {"recvQ", "held", "metaAck"} : e[z] = y[z]
      BY <1>1, <1>2, <2>5 DEF Frame
    <3> QED BY <3>1, <3>2, <3>3, <3>4, Zenon
  <2>8. e = y BY <1>2, <2>6, <2>7
  <2> QED BY <2>1, <2>8 DEF x, y
<1>6. CASE ~d.waiting
  <2>0. d.hs # "HELLO_REQUEST" /\ d.hs # "FINISHED" BY <1>6 DEF Begun, Sent
  <2> DEFINE m == IF d.hs = "CERTIFICATE_VERIFY" THEN send_key_meta(x) ELSE x
             e == delete_record(m)
  <2>1. ReadOrWait(x, "CH") = e
    BY <1>3, <1>6, <2>0 DEF ReadOrWait, process_read_record, ReadHello
  <2>2. /\ Frame(x, m, {"metaAck"})
        /\ m.metaAck = IF d.hs = "CERTIFICATE_VERIFY" THEN (d.seq + d.len + 80) % SeqSpace
                       ELSE x.metaAck
    <3>1. CASE d.hs = "CERTIFICATE_VERIFY" BY <1>3, <3>1 DEF send_key_meta, Frame, Fields
    <3>2. CASE d.hs # "CERTIFICATE_VERIFY" BY <1>3, <3>2 DEF Frame, Fields
    <3> QED BY <3>1, <3>2
  <2> HIDE DEF m
  <2>3. DOMAIN m = Fields BY <2>2 DEF Frame
  <2>4. Frame(m, e, {"held"}) /\ e.held = m.held - 1
    BY <2>3 DEF delete_record, Frame, Fields
  <2>5. e = [z \in Fields |-> e[z]] BY <2>3 DEF delete_record
  <2> HIDE DEF e
  <2>6. \A z \in Fields : e[z] = y[z]
    <3>1. e.recvQ = y.recvQ BY <1>1, <1>2, <1>6, <2>2, <2>4 DEF Frame, Fields
    <3>2. e.held = y.held
      <4>1. e.held = x.held - 1 BY <2>2, <2>4 DEF Frame, Fields
      <4> QED BY <4>1, <1>1, <1>2, <1>4, <1>6
    <3>3. e.metaAck = y.metaAck
      <4>1. e.metaAck = m.metaAck BY <2>4 DEF Frame, Fields
      <4> QED BY <4>1, <1>1, <1>2, <2>2
    <3>4. \A z \in Fields \ {"recvQ", "held", "metaAck"} : e[z] = y[z]
      BY <1>1, <1>2, <2>2, <2>4 DEF Frame
    <3> QED BY <3>1, <3>2, <3>3, <3>4
  <2>7. e = y BY <1>2, <2>5, <2>6
  <2> QED BY <2>1, <2>7 DEF x, y
<1> QED BY <1>4, <1>5, <1>6

\* process_session_read reads the whole queue.
LEMMA QueueRead ==
  ASSUME NEW d, Sound(d)
  PROVE  process_session_read(d) = ReadTo(d, Len(d.recvQ))
<1> DEFINE n == Len(d.recvQ)
           q == d.recvQ
           x0 == [d EXCEPT !.recvQ = <<>>]
           D(g) == g = [k \in 0 .. n |-> IF k = 0 THEN x0 ELSE ReadOrWait(g[k - 1], q[k])]
           h == [k \in 0 .. n |-> ReadTo(d, k)]
           f == ReadQueue(d)
<1>1. n \in Nat /\ \A k \in 1 .. n : q[k] = "CH"
  <2>1. q \in Seq({"CH"}) BY DEF Sound, Shape
  <2>2. n \in Nat BY <2>1, Items
  <2>3. \A k \in 1 .. n : q[k] \in {"CH"} BY <2>1, Items
  <2> QED BY <2>2, <2>3
<1>2. n > 0 => Begun(d) /\ ~Sent(d)
  <2>1. q = <<>> => n = 0 BY NoItem
  <2> QED BY <2>1 DEF Sound, Shape
<1>3. ReadTo(d, 0) = x0
  <2>1. DOMAIN d = Fields /\ d.held \in Int BY DEF Sound, Shape
  <2>2. [i \in 1 .. 0 |-> "CH"] = <<>>
    <3>1. [i \in 1 .. 0 |-> "CH"] \in Seq({"CH"}) /\ Len([i \in 1 .. 0 |-> "CH"]) = 0 BY Hellos
    <3> QED BY <3>1, NoItem
  <2> DEFINE e == ReadTo(d, 0)
  <2>3. /\ Frame(d, e, {"recvQ", "held", "metaAck"})
        /\ e.recvQ = IF d.waiting THEN [i \in 1 .. 0 |-> "CH"] ELSE <<>>
        /\ e.held = IF d.waiting THEN d.held ELSE d.held - 0
        /\ e.metaAck = IF d.hs = "CERTIFICATE_VERIFY" /\ 0 > 0
                       THEN (d.seq + d.len + 80) % SeqSpace ELSE d.metaAck
        /\ e = [x \in Fields |-> e[x]]
    <3>1. 0 \in Nat OBVIOUS
    <3> QED BY <3>1, ReadToFields, Zenon
  <2> HIDE DEF e
  <2>4. Frame(d, x0, {"recvQ"}) /\ x0.recvQ = <<>> /\ x0 = [x \in Fields |-> x0[x]]
    BY <2>1 DEF Frame, Fields
  <2> HIDE DEF x0
  <2>5. \A x \in Fields : e[x] = x0[x]
    <3>1. e.recvQ = x0.recvQ BY <2>2, <2>3, <2>4
    <3>2. e.held = x0.held BY <2>1, <2>3, <2>4 DEF Frame, Fields
    <3>3. e.metaAck = x0.metaAck
      <4>1. x0.metaAck = d.metaAck BY <2>4 DEF Frame, Fields
      <4>2. ~(0 > 0) OBVIOUS
      <4>3. e.metaAck = d.metaAck BY <2>3, <4>2
      <4> QED BY <4>1, <4>3
    <3>4. \A z \in Fields \ {"recvQ", "held", "metaAck"} : e[z] = x0[z]
      BY <2>3, <2>4 DEF Frame
    <3> QED BY <3>1, <3>2, <3>3, <3>4
  <2>6. e = x0 BY <2>3, <2>4, <2>5
  <2> QED BY <2>6, Zenon DEF e
<1>4. ASSUME NEW j \in 0 .. n, NEW k \in 0 .. n, k # 0, j = k - 1
      PROVE  ReadOrWait(ReadTo(d, j), q[k]) = ReadTo(d, k)
  <2>1. j \in Nat /\ k = j + 1 /\ n > 0 /\ k \in 1 .. n BY <1>1, <1>4
  <2>2. q[k] = "CH" BY <1>1, <2>1
  <2>3. ReadOrWait(ReadTo(d, j), "CH") = ReadTo(d, j + 1) BY <1>2, <2>1, ReadOne
  <2> QED BY <2>1, <2>2, <2>3
<1> HIDE DEF x0
<1>5. D(h)
  <2>1. ASSUME NEW k \in 0 .. n
        PROVE  h[k] = IF k = 0 THEN x0 ELSE ReadOrWait(h[k - 1], q[k])
    <3>1. CASE k = 0 BY <1>3, <3>1
    <3>2. CASE k # 0
      <4>1. k - 1 \in 0 .. n BY <1>1, <3>2
      <4>2. h[k - 1] = ReadTo(d, k - 1) /\ h[k] = ReadTo(d, k) BY <4>1, Zenon
      <4>3. ReadOrWait(ReadTo(d, k - 1), q[k]) = ReadTo(d, k) BY <1>4, <3>2, <4>1, Zenon
      <4> QED BY <3>2, <4>2, <4>3
    <3> QED BY <3>1, <3>2
  <2>2. h = [k \in 0 .. n |-> h[k]] OBVIOUS
  <2> HIDE DEF h
  <2> QED BY <2>1, <2>2
<1>6. D(f)
  <2>1. f = CHOOSE g : D(g) BY DEF ReadQueue, x0
  <2> HIDE DEF D, h
  <2> QED BY <1>5, <2>1
<1> HIDE DEF f
<1>7. ASSUME NEW k \in 0 .. n, k # 0 PROVE f[k] = ReadOrWait(f[k - 1], q[k])
  <2>1. f[k] = IF k = 0 THEN x0 ELSE ReadOrWait(f[k - 1], q[k]) BY <1>6, Zenon
  <2> QED BY <1>7, <2>1, Zenon
<1>8. f[0] = x0
  <2>1. 0 \in 0 .. n BY <1>1
  <2> QED BY <1>6, <2>1
<1>9. \A k \in 0 .. n : f[k] = ReadTo(d, k)
  <2> DEFINE T == {k \in 0 .. n : f[k] # ReadTo(d, k)}
  <2>1. ASSUME T # {} PROVE FALSE
    <3>1. T \subseteq Nat BY <1>1
    <3>2. PICK k \in T : \A j \in T : ~(<<j, k>> \in OpToRel(<, Nat))
      BY <2>1, <3>1, NatLessThanWellFounded, WFMin, Zenon
    <3>3. k \in 0 .. n /\ f[k] # ReadTo(d, k) OBVIOUS
    <3>4. k # 0 BY <1>3, <1>8, <3>3
    <3>5. k - 1 \in 0 .. n /\ k - 1 \in Nat /\ k \in Nat /\ k - 1 < k BY <1>1, <3>3, <3>4
    <3>6. k - 1 \notin T BY <3>2, <3>5, Zenon DEF OpToRel
    <3>7. f[k - 1] = ReadTo(d, k - 1) BY <3>5, <3>6, Zenon
    <3>8. f[k] = ReadOrWait(f[k - 1], q[k]) BY <1>7, <3>3, <3>4, Zenon
    <3>9. ReadOrWait(ReadTo(d, k - 1), q[k]) = ReadTo(d, k) BY <1>4, <3>3, <3>4, <3>5, Zenon
    <3> QED BY <3>3, <3>7, <3>8, <3>9, Zenon
  <2> QED BY <2>1, Zenon
<1>10. n \in 0 .. n BY <1>1
<1> QED BY <1>9, <1>10, Zenon DEF process_session_read, f

\* process_session_read keeps the session sound and, if it is not waiting, empties recv_q.
LEMMA ReadSound ==
  ASSUME NEW d, Sound(d)
  PROVE  LET e == process_session_read(d) IN
         /\ Sound(e) /\ Frame(d, e, {"recvQ", "held", "metaAck"})
         /\ ~e.waiting => e.recvQ = <<>>
<1> DEFINE n == Len(d.recvQ)
           e == ReadTo(d, n)
<1>1. DOMAIN d = Fields /\ d.recvQ \in Seq({"CH"}) /\ d.held \in Int BY DEF Sound, Shape
<1>2. n \in Nat BY <1>1, Items
<1>3. process_session_read(d) = e BY QueueRead
<1>4. /\ Frame(d, e, {"recvQ", "held", "metaAck"})
      /\ e.recvQ = IF d.waiting THEN [i \in 1 .. n |-> "CH"] ELSE <<>>
      /\ e.held = IF d.waiting THEN d.held ELSE d.held - n
      /\ e.metaAck = IF d.hs = "CERTIFICATE_VERIFY" /\ n > 0
                     THEN (d.seq + d.len + 80) % SeqSpace ELSE d.metaAck
  BY <1>2, ReadToFields, Zenon
<1> HIDE DEF e, n
<1>5. e.held \in Int BY <1>1, <1>2, <1>4
<1>6. e.recvQ \in Seq({"CH"})
  <2>1. [i \in 1 .. n |-> "CH"] \in Seq({"CH"}) /\ <<>> \in Seq({"CH"}) BY <1>2, Hellos, NoItem
  <2> QED BY <1>4, <2>1
<1>7. e.metaAck \in SeqNo
  <2>1. d.seq \in Int /\ d.len \in Int /\ d.metaAck \in SeqNo BY DEF Sound, Shape, SeqNo
  <2>2. SeqSpace \in Nat /\ SeqSpace > 0 BY Space, Increasing DEF Pos, StreamEnd
  <2>3. (d.seq + d.len + 80) % SeqSpace \in SeqNo BY <2>1, <2>2 DEF SeqNo
  <2> QED BY <1>4, <2>1, <2>3
<1>8. e.waiting = d.waiting /\ e.hs = d.hs BY <1>4 DEF Frame, Fields
<1>9. ~d.waiting => e.recvQ = <<>> BY <1>4
<1>10. Sent(e) \/ ~Begun(e) => e.recvQ = <<>>
  <2>1. Sent(e) => ~d.waiting BY <1>8 DEF Sent, Sound, Flags
  <2> QED BY <1>8, <1>9, <2>1 DEF Begun
<1>11. Shape(e) BY <1>4, <1>5, <1>6, <1>7, <1>10 DEF Sound, Shape, Frame, Fields
<1>12. Flags(e) BY <1>4 DEF Sound, Flags, Frame, Fields, Sent
<1>13. Stage(e) BY <1>4 DEF Sound, Stage, Frame, Fields
<1>14. Says(e, e.tx) BY <1>4 DEF Sound, Says, Frame, Fields, Sent
<1> QED BY <1>3, <1>4, <1>8, <1>9, <1>11, <1>12, <1>13, <1>14 DEF Sound

\* The records of the flight one by one.
LEMMA RecordValues ==
  /\ Record[1] = [msg |-> "SERVER_HELLO", nonce |-> -1, over |-> <<>>]
  /\ Record[2] = [msg |-> "ENCRYPTED_EXTENSIONS", nonce |-> 0, over |-> <<>>]
  /\ Record[3] = [msg |-> "CERTIFICATE", nonce |-> 1, over |-> <<>>]
  /\ Record[4] = [msg |-> "CERTIFICATE_VERIFY", nonce |-> 2, over |-> M[4]]
  /\ Record[5] = [msg |-> "FINISHED", nonce |-> 3, over |-> M[5]]
BY DEF Record, Transcript

\* The flight that is built up record by record.
LEMMA Growth ==
  /\ Append(Append(M[0], "CLIENT_HELLO"), "SERVER_HELLO") = M[2]
  /\ Append(Append(M[2], "ENCRYPTED_EXTENSIONS"), "CERTIFICATE") = M[4]
  /\ Append(M[4], "CERTIFICATE_VERIFY") = M[5] /\ Append(M[5], "FINISHED") = M[6]
  /\ Append(F[0], Record[1]) = F[1]
  /\ Append(Append(F[1], Record[2]), Record[3]) = F[3]
  /\ Append(Append(F[3], Record[4]), Record[5]) = F[5]
<1>1. /\ Append(M[0], Transcript[1]) = M[1] /\ Append(M[1], Transcript[2]) = M[2]
      /\ Append(M[2], Transcript[3]) = M[3] /\ Append(M[3], Transcript[4]) = M[4]
      /\ Append(M[4], Transcript[5]) = M[5] /\ Append(M[5], Transcript[6]) = M[6]
  <2> DEFINE P(k, j) == Append(M[k], Transcript[j]) = M[j]
  <2>1. \A k \in 0 .. 5 : P(k, k + 1) BY Messages, Zenon
  <2> HIDE DEF P
  <2>2. P(0, 1) /\ P(1, 2) /\ P(2, 3) /\ P(3, 4) /\ P(4, 5) /\ P(5, 6) BY <2>1
  <2> QED BY <2>2, Zenon DEF P
<1>2. /\ Transcript[1] = "CLIENT_HELLO" /\ Transcript[2] = "SERVER_HELLO"
      /\ Transcript[3] = "ENCRYPTED_EXTENSIONS" /\ Transcript[4] = "CERTIFICATE"
      /\ Transcript[5] = "CERTIFICATE_VERIFY" /\ Transcript[6] = "FINISHED"
  BY DEF Transcript
<1>3. /\ Append(F[0], Record[1]) = F[1] /\ Append(F[1], Record[2]) = F[2]
      /\ Append(F[2], Record[3]) = F[3] /\ Append(F[3], Record[4]) = F[4]
      /\ Append(F[4], Record[5]) = F[5]
  <2> DEFINE P(k, j) == Append(F[k], Record[j]) = F[j]
  <2>1. \A k \in 0 .. 4 : P(k, k + 1) BY Records, Zenon
  <2> HIDE DEF P
  <2>2. P(0, 1) /\ P(1, 2) /\ P(2, 3) /\ P(3, 4) /\ P(4, 5) BY <2>1
  <2> QED BY <2>2, Zenon DEF P
<1> QED BY <1>1, <1>2, <1>3, Zenon

\* handle_handshake, when the key generation is done.
LEMMA HelloHandled ==
  ASSUME NEW d, Sound(d), d.hs = "HELLO_REQUEST", d.waiting
  PROVE  LET e == get_processed_crypto(d) IN
         /\ Sound(e) /\ e.hs = "SERVER_HELLO" /\ e.waiting = FALSE /\ e.held = d.held - 1
         /\ Frame(d, e, {"hs", "waiting", "held", "msgs", "sendBuffer", "writeSp", "sendSeq"})
<1> DEFINE d1 == [store_handshake(d, "CLIENT_HELLO") EXCEPT !.hs = "CLIENT_HELLO"]
           d2 == [send_server_hello(d1) EXCEPT !.hs = "SERVER_HELLO", !.writeSp = TRUE, !.sendSeq = 0]
           d3 == delete_record(d2)
           e == [d3 EXCEPT !.waiting = FALSE]
<1>1. /\ DOMAIN d = Fields /\ d.held \in Int /\ d.msgs = M[0] /\ d.sendBuffer = F[0]
      /\ d.writeSp = FALSE /\ d.key = <<>> /\ d.signed = FALSE
  BY DEF Sound, Shape, Stage, Flags
<1>2. get_processed_crypto(d) = e BY DEF get_processed_crypto, handle_handshake
<1>3. Frame(d, d1, {"hs", "msgs"}) /\ d1.hs = "CLIENT_HELLO" /\ d1.msgs = Append(M[0], "CLIENT_HELLO")
  <2> DEFINE s == [d EXCEPT !.msgs = Append(@, "CLIENT_HELLO")]
  <2>1. store_handshake(d, "CLIENT_HELLO") = s BY DEF store_handshake, Order
  <2>2. Frame(d, s, {"msgs"}) /\ s.msgs = Append(M[0], "CLIENT_HELLO") BY <1>1 DEF Frame, Fields
  <2> HIDE DEF s
  <2>3. d1 = [s EXCEPT !.hs = "CLIENT_HELLO"] BY <2>1
  <2> QED BY <2>2, <2>3 DEF Frame, Fields
<1> HIDE DEF d1
<1>4. /\ Frame(d, d2, {"hs", "msgs", "sendBuffer", "writeSp", "sendSeq"})
      /\ d2.hs = "SERVER_HELLO" /\ d2.writeSp = TRUE /\ d2.sendSeq = 0
      /\ d2.msgs = M[2] /\ d2.sendBuffer = F[1]
  <2>1. /\ d1.writeSp = FALSE /\ d1.sendBuffer = F[0] /\ DOMAIN d1 = Fields
    BY <1>1, <1>3 DEF Frame, Fields
  <2> DEFINE s == [d1 EXCEPT !.msgs = Append(@, "SERVER_HELLO")]
             b == [s EXCEPT !.sendBuffer =
                     Append(@, [msg |-> "SERVER_HELLO", nonce |-> -1, over |-> <<>>])]
  <2>2. store_handshake(d1, "SERVER_HELLO") = s BY <1>3 DEF store_handshake, Order
  <2>3. send_server_hello(d1) = b BY <2>1, <2>2, Zenon DEF send_server_hello, send_record
  <2>4. Frame(d1, s, {"msgs"}) /\ s.msgs = M[2] BY <1>3, <2>1, Growth, Zenon DEF Frame, Fields
  <2> HIDE DEF s
  <2>5. Frame(s, b, {"sendBuffer"}) /\ b.sendBuffer = F[1]
    <3>1. s.sendBuffer = F[0] /\ DOMAIN s = Fields BY <2>1, <2>4 DEF Frame, Fields
    <3>2. Append(F[0], [msg |-> "SERVER_HELLO", nonce |-> -1, over |-> <<>>]) = F[1]
      BY Growth, RecordValues, Zenon
    <3> QED BY <3>1, <3>2 DEF Frame, Fields
  <2> HIDE DEF b
  <2>6. DOMAIN b = Fields BY <2>5 DEF Frame
  <2>7. /\ Frame(b, d2, {"hs", "writeSp", "sendSeq"})
        /\ d2.hs = "SERVER_HELLO" /\ d2.writeSp = TRUE /\ d2.sendSeq = 0
    BY <2>3, <2>6, Zenon DEF Frame, Fields
  <2> HIDE DEF d2
  <2>8. d2.msgs = M[2] /\ d2.sendBuffer = F[1] BY <2>4, <2>5, <2>7 DEF Frame, Fields
  <2> QED BY <1>3, <2>4, <2>5, <2>7, <2>8 DEF Frame
<1> HIDE DEF d2
<1>5. Frame(d2, d3, {"held"}) /\ d3.held = d2.held - 1
  BY <1>4 DEF delete_record, Frame, Fields
<1> HIDE DEF d3
<1>6. Frame(d3, e, {"waiting"}) /\ e.waiting = FALSE BY <1>5 DEF Frame, Fields
<1> HIDE DEF e
<1>7. /\ Frame(d, e, {"hs", "waiting", "held", "msgs", "sendBuffer", "writeSp", "sendSeq"})
      /\ e.hs = "SERVER_HELLO" /\ e.writeSp = TRUE /\ e.sendSeq = 0
      /\ e.msgs = M[2] /\ e.sendBuffer = F[1] /\ e.held = d.held - 1 /\ e.waiting = FALSE
  <2>1. Frame(d, e, {"hs", "waiting", "held", "msgs", "sendBuffer", "writeSp", "sendSeq"})
    BY <1>4, <1>5, <1>6 DEF Frame
  <2>2. /\ e.hs = "SERVER_HELLO" /\ e.writeSp = TRUE /\ e.sendSeq = 0
        /\ e.msgs = M[2] /\ e.sendBuffer = F[1]
    BY <1>4, <1>5, <1>6 DEF Frame, Fields
  <2>3. e.held = d.held - 1 BY <1>4, <1>5, <1>6 DEF Frame, Fields
  <2> QED BY <2>1, <2>2, <2>3, <1>6
<1>8. Shape(e)
  <2>1. ~Sent(e) /\ Begun(e) BY <1>7 DEF Sent, Begun
  <2>2. e.held \in Int BY <1>1, <1>7
  <2> QED BY <1>7, <2>1, <2>2 DEF Sound, Shape, Frame, Fields
<1>9. Flags(e)
  <2>1. /\ e.signed = d.signed /\ e.active = d.active /\ e.readSp = d.readSp
        /\ e.mig = d.mig /\ e.applied = d.applied
    BY <1>7 DEF Frame, Fields
  <2>2. {d.signed, d.active, d.readSp, d.mig, d.applied} \subseteq BOOLEAN BY DEF Sound, Flags
  <2>3. ~d.readSp /\ ~d.active /\ ~d.applied /\ ~d.mig BY DEF Sound, Flags, Sent
  <2> QED BY <1>7, <2>1, <2>2, <2>3, Zenon DEF Flags, Sent
<1>10. Stage(e)
  <2>1. e.key = <<>> /\ e.signed = FALSE BY <1>1, <1>7 DEF Frame, Fields
  <2> QED BY <1>7, <2>1 DEF Stage
<1>11. Says(e, e.tx) BY <1>7 DEF Sound, Says, Frame, Fields, Sent
<1> QED BY <1>2, <1>7, <1>8, <1>9, <1>10, <1>11 DEF Sound

\* A record of the flight under write_sp, of a message that is not stored yet.
LEMMA RecordSent ==
  ASSUME NEW d, DOMAIN d = Fields, NEW t, Order[t] > Order[d.hs], d.writeSp, NEW over
  PROVE  LET e == send_record(d, t, over) IN
         /\ Frame(d, e, {"msgs", "sendBuffer", "sendSeq"})
         /\ e.msgs = Append(d.msgs, t) /\ e.sendSeq = d.sendSeq + 1
         /\ e.sendBuffer = Append(d.sendBuffer, [msg |-> t, nonce |-> d.sendSeq, over |-> over])
<1> DEFINE s == [d EXCEPT !.msgs = Append(@, t)]
           e == [s EXCEPT !.sendBuffer =
                            Append(@, [msg |-> t, nonce |-> s.sendSeq, over |-> over]),
                          !.sendSeq = @ + 1]
<1>1. store_handshake(d, t) = s BY DEF store_handshake
<1>2. send_record(d, t, over) = e BY <1>1 DEF send_record, encrypt_record
<1>3. Frame(d, s, {"msgs"}) /\ s.msgs = Append(d.msgs, t) BY DEF Frame, Fields
<1> HIDE DEF s
<1>4. /\ Frame(s, e, {"sendBuffer", "sendSeq"}) /\ e.sendSeq = s.sendSeq + 1
      /\ e.sendBuffer = Append(s.sendBuffer, [msg |-> t, nonce |-> s.sendSeq, over |-> over])
  BY <1>3, Zenon DEF Frame, Fields
<1> HIDE DEF e
<1>5. s.sendBuffer = d.sendBuffer /\ s.sendSeq = d.sendSeq BY <1>3 DEF Frame, Fields
<1>6. e.msgs = Append(d.msgs, t) BY <1>3, <1>4 DEF Frame, Fields
<1>7. Frame(d, e, {"msgs", "sendBuffer", "sendSeq"}) BY <1>3, <1>4 DEF Frame
<1> QED BY <1>2, <1>4, <1>5, <1>6, <1>7

\* The answers of the PKA core to the other two requests.
LEMMA AnswerSound ==
  ASSUME NEW d, Sound(d), d.hs \in {"SERVER_HELLO", "CERTIFICATE"}
  PROVE  LET e == get_processed_crypto(d) IN
         /\ Sound(e) /\ Frame(d, e, {"key", "signed", "waiting"}) /\ e.waiting = FALSE
<1>1. DOMAIN d = Fields BY Zenon DEF Sound, Shape
<1>2. CASE d.hs = "SERVER_HELLO"
  <2> DEFINE k == [d EXCEPT !.key = d.msgs]
             e == [k EXCEPT !.waiting = FALSE]
  <2>1. get_processed_crypto(d) = e
    BY <1>2 DEF get_processed_crypto, handle_after_ecdhe_shared_secret_calc
  <2>2. Frame(d, e, {"key", "waiting"}) /\ e.waiting = FALSE /\ e.key = d.msgs
    BY <1>1, Zenon DEF Frame, Fields
  <2> HIDE DEF k, e
  <2>3. Shape(e)
    <3>1. ~Sent(e) /\ Begun(e) BY <1>2, <2>2 DEF Sent, Begun, Frame, Fields
    <3> QED BY <2>2, <3>1 DEF Sound, Shape, Frame, Fields
  <2>4. Flags(e)
    <3>1. /\ e.signed = d.signed /\ e.active = d.active /\ e.readSp = d.readSp
          /\ e.writeSp = d.writeSp /\ e.mig = d.mig /\ e.applied = d.applied /\ e.hs = d.hs
      BY <2>2 DEF Frame, Fields
    <3> QED BY <2>2, <3>1, Zenon DEF Sound, Flags, Sent
  <2>5. Stage(e)
    <3>1. d.msgs = M[2] BY <1>2 DEF Sound, Stage
    <3> QED BY <1>2, <2>2, <3>1 DEF Sound, Stage, Frame, Fields
  <2>6. Says(e, e.tx) BY <2>2 DEF Sound, Says, Frame, Fields, Sent
  <2>7. Frame(d, e, {"key", "signed", "waiting"}) BY <2>2 DEF Frame
  <2> QED BY <2>1, <2>2, <2>3, <2>4, <2>5, <2>6, <2>7 DEF Sound
<1>3. CASE d.hs = "CERTIFICATE"
  <2> DEFINE k == [d EXCEPT !.signed = TRUE]
             e == [k EXCEPT !.waiting = FALSE]
  <2>1. get_processed_crypto(d) = e
    BY <1>3 DEF get_processed_crypto, handle_after_ecdsa_signature
  <2>2. Frame(d, e, {"signed", "waiting"}) /\ e.waiting = FALSE /\ e.signed = TRUE
    BY <1>1, Zenon DEF Frame, Fields
  <2> HIDE DEF k, e
  <2>3. Shape(e)
    <3>1. ~Sent(e) /\ Begun(e) BY <1>3, <2>2 DEF Sent, Begun, Frame, Fields
    <3> QED BY <2>2, <3>1 DEF Sound, Shape, Frame, Fields
  <2>4. Flags(e)
    <3>1. /\ e.active = d.active /\ e.readSp = d.readSp
          /\ e.writeSp = d.writeSp /\ e.mig = d.mig /\ e.applied = d.applied /\ e.hs = d.hs
      BY <2>2 DEF Frame, Fields
    <3> QED BY <2>2, <3>1, Zenon DEF Sound, Flags, Sent
  <2>5. Stage(e) BY <1>3, <2>2 DEF Sound, Stage, Frame, Fields
  <2>6. Says(e, e.tx) BY <2>2 DEF Sound, Says, Frame, Fields, Sent
  <2>7. Frame(d, e, {"key", "signed", "waiting"}) BY <2>2 DEF Frame
  <2> QED BY <2>1, <2>2, <2>3, <2>4, <2>5, <2>6, <2>7 DEF Sound
<1> QED BY <1>2, <1>3, Zenon

\* apply_hws only arms the offload, of an active and migrated session.
LEMMA ApplySound ==
  ASSUME NEW d, Sound(d)
  PROVE  LET e == apply_hws(d) IN
         Sound(e) /\ Frame(d, e, {"applied"}) /\ e.applied = (d.applied \/ (d.active /\ d.mig))
<1> DEFINE e == apply_hws(d)
<1>1. DOMAIN d = Fields BY DEF Sound, Shape
<1>2. Frame(d, e, {"applied"}) /\ e.applied = (d.applied \/ (d.active /\ d.mig))
  BY <1>1 DEF apply_hws, Frame, Fields
<1> HIDE DEF e
<1>3. Shape(e) BY <1>2 DEF Sound, Shape, Frame, Fields, Sent, Begun
<1>4. Flags(e)
  <2>1. /\ e.active = d.active /\ e.readSp = d.readSp /\ e.waiting = d.waiting
        /\ e.writeSp = d.writeSp /\ e.mig = d.mig /\ e.signed = d.signed /\ e.hs = d.hs
    BY <1>2 DEF Frame, Fields
  <2>2. {e.waiting, e.signed, e.active, e.readSp, e.writeSp, e.mig} \subseteq BOOLEAN
    BY <2>1 DEF Sound, Flags
  <2>3. e.applied \in BOOLEAN BY <1>2
  <2>4. e.applied => e.active BY <1>2, <2>1 DEF Sound, Flags
  <2> QED BY <2>1, <2>2, <2>3, <2>4 DEF Sound, Flags, Sent
<1>5. Stage(e) BY <1>2 DEF Sound, Stage, Frame, Fields
<1>6. Says(e, e.tx) BY <1>2 DEF Sound, Says, Frame, Fields, Sent
<1> QED BY <1>2, <1>3, <1>4, <1>5, <1>6 DEF Sound, e

\* forward_app_data only takes the pending segment.
LEMMA ForwardSound ==
  ASSUME NEW d, Sound(d)
  PROVE  LET e == forward_app_data(d) IN Sound(e) /\ Frame(d, e, {"pending"})
<1>1. CASE ~Forwards(d)
  <2>1. forward_app_data(d) = d BY <1>1 DEF forward_app_data
  <2> QED BY <2>1 DEF Sound, Shape, Frame
<1>2. CASE Forwards(d)
  <2> DEFINE e == [d EXCEPT !.pending = NoPacket]
  <2>1. forward_app_data(d) = e BY <1>2 DEF forward_app_data
  <2>2. Frame(d, e, {"pending"}) /\ e.pending = NoPacket BY DEF Sound, Shape, Frame, Fields
  <2> HIDE DEF e
  <2>3. NoPacket \in Segment BY DEF NoPacket, Segment, StreamEnd
  <2>4. Shape(e) BY <2>2, <2>3 DEF Sound, Shape, Frame, Fields, Sent, Begun
  <2>5. Flags(e) BY <2>2 DEF Sound, Flags, Frame, Fields, Sent
  <2>6. Stage(e) BY <2>2 DEF Sound, Stage, Frame, Fields
  <2>7. Says(e, e.tx) BY <2>2 DEF Sound, Says, Frame, Fields, Sent
  <2> QED BY <2>1, <2>2, <2>4, <2>5, <2>6, <2>7 DEF Sound
<1> QED BY <1>1, <1>2

\* The key is there: the extensions and the certificate are added and the
\* signature is asked for.
LEMMA CertificateAdded ==
  ASSUME NEW d, Sound(d), d.hs = "SERVER_HELLO", d.key # <<>>
  PROVE  LET e == send_remain_server_records(d) IN
         /\ Sound(e) /\ e.hs = "CERTIFICATE"
         /\ Frame(d, e, {"hs", "msgs", "sendBuffer", "sendSeq", "toSign", "waiting"})
<1>1. /\ DOMAIN d = Fields /\ d.msgs = M[2] /\ d.sendBuffer = F[1] /\ d.writeSp /\ d.sendSeq = 0
      /\ d.key = M[2]
  BY DEF Sound, Shape, Stage
<1> DEFINE x == send_record(d, "ENCRYPTED_EXTENSIONS", <<>>)
           d1 == [x EXCEPT !.hs = "ENCRYPTED_EXTENSIONS"]
           y == send_record(d1, "CERTIFICATE", <<>>)
           d2 == [y EXCEPT !.hs = "CERTIFICATE"]
           e == [d2 EXCEPT !.toSign = d2.msgs, !.waiting = TRUE]
<1>2. send_remain_server_records(d) = e
  BY DEF send_remain_server_records, signature_certificate, send_encrypted_extensions,
         send_certificate
<1>3. /\ Frame(d, x, {"msgs", "sendBuffer", "sendSeq"})
      /\ x.msgs = Append(M[2], "ENCRYPTED_EXTENSIONS") /\ x.sendSeq = 1
      /\ x.sendBuffer = Append(F[1], Record[2])
  <2>1. Order["ENCRYPTED_EXTENSIONS"] > Order[d.hs] BY DEF Order
  <2>2. /\ Frame(d, x, {"msgs", "sendBuffer", "sendSeq"})
        /\ x.msgs = Append(d.msgs, "ENCRYPTED_EXTENSIONS") /\ x.sendSeq = d.sendSeq + 1
        /\ x.sendBuffer = Append(d.sendBuffer, [msg |-> "ENCRYPTED_EXTENSIONS",
                                                 nonce |-> d.sendSeq, over |-> <<>>])
    BY <1>1, <2>1, RecordSent
  <2> HIDE DEF x
  <2>3. x.sendBuffer = Append(d.sendBuffer, Record[2]) BY <2>2, <1>1, RecordValues, Zenon
  <2>4. x.sendSeq = 1 BY <2>2, <1>1
  <2> QED BY <2>2, <2>3, <2>4, <1>1, Zenon
<1> HIDE DEF x
<1>4. /\ Frame(d, d1, {"hs", "msgs", "sendBuffer", "sendSeq"}) /\ d1.hs = "ENCRYPTED_EXTENSIONS"
      /\ d1.msgs = Append(M[2], "ENCRYPTED_EXTENSIONS") /\ d1.sendSeq = 1
      /\ d1.sendBuffer = Append(F[1], Record[2])
  BY <1>3 DEF Frame, Fields
<1> HIDE DEF d1
<1>5. /\ Frame(d1, y, {"msgs", "sendBuffer", "sendSeq"})
      /\ y.msgs = M[4] /\ y.sendSeq = 2 /\ y.sendBuffer = F[3]
  <2>1. DOMAIN d1 = Fields /\ d1.writeSp BY <1>1, <1>4 DEF Frame, Fields
  <2>2. Order["CERTIFICATE"] > Order[d1.hs] BY <1>4 DEF Order
  <2>3. /\ Frame(d1, y, {"msgs", "sendBuffer", "sendSeq"})
        /\ y.msgs = Append(d1.msgs, "CERTIFICATE") /\ y.sendSeq = d1.sendSeq + 1
        /\ y.sendBuffer =
             Append(d1.sendBuffer, [msg |-> "CERTIFICATE", nonce |-> d1.sendSeq, over |-> <<>>])
    BY <2>1, <2>2, RecordSent
  <2> HIDE DEF y
  <2>4. y.sendBuffer = Append(d1.sendBuffer, Record[3]) BY <2>3, <1>4, RecordValues
  <2>5. y.sendSeq = 2 BY <2>3, <1>4
  <2>6. y.msgs = M[4] /\ y.sendBuffer = F[3] BY <2>3, <2>4, <1>4, Growth, Zenon
  <2> QED BY <2>3, <2>5, <2>6, Zenon
<1> HIDE DEF y
<1>6. /\ Frame(d, d2, {"hs", "msgs", "sendBuffer", "sendSeq"}) /\ d2.hs = "CERTIFICATE"
      /\ d2.msgs = M[4] /\ d2.sendSeq = 2 /\ d2.sendBuffer = F[3]
  <2>1. Frame(y, d2, {"hs"}) /\ d2.hs = "CERTIFICATE" BY <1>5 DEF Frame, Fields
  <2> HIDE DEF d2
  <2>2. Frame(d, d2, {"hs", "msgs", "sendBuffer", "sendSeq"}) BY <1>4, <1>5, <2>1 DEF Frame
  <2> QED BY <1>5, <2>1, <2>2 DEF Frame, Fields
<1> HIDE DEF d2
<1>7. /\ Frame(d, e, {"hs", "msgs", "sendBuffer", "sendSeq", "toSign", "waiting"})
      /\ e.hs = "CERTIFICATE" /\ e.msgs = M[4] /\ e.sendSeq = 2 /\ e.sendBuffer = F[3]
      /\ e.toSign = M[4] /\ e.waiting = TRUE
  <2>1. Frame(d2, e, {"toSign", "waiting"}) /\ e.toSign = d2.msgs /\ e.waiting = TRUE
    BY <1>6, Zenon DEF Frame, Fields
  <2> HIDE DEF e
  <2>2. Frame(d, e, {"hs", "msgs", "sendBuffer", "sendSeq", "toSign", "waiting"})
    BY <1>6, <2>1 DEF Frame
  <2> QED BY <1>6, <2>1, <2>2 DEF Frame, Fields
<1> HIDE DEF e
<1>8. ~Sent(e) /\ Begun(e) BY <1>7, Zenon DEF Sent, Begun
<1>9. Shape(e) BY <1>7, <1>8 DEF Sound, Shape, Frame, Fields
<1>10. Flags(e)
  <2>1. /\ e.active = d.active /\ e.readSp = d.readSp /\ e.applied = d.applied
        /\ e.writeSp = d.writeSp /\ e.mig = d.mig /\ e.signed = d.signed
    BY <1>7 DEF Frame, Fields
  <2>2. {e.waiting, e.signed, e.active, e.readSp, e.writeSp, e.mig, e.applied} \subseteq BOOLEAN
    BY <1>7, <2>1, Zenon DEF Sound, Flags
  <2>3. ~e.readSp /\ ~e.active /\ ~e.applied /\ ~e.mig BY <2>1 DEF Sound, Flags, Sent
  <2> QED BY <1>7, <2>2, <2>3 DEF Flags
<1>11. Stage(e)
  <2>1. e.key = M[2] /\ e.writeSp BY <1>1, <1>7 DEF Frame, Fields
  <2>2. e.signed = d.signed /\ ~d.signed BY <1>7 DEF Frame, Fields, Sound, Stage
  <2> QED BY <1>7, <2>1, <2>2 DEF Stage
<1>12. Says(e, e.tx)
  <2>1. e.tx = d.tx /\ ~Sent(d) BY <1>7 DEF Frame, Fields, Sent
  <2> QED BY <2>1 DEF Sound, Says
<1> QED BY <1>2, <1>7, <1>9, <1>10, <1>11, <1>12 DEF Sound

\* The CertificateVerify that the flight gets.
LEMMA VerifySent ==
  ASSUME NEW d, DOMAIN d = Fields, d.hs = "CERTIFICATE", d.writeSp
  PROVE  LET e == send_record(d, "CERTIFICATE_VERIFY", d.toSign) IN
         /\ Frame(d, e, {"msgs", "sendBuffer", "sendSeq"})
         /\ e.msgs = Append(d.msgs, "CERTIFICATE_VERIFY") /\ e.sendSeq = d.sendSeq + 1
         /\ e.sendBuffer = Append(d.sendBuffer, [msg |-> "CERTIFICATE_VERIFY",
                                                  nonce |-> d.sendSeq, over |-> d.toSign])
<1>1. Order["CERTIFICATE_VERIFY"] > Order[d.hs] BY DEF Order
<1> QED BY <1>1, RecordSent

\* The signature is there: the flight is complete, the keys are derived and the
\* host is told.
LEMMA FlightCompleted ==
  ASSUME NEW d, Sound(d), d.hs = "CERTIFICATE", d.signed
  PROVE  LET e == send_remain_server_records(d) IN
         /\ Sound(e) /\ e.hs = "CERTIFICATE_VERIFY"
         /\ Frame(d, e, {"hs", "msgs", "sendBuffer", "sendSeq", "appKeys", "vd", "metaAck"})
         /\ e.metaAck = (d.seq + d.len + 80) % SeqSpace
<1>1. /\ DOMAIN d = Fields /\ d.msgs = M[4] /\ d.sendBuffer = F[3] /\ d.writeSp /\ d.sendSeq = 2
      /\ d.key = M[2] /\ d.toSign = M[4]
  BY DEF Sound, Shape, Stage
<1> DEFINE x == send_record(d, "CERTIFICATE_VERIFY", d.toSign)
           d1 == [x EXCEPT !.hs = "CERTIFICATE_VERIFY"]
           y == send_record(d1, "FINISHED", d1.msgs)
           z == [y EXCEPT !.appKeys = y.msgs]
           w == [z EXCEPT !.vd = z.msgs]
           e == send_key_meta(w)
<1>2. send_remain_server_records(d) = e
  BY DEF send_remain_server_records, send_certificate_verify, send_server_finished,
         handle_app_keys_calculation, handle_verify_data_calculation
<1>3. /\ Frame(d, x, {"msgs", "sendBuffer", "sendSeq"})
      /\ x.msgs = M[5] /\ x.sendSeq = 3
      /\ x.sendBuffer = Append(F[3], Record[4])
  <2>1. Order["CERTIFICATE_VERIFY"] > Order[d.hs] BY DEF Order
  <2>2. /\ Frame(d, x, {"msgs", "sendBuffer", "sendSeq"})
        /\ x.msgs = Append(d.msgs, "CERTIFICATE_VERIFY") /\ x.sendSeq = d.sendSeq + 1
        /\ x.sendBuffer = Append(d.sendBuffer, [msg |-> "CERTIFICATE_VERIFY",
                                                 nonce |-> d.sendSeq, over |-> d.toSign])
    <3>1. DOMAIN d = Fields /\ d.writeSp BY <1>1
    <3> QED BY <3>1, VerifySent, Zenon
  <2> HIDE DEF x
  <2>3. x.sendBuffer = Append(d.sendBuffer, Record[4]) BY <2>2, <1>1, RecordValues, Zenon
  <2>4. x.sendSeq = 3 BY <2>2, <1>1
  <2>5. x.msgs = M[5] BY <2>2, <1>1, Growth, Zenon
  <2> QED BY <2>2, <2>3, <2>4, <2>5, <1>1, Zenon
<1> HIDE DEF x
<1>4. /\ Frame(d, d1, {"hs", "msgs", "sendBuffer", "sendSeq"}) /\ d1.hs = "CERTIFICATE_VERIFY"
      /\ d1.msgs = M[5] /\ d1.sendSeq = 3 /\ d1.sendBuffer = Append(F[3], Record[4])
  BY <1>3 DEF Frame, Fields
<1> HIDE DEF d1
<1>5. /\ Frame(d1, y, {"msgs", "sendBuffer", "sendSeq"}) /\ y.msgs = M[6] /\ y.sendBuffer = F[5]
  <2>1. DOMAIN d1 = Fields /\ d1.writeSp BY <1>1, <1>4 DEF Frame, Fields
  <2>2. Order["FINISHED"] > Order[d1.hs] BY <1>4 DEF Order
  <2>3. /\ Frame(d1, y, {"msgs", "sendBuffer", "sendSeq"})
        /\ y.msgs = Append(d1.msgs, "FINISHED")
        /\ y.sendBuffer =
             Append(d1.sendBuffer, [msg |-> "FINISHED", nonce |-> d1.sendSeq, over |-> d1.msgs])
    BY <2>1, <2>2, RecordSent
  <2> HIDE DEF y
  <2>4. y.sendBuffer = Append(d1.sendBuffer, Record[5]) BY <2>3, <1>4, RecordValues, Zenon
  <2>5. y.msgs = M[6] /\ y.sendBuffer = F[5] BY <2>3, <2>4, <1>4, Growth, Zenon
  <2> QED BY <2>3, <2>5
<1> HIDE DEF y
<1>6. Frame(d, y, {"hs", "msgs", "sendBuffer", "sendSeq"}) BY <1>4, <1>5 DEF Frame
<1>7. y.hs = "CERTIFICATE_VERIFY" BY <1>4, <1>5 DEF Frame, Fields
<1>8. /\ Frame(d, z, {"hs", "msgs", "sendBuffer", "sendSeq", "appKeys"})
      /\ z.hs = "CERTIFICATE_VERIFY" /\ z.msgs = M[6] /\ z.appKeys = M[6] /\ z.sendBuffer = F[5]
  BY <1>5, <1>6, <1>7 DEF Frame, Fields
<1> HIDE DEF z
<1>9. /\ Frame(d, w, {"hs", "msgs", "sendBuffer", "sendSeq", "appKeys", "vd"})
      /\ w.hs = "CERTIFICATE_VERIFY" /\ w.appKeys = M[6] /\ w.vd = M[6] /\ w.sendBuffer = F[5]
  BY <1>8 DEF Frame, Fields
<1> HIDE DEF w
<1>10. Sound(w)
  <2>1. ~Sent(w) /\ Begun(w) BY <1>9 DEF Sent, Begun
  <2>2. Shape(w) BY <1>9, <2>1 DEF Sound, Shape, Frame, Fields
  <2>3. Flags(w)
    <3>1. /\ w.active = d.active /\ w.readSp = d.readSp /\ w.applied = d.applied
          /\ w.writeSp = d.writeSp /\ w.mig = d.mig /\ w.signed = d.signed /\ w.waiting = d.waiting
      BY <1>9, Zenon DEF Frame, Fields
    <3>2. {w.waiting, w.signed, w.active, w.readSp, w.writeSp, w.mig, w.applied} \subseteq BOOLEAN
      BY <3>1 DEF Sound, Flags
    <3>3. ~w.readSp /\ ~w.active /\ ~w.applied BY <3>1 DEF Sound, Flags, Sent
    <3>4. ~w.waiting BY <3>1 DEF Sound, Stage
    <3> QED BY <1>9, <3>2, <3>3, <3>4 DEF Flags
  <2>4. Stage(w)
    <3>1. w.key = M[2] BY <1>1, <1>9 DEF Frame, Fields
    <3> QED BY <1>9, <3>1 DEF Stage
  <2>5. Says(w, w.tx)
    <3>1. w.tx = d.tx /\ ~Sent(d) BY <1>9 DEF Frame, Fields, Sent
    <3> QED BY <3>1 DEF Sound, Says
  <2> QED BY <2>2, <2>3, <2>4, <2>5 DEF Sound
<1>11. /\ Sound(e) /\ Frame(w, e, {"metaAck"})
       /\ e.metaAck = (w.seq + w.len + 80) % SeqSpace
  BY <1>10, MetaSound
<1> HIDE DEF e
<1>12. e.hs = "CERTIFICATE_VERIFY" BY <1>9, <1>11 DEF Frame, Fields
<1>13. w.seq = d.seq /\ w.len = d.len BY <1>9 DEF Frame, Fields
<1>14. Frame(d, e, {"hs", "msgs", "sendBuffer", "sendSeq", "appKeys", "vd", "metaAck"})
  BY <1>9, <1>11 DEF Frame
<1> QED BY <1>2, <1>11, <1>12, <1>13, <1>14

\* The host has answered: the flight goes out.
LEMMA FlightSent ==
  ASSUME NEW d, Sound(d), isn \in SeqNo, d.hs = "CERTIFICATE_VERIFY", d.mig, d.recvQ = <<>>
  PROVE  LET e == send_remain_server_records(d) IN
         /\ Sound(e) /\ e.hs = "FINISHED"
         /\ Frame(d, e, {"hs", "sentAck", "tx", "serverRecords", "sendBuffer"})
         /\ e.sentAck = AckNo(d) /\ e.tx = d.tx \cup {[ack |-> AckNo(d), flight |-> F[5]]}
<1>1. /\ DOMAIN d = Fields /\ d.sendBuffer = F[5] /\ d.key = M[2] /\ d.appKeys = M[6]
      /\ d.vd = M[6]
  BY DEF Sound, Shape, Stage
<1> DEFINE p == send_tcp_packet(d, d.sendBuffer)
           q == [p EXCEPT !.serverRecords = d.sendBuffer, !.sendBuffer = <<>>]
           e == [q EXCEPT !.hs = "FINISHED"]
<1>2. send_remain_server_records(d) = e
  BY DEF send_remain_server_records, send_pending_records
<1>3. /\ Frame(d, p, {"sentAck", "tx"}) /\ p.sentAck = AckNo(d)
      /\ p.tx = d.tx \cup {[ack |-> AckNo(d), flight |-> F[5]]}
  BY <1>1, SendChanges
<1>4. AckNo(d) \in SeqNo BY AckInSpace
<1> HIDE DEF p
<1>5. /\ Frame(d, q, {"sentAck", "tx", "serverRecords", "sendBuffer"})
      /\ q.sentAck = AckNo(d) /\ q.serverRecords = F[5]
      /\ q.tx = d.tx \cup {[ack |-> AckNo(d), flight |-> F[5]]}
  <2>1. Frame(p, q, {"serverRecords", "sendBuffer"}) /\ q.serverRecords = F[5]
    BY <1>1, <1>3, Zenon DEF Frame, Fields
  <2> HIDE DEF q
  <2>2. q.sentAck = p.sentAck /\ q.tx = p.tx BY <2>1 DEF Frame, Fields
  <2>3. Frame(d, q, {"sentAck", "tx", "serverRecords", "sendBuffer"}) BY <1>3, <2>1 DEF Frame
  <2> QED BY <1>3, <2>1, <2>2, <2>3
<1> HIDE DEF q
<1>6. /\ Frame(d, e, {"hs", "sentAck", "tx", "serverRecords", "sendBuffer"})
      /\ e.hs = "FINISHED" /\ e.sentAck = AckNo(d) /\ e.serverRecords = F[5]
      /\ e.tx = d.tx \cup {[ack |-> AckNo(d), flight |-> F[5]]}
  <2>1. Frame(q, e, {"hs"}) /\ e.hs = "FINISHED" BY <1>5 DEF Frame, Fields
  <2> HIDE DEF e
  <2>2. e.sentAck = q.sentAck /\ e.tx = q.tx /\ e.serverRecords = q.serverRecords
    BY <2>1 DEF Frame, Fields
  <2>3. Frame(d, e, {"hs", "sentAck", "tx", "serverRecords", "sendBuffer"})
    BY <1>5, <2>1 DEF Frame
  <2> QED BY <1>5, <2>1, <2>2, <2>3
<1> HIDE DEF e
<1>7. Shape(e)
  <2>1. e.recvQ = <<>> BY <1>6 DEF Frame, Fields
  <2>2. \A m \in e.tx : m.ack \in SeqNo
    BY <1>4, <1>6 DEF Sound, Shape
  <2> QED BY <1>4, <1>6, <2>1, <2>2 DEF Sound, Shape, Frame, Fields
<1>8. Flags(e)
  <2>1. /\ e.active = d.active /\ e.readSp = d.readSp /\ e.applied = d.applied
        /\ e.writeSp = d.writeSp /\ e.mig = d.mig /\ e.signed = d.signed /\ e.waiting = d.waiting
    BY <1>6, Zenon DEF Frame, Fields
  <2>2. {e.waiting, e.signed, e.active, e.readSp, e.writeSp, e.mig, e.applied} \subseteq BOOLEAN
    BY <2>1 DEF Sound, Flags
  <2>3. ~e.readSp /\ ~e.active /\ ~e.applied /\ ~e.waiting BY <2>1 DEF Sound, Flags, Sent
  <2> QED BY <1>6, <2>2, <2>3 DEF Flags, Sent
<1>9. Stage(e)
  <2>1. e.key = M[2] /\ e.appKeys = M[6] /\ e.vd = M[6] /\ e.mig
    BY <1>1, <1>6 DEF Frame, Fields
  <2> QED BY <1>6, <2>1 DEF Stage
<1>10. Says(e, e.tx)
  <2>1. Sent(e) BY <1>6 DEF Sent
  <2>2. \A m \in d.tx : m.flight = <<>> \/ m.flight = F[5] BY DEF Sound, Says
  <2> QED BY <1>6, <2>1, <2>2 DEF Says
<1> QED BY <1>2, <1>6, <1>7, <1>8, <1>9, <1>10 DEF Sound

\* The first half of a visit keeps the session sound.
LEMMA BeforeSound ==
  ASSUME NEW d, Sound(d), NEW done \in BOOLEAN, done => Asked(d)
  PROVE  LET e == Before(d, done) IN
         /\ Sound(e) /\ (e.hs = "CERTIFICATE_VERIFY" => e.recvQ = <<>>)
         /\ Sent(d) => ~done /\ Frame(d, e, {"recvQ", "held", "metaAck", "applied"})
         /\ done => e.hs \in {"SERVER_HELLO", "CERTIFICATE"}
         /\ ~done => e.hs = d.hs
<1> DEFINE d1 == process_session_read(d)
           d2 == IF done THEN get_processed_crypto(d1) ELSE d1
           e == apply_hws(d2)
<1>1. Sound(d1) /\ Frame(d, d1, {"recvQ", "held", "metaAck"}) /\ (~d1.waiting => d1.recvQ = <<>>)
  BY ReadSound
<1> HIDE DEF d1
<1>2. d1.hs = d.hs /\ d1.waiting = d.waiting BY <1>1 DEF Frame, Fields
<1>3. /\ Sound(d2)
      /\ done => d2.hs \in {"SERVER_HELLO", "CERTIFICATE"}
      /\ ~done => d2 = d1
  <2>1. CASE done /\ d.hs = "HELLO_REQUEST"
    <3>1. d1.waiting BY <1>2, <2>1 DEF Asked
    <3> QED BY <1>1, <1>2, <2>1, <3>1, HelloHandled, Zenon
  <2>2. CASE done /\ d.hs # "HELLO_REQUEST"
    <3>1. d1.hs \in {"SERVER_HELLO", "CERTIFICATE"} BY <1>2, <2>2 DEF Asked
    <3> DEFINE g == get_processed_crypto(d1)
    <3>2. Sound(g) /\ Frame(d1, g, {"key", "signed", "waiting"}) BY <1>1, <3>1, AnswerSound, Zenon
    <3>3. d2 = g BY <2>2
    <3> HIDE DEF g
    <3>4. g.hs = d1.hs BY <3>2 DEF Frame, Fields
    <3> QED BY <2>2, <3>1, <3>2, <3>3, <3>4
  <2>3. CASE ~done BY <1>1, <2>3
  <2> QED BY <2>1, <2>2, <2>3
<1> HIDE DEF d2
<1>4. Sound(e) /\ Frame(d2, e, {"applied"}) BY <1>3, ApplySound
<1> HIDE DEF e
<1>5. e.hs = d2.hs /\ e.recvQ = d2.recvQ BY <1>4 DEF Frame, Fields
<1>6. e.hs = "CERTIFICATE_VERIFY" => e.recvQ = <<>>
  <2> SUFFICES ASSUME e.hs = "CERTIFICATE_VERIFY" PROVE e.recvQ = <<>> OBVIOUS
  <2>1. ~done /\ d2 = d1 BY <1>3, <1>5
  <2>2. ~d1.waiting BY <1>1, <1>5, <2>1 DEF Sound, Flags
  <2> QED BY <1>1, <1>5, <2>1, <2>2
<1>7. Sent(d) => ~done /\ Frame(d, e, {"recvQ", "held", "metaAck", "applied"})
  <2> SUFFICES ASSUME Sent(d)
               PROVE  ~done /\ Frame(d, e, {"recvQ", "held", "metaAck", "applied"})
    OBVIOUS
  <2>1. ~done BY DEF Asked, Sent
  <2>2. d2 = d1 BY <1>3, <2>1
  <2> QED BY <1>1, <1>4, <2>1, <2>2 DEF Frame
<1>8. e = Before(d, done) BY DEF Before, e, d2, d1
<1> QED BY <1>2, <1>3, <1>4, <1>5, <1>6, <1>7, <1>8

\* What comes out of the records that remain.
LEMMA RemainSound ==
  ASSUME NEW d, Sound(d), isn \in SeqNo, d.hs = "CERTIFICATE_VERIFY" => d.recvQ = <<>>
  PROVE  LET e == send_remain_server_records(d) IN Sound(e) /\ (Sent(d) => e = d)
<1>1. CASE d.hs = "SERVER_HELLO" /\ d.key # <<>> BY <1>1, CertificateAdded DEF Sent
<1>2. CASE d.hs = "CERTIFICATE" /\ d.signed BY <1>2, FlightCompleted DEF Sent
<1>3. CASE d.hs = "CERTIFICATE_VERIFY" /\ d.mig BY <1>3, FlightSent DEF Sent
<1>4. CASE /\ ~(d.hs = "SERVER_HELLO" /\ d.key # <<>>) /\ ~(d.hs = "CERTIFICATE" /\ d.signed)
           /\ ~(d.hs = "CERTIFICATE_VERIFY" /\ d.mig)
  <2>1. send_remain_server_records(d) = d BY <1>4 DEF send_remain_server_records
  <2> QED BY <2>1
<1> QED BY <1>1, <1>2, <1>3, <1>4

\* A whole visit does, and says nothing itself once the flight is out.
LEMMA VisitSound ==
  ASSUME NEW d, Sound(d), isn \in SeqNo, NEW done \in BOOLEAN, done => Asked(d)
  PROVE  LET e == Visited(d, done) IN
         /\ Sound(e) /\ Before(d, done).pending \in Segment
         /\ Sent(d) => Sent(e) /\ e.tx = d.tx
<1> DEFINE d3 == Before(d, done)
           d4 == forward_app_data(d3)
           e == send_remain_server_records(d4)
<1>1. /\ Sound(d3) /\ (d3.hs = "CERTIFICATE_VERIFY" => d3.recvQ = <<>>)
      /\ Sent(d) => Frame(d, d3, {"recvQ", "held", "metaAck", "applied"})
  BY BeforeSound
<1> HIDE DEF d3
<1>2. Sound(d4) /\ Frame(d3, d4, {"pending"}) BY <1>1, ForwardSound
<1> HIDE DEF d4
<1>3. d4.hs = d3.hs /\ d4.recvQ = d3.recvQ /\ d4.tx = d3.tx BY <1>2 DEF Frame, Fields
<1>4. Sound(e) /\ (Sent(d4) => e = d4) BY <1>1, <1>2, <1>3, RemainSound
<1> HIDE DEF e
<1>5. Sent(d) => d3.hs = d.hs /\ d3.tx = d.tx BY <1>1 DEF Frame, Fields
<1>6. Sent(d) => Sent(e) /\ e.tx = d.tx BY <1>3, <1>4, <1>5 DEF Sent
<1>7. d3.pending \in Segment BY <1>1 DEF Sound, Shape
<1> QED BY <1>4, <1>6, <1>7 DEF Visited, e, d4, d3

\* Building the flight leaves a followed session as described.
LEMMA BuildFrame ==
  ASSUME NEW d, Sound(d), NEW lost \in BOOLEAN, Follows(d, lost), Begun(d), ~Sent(d),
         NEW e, Begun(e), ~Sent(e),
         Frame(d, e, {"hs", "waiting", "held", "msgs", "sendBuffer", "writeSp", "sendSeq", "key",
                      "signed", "toSign", "appKeys", "vd", "metaAck"}),
         Balance(e) = Balance(d), e.hs = "CERTIFICATE_VERIFY" => e.metaAck = At(4)
  PROVE  Follows(e, lost)
<1>1. /\ e.seq = d.seq /\ e.len = d.len /\ e.ack = d.ack /\ e.sentAck = d.sentAck /\ e.crr = d.crr
      /\ e.active = d.active /\ e.readSp = d.readSp /\ e.tx = d.tx
  BY DEF Frame, Fields
<1>2. ~d.active BY DEF Sound, Flags, Sent
<1>3. Progress(e)
  <2>1. /\ d.ack = 0 /\ d.crr = <<>>
        /\ Covers(d, 0, 2, 0) \/ Covers(d, 1, 2, 1)
    BY <1>2 DEF Follows, Progress, Sent
  <2>2. Covers(e, 0, 2, 0) \/ Covers(e, 1, 2, 1) BY <1>1, <2>1 DEF Covers
  <2> QED BY <1>1, <2>1, <2>2 DEF Progress
<1>4. Holds(e, lost) BY <1>1 DEF Follows, Holds
<1>5. RequestLen = 126 => Meets(e)
  <2> SUFFICES ASSUME RequestLen = 126 PROVE Meets(e) OBVIOUS
  <2>1. \A m \in d.tx : \E p \in 0 .. 4 : m.ack = At(p) BY DEF Follows, Meets
  <2> QED BY <1>1, <1>2, <2>1 DEF Meets
<1> QED BY <1>3, <1>4, <1>5 DEF Follows

\* The ClientHello was the last segment.
LEMMA BuildCovers ==
  ASSUME NEW d, Sound(d), NEW lost \in BOOLEAN, Follows(d, lost), Begun(d), ~Sent(d)
  PROVE  /\ \E b \in {0, 1} : Covers(d, b, 2, b)
         /\ d.ack = 0 /\ d.crr = <<>> /\ d.active = FALSE /\ d.readSp = FALSE
<1>1. ~d.active /\ d.active \in BOOLEAN /\ ~d.readSp /\ d.readSp \in BOOLEAN
  BY DEF Sound, Flags, Sent
<1>2. /\ d.ack = 0 /\ d.crr = <<>>
      /\ Covers(d, 0, 2, 0) \/ Covers(d, 1, 2, 1)
  BY <1>1 DEF Follows, Progress, Sent
<1>3. d.active = FALSE /\ d.readSp = FALSE BY <1>1
<1> QED BY <1>2, <1>3

\* process_session_read leaves a followed session as described.
LEMMA ReadFollows ==
  ASSUME NEW d, Sound(d), isn \in SeqNo, NEW lost \in BOOLEAN, Follows(d, lost)
  PROVE  Follows(process_session_read(d), lost)
<1> DEFINE k == Len(d.recvQ)
           e == ReadTo(d, k)
<1>1. d.recvQ \in Seq({"CH"}) /\ d.held \in Int BY DEF Sound, Shape
<1>2. k \in Nat BY <1>1
<1>3. process_session_read(d) = e BY QueueRead
<1> HIDE DEF k
<1>4. /\ Frame(d, e, {"recvQ", "held", "metaAck"})
      /\ e.recvQ = IF d.waiting THEN [i \in 1 .. k |-> "CH"] ELSE <<>>
      /\ e.held = IF d.waiting THEN d.held ELSE d.held - k
      /\ e.metaAck = IF d.hs = "CERTIFICATE_VERIFY" /\ k > 0
                     THEN (d.seq + d.len + 80) % SeqSpace ELSE d.metaAck
  BY <1>2, ReadToFields
<1> HIDE DEF e
<1>5. e.hs = d.hs /\ e.waiting = d.waiting BY <1>4 DEF Frame, Fields
<1>6. Balance(e) = Balance(d)
  <2>1. e.held - Len(e.recvQ) = d.held - k
    <3>1. CASE d.waiting
      <4>1. Len([i \in 1 .. k |-> "CH"]) = k BY <1>2, Hellos
      <4> QED BY <1>4, <3>1, <4>1, Zenon
    <3>2. CASE ~d.waiting
      <4>1. Len(<<>>) = 0 BY NoItem
      <4> QED BY <1>1, <1>2, <1>4, <3>2, <4>1
    <3> QED BY <3>1, <3>2
  <2> QED BY <1>5, <2>1 DEF Balance, k
<1>7. e.metaAck = d.metaAck \/ e.metaAck = At(4)
  <2>1. CASE d.hs = "CERTIFICATE_VERIFY"
    <3>1. Begun(d) /\ ~Sent(d) BY <2>1 DEF Begun, Sent
    <3>2. PICK b \in {0, 1} : Covers(d, b, 2, b) BY <3>1, BuildCovers, Zenon
    <3>3. (d.seq + d.len + 80) % SeqSpace = At(4) BY <3>2, MetaNo
    <3> QED BY <1>4, <3>3
  <2>2. CASE d.hs # "CERTIFICATE_VERIFY" BY <1>4, <2>2
  <2> QED BY <2>1, <2>2
<1>8. Frame(d, e, {"recvQ", "held", "metaAck", "applied", "pending", "mig"}) BY <1>4 DEF Frame
<1> QED BY <1>3, <1>6, <1>7, <1>8, FollowFrame

\* So does get_processed_crypto.
LEMMA AnswerFollows ==
  ASSUME NEW d, Sound(d), NEW lost \in BOOLEAN, Follows(d, lost), Asked(d)
  PROVE  Follows(get_processed_crypto(d), lost)
<1> DEFINE e == get_processed_crypto(d)
<1>1. Begun(d) /\ ~Sent(d) BY DEF Asked, Begun, Sent
<1>2. d.held \in Int /\ Len(d.recvQ) \in Int BY DEF Sound, Shape
<1>3. CASE d.hs = "HELLO_REQUEST"
  <2>1. d.waiting BY <1>3 DEF Asked
  <2>2. /\ e.hs = "SERVER_HELLO" /\ e.waiting = FALSE /\ e.held = d.held - 1
        /\ Frame(d, e, {"hs", "waiting", "held", "msgs", "sendBuffer", "writeSp", "sendSeq"})
    BY <1>3, <2>1, HelloHandled, Zenon
  <2> HIDE DEF e
  <2>3. e.recvQ = d.recvQ BY <2>2 DEF Frame, Fields
  <2>4. Balance(e) = Balance(d) BY <1>2, <1>3, <2>1, <2>2, <2>3 DEF Balance
  <2>5. Begun(e) /\ ~Sent(e) BY <2>2 DEF Begun, Sent
  <2>6. Frame(d, e, {"hs", "waiting", "held", "msgs", "sendBuffer", "writeSp", "sendSeq", "key",
                     "signed", "toSign", "appKeys", "vd", "metaAck"})
    BY <2>2 DEF Frame
  <2>7. e.hs # "CERTIFICATE_VERIFY" BY <2>2
  <2>8. Follows(e, lost) BY <1>1, <2>4, <2>5, <2>6, <2>7, BuildFrame
  <2> QED BY <2>8 DEF e
<1>4. CASE d.hs # "HELLO_REQUEST"
  <2>1. d.hs \in {"SERVER_HELLO", "CERTIFICATE"} BY <1>4 DEF Asked
  <2>2. Frame(d, e, {"key", "signed", "waiting"}) BY <2>1, AnswerSound, Zenon
  <2> HIDE DEF e
  <2>3. e.recvQ = d.recvQ /\ e.hs = d.hs /\ e.held = d.held BY <2>2 DEF Frame, Fields
  <2>4. Balance(e) = Balance(d) BY <1>4, <2>3 DEF Balance
  <2>5. Begun(e) /\ ~Sent(e) BY <2>1, <2>3 DEF Begun, Sent
  <2>6. Frame(d, e, {"hs", "waiting", "held", "msgs", "sendBuffer", "writeSp", "sendSeq", "key",
                     "signed", "toSign", "appKeys", "vd", "metaAck"})
    BY <2>2 DEF Frame
  <2>7. e.hs # "CERTIFICATE_VERIFY" BY <2>1, <2>3
  <2>8. Follows(e, lost) BY <1>1, <2>4, <2>5, <2>6, <2>7, BuildFrame
  <2> QED BY <2>8 DEF e
<1> QED BY <1>3, <1>4

\* So does the first half of a visit.
LEMMA BeforeFollows ==
  ASSUME NEW d, Sound(d), isn \in SeqNo, NEW lost \in BOOLEAN, Follows(d, lost),
         NEW done \in BOOLEAN, done => Asked(d)
  PROVE  LET e == Before(d, done) IN Follows(e, lost) /\ Same(d, e)
<1> DEFINE d1 == process_session_read(d)
           d2 == IF done THEN get_processed_crypto(d1) ELSE d1
           e == apply_hws(d2)
<1>1. Sound(d1) /\ Frame(d, d1, {"recvQ", "held", "metaAck"}) BY ReadSound
<1>2. Follows(d1, lost) BY ReadFollows
<1> HIDE DEF d1
<1>3. /\ d1.hs = d.hs /\ d1.waiting = d.waiting /\ d1.lapse = d.lapse /\ d1.mig = d.mig
      /\ d1.active = d.active
  BY <1>1 DEF Frame, Fields
<1>4. Sound(d2) /\ Follows(d2, lost) /\ Same(d, d2)
  <2>1. CASE ~done BY <1>1, <1>2, <1>3, <2>1 DEF Same
  <2>2. CASE done
    <3> DEFINE g == get_processed_crypto(d1)
    <3>1. d2 = g BY <2>2
    <3>2. Asked(d1) BY <1>3, <2>2 DEF Asked
    <3>3. Follows(g, lost) BY <1>1, <1>2, <3>2, AnswerFollows
    <3>4. Sound(g) /\ Frame(d1, g, {"hs", "waiting", "held", "msgs", "sendBuffer", "writeSp",
                                    "sendSeq", "key", "signed"})
      <4>1. CASE d1.hs = "HELLO_REQUEST"
        <5>1. d1.waiting BY <3>2, <4>1 DEF Asked
        <5>2. /\ Sound(g)
              /\ Frame(d1, g, {"hs", "waiting", "held", "msgs", "sendBuffer", "writeSp", "sendSeq"})
          BY <1>1, <4>1, <5>1, HelloHandled, Zenon
        <5> HIDE DEF g
        <5> QED BY <5>2 DEF Frame
      <4>2. CASE d1.hs # "HELLO_REQUEST"
        <5>1. d1.hs \in {"SERVER_HELLO", "CERTIFICATE"} BY <3>2, <4>2 DEF Asked
        <5>2. Sound(g) /\ Frame(d1, g, {"key", "signed", "waiting"}) BY <1>1, <5>1, AnswerSound, Zenon
        <5> HIDE DEF g
        <5> QED BY <5>2 DEF Frame
      <4> QED BY <4>1, <4>2
    <3> HIDE DEF g
    <3>5. g.lapse = d1.lapse /\ g.mig = d1.mig /\ g.active = d1.active BY <3>4 DEF Frame, Fields
    <3> QED BY <1>3, <3>1, <3>3, <3>4, <3>5 DEF Same
  <2> QED BY <2>1, <2>2
<1> HIDE DEF d2
<1>5. Sound(e) /\ Frame(d2, e, {"applied"}) BY <1>4, ApplySound
<1> HIDE DEF e
<1>6. /\ e.hs = d2.hs /\ e.waiting = d2.waiting /\ e.recvQ = d2.recvQ /\ e.held = d2.held
      /\ e.metaAck = d2.metaAck /\ e.lapse = d2.lapse /\ e.mig = d2.mig /\ e.active = d2.active
  BY <1>5 DEF Frame, Fields
<1>7. Balance(e) = Balance(d2) BY <1>6 DEF Balance
<1>8. Frame(d2, e, {"recvQ", "held", "metaAck", "applied", "pending", "mig"}) BY <1>5 DEF Frame
<1>9. Follows(e, lost) BY <1>4, <1>6, <1>7, <1>8, FollowFrame
<1>10. Same(d, e) BY <1>4, <1>6 DEF Same
<1>11. e = Before(d, done) BY DEF Before, e, d2, d1
<1> QED BY <1>9, <1>10, <1>11

\* So does send_remain_server_records.
LEMMA RemainFollows ==
  ASSUME NEW d, Sound(d), isn \in SeqNo, NEW lost \in BOOLEAN, Follows(d, lost),
         d.hs = "CERTIFICATE_VERIFY" => d.recvQ = <<>>
  PROVE  LET e == send_remain_server_records(d) IN Follows(e, lost) /\ Same(d, e)
<1> DEFINE e == send_remain_server_records(d)
           X == {"hs", "waiting", "held", "msgs", "sendBuffer", "writeSp", "sendSeq", "key",
                 "signed", "toSign", "appKeys", "vd", "metaAck"}
<1>1. CASE d.hs = "SERVER_HELLO" /\ d.key # <<>>
  <2>1. /\ e.hs = "CERTIFICATE"
        /\ Frame(d, e, {"hs", "msgs", "sendBuffer", "sendSeq", "toSign", "waiting"})
    BY <1>1, CertificateAdded
  <2> HIDE DEF e
  <2>2. /\ e.recvQ = d.recvQ /\ e.held = d.held /\ e.lapse = d.lapse /\ e.mig = d.mig
        /\ e.active = d.active
    BY <2>1 DEF Frame, Fields
  <2>3. Balance(e) = Balance(d) BY <1>1, <2>1, <2>2 DEF Balance
  <2>4. Begun(d) /\ ~Sent(d) /\ Begun(e) /\ ~Sent(e) BY <1>1, <2>1 DEF Begun, Sent
  <2>5. Frame(d, e, X) BY <2>1 DEF Frame
  <2>6. e.hs # "CERTIFICATE_VERIFY" BY <2>1
  <2>7. Follows(e, lost) BY <2>3, <2>4, <2>5, <2>6, BuildFrame
  <2> QED BY <2>2, <2>7 DEF Same, e
<1>2. CASE d.hs = "CERTIFICATE" /\ d.signed
  <2>1. /\ e.hs = "CERTIFICATE_VERIFY"
        /\ Frame(d, e, {"hs", "msgs", "sendBuffer", "sendSeq", "appKeys", "vd", "metaAck"})
        /\ e.metaAck = (d.seq + d.len + 80) % SeqSpace
    BY <1>2, FlightCompleted
  <2> HIDE DEF e
  <2>2. /\ e.recvQ = d.recvQ /\ e.held = d.held /\ e.lapse = d.lapse /\ e.mig = d.mig
        /\ e.active = d.active
    BY <2>1 DEF Frame, Fields
  <2>3. Balance(e) = Balance(d) BY <1>2, <2>1, <2>2 DEF Balance
  <2>4. Begun(d) /\ ~Sent(d) /\ Begun(e) /\ ~Sent(e) BY <1>2, <2>1 DEF Begun, Sent
  <2>5. Frame(d, e, X) BY <2>1 DEF Frame
  <2>6. PICK b \in {0, 1} : Covers(d, b, 2, b) BY <2>4, BuildCovers, Zenon
  <2>7. e.metaAck = At(4) BY <2>1, <2>6, MetaNo
  <2>8. Follows(e, lost) BY <2>3, <2>4, <2>5, <2>7, BuildFrame
  <2> QED BY <2>2, <2>8 DEF Same, e
<1>3. CASE d.hs = "CERTIFICATE_VERIFY" /\ d.mig
  <2>1. /\ Sound(e) /\ e.hs = "FINISHED"
        /\ Frame(d, e, {"hs", "sentAck", "tx", "serverRecords", "sendBuffer"})
        /\ e.sentAck = AckNo(d) /\ e.tx = d.tx \cup {[ack |-> AckNo(d), flight |-> F[5]]}
    BY <1>3, FlightSent
  <2> HIDE DEF e
  <2>2. /\ e.recvQ = d.recvQ /\ e.held = d.held /\ e.lapse = d.lapse /\ e.mig = d.mig
        /\ e.active = d.active /\ e.seq = d.seq /\ e.len = d.len /\ e.ack = d.ack /\ e.crr = d.crr
        /\ e.readSp = d.readSp /\ e.metaAck = d.metaAck
    BY <2>1 DEF Frame, Fields
  <2>3. Begun(d) /\ ~Sent(d) BY <1>3 DEF Begun, Sent
  <2>4. /\ \E b \in {0, 1} : Covers(d, b, 2, b)
        /\ d.ack = 0 /\ d.crr = <<>> /\ d.active = FALSE /\ d.readSp = FALSE
    BY <2>3, BuildCovers, Zenon
  <2>5. PICK b \in {0, 1} : Covers(d, b, 2, b) BY <2>4
  <2>6. AckNo(d) = At(2)
    <3>1. b \in Pos /\ 2 \in Pos /\ b <= 2 BY DEF Pos, StreamEnd
    <3> QED BY <2>4, <2>5, <3>1, EndNo, Zenon
  <2>7. Covers(e, b, 2, 2) BY <2>1, <2>2, <2>5, <2>6 DEF Covers
  <2>8. Progress(e) BY <2>1, <2>2, <2>4, <2>7 DEF Progress
  <2>9. Balance(e) = Balance(d) BY <1>3, <2>1, <2>2 DEF Balance
  <2>10. Holds(e, lost) BY <2>2, <2>9 DEF Follows, Holds
  <2>11. RequestLen = 126 => Meets(e)
    <3> SUFFICES ASSUME RequestLen = 126 PROVE Meets(e) OBVIOUS
    <3>1. \A m \in d.tx : \E p \in 0 .. 4 : m.ack = At(p) BY DEF Follows, Meets
    <3>2. d.metaAck = At(4) BY <1>3 DEF Follows, Meets
    <3>3. ASSUME NEW m \in e.tx PROVE \E p \in 0 .. 4 : m.ack = At(p)
      <4>1. m \in d.tx \/ m.ack = At(2) BY <2>1, <2>6
      <4>2. 2 \in 0 .. 4 OBVIOUS
      <4> QED BY <3>1, <4>1, <4>2
    <3> QED BY <2>2, <2>4, <3>2, <3>3 DEF Meets
  <2> QED BY <2>2, <2>8, <2>10, <2>11 DEF Same, Follows, e
<1>4. CASE /\ ~(d.hs = "SERVER_HELLO" /\ d.key # <<>>) /\ ~(d.hs = "CERTIFICATE" /\ d.signed)
           /\ ~(d.hs = "CERTIFICATE_VERIFY" /\ d.mig)
  <2>1. e = d BY <1>4 DEF send_remain_server_records
  <2> QED BY <2>1 DEF Same
<1> QED BY <1>1, <1>2, <1>3, <1>4

\* So does a whole visit.
LEMMA VisitFollows ==
  ASSUME NEW d, Sound(d), isn \in SeqNo, NEW lost \in BOOLEAN, Follows(d, lost),
         NEW done \in BOOLEAN, done => Asked(d)
  PROVE  LET e == Visited(d, done) IN Follows(e, lost) /\ Same(d, e)
<1> DEFINE d3 == Before(d, done)
           d4 == forward_app_data(d3)
           e == send_remain_server_records(d4)
<1>1. /\ Sound(d3) /\ (d3.hs = "CERTIFICATE_VERIFY" => d3.recvQ = <<>>)
      /\ Follows(d3, lost) /\ Same(d, d3)
  BY BeforeSound, BeforeFollows
<1> HIDE DEF d3
<1>2. Sound(d4) /\ Frame(d3, d4, {"pending"}) BY <1>1, ForwardSound
<1> HIDE DEF d4
<1>3. /\ d4.hs = d3.hs /\ d4.recvQ = d3.recvQ /\ d4.waiting = d3.waiting /\ d4.held = d3.held
      /\ d4.metaAck = d3.metaAck /\ Same(d3, d4)
  BY <1>2 DEF Frame, Fields, Same
<1>4. Balance(d4) = Balance(d3) BY <1>3 DEF Balance
<1>5. Frame(d3, d4, {"recvQ", "held", "metaAck", "applied", "pending", "mig"}) BY <1>2 DEF Frame
<1>6. Follows(d4, lost) BY <1>1, <1>3, <1>4, <1>5, FollowFrame
<1>7. Follows(e, lost) /\ Same(d4, e) BY <1>1, <1>2, <1>3, <1>6, RemainFollows
<1> HIDE DEF e
<1>8. Same(d, e) BY <1>1, <1>3, <1>7 DEF Same
<1> QED BY <1>7, <1>8 DEF Visited, e, d4, d3
-----------------------------------------------------------------------------
(* The steps.                                                               *)

\* The invariant holds when the connection is made.
LEMMA StartSound ==
  ASSUME Init
  PROVE  IInv
<1> DEFINE d == Inserted(isn)
<1>1. isn \in SeqNo BY HandshakeAssumption DEF Init, SeqNo
<1>2. /\ DOMAIN d = Fields /\ d.seq = isn /\ d.len = 0 /\ d.ack = 0 /\ d.sentAck = isn
      /\ d.crr = <<>> /\ d.recvQ = <<>> /\ d.held = 0 /\ d.waiting = FALSE
      /\ d.hs = "HELLO_REQUEST" /\ d.key = <<>> /\ d.signed = FALSE /\ d.active = FALSE
      /\ d.readSp = FALSE /\ d.writeSp = FALSE /\ d.msgs = <<>> /\ d.sendBuffer = <<>>
      /\ d.metaAck = isn /\ d.mig = FALSE /\ d.applied = FALSE /\ d.pending = NoPacket
      /\ d.tx = {} /\ d.lapse = {}
  BY Zenon DEF Inserted, Fields
<1> HIDE DEF d
<1>3. Shape(d)
  <2>1. NoPacket \in Segment BY DEF NoPacket, Segment, StreamEnd
  <2> QED BY <1>1, <1>2, <2>1 DEF Shape
<1>4. Flags(d) BY <1>2, Zenon DEF Flags
<1>5. Stage(d)
  <2>1. M[0] = <<>> /\ F[0] = <<>> BY Messages, Records, Zenon
  <2> QED BY <1>2, <2>1 DEF Stage
<1>6. Says(d, {}) BY DEF Says
<1>7. dpu = d BY DEF Init, d
<1>8. Sound(dpu) /\ dpu.tx = {} /\ dpu.lapse = {}
  BY <1>2, <1>3, <1>4, <1>5, <1>6, <1>7, Zenon DEF Sound
<1>9. Says(dpu, said) BY DEF Init, Says
<1>10. /\ client.una \in SeqNo /\ client.flight = FALSE /\ host.next \in SeqNo
       /\ DOMAIN client = {"una", "flight"} /\ DOMAIN host = {"next", "got"}
       /\ said = {} /\ odd = {}
  BY <1>1 DEF Init
<1> QED BY <1>1, <1>8, <1>9, <1>10, Zenon DEF IInv

\* The end of a step: the packets and the mishaps leave the session.
LEMMA BecomesSound ==
  ASSUME IInv, NEW e, Sound(e), Sent(dpu) => Sent(e), NEW more,
         \A m \in more : m.ack \in SeqNo /\ m.flight = <<>>, Becomes(e, more)
  PROVE  /\ Sound(dpu') /\ dpu'.tx = {} /\ dpu'.lapse = {} /\ Frame(e, dpu', {"tx", "lapse"})
         /\ odd' \subseteq Mishap /\ "refused" \notin odd'
         /\ \A m \in said' : m.ack \in SeqNo
         /\ Says(dpu', said') /\ (Sent(dpu) => Sent(dpu'))
<1> DEFINE n == [e EXCEPT !.tx = {}, !.lapse = {}]
<1>1. dpu' = n /\ said' = said \cup e.tx \cup more /\ odd' = odd \cup e.lapse BY DEF Becomes
<1>2. Frame(e, n, {"tx", "lapse"}) /\ n.tx = {} /\ n.lapse = {}
  BY Zenon DEF Sound, Shape, Frame, Fields
<1> HIDE DEF n
<1>3. Shape(n) BY <1>2 DEF Sound, Shape, Frame, Fields, Sent, Begun
<1>4. Flags(n) BY <1>2 DEF Sound, Flags, Frame, Fields, Sent
<1>5. Stage(n) BY <1>2 DEF Sound, Stage, Frame, Fields
<1>6. Says(n, n.tx) BY <1>2 DEF Says
<1>7. n.hs = e.hs BY <1>2 DEF Frame, Fields
<1>8. odd' \subseteq Mishap /\ "refused" \notin odd' BY <1>1 DEF IInv, Sound, Shape
<1>9. \A m \in said' : m.ack \in SeqNo BY <1>1 DEF IInv, Sound, Shape
<1>10. Says(n, said')
  <2>1. \A m \in said : m.flight = <<>> \/ (m.flight = F[5] /\ Sent(n))
    BY <1>7 DEF IInv, Says, Sent
  <2>2. \A m \in e.tx : m.flight = <<>> \/ (m.flight = F[5] /\ Sent(n))
    BY <1>7 DEF Sound, Says, Sent
  <2> QED BY <1>1, <2>1, <2>2 DEF Says
<1>11. Sent(dpu) => Sent(n) BY <1>7 DEF Sent
<1> QED BY <1>1, <1>2, <1>3, <1>4, <1>5, <1>6, <1>8, <1>9, <1>10, <1>11 DEF Sound

\* A segment that waits for the host keeps the session sound.
LEMMA PendingSound ==
  ASSUME NEW d, Sound(d), NEW p \in Segment
  PROVE  LET e == [d EXCEPT !.pending = p] IN Sound(e) /\ Frame(d, e, {"pending"}) /\ e.pending = p
<1> DEFINE e == [d EXCEPT !.pending = p]
<1>1. Frame(d, e, {"pending"}) /\ e.pending = p BY DEF Sound, Shape, Frame, Fields
<1> HIDE DEF e
<1>2. Shape(e) BY <1>1 DEF Sound, Shape, Frame, Fields, Sent, Begun
<1>3. Flags(e) BY <1>1 DEF Sound, Flags, Frame, Fields, Sent
<1>4. Stage(e) BY <1>1 DEF Sound, Stage, Frame, Fields
<1>5. Says(e, e.tx) BY <1>1 DEF Sound, Says, Frame, Fields, Sent
<1> QED BY <1>1, <1>2, <1>3, <1>4, <1>5 DEF Sound, e

\* The host's next byte stays a sequence number.
LEMMA HostSound ==
  ASSUME IInv, NEW s \in Segment
  PROVE  HostTakes(s).next \in SeqNo /\ DOMAIN HostTakes(s) = {"next", "got"}
<1>1. s.to \in Pos /\ isn \in SeqNo /\ host.next \in SeqNo /\ DOMAIN host = {"next", "got"}
  BY DEF Segment, Pos, IInv
<1>2. At(s.to) \in SeqNo BY <1>1, Positions
<1>3. HostTakes(s) \in {[next |-> At(s.to), got |-> TRUE], host} BY DEF HostTakes
<1> QED BY <1>1, <1>2, <1>3

\* The invariant through a visit; once the flight is out only the host's acknowledgments are new.
LEMMA VisitStep ==
  ASSUME IInv, NEW done \in BOOLEAN, NEW through \in BOOLEAN, Visit(done, through)
  PROVE  /\ IInv'
         /\ Sent(dpu) => \A m \in said' \ said : m.flight = <<>> /\ m.ack = host'.next
<1> DEFINE d3 == Before(dpu, done)
           e == Visited(dpu, done)
           more == IF d3.pending = PureAck THEN {} ELSE {[ack |-> host'.next, flight |-> <<>>]}
<1>1. /\ UNCHANGED <<isn, client>> /\ (done => Asked(dpu))
      /\ IF through THEN host' = HostTakes(d3.pending) /\ Becomes(e, more)
         ELSE Becomes(e, {}) /\ UNCHANGED host
  BY DEF Visit, Visited, Before
<1>2. isn \in SeqNo /\ Sound(dpu) /\ dpu.tx = {} BY DEF IInv
<1>3. Sound(e) /\ d3.pending \in Segment /\ (Sent(dpu) => Sent(e) /\ e.tx = dpu.tx)
  BY <1>1, <1>2, VisitSound
<1> HIDE DEF e, d3
<1>4. host'.next \in SeqNo /\ DOMAIN host' = {"next", "got"}
  BY <1>1, <1>3, HostSound DEF IInv
<1> PICK ms : ms = IF through THEN more ELSE {} BY Zenon
<1>5. Becomes(e, ms) BY <1>1
<1>6. \A m \in ms : m.ack \in SeqNo /\ m.flight = <<>> /\ m.ack = host'.next BY <1>4
<1>7. /\ Sound(dpu') /\ dpu'.tx = {} /\ dpu'.lapse = {}
      /\ odd' \subseteq Mishap /\ "refused" \notin odd'
      /\ \A m \in said' : m.ack \in SeqNo
      /\ Says(dpu', said') /\ (Sent(dpu) => Sent(dpu'))
  BY <1>3, <1>5, <1>6, BecomesSound
<1>8. IInv' BY <1>1, <1>4, <1>7 DEF IInv
<1>9. said' = said \cup e.tx \cup ms BY <1>5 DEF Becomes
<1>10. Sent(dpu) => \A m \in said' \ said : m.flight = <<>> /\ m.ack = host'.next
  BY <1>2, <1>3, <1>6, <1>9
<1> QED BY <1>8, <1>10

\* The invariant when a segment arrives.
LEMMA ArriveStep ==
  ASSUME IInv, NEW s \in Segment, Arrive(s)
  PROVE  IInv'
<1>1. UNCHANGED <<isn, client, host>> BY DEF Arrive
<1>2. CASE ~Followed
  <2>1. UNCHANGED <<dpu, said, odd>> BY <1>2 DEF Arrive
  <2> QED BY <1>1, <2>1 DEF IInv, Says
<1>3. CASE Followed
  <2> DEFINE e == process_handshake_packet(dpu, s)
  <2>1. Becomes(e, {}) BY <1>3 DEF Arrive
  <2>2. isn \in SeqNo /\ Sound(dpu) BY DEF IInv
  <2>3. dpu.active \/ Fitting(dpu, s) BY DEF Arrive, Sendable, Fitting, IInv
  <2>4. Sound(e) /\ (Sent(dpu) => Sent(e)) BY <2>2, <2>3, PacketSound
  <2> HIDE DEF e
  <2>5. /\ Sound(dpu') /\ dpu'.tx = {} /\ dpu'.lapse = {}
        /\ odd' \subseteq Mishap /\ "refused" \notin odd'
        /\ \A m \in said' : m.ack \in SeqNo
        /\ Says(dpu', said') /\ (Sent(dpu) => Sent(dpu'))
    BY <2>1, <2>4, BecomesSound
  <2> QED BY <1>1, <2>5 DEF IInv
<1> QED BY <1>2, <1>3

\* The invariant when a bare acknowledgment arrives.
LEMMA AckStep ==
  ASSUME IInv, process_ack_packet
  PROVE  IInv'
<1>1. UNCHANGED <<isn, client, host, said, odd>> /\ dpu' = [dpu EXCEPT !.pending = PureAck]
  BY DEF process_ack_packet
<1>2. PureAck \in Segment BY DEF PureAck, Segment, HelloEnd, StreamEnd
<1>3. Sound(dpu') /\ Frame(dpu, dpu', {"pending"}) BY <1>1, <1>2, PendingSound DEF IInv
<1>4. dpu'.hs = dpu.hs /\ dpu'.tx = dpu.tx /\ dpu'.lapse = dpu.lapse BY <1>3 DEF Frame, Fields
<1> QED BY <1>1, <1>3, <1>4 DEF IInv, Says, Sent

\* The invariant when the host has taken the session over.
LEMMA MigStep ==
  ASSUME IInv, process_host_mig_fin
  PROVE  IInv'
<1>1. /\ UNCHANGED <<isn, client, said, odd>> /\ dpu' = [dpu EXCEPT !.mig = TRUE]
      /\ host' = [host EXCEPT !.next = dpu.metaAck] /\ dpu.hs = "CERTIFICATE_VERIFY"
  BY DEF process_host_mig_fin
<1>2. Sound(dpu) /\ dpu.metaAck \in SeqNo BY DEF IInv, Sound, Shape
<1>3. Frame(dpu, dpu', {"mig"}) /\ dpu'.mig = TRUE BY <1>1, <1>2 DEF Sound, Shape, Frame, Fields
<1>4. dpu'.hs = dpu.hs /\ dpu'.tx = dpu.tx /\ dpu'.lapse = dpu.lapse BY <1>3 DEF Frame, Fields
<1>5. Shape(dpu')
  <2>1. ~Sent(dpu') /\ Begun(dpu') BY <1>1, <1>4 DEF Sent, Begun
  <2> QED BY <1>2, <1>3, <2>1 DEF Sound, Shape, Frame, Fields
<1>6. Flags(dpu')
  <2>1. /\ dpu'.active = dpu.active /\ dpu'.readSp = dpu.readSp /\ dpu'.applied = dpu.applied
        /\ dpu'.writeSp = dpu.writeSp /\ dpu'.signed = dpu.signed /\ dpu'.waiting = dpu.waiting
    BY <1>3 DEF Frame, Fields
  <2>2. {dpu'.waiting, dpu'.signed, dpu'.active, dpu'.readSp, dpu'.writeSp, dpu'.mig, dpu'.applied}
          \subseteq BOOLEAN
    BY <1>2, <1>3, <2>1, Zenon DEF Sound, Flags
  <2>3. ~dpu'.readSp /\ ~dpu'.active /\ ~dpu'.applied /\ ~dpu'.waiting
    BY <1>1, <1>2, <2>1, Zenon DEF Sound, Flags, Sent
  <2> QED BY <1>1, <1>4, <2>2, <2>3 DEF Flags
<1>7. Stage(dpu') BY <1>1, <1>2, <1>3, <1>4 DEF Sound, Stage, Frame, Fields
<1>8. Says(dpu', dpu'.tx) BY <1>4 DEF IInv, Says
<1>9. host'.next \in SeqNo /\ DOMAIN host' = {"next", "got"} BY <1>1, <1>2 DEF IInv
<1> QED BY <1>1, <1>4, <1>5, <1>6, <1>7, <1>8, <1>9 DEF IInv, Says, Sent, Sound

\* The invariant when the client hears a packet, or a packet is lost.
LEMMA HearStep ==
  ASSUME IInv, NEW m \in said, Hear(m) \/ Lose(m)
  PROVE  IInv'
<1>1. /\ UNCHANGED <<isn, dpu, host, odd>> /\ said' \subseteq said
      /\ \/ UNCHANGED client
         \/ client' = [una |-> IF SEQ_GT(m.ack, client.una) THEN m.ack ELSE client.una,
                       flight |-> client.flight \/ m.flight # <<>>]
  BY DEF Hear, Lose
<1>2. m.ack \in SeqNo /\ (m.flight # <<>> => Sent(dpu)) BY DEF IInv, Says
<1>3. /\ client'.una \in SeqNo /\ client'.flight \in BOOLEAN
      /\ DOMAIN client' = {"una", "flight"} /\ (client'.flight => Sent(dpu))
  <2>1. /\ client.una \in SeqNo /\ client.flight \in BOOLEAN
        /\ DOMAIN client = {"una", "flight"} /\ (client.flight => Sent(dpu))
    BY DEF IInv
  <2> PICK u : u = IF SEQ_GT(m.ack, client.una) THEN m.ack ELSE client.una OBVIOUS
  <2> PICK f : f = (client.flight \/ m.flight # <<>>) OBVIOUS
  <2>2. u \in SeqNo BY <1>2, <2>1
  <2>3. f \in BOOLEAN OBVIOUS
  <2>4. f => Sent(dpu) BY <1>2, <2>1
  <2>5. CASE UNCHANGED client BY <2>1, <2>5
  <2>6. CASE client' = [una |-> u, flight |-> f] BY <2>2, <2>3, <2>4, <2>6
  <2> QED BY <1>1, <2>5, <2>6
<1>4. Says(dpu', said') BY <1>1 DEF IInv, Says
<1>5. Sent(dpu') <=> Sent(dpu) BY <1>1 DEF Sent
<1> QED BY <1>1, <1>3, <1>4, <1>5 DEF IInv

\* The invariant is inductive.
LEMMA StepSound ==
  ASSUME IInv, [Next]_vars
  PROVE  IInv'
<1>1. CASE UNCHANGED vars BY <1>1 DEF vars, IInv, Says
<1>2. CASE \E s \in Segment : Arrive(s) BY <1>2, ArriveStep
<1>3. CASE process_ack_packet BY <1>3, AckStep
<1>4. CASE process_host_mig_fin BY <1>4, MigStep
<1>5. CASE \E done, through \in BOOLEAN : Visit(done, through) BY <1>5, VisitStep
<1>6. CASE \E m \in said : Hear(m) \/ Lose(m) BY <1>6, HearStep
<1> QED BY <1>1, <1>2, <1>3, <1>4, <1>5, <1>6 DEF Next

\* The invariant holds in every state.
LEMMA AlwaysSound ==
  Spec => []IInv
<1>1. Init => IInv BY StartSound
<1>2. IInv /\ [Next]_vars => IInv' BY StepSound
<1> QED BY <1>1, <1>2, PTL DEF Spec

\* send_remain_server_records builds one flight, in order, with a fresh nonce
\* in each record, signed and MACed over the messages up to there, and derives
\* its keys from the right ones, whatever the client repeats meanwhile; what is
\* sent again is the same, and a client that got it has its Finished accepted.
THEOREM FlightStaysIntact ==
  Spec => []FlightIntact
<1>1. ASSUME IInv PROVE FlightIntact
  <2>1. "refused" \notin odd BY <1>1 DEF IInv
  <2>2. ASSUME dpu.hs \in {"CERTIFICATE_VERIFY", "CLIENT_CIPHER_SPEC", "FINISHED"}
        PROVE  dpu.key = SubSeq(Transcript, 1, 2) /\ dpu.appKeys = Transcript
    <3>1. dpu.key = M[2] /\ dpu.appKeys = M[6] BY <1>1, <2>2 DEF IInv, Sound, Stage
    <3>2. M[2] = SubSeq(Transcript, 1, 2) /\ M[6] = Transcript BY Messages DEF M
    <3> QED BY <3>1, <3>2
  <2>3. ASSUME NEW m \in said, m.flight # <<>>
        PROVE  /\ Len(m.flight) = 5
               /\ \A k \in 1 .. 5 :
                    /\ m.flight[k].msg = Transcript[k + 1] /\ m.flight[k].nonce = k - 2
                    /\ k >= 4 => m.flight[k].over = SubSeq(Transcript, 1, k)
    <3>1. m.flight = F[5] BY <1>1, <2>3 DEF IInv, Says
    <3>2. Len(F[5]) = 5 /\ \A k \in 1 .. 5 : F[5][k] = Record[k] BY Records
    <3>3. ASSUME NEW k \in 1 .. 5
          PROVE  /\ Record[k].msg = Transcript[k + 1] /\ Record[k].nonce = k - 2
                 /\ k >= 4 => Record[k].over = SubSeq(Transcript, 1, k)
      <4>1. /\ Record[k].msg = Transcript[k + 1] /\ Record[k].nonce = k - 2
            /\ k >= 4 => Record[k].over = M[k]
        BY DEF Record
      <4>2. M[k] = SubSeq(Transcript, 1, k) BY DEF M
      <4> QED BY <4>1, <4>2
    <3> QED BY <3>1, <3>2, <3>3
  <2> QED BY <2>1, <2>2, <2>3 DEF FlightIntact
<1>2. IInv => FlightIntact BY <1>1
<1> QED BY <1>2, AlwaysSound, PTL

\* Once the Finished has been handled the SmartNIC says nothing more to the
\* client: process_handshake_packet only keeps the segment for the host, and a
\* visit of the main loop has no record left to send.
THEOREM OneSpeaks ==
  Spec => OneSpeaker
<1>1. ASSUME IInv, [Next]_vars, dpu.active, NEW m \in said' \ said
      PROVE  m.flight = <<>> /\ m.ack = host'.next
  <2>1. Sent(dpu) BY <1>1 DEF IInv, Sound, Flags, Sent
  <2>2. CASE \E s \in Segment : Arrive(s)
    <3>1. PICK s \in Segment : Arrive(s) BY <2>2
    <3>2. Followed => Becomes([dpu EXCEPT !.pending = s], {})
      BY <1>1, <3>1 DEF Arrive, process_handshake_packet
    <3>3. Sound(dpu) /\ dpu.tx = {} BY <1>1 DEF IInv
    <3> DEFINE e == [dpu EXCEPT !.pending = s]
    <3>4. e.tx = {} BY <3>3 DEF Sound, Shape, Fields
    <3> HIDE DEF e
    <3>5. Followed => said' = said BY <3>2, <3>4 DEF Becomes, e
    <3>6. ~Followed => said' = said BY <3>1 DEF Arrive
    <3> QED BY <1>1, <3>5, <3>6
  <2>3. CASE \E done, through \in BOOLEAN : Visit(done, through) BY <1>1, <2>1, <2>3, VisitStep
  <2>4. CASE \/ UNCHANGED vars \/ process_ack_packet \/ process_host_mig_fin
             \/ \E x \in said : Hear(x) \/ Lose(x)
    BY <1>1, <2>4 DEF vars, process_ack_packet, process_host_mig_fin, Hear, Lose
  <2> QED BY <1>1, <2>2, <2>3, <2>4 DEF Next
<1>2. IInv /\ [Next]_vars =>
        [dpu.active => \A m \in said' \ said : m.flight = <<>> /\ m.ack = host'.next]_vars
  BY <1>1
<1> QED BY <1>2, AlwaysSound, PTL DEF Spec, OneSpeaker
-----------------------------------------------------------------------------
(* The steps of a connection that is followed.                              *)

\* A new connection is as described.
LEMMA StartFollows ==
  ASSUME Init
  PROVE  SeqInv
<1> DEFINE d == Inserted(isn)
<1>1. dpu = d /\ odd = {} BY DEF Init
<1>2. /\ d.seq = isn /\ d.len = 0 /\ d.ack = 0 /\ d.sentAck = isn /\ d.crr = <<>>
      /\ d.recvQ = <<>> /\ d.held = 0 /\ d.waiting = FALSE /\ d.hs = "HELLO_REQUEST"
      /\ d.active = FALSE /\ d.tx = {}
  BY DEF Inserted
<1> HIDE DEF d
<1>3. isn \in SeqNo BY HandshakeAssumption DEF Init, SeqNo
<1>4. At(0) = isn
  <2>1. SeqSpace \in Nat /\ isn \in 0 .. SeqSpace - 1 BY <1>3, Space DEF SeqNo
  <2>2. At(0) = (isn + 0) % SeqSpace BY Offsets DEF At
  <2> QED BY <2>1, <2>2
<1>5. Progress(d)
  <2>1. Covers(d, 0, 0, 0) BY <1>2, <1>4, Offsets DEF Covers
  <2>2. ~Begun(d) BY <1>2 DEF Begun
  <2> QED BY <1>2, <2>1, <2>2 DEF Progress
<1>6. Holds(d, FALSE)
  <2>1. Len(<<>>) = 0 BY NoItem
  <2> PICK w : w = IF d.hs = "HELLO_REQUEST" /\ d.waiting THEN 1 ELSE 0 OBVIOUS
  <2>2. w = 0 BY <1>2
  <2>3. Balance(d) = d.held - Len(d.recvQ) - w BY DEF Balance
  <2>4. Balance(d) = 0
    <3>1. d.held = 0 /\ Len(d.recvQ) = 0 BY <1>2, <2>1
    <3> QED BY <2>2, <2>3, <3>1
  <2> QED BY <1>2, <2>4 DEF Holds
<1>7. Meets(d) BY <1>2 DEF Meets, Sent
<1>8. ("lost" \in odd) = FALSE BY <1>1
<1> QED BY <1>1, <1>5, <1>6, <1>7, <1>8, Zenon DEF SeqInv, Follows

\* SeqInv in the next state, read as a fact about the next session.
LEMMA PrimedFollows ==
  ASSUME isn' = isn, odd' \cap Lost = {} => Follows(dpu', "lost" \in odd')
  PROVE  SeqInv'
<1>1. \A p : At(p)' = At(p) BY DEF At
<1>2. (\A b, e, a : Covers(dpu, b, e, a)' <=> Covers(dpu', b, e, a)) BY <1>1 DEF Covers
<1>3. Progress(dpu)' <=> Progress(dpu') BY <1>2 DEF Progress
<1>4. Meets(dpu)' <=> Meets(dpu') BY <1>1 DEF Meets
<1> QED BY <1>3, <1>4 DEF SeqInv, Followed, Follows

\* The end of a step.
LEMMA BecomesFollows ==
  ASSUME IInv, SeqInv, Followed, NEW e, Sound(e), NEW more, Becomes(e, more), isn' = isn,
         e.lapse \cap Lost = {} => Follows(e, "lost" \in odd \cup e.lapse)
  PROVE  SeqInv'
<1> DEFINE n == [e EXCEPT !.tx = {}, !.lapse = {}]
<1>1. dpu' = n /\ odd' = odd \cup e.lapse BY DEF Becomes
<1>2. Frame(e, n, {"tx", "lapse"}) /\ n.tx = {}
  BY Zenon DEF Sound, Shape, Frame, Fields
<1> HIDE DEF n
<1>3. SUFFICES ASSUME odd' \cap Lost = {} PROVE Follows(n, "lost" \in odd')
  BY <1>1, PrimedFollows
<1>4. Follows(e, "lost" \in odd') BY <1>1, <1>3
<1> PICK l : l = ("lost" \in odd') OBVIOUS
<1>5. /\ n.seq = e.seq /\ n.len = e.len /\ n.ack = e.ack /\ n.sentAck = e.sentAck /\ n.crr = e.crr
      /\ n.hs = e.hs /\ n.waiting = e.waiting /\ n.active = e.active /\ n.readSp = e.readSp
      /\ n.held = e.held /\ n.recvQ = e.recvQ /\ n.metaAck = e.metaAck
  BY <1>2 DEF Frame, Fields
<1>6. Progress(n)
  <2>1. Progress(e) BY <1>4 DEF Follows
  <2> QED BY <1>5, <2>1 DEF Progress, Covers, Begun, Sent
<1>7. Holds(n, l)
  <2>1. Holds(e, l) BY <1>4, Zenon DEF Follows
  <2>2. Balance(n) = Balance(e) BY <1>5 DEF Balance
  <2> QED BY <1>5, <2>1, <2>2 DEF Holds
<1>8. RequestLen = 126 => Meets(n)
  <2> SUFFICES ASSUME RequestLen = 126 PROVE Meets(n) OBVIOUS
  <2>1. Meets(e) BY <1>4 DEF Follows
  <2> QED BY <1>2, <1>5, <2>1 DEF Meets, Sent
<1> QED BY <1>6, <1>7, <1>8 DEF Follows

\* SeqInv when a segment arrives.
LEMMA ArriveFollows ==
  ASSUME IInv, SeqInv, NEW s \in Segment, Arrive(s)
  PROVE  SeqInv'
<1>1. isn' = isn BY DEF Arrive
<1>2. CASE ~Followed
  <2>1. odd' = odd BY <1>2 DEF Arrive
  <2> QED BY <1>1, <1>2, <2>1, PrimedFollows DEF Followed
<1>3. CASE Followed
  <2> DEFINE e == process_handshake_packet(dpu, s)
  <2> PICK l : l = ("lost" \in odd) OBVIOUS
  <2>1. Becomes(e, {}) BY <1>3 DEF Arrive
  <2>2. isn \in SeqNo /\ Sound(dpu) /\ dpu.lapse = {} /\ dpu.active \in BOOLEAN
    BY DEF IInv, Sound, Flags
  <2>3. l \in BOOLEAN /\ Follows(dpu, l) BY <1>3 DEF SeqInv
  <2>4. CASE dpu.active
    <3>1. e = [dpu EXCEPT !.pending = s] BY <2>4 DEF process_handshake_packet
    <3>2. Sound(e) /\ Frame(dpu, e, {"pending"}) BY <2>2, <3>1, PendingSound
    <3> HIDE DEF e
    <3>3. /\ e.held = dpu.held /\ e.recvQ = dpu.recvQ /\ e.hs = dpu.hs /\ e.waiting = dpu.waiting
          /\ e.metaAck = dpu.metaAck /\ e.lapse = {}
      BY <2>2, <3>2 DEF Frame, Fields
    <3>4. Balance(e) = Balance(dpu) BY <3>3 DEF Balance
    <3>5. Frame(dpu, e, {"recvQ", "held", "metaAck", "applied", "pending", "mig"})
      BY <3>2 DEF Frame
    <3>6. Follows(e, l) BY <2>3, <3>3, <3>4, <3>5, FollowFrame, Zenon
    <3>7. odd \cup e.lapse = odd BY <3>3
    <3> QED BY <1>1, <1>3, <2>1, <3>2, <3>6, <3>7, BecomesFollows
  <2>5. CASE ~dpu.active
    <3>1. Fitting(dpu, s) BY <2>5 DEF Arrive, Sendable, Fitting, IInv
    <3>2. l = FALSE BY <2>3, <2>5 DEF Follows, Holds
    <3>3. Open(dpu) BY <2>2, <2>3, <2>5, <3>2, Zenon DEF Open
    <3>4. Outcome(e) BY <2>2, <3>1, <3>3, PacketOutcome
    <3>5. Sound(e) BY <2>2, <3>1, PacketSound
    <3> HIDE DEF e
    <3>6. ("lost" \in e.lapse) = ("lost" \in odd \cup e.lapse)
      <4>1. "lost" \notin odd BY <3>2, Zenon
      <4> QED BY <4>1
    <3>7. e.lapse \cap Lost = {} => Follows(e, "lost" \in odd \cup e.lapse)
      BY <3>4, <3>6 DEF Outcome
    <3> QED BY <1>1, <1>3, <2>1, <3>5, <3>7, BecomesFollows
  <2> QED BY <2>4, <2>5
<1> QED BY <1>2, <1>3

\* SeqInv through a visit.
LEMMA VisitStepFollows ==
  ASSUME IInv, SeqInv, NEW done \in BOOLEAN, NEW through \in BOOLEAN, Visit(done, through)
  PROVE  SeqInv'
<1> DEFINE e == Visited(dpu, done)
<1>1. /\ isn' = isn /\ (done => Asked(dpu)) /\ Followed
      /\ \E more : Becomes(e, more)
  BY DEF Visit, Visited, Before
<1>2. isn \in SeqNo /\ Sound(dpu) /\ dpu.lapse = {} BY DEF IInv
<1> PICK l : l = ("lost" \in odd) OBVIOUS
<1>3. l \in BOOLEAN /\ Follows(dpu, l) BY <1>1 DEF SeqInv
<1>4. Follows(e, l) /\ Same(dpu, e) BY <1>1, <1>2, <1>3, VisitFollows, Zenon
<1>5. Sound(e) BY <1>1, <1>2, VisitSound
<1> HIDE DEF e
<1>6. odd \cup e.lapse = odd BY <1>2, <1>4 DEF Same
<1>7. PICK more : Becomes(e, more) BY <1>1
<1> QED BY <1>1, <1>4, <1>5, <1>6, <1>7, BecomesFollows

\* SeqInv through the steps that leave the stream alone.
LEMMA OtherFollows ==
  ASSUME IInv, SeqInv, isn' = isn, odd' = odd,
         Frame(dpu, dpu', {"pending", "mig"})
  PROVE  SeqInv'
<1> PICK l : l = ("lost" \in odd) OBVIOUS
<1> SUFFICES ASSUME odd \cap Lost = {} PROVE Follows(dpu', "lost" \in odd') BY PrimedFollows
<1>1. l \in BOOLEAN /\ Follows(dpu, l) BY DEF SeqInv, Followed
<1> PICK e : e = dpu' OBVIOUS
<1>2. Frame(dpu, e, {"pending", "mig"}) OBVIOUS
<1>3. /\ e.held = dpu.held /\ e.recvQ = dpu.recvQ /\ e.hs = dpu.hs /\ e.waiting = dpu.waiting
      /\ e.metaAck = dpu.metaAck
  BY <1>2 DEF Frame, Fields
<1>4. Balance(e) = Balance(dpu) BY <1>3 DEF Balance
<1>5. Frame(dpu, e, {"recvQ", "held", "metaAck", "applied", "pending", "mig"})
  BY <1>2 DEF Frame
<1>6. Follows(e, l) BY <1>1, <1>3, <1>4, <1>5, FollowFrame, Zenon
<1> QED BY <1>6

\* SeqInv is inductive relative to the invariant.
LEMMA StepFollows ==
  ASSUME IInv, SeqInv, [Next]_vars
  PROVE  SeqInv'
<1>1. CASE \E s \in Segment : Arrive(s) BY <1>1, ArriveFollows
<1>2. CASE \E done, through \in BOOLEAN : Visit(done, through) BY <1>2, VisitStepFollows
<1>3. DOMAIN dpu = Fields BY DEF IInv, Sound, Shape
<1>4. CASE process_ack_packet
  <2>1. isn' = isn /\ odd' = odd /\ dpu' = [dpu EXCEPT !.pending = PureAck]
    BY <1>4 DEF process_ack_packet
  <2>2. Frame(dpu, dpu', {"pending", "mig"}) BY <1>3, <2>1 DEF Frame
  <2> QED BY <2>1, <2>2, OtherFollows
<1>5. CASE process_host_mig_fin
  <2>1. isn' = isn /\ odd' = odd /\ dpu' = [dpu EXCEPT !.mig = TRUE]
    BY <1>5 DEF process_host_mig_fin
  <2>2. Frame(dpu, dpu', {"pending", "mig"}) BY <1>3, <2>1 DEF Frame
  <2> QED BY <2>1, <2>2, OtherFollows
<1>6. CASE UNCHANGED vars \/ \E m \in said : Hear(m) \/ Lose(m)
  <2>1. isn' = isn /\ odd' = odd /\ dpu' = dpu BY <1>6 DEF vars, Hear, Lose
  <2>2. Frame(dpu, dpu', {"pending", "mig"}) BY <1>3, <2>1 DEF Frame
  <2> QED BY <2>1, <2>2, OtherFollows
<1> QED BY <1>1, <1>2, <1>4, <1>5, <1>6 DEF Next

\* Both hold in every state.
LEMMA AlwaysFollows ==
  Spec => [](IInv /\ SeqInv)
<1>1. Init => IInv /\ SeqInv BY StartSound, StartFollows
<1>2. (IInv /\ SeqInv) /\ [Next]_vars => (IInv /\ SeqInv)' BY StepSound, StepFollows
<1> QED BY <1>1, <1>2, PTL DEF Spec

\* new_recv_record and delete_record balance, for any cuts, losses and
\* repetitions of the client's segments, any number of ClientHellos that wait
\* in recv_q, and any first sequence number: a record is in one place or back
\* in the pool, and a session loses one at most.
THEOREM RecordsAreKept ==
  Spec => []RecordsKept
<1>1. ASSUME IInv, SeqInv PROVE RecordsKept
  <2> SUFFICES ASSUME Followed
               PROVE  dpu.held = Len(dpu.recvQ) + (IF dpu.crr # <<>> THEN 1 ELSE 0)
                                 + (IF dpu.hs = "HELLO_REQUEST" /\ dpu.waiting THEN 1 ELSE 0)
                                 + (IF "lost" \in odd THEN 1 ELSE 0)
    BY Zenon DEF RecordsKept
  <2>1. Balance(dpu) = (IF dpu.crr # <<>> THEN 1 ELSE 0) + (IF "lost" \in odd THEN 1 ELSE 0)
    BY <1>1 DEF SeqInv, Follows, Holds
  <2>2. dpu.held \in Int /\ Len(dpu.recvQ) \in Int BY <1>1 DEF IInv, Sound, Shape
  <2> DEFINE c == IF dpu.crr # <<>> THEN 1 ELSE 0
             w == IF dpu.hs = "HELLO_REQUEST" /\ dpu.waiting THEN 1 ELSE 0
             o == IF "lost" \in odd THEN 1 ELSE 0
             k == Len(dpu.recvQ)
             h == dpu.held
  <2>3. c \in Int /\ w \in Int /\ o \in Int OBVIOUS
  <2>4. h \in Int /\ k \in Int /\ h - k - w = c + o BY <2>1, <2>2 DEF Balance
  <2> HIDE DEF c, w, o, k, h
  <2>5. h = k + c + w + o BY <2>3, <2>4
  <2> QED BY <2>5 DEF c, w, o, k, h
<1>2. IInv /\ SeqInv => RecordsKept BY <1>1
<1> QED BY <1>2, AlwaysFollows, PTL
-----------------------------------------------------------------------------
(* The seam between SmartNIC and host.                                      *)

\* What is said to the client, for a host that goes on at next.
Told(ms, next) == \A m \in ms : \E p \in Pos : m.ack = At(p) /\ (p = 5 => next = At(5))

\* SmartNIC and host agree when the connection is made.
LEMMA StartAgrees ==
  ASSUME Init
  PROVE  SeamInv
<1>1. isn \in SeqNo BY HandshakeAssumption DEF Init, SeqNo
<1>2. dpu.mig = FALSE /\ host.next = isn /\ said = {} BY DEF Init, Inserted
<1>3. At(0) = isn
  <2>1. SeqSpace \in Nat /\ isn \in 0 .. SeqSpace - 1 BY <1>1, Space DEF SeqNo
  <2>2. At(0) = (isn + 0) % SeqSpace BY Offsets DEF At
  <2> QED BY <2>1, <2>2
<1>4. At(0) # At(5)
  <2>1. 0 \in Pos /\ 5 \in Pos BY DEF Pos, StreamEnd
  <2> QED BY <1>1, <2>1, Positions
<1> QED BY <1>2, <1>3, <1>4 DEF SeamInv, Agree

\* What SeamInv says of a followed connection.
LEMMA AgreeFacts ==
  ASSUME SeamInv, Followed
  PROVE  /\ dpu.mig => host.next \in {At(4), At(5)}
         /\ host.next = At(5) => dpu.active
         /\ Told(said, host.next)
BY DEF SeamInv, Agree, Told

\* SeamInv in the next state, read as facts about the next state.
LEMMA PrimedAgree ==
  ASSUME isn' = isn,
         odd' \cap Lost = {} => /\ dpu'.mig => host'.next \in {At(4), At(5)}
                                /\ host'.next = At(5) => dpu'.active
                                /\ Told(said', host'.next)
  PROVE  SeamInv'
<1>1. \A p : At(p)' = At(p) BY DEF At
<1>2. At(4)' = At(4) /\ At(5)' = At(5) BY DEF At
<1> QED BY <1>1, <1>2 DEF SeamInv, Followed, Agree, Told

\* The host's kernel goes on to the end of the stream or stays where it is.
LEMMA HostAdvances ==
  ASSUME isn \in SeqNo, host.next \in {At(4), At(5)}, NEW s \in Segment
  PROVE  /\ HostTakes(s).next \in {At(4), At(5)}
         /\ host.next = At(5) => HostTakes(s).next = At(5)
<1>1. PICK q \in {4, 5} : host.next = At(q) OBVIOUS
<1>2. q \in Pos /\ s.to \in Pos /\ 5 \in Pos /\ q \in Int /\ s.to \in Int /\ s.to <= 5
  BY DEF Pos, StreamEnd, Segment
<1>3. CASE HostTakes(s) = host BY <1>3
<1>4. CASE HostTakes(s) # host
  <2>1. HostTakes(s).next = At(s.to) /\ At(s.to) # At(q) /\ ~SEQ_LT(At(s.to), At(q))
    BY <1>1, <1>4 DEF HostTakes
  <2>2. s.to # q /\ ~(s.to < q) BY <1>2, <2>1, Positions
  <2>3. s.to = 5 BY <1>2, <2>2
  <2> QED BY <2>1, <2>3
<1> QED BY <1>3, <1>4

\* The SmartNIC's own packets, and the host's.
LEMMA ToldMore ==
  ASSUME NEW next, NEW later, Told(said, next), next = At(5) => later = At(5), NEW ms,
         \A m \in ms : \E p \in 0 .. 4 : m.ack = At(p)
  PROVE  Told(said \cup ms, later)
<1>1. ASSUME NEW m \in said PROVE \E p \in Pos : m.ack = At(p) /\ (p = 5 => later = At(5))
  <2>1. PICK p \in Pos : m.ack = At(p) /\ (p = 5 => next = At(5)) BY DEF Told
  <2> QED BY <2>1
<1>2. ASSUME NEW m \in ms PROVE \E p \in Pos : m.ack = At(p) /\ (p = 5 => later = At(5))
  <2>1. PICK p \in 0 .. 4 : m.ack = At(p) OBVIOUS
  <2>2. p \in Pos /\ p # 5 BY DEF Pos, StreamEnd
  <2> QED BY <2>1, <2>2
<1> QED BY <1>1, <1>2 DEF Told

\* SeamInv when a segment arrives.
LEMMA ArriveAgrees ==
  ASSUME IInv, SeqInv, SeamInv, RequestLen = 126, NEW s \in Segment, Arrive(s)
  PROVE  SeamInv'
<1>1. isn' = isn /\ host' = host BY DEF Arrive
<1>2. CASE ~Followed
  <2>1. odd' = odd BY <1>2 DEF Arrive
  <2> QED BY <1>1, <1>2, <2>1, PrimedAgree DEF Followed
<1>3. CASE Followed
  <2> DEFINE e == process_handshake_packet(dpu, s)
  <2>1. Becomes(e, {}) BY <1>3 DEF Arrive
  <2>2. isn \in SeqNo /\ Sound(dpu) /\ dpu.lapse = {} /\ dpu.tx = {} /\ dpu.active \in BOOLEAN
    BY DEF IInv, Sound, Flags
  <2>3. SUFFICES ASSUME odd' \cap Lost = {}
                 PROVE  /\ dpu'.mig => host.next \in {At(4), At(5)}
                        /\ host.next = At(5) => dpu'.active
                        /\ Told(said', host.next)
    BY <1>1, PrimedAgree
  <2>4. /\ dpu.mig => host.next \in {At(4), At(5)}
        /\ host.next = At(5) => dpu.active
        /\ Told(said, host.next)
    BY <1>3, AgreeFacts
  <2>5. CASE dpu.active
    <3>1. e = [dpu EXCEPT !.pending = s] BY <2>5 DEF process_handshake_packet
    <3>2. e.mig = dpu.mig /\ e.active = dpu.active /\ e.tx = {} /\ DOMAIN e = Fields
      BY <2>2, <3>1 DEF Sound, Shape, Fields
    <3> HIDE DEF e
    <3>3. dpu' = [e EXCEPT !.tx = {}, !.lapse = {}] /\ said' = said
      BY <2>1, <3>2 DEF Becomes
    <3>4. dpu'.mig = e.mig /\ dpu'.active = e.active BY <3>2, <3>3 DEF Fields
    <3> QED BY <2>4, <3>2, <3>3, <3>4
  <2>6. CASE ~dpu.active
    <3>1. Fitting(dpu, s) BY <2>6 DEF Arrive, Sendable, Fitting, IInv
    <3>2. Follows(dpu, "lost" \in odd) BY <1>3 DEF SeqInv
    <3>3. ("lost" \in odd) = FALSE BY <2>6, <3>2 DEF Follows, Holds
    <3>4. Open(dpu) BY <2>2, <2>6, <3>2, <3>3, Zenon DEF Open
    <3>5. Outcome(e) /\ e.mig = dpu.mig BY <2>2, <3>1, <3>4, PacketOutcome, PacketKeeps
    <3>6. Sound(e) BY <2>2, <3>1, PacketSound
    <3> HIDE DEF e
    <3>7. dpu' = [e EXCEPT !.tx = {}, !.lapse = {}] /\ said' = said \cup e.tx /\ odd' = odd \cup e.lapse
      BY <2>1 DEF Becomes
    <3>8. e.lapse \cap Lost = {} BY <2>3, <3>7
    <3>9. Meets(e) BY <3>5, <3>8 DEF Outcome, Follows
    <3>10. Told(said \cup e.tx, host.next) BY <2>4, <3>9, ToldMore, Zenon DEF Meets
    <3>11. dpu'.mig = e.mig BY <3>6, <3>7 DEF Sound, Shape, Fields
    <3> QED BY <2>4, <2>6, <3>5, <3>7, <3>10, <3>11
  <2> QED BY <2>5, <2>6
<1> QED BY <1>2, <1>3

\* SeamInv through a visit, in which the host may take the pending segment.
LEMMA VisitAgrees ==
  ASSUME IInv, SeqInv, SeamInv, RequestLen = 126, NEW done \in BOOLEAN, NEW through \in BOOLEAN,
         Visit(done, through)
  PROVE  SeamInv'
<1> DEFINE d3 == Before(dpu, done)
           e == Visited(dpu, done)
           more == IF d3.pending = PureAck THEN {} ELSE {[ack |-> host'.next, flight |-> <<>>]}
<1>1. /\ isn' = isn /\ (done => Asked(dpu)) /\ Followed /\ (through => Forwards(d3))
      /\ IF through THEN host' = HostTakes(d3.pending) /\ Becomes(e, more)
         ELSE Becomes(e, {}) /\ UNCHANGED host
  BY DEF Visit, Visited, Before
<1>2. isn \in SeqNo /\ Sound(dpu) BY DEF IInv
<1> PICK l : l = ("lost" \in odd) OBVIOUS
<1>3. l \in BOOLEAN /\ Follows(dpu, l) BY <1>1 DEF SeqInv
<1>4. Follows(e, l) /\ Same(dpu, e) BY <1>1, <1>2, <1>3, VisitFollows, Zenon
<1>5. Sound(e) /\ d3.pending \in Segment BY <1>1, <1>2, VisitSound
<1>6. Sound(d3) BY <1>1, <1>2, BeforeSound
<1>7. Same(dpu, d3) BY <1>1, <1>2, <1>3, BeforeFollows, Zenon
<1> HIDE DEF e, d3
<1>8. /\ dpu.mig => host.next \in {At(4), At(5)}
      /\ host.next = At(5) => dpu.active
      /\ Told(said, host.next)
  BY <1>1, AgreeFacts
<1>9. \A m \in e.tx : \E p \in 0 .. 4 : m.ack = At(p) BY <1>4 DEF Follows, Meets
<1>10. dpu' = [e EXCEPT !.tx = {}, !.lapse = {}] BY <1>1 DEF Becomes
<1>11. dpu'.mig = dpu.mig /\ dpu'.active = dpu.active
  <2>1. dpu'.mig = e.mig /\ dpu'.active = e.active BY <1>5, <1>10 DEF Sound, Shape, Fields
  <2> QED BY <1>4, <2>1 DEF Same
<1>12. CASE ~through
  <2>1. host' = host /\ said' = said \cup e.tx BY <1>1, <1>12 DEF Becomes
  <2>2. Told(said', host.next) BY <1>8, <1>9, <2>1, ToldMore, Zenon
  <2> QED BY <1>1, <1>8, <1>11, <2>1, <2>2, PrimedAgree
<1>13. CASE through
  <2>1. dpu.active /\ dpu.mig
    <3>1. d3.applied BY <1>1, <1>13 DEF Forwards
    <3>2. d3.active BY <1>6, <3>1 DEF Sound, Flags
    <3>3. dpu.active BY <1>7, <3>2 DEF Same
    <3>4. dpu.hs = "FINISHED" BY <1>2, <3>3 DEF Sound, Flags
    <3>5. dpu.mig BY <1>2, <3>4 DEF Sound, Stage
    <3> QED BY <3>3, <3>5
  <2>2. host' = HostTakes(d3.pending) /\ said' = said \cup e.tx \cup more
    BY <1>1, <1>13 DEF Becomes
  <2>3. host'.next \in {At(4), At(5)} /\ (host.next = At(5) => host'.next = At(5))
    <3>1. host.next \in {At(4), At(5)} BY <1>8, <2>1
    <3> QED BY <1>2, <1>5, <2>2, <3>1, HostAdvances
  <2>4. Told(said \cup e.tx, host'.next) BY <1>8, <1>9, <2>3, ToldMore, Zenon
  <2>5. \A m \in more : m.ack = host'.next OBVIOUS
  <2>6. Told(said', host'.next)
    <3> SUFFICES ASSUME NEW m \in said'
                 PROVE  \E p \in Pos : m.ack = At(p) /\ (p = 5 => host'.next = At(5))
      BY DEF Told
    <3>1. CASE m \in said \cup e.tx BY <2>4, <3>1 DEF Told
    <3>2. CASE m \in more
      <4>1. m.ack = At(4) \/ m.ack = At(5) BY <2>3, <2>5, <3>2
      <4>2. m.ack = At(5) => host'.next = At(5) BY <2>5, <3>2
      <4>3. 4 \in Pos /\ 5 \in Pos /\ 4 # 5 BY DEF Pos, StreamEnd
      <4> QED BY <4>1, <4>2, <4>3
    <3> QED BY <2>2, <3>1, <3>2
  <2> QED BY <1>1, <1>11, <2>1, <2>3, <2>6, PrimedAgree
<1> QED BY <1>12, <1>13

\* SeamInv when the host has taken the session over.
LEMMA MigAgrees ==
  ASSUME IInv, SeqInv, SeamInv, RequestLen = 126, process_host_mig_fin
  PROVE  SeamInv'
<1>1. /\ isn' = isn /\ said' = said /\ odd' = odd /\ Followed /\ dpu.hs = "CERTIFICATE_VERIFY"
      /\ host' = [host EXCEPT !.next = dpu.metaAck]
  BY DEF process_host_mig_fin
<1>2. /\ isn \in SeqNo /\ DOMAIN host = {"next", "got"} /\ ~dpu.active
  BY <1>1 DEF IInv, Sound, Flags
<1>3. dpu.metaAck = At(4) BY <1>1 DEF SeqInv, Follows, Meets
<1>4. host'.next = At(4) BY <1>1, <1>2, <1>3
<1>5. At(4) # At(5)
  <2>1. 4 \in Pos /\ 5 \in Pos BY DEF Pos, StreamEnd
  <2> QED BY <1>2, <2>1, Positions
<1>6. Told(said, host.next) /\ host.next # At(5) BY <1>1, <1>2, AgreeFacts
<1>7. Told(said, host'.next)
  <2> SUFFICES ASSUME NEW m \in said
               PROVE  \E p \in Pos : m.ack = At(p) /\ (p = 5 => host'.next = At(5))
    BY DEF Told
  <2>1. PICK p \in Pos : m.ack = At(p) /\ p # 5 BY <1>6 DEF Told
  <2> QED BY <2>1
<1> QED BY <1>1, <1>4, <1>5, <1>7, PrimedAgree

\* SeamInv is inductive relative to the other two.
LEMMA StepAgrees ==
  ASSUME IInv, SeqInv, SeamInv, RequestLen = 126, [Next]_vars
  PROVE  SeamInv'
<1>1. CASE \E s \in Segment : Arrive(s) BY <1>1, ArriveAgrees
<1>2. CASE \E done, through \in BOOLEAN : Visit(done, through) BY <1>2, VisitAgrees
<1>3. CASE process_host_mig_fin BY <1>3, MigAgrees
<1>4. CASE \/ UNCHANGED vars \/ process_ack_packet
           \/ \E m \in said : Hear(m) \/ Lose(m)
  <2>1. DOMAIN dpu = Fields BY DEF IInv, Sound, Shape
  <2>2. /\ isn' = isn /\ host' = host /\ said' \subseteq said /\ odd' = odd
        /\ dpu' = dpu \/ dpu' = [dpu EXCEPT !.pending = PureAck]
    BY <1>4 DEF vars, process_ack_packet, Hear, Lose
  <2>3. dpu'.mig = dpu.mig /\ dpu'.active = dpu.active BY <2>1, <2>2 DEF Fields
  <2>4. odd \cap Lost = {} => Told(said', host.next) BY <2>2, AgreeFacts DEF Followed, Told
  <2> QED BY <2>2, <2>3, <2>4, AgreeFacts, PrimedAgree DEF Followed
<1> QED BY <1>1, <1>2, <1>3, <1>4 DEF Next

\* send_tcp_packet and send_key_meta agree where the SmartNIC's part of the
\* stream ends, for any first sequence number, any cuts, losses and repetitions
\* of the client's segments, when the request has the length that
\* send_tcp_packet assumes: the last byte that the SmartNIC acknowledges is the
\* one before the first that the host expects, and no acknowledgement that is
\* under way goes past what the host has.
THEOREM SeamAlwaysFits ==
  RequestLen = 126 => (Spec => []SeamFits)
<1> SUFFICES ASSUME RequestLen = 126 PROVE Spec => []SeamFits OBVIOUS
<1>1. Init => IInv /\ SeqInv /\ SeamInv BY StartSound, StartFollows, StartAgrees
<1>2. (IInv /\ SeqInv /\ SeamInv) /\ [Next]_vars => (IInv /\ SeqInv /\ SeamInv)'
  BY StepSound, StepFollows, StepAgrees
<1>3. ASSUME IInv, SeqInv, SeamInv PROVE SeamFits
  <2>1. TypeOK
    <3>1. dpu.hs \in DOMAIN Order BY <1>3 DEF IInv, Sound, Stage, Order
    <3> QED BY <1>3, <3>1 DEF IInv, Sound, Shape, TypeOK
  <2>2. ASSUME dpu.active, Followed
        PROVE  dpu.sentAck = dpu.metaAck /\ \A m \in said : ~SEQ_GT(m.ack, host.next)
    <3>1. dpu.hs = "FINISHED" BY <1>3, <2>2 DEF IInv, Sound, Flags
    <3>2. dpu.mig BY <1>3, <3>1 DEF IInv, Sound, Stage
    <3>3. dpu.sentAck = At(4) /\ dpu.metaAck = At(4)
      BY <1>3, <2>2, <3>1 DEF SeqInv, Follows, Meets, Sent
    <3>4. Told(said, host.next) /\ host.next \in {At(4), At(5)} BY <1>3, <2>2, <3>2, AgreeFacts
    <3>5. ASSUME NEW m \in said PROVE ~SEQ_GT(m.ack, host.next)
      <4>1. PICK p \in Pos : m.ack = At(p) /\ (p = 5 => host.next = At(5)) BY <3>4 DEF Told
      <4>2. PICK q \in {4, 5} : host.next = At(q) BY <3>4
      <4>3. isn \in SeqNo /\ q \in Pos /\ 4 \in Pos /\ 5 \in Pos
        BY <1>3 DEF IInv, Pos, StreamEnd
      <4>4. p = 5 => q = 5 BY <4>1, <4>2, <4>3, Positions
      <4>5. ~(q < p) BY <4>4 DEF Pos, StreamEnd
      <4> QED BY <4>1, <4>2, <4>3, <4>5, Positions
    <3> QED BY <3>3, <3>5
  <2> QED BY <2>1, <2>2 DEF SeamFits
<1>4. IInv /\ SeqInv /\ SeamInv => SeamFits BY <1>3
<1> QED BY <1>1, <1>2, <1>4, PTL DEF Spec
=============================================================================
