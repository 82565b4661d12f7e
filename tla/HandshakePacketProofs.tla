----------------------- MODULE HandshakePacketProofs ------------------------
(***************************************************************************)
(* The handshake of one connection, for any initial sequence number, any   *)
(* cuts of the client's stream and any length of recv_q: the invariants,   *)
(* and that the packets of the client preserve them.  HandshakeProofs has  *)
(* the visits of the main loop, the steps and the theorems.                *)
(***************************************************************************)
EXTENDS Handshake, TLAPS

\* The parts of the client's stream; the positions in it; the fields of a session.
Parts == {"CH1", "CH2", "CCS", "CF", "REQ"}
Pos == 0 .. StreamEnd
Fields == {"seq", "len", "ack", "sentAck", "crr", "recvQ", "held", "waiting", "hs", "key", "appKeys",
           "signed", "active", "readSp", "writeSp", "sendSeq", "msgs", "toSign", "vd", "sendBuffer",
           "serverRecords", "metaAck", "mig", "applied", "pending", "tx", "lapse"}

\* The first k messages; the first k records of the flight.
M == [k \in 0 .. 6 |-> SubSeq(Transcript, 1, k)]
Record ==
  [k \in 1 .. 5 |-> [msg |-> Transcript[k + 1], nonce |-> k - 2,
                      over |-> IF k >= 4 THEN M[k] ELSE <<>>]]
F == [k \in 0 .. 5 |-> [i \in 1 .. k |-> Record[i]]]

\* The flight has gone out; the ClientHello is in.
Sent(d) == d.hs \in {"CLIENT_CIPHER_SPEC", "FINISHED"}
Begun(d) == d.hs # "HELLO_REQUEST" \/ d.waiting

\* What the session holds of the flight in each state, between the packets and
\* visits and within them.
Stage(d) ==
  CASE d.hs = "HELLO_REQUEST" ->
         d.msgs = M[0] /\ d.sendBuffer = F[0] /\ ~d.writeSp /\ d.key = <<>> /\ ~d.signed
    [] d.hs = "SERVER_HELLO" ->
         /\ d.msgs = M[2] /\ d.sendBuffer = F[1] /\ d.writeSp /\ d.sendSeq = 0
         /\ d.key \in {<<>>, M[2]} /\ ~d.signed
    [] d.hs = "CERTIFICATE" ->
         /\ d.msgs = M[4] /\ d.sendBuffer = F[3] /\ d.writeSp /\ d.sendSeq = 2
         /\ d.key = M[2] /\ d.toSign = M[4] /\ (d.signed => ~d.waiting)
    [] d.hs = "CERTIFICATE_VERIFY" ->
         d.sendBuffer = F[5] /\ d.key = M[2] /\ d.appKeys = M[6] /\ d.vd = M[6]
    [] d.hs \in {"CLIENT_CIPHER_SPEC", "FINISHED"} ->
         /\ d.serverRecords = F[5] /\ d.key = M[2] /\ d.appKeys = M[6] /\ d.vd = M[6]
         /\ d.mig
    [] OTHER -> FALSE

\* How the flags of a session go together.
Flags(d) ==
  /\ {d.waiting, d.signed, d.active, d.readSp, d.writeSp, d.mig, d.applied} \subseteq BOOLEAN
  /\ d.readSp => Sent(d)
  /\ d.active => d.hs = "FINISHED"
  /\ d.applied => d.active
  /\ d.waiting => d.hs \in {"HELLO_REQUEST", "CERTIFICATE"}
  /\ d.mig => d.hs = "CERTIFICATE_VERIFY" \/ Sent(d)

\* What the session says: the flight, whole, or nothing.
Says(d, ms) == \A m \in ms : m.flight = <<>> \/ (m.flight = F[5] /\ Sent(d))

\* The types of the fields.
Shape(d) ==
  /\ DOMAIN d = Fields
  /\ {d.seq, d.sentAck, d.metaAck} \subseteq SeqNo /\ d.len \in Nat /\ d.ack \in {0, 1}
  /\ d.crr \in Seq(Parts) /\ d.recvQ \in Seq({"CH"}) /\ d.held \in Int
  /\ d.pending \in Segment /\ d.lapse \subseteq Mishap /\ "refused" \notin d.lapse
  /\ \A m \in d.tx : m.ack \in SeqNo
  /\ Sent(d) \/ ~Begun(d) => d.recvQ = <<>>

\* What holds of the session at any point.
Sound(d) == Shape(d) /\ Flags(d) /\ Stage(d) /\ Says(d, d.tx)

\* The last segment was of the parts b + 1 .. e, and the client was told to go
\* on at a.
Covers(d, b, e, a) ==
  /\ d.seq = At(b) /\ d.len = Offset[e + 1] - Offset[b + 1] /\ d.sentAck = At(a)

\* How far the stream has got.
Progress(d) ==
  \/ /\ ~Begun(d) /\ d.ack = 0
     /\ (Covers(d, 0, 0, 0) /\ d.crr = <<>>) \/ (Covers(d, 0, 1, 1) /\ d.crr = <<"CH1">>)
  \/ /\ Begun(d) /\ ~Sent(d) /\ d.ack = 0 /\ d.crr = <<>>
     /\ Covers(d, 0, 2, 0) \/ Covers(d, 1, 2, 1)
  \/ /\ d.hs = "FINISHED" /\ ~d.active /\ ~d.readSp /\ d.ack = 0 /\ d.crr = <<>>
     /\ Covers(d, 0, 2, 2) \/ Covers(d, 1, 2, 2)
  \/ /\ d.hs = "CLIENT_CIPHER_SPEC" /\ d.readSp /\ d.ack = 1 /\ d.crr = <<>>
     /\ Covers(d, 2, 3, 2) \/ Covers(d, 2, 3, 3)
  \/ d.active /\ d.crr = <<>>

\* The records that the session holds, less those that wait.
Balance(d) == d.held - Len(d.recvQ) - (IF d.hs = "HELLO_REQUEST" /\ d.waiting THEN 1 ELSE 0)
Holds(d, lost) ==
  /\ Balance(d) = (IF d.crr # <<>> THEN 1 ELSE 0) + (IF lost THEN 1 ELSE 0)
  /\ lost => d.active

\* The byte where the host takes over.
Meets(d) ==
  /\ d.hs = "CERTIFICATE_VERIFY" \/ Sent(d) => d.metaAck = At(4)
  /\ d.active => d.sentAck = At(4)
  /\ \A m \in d.tx : \E p \in 0 .. 4 : m.ack = At(p)

\* What is known of a session that is followed.
Follows(d, lost) == Progress(d) /\ Holds(d, lost) /\ (RequestLen = 126 => Meets(d))

\* What the two sides of the seam know of each other.
Agree ==
  /\ dpu.mig => host.next \in {At(4), At(5)}
  /\ host.next = At(5) => dpu.active
  /\ \A m \in said : \E p \in Pos : m.ack = At(p) /\ (p = 5 => host.next = At(5))

\* The inductive invariant.
IInv ==
  /\ isn \in SeqNo /\ client.una \in SeqNo /\ client.flight \in BOOLEAN
  /\ DOMAIN client = {"una", "flight"} /\ DOMAIN host = {"next", "got"}
  /\ host.next \in SeqNo /\ odd \subseteq Mishap /\ "refused" \notin odd
  /\ \A m \in said : m.ack \in SeqNo
  /\ Sound(dpu) /\ dpu.tx = {} /\ dpu.lapse = {}
  /\ client.flight => Sent(dpu)
  /\ Says(dpu, said)

\* What more holds while the connection is followed: of the session, and of the
\* seam.
SeqInv == Followed => Follows(dpu, "lost" \in odd)
SeamInv == Followed => Agree
-----------------------------------------------------------------------------
(* Positions in the stream.                                                 *)

\* The facts about queues that the proofs use.
LEMMA Items ==
  ASSUME NEW S, NEW q \in Seq(S)
  PROVE  /\ Len(q) \in Nat /\ DOMAIN q = 1 .. Len(q) /\ q \in [1 .. Len(q) -> S]
         /\ \A i \in 1 .. Len(q) : q[i] \in S
OBVIOUS

\* The empty queue.
LEMMA NoItem ==
  ASSUME NEW S
  PROVE  /\ <<>> \in Seq(S) /\ Len(<<>>) = 0
         /\ \A q \in Seq(S) : q # <<>> => Len(q) \in Nat \ {0}
OBVIOUS

\* Queues with the same items are the same.
LEMMA SameItems ==
  ASSUME NEW S, NEW q \in Seq(S), NEW r \in Seq(S),
         Len(q) = Len(r), \A i \in 1 .. Len(q) : q[i] = r[i]
  PROVE  q = r
OBVIOUS

\* An item is added at the end.
LEMMA ItemAdded ==
  ASSUME NEW S, NEW q \in Seq(S), NEW x \in S
  PROVE  /\ Append(q, x) \in Seq(S) /\ Append(q, x) # <<>>
         /\ Len(Append(q, x)) = Len(q) + 1
         /\ \A i \in 1 .. Len(q) : Append(q, x)[i] = q[i]
         /\ Append(q, x)[Len(q) + 1] = x
OBVIOUS

\* Where each part of the client's stream begins.
LEMMA Offsets ==
  /\ Offset[1] = 0 /\ Offset[2] = 100 /\ Offset[3] = 200 /\ Offset[4] = 206 /\ Offset[5] = 280
  /\ Offset[6] = 280 + RequestLen
BY DEF Offset

\* Later positions have larger offsets.
LEMMA Increasing ==
  ASSUME NEW p \in Pos, NEW q \in Pos
  PROVE  /\ Offset[p + 1] \in 0 .. Offset[6] /\ Offset[6] \in Nat
         /\ (p < q) <=> (Offset[p + 1] < Offset[q + 1])
         /\ (p = q) <=> (Offset[p + 1] = Offset[q + 1])
<1>1. p \in {0, 1, 2, 3, 4, 5} /\ q \in {0, 1, 2, 3, 4, 5} BY DEF Pos, StreamEnd
<1>2. RequestLen \in Nat \ {0} BY HandshakeAssumption
<1> QED BY <1>1, <1>2, Offsets

\* The sequence space is more than twice as long as the stream.
LEMMA Space ==
  SeqSpace \in Nat /\ SeqSpace % 2 = 0 /\ SeqSpace > 2 * Offset[6]
BY HandshakeAssumption DEF StreamEnd

\* Reduction of a number that is at most one lap outside the space.
LEMMA Modulus ==
  ASSUME NEW x \in Int, - SeqSpace <= x, x < 2 * SeqSpace
  PROVE  x % SeqSpace = IF x < 0 THEN x + SeqSpace ELSE IF x < SeqSpace THEN x ELSE x - SeqSpace
<1>1. SeqSpace \in Nat /\ SeqSpace > 0
  BY Space, Increasing DEF Pos, StreamEnd
<1> QED BY <1>1

\* The sequence numbers of the parts are told apart, and SEQ_LT and SEQ_GT put
\* them in the order of the stream, wherever the sequence space ends.
LEMMA Positions ==
  ASSUME isn \in SeqNo, NEW p \in Pos, NEW q \in Pos
  PROVE  /\ At(p) \in SeqNo
         /\ (At(p) = At(q)) <=> (p = q)
         /\ SEQ_LT(At(p), At(q)) <=> p < q
         /\ SEQ_GT(At(p), At(q)) <=> q < p
<1> DEFINE x == Offset[p + 1]
           y == Offset[q + 1]
           top == Offset[6]
           S == SeqSpace
<1>1. /\ x \in Nat /\ y \in Nat /\ top \in Nat /\ x <= top /\ y <= top
      /\ (p < q) <=> (x < y)
      /\ (p = q) <=> (x = y)
  BY Increasing
<1>2. S \in Nat /\ S % 2 = 0 /\ S > 2 * top /\ isn \in Nat /\ isn < S BY Space DEF SeqNo
<1>3. At(p) = IF isn + x < S THEN isn + x ELSE isn + x - S
  BY <1>1, <1>2, Modulus DEF At
<1>4. At(q) = IF isn + y < S THEN isn + y ELSE isn + y - S
  BY <1>1, <1>2, Modulus DEF At
<1>5. p \in Int /\ q \in Int BY DEF Pos
<1> HIDE DEF x, y, top, S
<1>6. At(p) \in 0 .. S - 1 /\ At(q) \in 0 .. S - 1 BY <1>1, <1>2, <1>3, <1>4
<1>7. (At(p) = At(q)) <=> (x = y) BY <1>1, <1>2, <1>3, <1>4
<1>8. (At(p) - At(q)) % S = IF x < y THEN x - y + S ELSE x - y
  <2>1. (At(p) - At(q)) % S = IF At(p) - At(q) < 0 THEN At(p) - At(q) + S ELSE At(p) - At(q)
    <3>1. At(p) - At(q) \in Int /\ - S <= At(p) - At(q) /\ At(p) - At(q) < S BY <1>2, <1>6
    <3> QED BY <3>1, <1>2, Modulus DEF S
  <2> QED BY <2>1, <1>1, <1>2, <1>3, <1>4
<1>9. ((At(p) - At(q)) % S >= S \div 2) <=> (x < y)
  <2> DEFINE m == (At(p) - At(q)) % S
             h == S \div 2
  <2>1. h \in Int /\ h > top /\ h <= S - top BY <1>1, <1>2
  <2>2. m = IF x < y THEN x - y + S ELSE x - y BY <1>8
  <2> HIDE DEF m, h
  <2>3. (m >= h) <=> (x < y) BY <1>1, <1>2, <2>1, <2>2
  <2> QED BY <2>3 DEF m, h
<1>10. SEQ_LT(At(p), At(q)) <=> p < q BY <1>1, <1>9 DEF SEQ_LT, S
<1>11. SEQ_GT(At(p), At(q)) <=> q < p BY <1>1, <1>5, <1>7, <1>10 DEF SEQ_GT
<1> QED BY <1>1, <1>6, <1>7, <1>10, <1>11 DEF SeqNo, S

\* The number behind a run of parts.
LEMMA Advance ==
  ASSUME isn \in SeqNo, NEW p \in Pos, NEW q \in Pos, p <= q
  PROVE  (At(p) + (Offset[q + 1] - Offset[p + 1])) % SeqSpace = At(q)
<1> DEFINE x == Offset[p + 1]
           y == Offset[q + 1]
           top == Offset[6]
           S == SeqSpace
<1>1. x \in Nat /\ y \in Nat /\ top \in Nat /\ x <= y /\ y <= top
  <2>1. p \in Int /\ q \in Int BY DEF Pos
  <2> QED BY <2>1, Increasing
<1>2. S \in Nat /\ S > 2 * top /\ isn \in Nat /\ isn < S BY Space DEF SeqNo
<1>3. At(p) = IF isn + x < S THEN isn + x ELSE isn + x - S
  BY <1>1, <1>2, Modulus DEF At
<1>4. At(q) = IF isn + y < S THEN isn + y ELSE isn + y - S
  BY <1>1, <1>2, Modulus DEF At
<1> HIDE DEF x, y, top, S
<1> DEFINE z == At(p) + (y - x)
<1>5. z \in Int /\ 0 <= z /\ z < 2 * S BY <1>1, <1>2, <1>3
<1> HIDE DEF z
<1>6. z % S = IF z < S THEN z ELSE z - S BY <1>2, <1>5, Modulus DEF S
<1>7. z % S = At(q)
  <2>1. z = At(p) + (y - x) BY DEF z
  <2> QED BY <2>1, <1>1, <1>2, <1>3, <1>4, <1>6
<1> QED BY <1>7 DEF x, y, z, S
-----------------------------------------------------------------------------
(* What the operations of a session change.                                 *)

\* e is d except for the fields X.
Frame(d, e, X) == DOMAIN e = Fields /\ \A x \in Fields \ X : e[x] = d[x]

\* The fields that hold numbers, and what was said.
Numbers == {"seq", "len", "ack", "sentAck", "crr", "held", "metaAck", "pending", "tx", "lapse"}

\* What send_tcp_packet changes.
LEMMA SendChanges ==
  ASSUME NEW d, DOMAIN d = Fields, NEW f
  PROVE  LET e == send_tcp_packet(d, f) IN
         /\ Frame(d, e, {"sentAck", "tx"})
         /\ e.sentAck = AckNo(d)
         /\ e.tx = d.tx \cup {[ack |-> AckNo(d), flight |-> f]}
BY Zenon DEF send_tcp_packet, Frame, Fields

\* The acknowledgment number is a sequence number.
LEMMA AckInSpace ==
  ASSUME NEW d, Sound(d)
  PROVE  AckNo(d) \in SeqNo
<1> DEFINE k == IF d.active /\ d.len > 126 THEN 126 ELSE 0
           x == d.seq + d.len - k
<1>1. d.seq \in Int /\ d.len \in Int BY DEF Sound, Shape, SeqNo
<1>2. SeqSpace \in Nat /\ SeqSpace > 0 BY Space, Increasing DEF Pos, StreamEnd
<1>3. k \in Int OBVIOUS
<1> HIDE DEF k
<1>4. x \in Int BY <1>1, <1>3
<1>5. AckNo(d) = x % SeqSpace BY Zenon DEF AckNo, k
<1> HIDE DEF x
<1> QED BY <1>2, <1>4, <1>5 DEF SeqNo

\* The flight is not touched by what changes the numbers.
LEMMA SoundFrame ==
  ASSUME NEW d, Sound(d), NEW e, Frame(d, e, Numbers), Shape(e), Says(e, e.tx)
  PROVE  Sound(e)
<1>1. Flags(e) BY DEF Sound, Flags, Frame, Fields, Numbers, Sent
<1>2. Stage(e) BY DEF Sound, Stage, Frame, Fields, Numbers
<1> QED BY <1>1, <1>2 DEF Sound

\* send_key_meta only sets the number where the host goes on.
LEMMA MetaSound ==
  ASSUME NEW d, Sound(d)
  PROVE  LET e == send_key_meta(d) IN
         /\ Sound(e) /\ Frame(d, e, {"metaAck"})
         /\ e.metaAck = (d.seq + d.len + 80) % SeqSpace
<1> DEFINE e == send_key_meta(d)
<1>1. DOMAIN d = Fields BY DEF Sound, Shape
<1>2. Frame(d, e, {"metaAck"}) /\ e.metaAck = (d.seq + d.len + 80) % SeqSpace
  BY <1>1 DEF send_key_meta, Frame, Fields
<1> HIDE DEF e
<1>3. (d.seq + d.len + 80) % SeqSpace \in SeqNo
  <2>1. d.seq \in Int /\ d.len \in Int BY DEF Sound, Shape, SeqNo
  <2>2. SeqSpace \in Nat /\ SeqSpace > 0 BY Space, Increasing DEF Pos, StreamEnd
  <2> QED BY <2>1, <2>2 DEF SeqNo
<1>4. Frame(d, e, Numbers) BY <1>2 DEF Frame, Numbers
<1>5. Shape(e) BY <1>1, <1>2, <1>3 DEF Sound, Shape, Frame, Fields, Sent, Begun
<1>6. Says(e, e.tx) BY <1>2 DEF Sound, Says, Frame, Fields, Sent
<1> QED BY <1>2, <1>4, <1>5, <1>6, SoundFrame DEF e

\* The acknowledgement before the Finished is of the whole segment.
LEMMA EndNo ==
  ASSUME NEW d, isn \in SeqNo, NEW b \in Pos, NEW e \in Pos, NEW a \in Pos, b <= e,
         Covers(d, b, e, a), d.active = FALSE
  PROVE  AckNo(d) = At(e)
<1>1. (d.seq + d.len) % SeqSpace = At(e) BY Advance DEF Covers
<1>2. d.len \in Int /\ d.seq \in Int
  <2>1. At(b) \in Int BY Positions DEF SeqNo
  <2>2. Offset[b + 1] \in Int /\ Offset[e + 1] \in Int BY Increasing
  <2> QED BY <2>1, <2>2 DEF Covers
<1>3. AckNo(d) = (d.seq + d.len - 0) % SeqSpace BY DEF AckNo
<1>4. d.seq + d.len - 0 = d.seq + d.len BY <1>2
<1> QED BY <1>1, <1>3, <1>4

\* send_key_meta, after the ClientHello.
LEMMA MetaNo ==
  ASSUME NEW d, isn \in SeqNo, NEW b \in {0, 1}, NEW a, Covers(d, b, 2, a)
  PROVE  (d.seq + d.len + 80) % SeqSpace = At(4)
<1>1. b \in Pos /\ 4 \in Pos /\ b <= 4 BY DEF Pos, StreamEnd
<1>2. (At(b) + (Offset[4 + 1] - Offset[b + 1])) % SeqSpace = At(4) BY <1>1, Advance
<1>3. At(b) \in Int BY <1>1, Positions DEF SeqNo
<1>4. Offset[b + 1] \in Int BY <1>1, Increasing
<1>5. d.seq = At(b) /\ d.len = 200 - Offset[b + 1] /\ Offset[4 + 1] = 280
  BY Offsets DEF Covers
<1>6. d.seq + d.len + 80 = At(b) + (Offset[4 + 1] - Offset[b + 1]) BY <1>3, <1>4, <1>5
<1> QED BY <1>2, <1>6
-----------------------------------------------------------------------------
(* The messages and the records of the flight.                              *)

\* A sequence that is grown by one element is the next prefix.
LEMMA Grown ==
  ASSUME NEW T, NEW k \in Nat, NEW s \in Seq(T), NEW t \in Seq(T), NEW x \in T,
         Len(s) = k, Len(t) = k + 1, t[k + 1] = x, \A i \in 1 .. k : s[i] = t[i]
  PROVE  Append(s, x) = t
<1> DEFINE a == Append(s, x)
<1>1. /\ a \in Seq(T) /\ Len(a) = k + 1 /\ a[k + 1] = x
      /\ \A i \in 1 .. k : a[i] = s[i]
  BY ItemAdded
<1> HIDE DEF a
<1>2. ASSUME NEW i \in 1 .. k + 1 PROVE a[i] = t[i]
  <2>1. CASE i = k + 1 BY <1>1, <2>1
  <2>2. CASE i # k + 1
    <3>1. i \in 1 .. k BY <2>2
    <3> QED BY <1>1, <3>1
  <2> QED BY <2>1, <2>2
<1>3. a = t BY <1>1, <1>2, SameItems
<1> QED BY <1>3 DEF a

\* The front of a queue.
LEMMA Front ==
  ASSUME NEW S, NEW q, NEW n \in Nat, \A i \in 1 .. n : q[i] \in S
  PROVE  /\ SubSeq(q, 1, n) \in Seq(S) /\ Len(SubSeq(q, 1, n)) = n
         /\ \A i \in 1 .. n : SubSeq(q, 1, n)[i] = q[i]
OBVIOUS

\* The prefixes M of the transcript grow by one message each.
LEMMA Messages ==
  /\ M[0] = <<>> /\ M[6] = Transcript
  /\ \A k \in 0 .. 5 : Append(M[k], Transcript[k + 1]) = M[k + 1]
  /\ M[2] # <<>>
<1> DEFINE Msg == {"CLIENT_HELLO", "SERVER_HELLO", "ENCRYPTED_EXTENSIONS", "CERTIFICATE",
                   "CERTIFICATE_VERIFY", "FINISHED"}
<1>1. Transcript \in Seq(Msg) /\ Len(Transcript) = 6 BY DEF Transcript
<1> HIDE DEF Msg
<1>2. \A k \in 1 .. 6 : Transcript[k] \in Msg BY <1>1, Items, Zenon
<1>3. ASSUME NEW k \in 0 .. 6
      PROVE  /\ M[k] \in Seq(Msg) /\ Len(M[k]) = k
             /\ \A i \in 1 .. k : M[k][i] = Transcript[i]
  <2>1. \A i \in 1 .. k : Transcript[i] \in Msg BY <1>2
  <2>2. M[k] = SubSeq(Transcript, 1, k) BY DEF M
  <2>3. /\ SubSeq(Transcript, 1, k) \in Seq(Msg) /\ Len(SubSeq(Transcript, 1, k)) = k
        /\ \A i \in 1 .. k : SubSeq(Transcript, 1, k)[i] = Transcript[i]
    BY <2>1, Front
  <2> QED BY <2>2, <2>3
<1>4. M[0] = <<>>
  <2>1. M[0] \in Seq(Msg) /\ Len(M[0]) = 0 BY <1>3
  <2> QED BY <2>1, NoItem
<1>5. M[6] = Transcript
  <2>1. /\ M[6] \in Seq(Msg) /\ Len(M[6]) = 6
        /\ \A i \in 1 .. 6 : M[6][i] = Transcript[i]
    BY <1>3
  <2> QED BY <1>1, <2>1, SameItems, Zenon
<1>6. ASSUME NEW k \in 0 .. 5 PROVE Append(M[k], Transcript[k + 1]) = M[k + 1]
  <2>1. k \in 0 .. 6 /\ k + 1 \in 0 .. 6 /\ k + 1 \in 1 .. 6 /\ k \in Nat OBVIOUS
  <2>2. /\ M[k] \in Seq(Msg) /\ Len(M[k]) = k
        /\ \A i \in 1 .. k : M[k][i] = Transcript[i]
    BY <1>3, <2>1, Zenon
  <2>3. /\ M[k + 1] \in Seq(Msg) /\ Len(M[k + 1]) = k + 1
        /\ \A i \in 1 .. k + 1 : M[k + 1][i] = Transcript[i]
    BY <1>3, <2>1, Zenon
  <2>4. \A i \in 1 .. k : M[k][i] = M[k + 1][i]
    <3> SUFFICES ASSUME NEW i \in 1 .. k PROVE M[k][i] = M[k + 1][i] OBVIOUS
    <3>1. i \in 1 .. k + 1 OBVIOUS
    <3> QED BY <2>2, <2>3, <3>1
  <2>5. M[k + 1][k + 1] = Transcript[k + 1] BY <2>3
  <2>6. Transcript[k + 1] \in Msg BY <1>2, <2>1
  <2> QED BY <2>1, <2>2, <2>3, <2>4, <2>5, <2>6, Grown
<1>7. M[2] # <<>>
  <2>1. M[2] \in Seq(Msg) /\ Len(M[2]) = 2 BY <1>3
  <2> QED BY <2>1
<1> QED BY <1>4, <1>5, <1>6, <1>7, Zenon

\* The prefixes F of the flight grow by one record each.
LEMMA Records ==
  /\ F[0] = <<>> /\ F[5] # <<>> /\ Len(F[5]) = 5
  /\ \A k \in 0 .. 4 : Append(F[k], Record[k + 1]) = F[k + 1]
  /\ \A k \in 1 .. 5 : F[5][k] = Record[k]
<1> DEFINE T == {Record[k] : k \in 1 .. 5}
<1>1. \A k \in 1 .. 5 : Record[k] \in T BY Zenon
<1> HIDE DEF T
<1>2. ASSUME NEW k \in 0 .. 5
      PROVE  F[k] \in Seq(T) /\ Len(F[k]) = k /\ \A i \in 1 .. k : F[k][i] = Record[i]
  <2>1. F[k] = [i \in 1 .. k |-> Record[i]] BY DEF F
  <2>2. \A i \in 1 .. k : Record[i] \in T BY <1>1
  <2> QED BY <2>1, <2>2
<1>3. F[0] = <<>>
  <2>1. F[0] \in Seq(T) /\ Len(F[0]) = 0 BY <1>2
  <2> QED BY <2>1, NoItem
<1>4. ASSUME NEW k \in 0 .. 4 PROVE Append(F[k], Record[k + 1]) = F[k + 1]
  <2>1. k \in 0 .. 5 /\ k + 1 \in 0 .. 5 /\ k + 1 \in 1 .. 5 /\ k \in Nat OBVIOUS
  <2>2. F[k] \in Seq(T) /\ Len(F[k]) = k /\ \A i \in 1 .. k : F[k][i] = Record[i]
    BY <1>2, <2>1, Zenon
  <2>3. /\ F[k + 1] \in Seq(T) /\ Len(F[k + 1]) = k + 1
        /\ \A i \in 1 .. k + 1 : F[k + 1][i] = Record[i]
    BY <1>2, <2>1, Zenon
  <2>4. \A i \in 1 .. k : F[k][i] = F[k + 1][i]
    <3> SUFFICES ASSUME NEW i \in 1 .. k PROVE F[k][i] = F[k + 1][i] BY Zenon
    <3>1. i \in 1 .. k + 1 OBVIOUS
    <3> QED BY <2>2, <2>3, <3>1
  <2>5. F[k + 1][k + 1] = Record[k + 1] BY <2>3
  <2>6. Record[k + 1] \in T BY <1>1, <2>1
  <2> QED BY <2>1, <2>2, <2>3, <2>4, <2>5, <2>6, Grown
<1>5. F[5] \in Seq(T) /\ Len(F[5]) = 5 /\ \A i \in 1 .. 5 : F[5][i] = Record[i] BY <1>2
<1>6. F[5] # <<>> BY <1>5
<1> QED BY <1>3, <1>4, <1>5, <1>6, Zenon
-----------------------------------------------------------------------------
(* The packets of the client.                                               *)

\* What may be read in state d.
Legal(d, r) == r \in {"CH", "CH1", "CH2"} \/ (Sent(d) /\ (r = "CCS" => ~d.active))

\* A segment that the client may send to a session in state d that follows it.
Fitting(d, s) ==
  /\ s \in Segment /\ s.from < s.to /\ ~d.active
  /\ IF s.ack = 0 THEN s.to <= HelloEnd ELSE s.from >= HelloEnd /\ Sent(d)

\* The numbers of the segment are noted first.
Noted(d, s) == [d EXCEPT !.seq = At(s.from), !.len = SegLen(s), !.ack = s.ack]

\* What the records of a segment, and the segment, may lead to: a mishap, after
\* which the connection is not followed, or a session as described.
Settled(d) == d.lapse \cap Lost # {} \/ (d.crr = <<>> /\ Follows(d, "lost" \in d.lapse))
Outcome(d) == d.lapse \cap Lost # {} \/ Follows(d, "lost" \in d.lapse)

\* A session that is followed and not onloaded.
Open(d) == Sound(d) /\ d.lapse = {} /\ d.active = FALSE /\ Follows(d, FALSE)

\* The session before the records of the parts b + 1 .. e are read.
Notes(n, d, b, e, k, a) ==
  /\ Sound(n) /\ Covers(n, b, e, a) /\ n.ack = k /\ n.lapse = {}
  /\ n.crr = d.crr /\ n.hs = d.hs /\ n.waiting = d.waiting
  /\ n.active = FALSE /\ n.readSp = d.readSp /\ Balance(n) = Balance(d)
  /\ RequestLen = 126 => Meets(n)

\* Reading the client's packets leaves the migration alone.
Keeps(d, e) == DOMAIN e = Fields /\ e.mig = d.mig

\* Noting a mishap keeps the session sound.
LEMMA LapseSound ==
  ASSUME NEW d, Sound(d), NEW what \in Mishap \ {"refused"}
  PROVE  LET e == Lapse(d, what) IN
         Sound(e) /\ Frame(d, e, {"lapse"}) /\ e.lapse = d.lapse \cup {what}
<1> DEFINE e == Lapse(d, what)
<1>1. DOMAIN d = Fields BY DEF Sound, Shape
<1>2. Frame(d, e, {"lapse"}) /\ e.lapse = d.lapse \cup {what} BY <1>1 DEF Lapse, Frame, Fields
<1> HIDE DEF e
<1>3. Frame(d, e, Numbers) BY <1>2 DEF Frame, Numbers
<1>4. Shape(e) BY <1>1, <1>2 DEF Sound, Shape, Frame, Fields, Sent, Begun
<1>5. Says(e, e.tx) BY <1>2 DEF Sound, Says, Frame, Fields, Sent
<1> QED BY <1>2, <1>3, <1>4, <1>5, SoundFrame DEF e

\* Sending an empty packet, or the whole flight once it is built, keeps it sound.
LEMMA SendSound ==
  ASSUME NEW d, Sound(d), NEW f, f = <<>> \/ (f = F[5] /\ Sent(d)), isn \in SeqNo
  PROVE  Sound(send_tcp_packet(d, f))
<1> DEFINE e == send_tcp_packet(d, f)
<1>1. DOMAIN d = Fields BY Zenon DEF Sound, Shape
<1>2. /\ Frame(d, e, {"sentAck", "tx"}) /\ e.sentAck = AckNo(d)
      /\ e.tx = d.tx \cup {[ack |-> AckNo(d), flight |-> f]}
  BY <1>1, SendChanges
<1> HIDE DEF e
<1>3. AckNo(d) \in SeqNo BY AckInSpace
<1>4. Shape(e) BY <1>2, <1>3 DEF Sound, Shape, Frame, Fields, Sent, Begun
<1>5. Flags(e) BY <1>2 DEF Sound, Flags, Frame, Fields, Sent
<1>6. Stage(e) BY <1>2 DEF Sound, Stage, Frame, Fields
<1>7. Says(e, e.tx) BY <1>2 DEF Sound, Says, Frame, Fields, Sent
<1> QED BY <1>4, <1>5, <1>6, <1>7 DEF Sound, e

\* delete_record keeps it sound and gives one record back.
LEMMA DeleteSound ==
  ASSUME NEW d, Sound(d)
  PROVE  LET e == delete_record(d) IN
         Sound(e) /\ Frame(d, e, {"held"}) /\ e.held = d.held - 1
<1> DEFINE e == delete_record(d)
<1>1. DOMAIN d = Fields /\ d.held \in Int BY DEF Sound, Shape
<1>2. Frame(d, e, {"held"}) /\ e.held = d.held - 1 BY <1>1 DEF delete_record, Frame, Fields
<1> HIDE DEF e
<1>3. Frame(d, e, Numbers) BY <1>2 DEF Frame, Numbers
<1>4. Shape(e) BY <1>1, <1>2 DEF Sound, Shape, Frame, Fields, Sent, Begun
<1>5. Says(e, e.tx) BY <1>2, Zenon DEF Sound, Says, Frame, Fields, Sent
<1> QED BY <1>2, <1>3, <1>4, <1>5, SoundFrame DEF e

\* The first ClientHello: the session waits for the key generation.
LEMMA FirstHello ==
  ASSUME NEW d, Sound(d), d.hs = "HELLO_REQUEST"
  PROVE  LET e == ReadHello(d) IN Sound(e) /\ Frame(d, e, {"waiting"}) /\ e.waiting = TRUE
<1> DEFINE e == ReadHello(d)
<1>1. DOMAIN d = Fields BY DEF Sound, Shape
<1>2. Frame(d, e, {"waiting"}) /\ e.waiting = TRUE BY <1>1 DEF ReadHello, Frame, Fields
<1> HIDE DEF e
<1>3. Shape(e) BY <1>1, <1>2 DEF Sound, Shape, Frame, Fields, Sent, Begun
<1>4. Flags(e) BY <1>2, Zenon DEF Sound, Flags, Frame, Fields, Sent
<1>5. Stage(e) BY <1>2 DEF Sound, Stage, Frame, Fields
<1>6. Says(e, e.tx) BY <1>2 DEF Sound, Says, Frame, Fields, Sent
<1> QED BY <1>2, <1>3, <1>4, <1>5, <1>6 DEF Sound, e

\* A repeated one, in the state it meets.
LEMMA HelloAgain ==
  ASSUME NEW d, Sound(d), isn \in SeqNo, d.hs # "HELLO_REQUEST"
  PROVE  LET e == ReadHello(d) IN
         /\ Sound(e) /\ Frame(d, e, {"held", "metaAck", "sentAck", "tx"})
         /\ e.held = d.held - 1
         /\ e.metaAck = IF d.hs = "CERTIFICATE_VERIFY" THEN (d.seq + d.len + 80) % SeqSpace
                        ELSE d.metaAck
         /\ IF d.hs = "FINISHED"
            THEN e.sentAck = AckNo(d) /\ e.tx = d.tx \cup {[ack |-> AckNo(d), flight |-> F[5]]}
            ELSE e.sentAck = d.sentAck /\ e.tx = d.tx
<1>1. DOMAIN d = Fields BY DEF Sound, Shape
<1>2. CASE d.hs = "CERTIFICATE_VERIFY"
  <2> DEFINE m == send_key_meta(d)
             e == delete_record(m)
  <2>1. /\ Sound(m) /\ Frame(d, m, {"metaAck"})
        /\ m.metaAck = (d.seq + d.len + 80) % SeqSpace
    BY MetaSound
  <2> HIDE DEF m
  <2>2. Sound(e) /\ Frame(m, e, {"held"}) /\ e.held = m.held - 1 BY <2>1, DeleteSound
  <2>3. ReadHello(d) = e BY <1>2 DEF ReadHello, m
  <2> HIDE DEF e
  <2> QED BY <1>1, <1>2, <2>1, <2>2, <2>3 DEF Frame, Fields
<1>3. CASE d.hs = "FINISHED"
  <2>0. d.serverRecords = F[5] /\ Sent(d) BY <1>3 DEF Sound, Stage, Sent
  <2> DEFINE m == send_tcp_packet(d, d.serverRecords)
             e == delete_record(m)
  <2>1. Sound(m) BY <2>0, SendSound
  <2>2. /\ Frame(d, m, {"sentAck", "tx"}) /\ m.sentAck = AckNo(d)
        /\ m.tx = d.tx \cup {[ack |-> AckNo(d), flight |-> F[5]]}
    BY <1>1, <2>0, SendChanges
  <2> HIDE DEF m
  <2>3. Sound(e) /\ Frame(m, e, {"held"}) /\ e.held = m.held - 1 BY <2>1, DeleteSound
  <2>4. ReadHello(d) = e BY <1>3 DEF ReadHello, m
  <2> HIDE DEF e
  <2> QED BY <1>1, <1>3, <2>2, <2>3, <2>4 DEF Frame, Fields
<1>4. CASE d.hs \notin {"CERTIFICATE_VERIFY", "FINISHED"}
  <2> DEFINE e == delete_record(d)
  <2>1. Sound(e) /\ Frame(d, e, {"held"}) /\ e.held = d.held - 1 BY DeleteSound
  <2>2. ReadHello(d) = e BY <1>4 DEF ReadHello
  <2> HIDE DEF e
  <2> QED BY <1>1, <1>4, <2>1, <2>2 DEF Frame, Fields
<1> QED BY <1>2, <1>3, <1>4

\* So does a record that does not decrypt.
LEMMA DecryptSound ==
  ASSUME NEW d, Sound(d)
  PROVE  LET e == DecryptFails(d) IN
         Sound(e) /\ Frame(d, e, {"held", "lapse"}) /\ e.lapse = d.lapse \cup {"reread"}
<1> DEFINE a == delete_record(d)
           b == delete_record(a)
           e == Lapse(b, "reread")
<1>1. Sound(a) /\ Frame(d, a, {"held"}) BY DeleteSound
<1>2. DecryptFails(d) = e BY DEF DecryptFails
<1> HIDE DEF a
<1>3. Sound(b) /\ Frame(a, b, {"held"}) BY <1>1, DeleteSound
<1> HIDE DEF b
<1>4. Sound(e) /\ Frame(b, e, {"lapse"}) /\ e.lapse = b.lapse \cup {"reread"}
  BY <1>3, LapseSound DEF Mishap
<1> HIDE DEF e
<1> QED BY <1>1, <1>2, <1>3, <1>4 DEF Frame, Fields

\* So does a record that unpack_handshake does not take.
LEMMA UnpackSound ==
  ASSUME NEW d, Sound(d)
  PROVE  LET e == UnpackFails(d) IN
         Sound(e) /\ Frame(d, e, {"lapse"}) /\ e.lapse = d.lapse \cup {"lost"}
BY LapseSound DEF UnpackFails, Mishap

\* ChangeCipherSpec after the flight.
LEMMA CipherSpecSound ==
  ASSUME NEW d, Sound(d), Sent(d), ~d.active
  PROVE  LET e == ReadCipherSpec(d) IN
         /\ Sound(e) /\ Sent(e)
         /\ d.readSp => Frame(d, e, {"held", "lapse"}) /\ e.lapse = d.lapse \cup {"reread"}
         /\ ~d.readSp => /\ Frame(d, e, {"held", "hs", "readSp"})
                         /\ e.held = d.held - 1 /\ e.hs = "CLIENT_CIPHER_SPEC"
         /\ ~d.readSp /\ d.hs = "FINISHED" => e.readSp = TRUE
<1>1. DOMAIN d = Fields BY DEF Sound, Shape
<1>2. d.readSp \in BOOLEAN /\ d.active \in BOOLEAN BY DEF Sound, Flags
<1>3. CASE d.readSp
  <2> DEFINE e == DecryptFails(d)
  <2>1. ReadCipherSpec(d) = e BY <1>3 DEF ReadCipherSpec
  <2>2. Sound(e) /\ Frame(d, e, {"held", "lapse"}) /\ e.lapse = d.lapse \cup {"reread"}
    BY DecryptSound
  <2> HIDE DEF e
  <2>3. Sent(e) BY <2>2 DEF Sent, Frame, Fields
  <2> QED BY <1>3, <2>1, <2>2, <2>3
<1>4. CASE ~d.readSp /\ d.hs = "CLIENT_CIPHER_SPEC"
  <2> DEFINE e == delete_record(d)
  <2>1. ReadCipherSpec(d) = e BY <1>4 DEF ReadCipherSpec
  <2>2. Sound(e) /\ Frame(d, e, {"held"}) /\ e.held = d.held - 1 BY DeleteSound
  <2> HIDE DEF e
  <2>3. Sent(e) /\ e.hs = d.hs /\ Frame(d, e, {"held", "hs", "readSp"})
    BY <2>2 DEF Sent, Frame, Fields
  <2> QED BY <1>4, <2>1, <2>2, <2>3
<1>5. CASE ~d.readSp /\ d.hs = "FINISHED"
  <2> DEFINE a == [d EXCEPT !.hs = "CLIENT_CIPHER_SPEC", !.readSp = TRUE]
             e == delete_record(a)
  <2>1. ReadCipherSpec(d) = e BY <1>5 DEF ReadCipherSpec
  <2>2. Frame(d, a, {"hs", "readSp"}) /\ a.hs = "CLIENT_CIPHER_SPEC" /\ a.readSp = TRUE
    BY <1>1, Zenon DEF Frame, Fields
  <2> HIDE DEF a
  <2>3. Shape(a) BY <1>1, <1>5, <2>2 DEF Sound, Shape, Frame, Fields, Sent, Begun
  <2>4. Flags(a)
    <3>1. /\ a.waiting = d.waiting /\ a.signed = d.signed /\ a.active = d.active
          /\ a.writeSp = d.writeSp /\ a.mig = d.mig /\ a.applied = d.applied
      BY <2>2 DEF Frame, Fields
    <3>2. a.readSp = TRUE /\ a.hs = "CLIENT_CIPHER_SPEC" BY <2>2
    <3>3. {d.waiting, d.signed, d.active, d.writeSp, d.mig, d.applied} \subseteq BOOLEAN
      BY DEF Sound, Flags
    <3>4. ~d.waiting /\ ~d.active /\ ~d.applied BY <1>5, Zenon DEF Sound, Flags
    <3> QED BY <3>1, <3>2, <3>3, <3>4, Zenon DEF Flags, Sent
  <2>5. Stage(a) BY <1>5, <2>2 DEF Sound, Stage, Frame, Fields
  <2>6. Says(a, a.tx) BY <1>5, <2>2 DEF Sound, Says, Frame, Fields, Sent
  <2>7. Sound(a) BY <2>3, <2>4, <2>5, <2>6 DEF Sound
  <2>8. Sound(e) /\ Frame(a, e, {"held"}) /\ e.held = a.held - 1 BY <2>7, DeleteSound
  <2> HIDE DEF e
  <2>9. e.hs = "CLIENT_CIPHER_SPEC" /\ e.readSp = TRUE /\ e.held = d.held - 1
    BY <2>2, <2>8 DEF Frame, Fields
  <2>10. Frame(d, e, {"held", "hs", "readSp"}) BY <2>2, <2>8 DEF Frame
  <2> QED BY <1>5, <2>1, <2>8, <2>9, <2>10 DEF Sent
<1> QED BY <1>2, <1>3, <1>4, <1>5, Zenon DEF Sent

\* The Finished after the flight.
LEMMA FinishedSound ==
  ASSUME NEW d, Sound(d), Sent(d), isn \in SeqNo
  PROVE  LET e == ReadFinished(d) IN
         /\ Sound(e) /\ Sent(e)
         /\ ~d.readSp \/ d.active => Frame(d, e, {"lapse"}) /\ e.lapse = d.lapse \cup {"lost"}
         /\ d.readSp /\ ~d.active /\ d.hs = "FINISHED" => Frame(d, e, {"held"})
         /\ d.readSp /\ ~d.active /\ d.hs = "CLIENT_CIPHER_SPEC" =>
              /\ Frame(d, e, {"held", "hs", "active", "sentAck", "tx"})
              /\ e.held = d.held - 1 /\ e.hs = "FINISHED" /\ e.active = TRUE
              /\ e.sentAck = (d.seq + d.len - (IF d.len > 126 THEN 126 ELSE 0)) % SeqSpace
              /\ e.tx = d.tx \cup {[ack |-> e.sentAck, flight |-> <<>>]}
<1>1. DOMAIN d = Fields BY DEF Sound, Shape
<1>2. d.readSp \in BOOLEAN /\ d.active \in BOOLEAN BY DEF Sound, Flags
<1>3. CASE ~d.readSp \/ d.active
  <2> DEFINE e == UnpackFails(d)
  <2>1. ReadFinished(d) = e BY <1>3 DEF ReadFinished
  <2>2. Sound(e) /\ Frame(d, e, {"lapse"}) /\ e.lapse = d.lapse \cup {"lost"}
    BY UnpackSound
  <2> HIDE DEF e
  <2>3. Sent(e) BY <2>2 DEF Sent, Frame, Fields
  <2> QED BY <1>2, <1>3, <2>1, <2>2, <2>3
<1>4. CASE d.readSp /\ ~d.active /\ d.hs = "FINISHED"
  <2> DEFINE e == delete_record(d)
  <2>1. ReadFinished(d) = e BY <1>4 DEF ReadFinished
  <2>2. Sound(e) /\ Frame(d, e, {"held"}) BY DeleteSound
  <2> HIDE DEF e
  <2>3. Sent(e) BY <2>2 DEF Sent, Frame, Fields
  <2> QED BY <1>2, <1>4, <2>1, <2>2, <2>3
<1>5. CASE d.readSp /\ ~d.active /\ d.hs = "CLIENT_CIPHER_SPEC"
  <2> DEFINE a == [d EXCEPT !.hs = "FINISHED", !.active = TRUE]
             b == send_tcp_packet(a, <<>>)
             e == delete_record(b)
  <2>1. d.vd = Transcript BY <1>5, Messages DEF Sound, Stage
  <2>2. ReadFinished(d) = e BY <1>5, <2>1 DEF ReadFinished
  <2>3. Frame(d, a, {"hs", "active"}) /\ a.hs = "FINISHED" /\ a.active = TRUE
    BY <1>1, Zenon DEF Frame, Fields
  <2> HIDE DEF a
  <2>4. Shape(a) BY <1>1, <1>5, <2>3 DEF Sound, Shape, Frame, Fields, Sent, Begun
  <2>5. Flags(a)
    <3>1. /\ a.waiting = d.waiting /\ a.signed = d.signed /\ a.readSp = d.readSp
          /\ a.writeSp = d.writeSp /\ a.mig = d.mig /\ a.applied = d.applied
      BY <2>3 DEF Frame, Fields
    <3>2. a.active = TRUE /\ a.hs = "FINISHED" BY <2>3
    <3>3. {d.waiting, d.signed, d.readSp, d.writeSp, d.mig, d.applied} \subseteq BOOLEAN
      BY DEF Sound, Flags
    <3>4. ~d.waiting BY <1>5 DEF Sound, Flags
    <3> QED BY <3>1, <3>2, <3>3, <3>4, Zenon DEF Flags, Sent
  <2>6. Stage(a) BY <1>5, <2>3 DEF Sound, Stage, Frame, Fields
  <2>7. Says(a, a.tx) BY <1>5, <2>3 DEF Sound, Says, Frame, Fields, Sent
  <2>8. Sound(a) BY <2>4, <2>5, <2>6, <2>7, Zenon DEF Sound
  <2>9. Sound(b) BY <2>8, SendSound
  <2>10. /\ Frame(a, b, {"sentAck", "tx"}) /\ b.sentAck = AckNo(a)
         /\ b.tx = a.tx \cup {[ack |-> AckNo(a), flight |-> <<>>]}
    BY <2>4, SendChanges DEF Shape
  <2> HIDE DEF b
  <2>11. Sound(e) /\ Frame(b, e, {"held"}) /\ e.held = b.held - 1 BY <2>9, DeleteSound
  <2> HIDE DEF e
  <2>12. AckNo(a) = (d.seq + d.len - (IF d.len > 126 THEN 126 ELSE 0)) % SeqSpace
    <3>1. a.seq = d.seq /\ a.len = d.len /\ a.active = TRUE BY <2>3 DEF Frame, Fields
    <3> QED BY <3>1 DEF AckNo
  <2>13. /\ e.hs = "FINISHED" /\ e.active = TRUE /\ e.held = d.held - 1
         /\ e.sentAck = AckNo(a) /\ e.tx = d.tx \cup {[ack |-> AckNo(a), flight |-> <<>>]}
    BY <2>3, <2>10, <2>11 DEF Frame, Fields
  <2>14. Frame(d, e, {"held", "hs", "active", "sentAck", "tx"}) BY <2>3, <2>10, <2>11 DEF Frame
  <2> QED BY <1>5, <2>2, <2>11, <2>12, <2>13, <2>14, Zenon DEF Sent
<1> QED BY <1>2, <1>3, <1>4, <1>5, Zenon DEF Sent

\* The request.
LEMMA RequestSound ==
  ASSUME NEW d, Sound(d), Sent(d)
  PROVE  LET e == ReadRequest(d) IN
         /\ Sound(e) /\ Sent(e)
         /\ d.active => Frame(d, e, {"lapse"}) /\ e.lapse = d.lapse \cup {"lost"}
<1>1. d.readSp \in BOOLEAN /\ d.active \in BOOLEAN BY DEF Sound, Flags
<1>2. CASE d.readSp /\ ~d.active
  <2> DEFINE e == DecryptFails(d)
  <2>1. ReadRequest(d) = e BY <1>2 DEF ReadRequest
  <2>2. Sound(e) /\ Frame(d, e, {"held", "lapse"}) BY DecryptSound
  <2> HIDE DEF e
  <2>3. Sent(e) BY <2>2 DEF Sent, Frame, Fields
  <2> QED BY <1>2, <2>1, <2>2, <2>3
<1>3. CASE ~(d.readSp /\ ~d.active)
  <2> DEFINE e == UnpackFails(d)
  <2>1. ReadRequest(d) = e BY <1>3 DEF ReadRequest
  <2>2. Sound(e) /\ Frame(d, e, {"lapse"}) /\ e.lapse = d.lapse \cup {"lost"} BY UnpackSound
  <2> HIDE DEF e
  <2>3. Sent(e) BY <2>2 DEF Sent, Frame, Fields
  <2> QED BY <1>3, <2>1, <2>2, <2>3
<1> QED BY <1>2, <1>3

\* A record that waits.
LEMMA WaitSound ==
  ASSUME NEW d, Sound(d), d.waiting
  PROVE  LET e == [d EXCEPT !.recvQ = Append(@, "CH")] IN
         /\ Sound(e) /\ Frame(d, e, {"recvQ"}) /\ e.recvQ = Append(d.recvQ, "CH")
         /\ Len(e.recvQ) = Len(d.recvQ) + 1
<1> DEFINE e == [d EXCEPT !.recvQ = Append(@, "CH")]
<1>1. DOMAIN d = Fields /\ d.recvQ \in Seq({"CH"}) BY DEF Sound, Shape
<1>2. Frame(d, e, {"recvQ"}) /\ e.recvQ = Append(d.recvQ, "CH") BY <1>1 DEF Frame, Fields
<1> HIDE DEF e
<1>3. e.recvQ \in Seq({"CH"}) /\ Len(e.recvQ) = Len(d.recvQ) + 1
  BY <1>1, <1>2, ItemAdded
<1>4. Begun(d) /\ ~Sent(d) BY DEF Begun, Sent, Sound, Flags
<1>5. Shape(e) BY <1>1, <1>2, <1>3, <1>4 DEF Sound, Shape, Frame, Fields, Sent, Begun
<1>6. Flags(e) BY <1>2, Zenon DEF Sound, Flags, Frame, Fields, Sent
<1>7. Stage(e) BY <1>2 DEF Sound, Stage, Frame, Fields
<1>8. Says(e, e.tx) BY <1>2 DEF Sound, Says, Frame, Fields, Sent
<1> QED BY <1>2, <1>3, <1>5, <1>6, <1>7, <1>8 DEF Sound, e

\* A new record is taken from the pool; the current record is set aside.
LEMMA TakeSound ==
  ASSUME NEW d, Sound(d), NEW c \in Seq(Parts)
  PROVE  LET n == IF d.crr = <<>> THEN [d EXCEPT !.held = @ + 1] ELSE d
             e == [n EXCEPT !.crr = c]
         IN  /\ Sound(n) /\ Frame(d, n, {"held"})
             /\ n.held = IF d.crr = <<>> THEN d.held + 1 ELSE d.held
             /\ Sound(e) /\ Frame(d, e, {"held", "crr"}) /\ e.crr = c
             /\ e.held = IF d.crr = <<>> THEN d.held + 1 ELSE d.held
<1> DEFINE n == IF d.crr = <<>> THEN [d EXCEPT !.held = @ + 1] ELSE d
           e == [n EXCEPT !.crr = c]
<1>1. DOMAIN d = Fields /\ d.held \in Int BY DEF Sound, Shape
<1>2. Frame(d, n, {"held"}) /\ n.held = IF d.crr = <<>> THEN d.held + 1 ELSE d.held
  <2>1. CASE d.crr = <<>> BY <1>1, <2>1 DEF Frame, Fields
  <2>2. CASE d.crr # <<>> BY <1>1, <2>2 DEF Frame, Fields
  <2> QED BY <2>1, <2>2
<1> HIDE DEF n
<1>3. Sound(n)
  <2>1. Frame(d, n, Numbers) BY <1>2 DEF Frame, Numbers
  <2>2. Shape(n) BY <1>1, <1>2 DEF Sound, Shape, Frame, Fields, Sent, Begun
  <2>3. Says(n, n.tx) BY <1>2 DEF Sound, Says, Frame, Fields, Sent
  <2> QED BY <2>1, <2>2, <2>3, SoundFrame
<1>4. Frame(n, e, {"crr"}) /\ e.crr = c BY <1>2 DEF Frame, Fields
<1> HIDE DEF e
<1>5. Sound(e)
  <2>1. Frame(n, e, Numbers) BY <1>4 DEF Frame, Numbers
  <2>2. Shape(e) BY <1>3, <1>4 DEF Sound, Shape, Frame, Fields, Sent, Begun
  <2>3. Says(e, e.tx) BY <1>3, <1>4 DEF Sound, Says, Frame, Fields, Sent
  <2> QED BY <1>3, <2>1, <2>2, <2>3, SoundFrame
<1>6. Frame(d, e, {"held", "crr"}) BY <1>2, <1>4 DEF Frame
<1>7. e.held = n.held BY <1>4 DEF Frame, Fields
<1> QED BY <1>2, <1>3, <1>4, <1>5, <1>6, <1>7 DEF n, e

\* Every record that may be read keeps the session sound.
LEMMA RecordSound ==
  ASSUME NEW d, Sound(d), isn \in SeqNo, NEW r \in {"CH", "CCS", "CF", "REQ"}, Legal(d, r)
  PROVE  Sound(ReadOrWait(d, r)) /\ (Sent(d) => Sent(ReadOrWait(d, r)))
<1>1. CASE r = "CH"
  <2>1. CASE d.waiting
    <3>1. ReadOrWait(d, r) = [d EXCEPT !.recvQ = Append(@, "CH")] BY <1>1, <2>1 DEF ReadOrWait
    <3>2. ~Sent(d) BY <2>1 DEF Sent, Sound, Flags
    <3> QED BY <2>1, <3>1, <3>2, WaitSound, Zenon
  <2>2. CASE ~d.waiting
    <3>1. ReadOrWait(d, r) = ReadHello(d) BY <1>1, <2>2 DEF ReadOrWait, process_read_record
    <3>2. CASE d.hs = "HELLO_REQUEST" BY <3>1, <3>2, FirstHello, Zenon DEF Sent
    <3>3. CASE d.hs # "HELLO_REQUEST"
      <4>1. /\ Sound(ReadHello(d))
            /\ Frame(d, ReadHello(d), {"held", "metaAck", "sentAck", "tx"})
        BY <3>3, HelloAgain, Zenon
      <4>2. ReadHello(d).hs = d.hs BY <4>1 DEF Frame, Fields
      <4> QED BY <3>1, <4>1, <4>2 DEF Sent
    <3> QED BY <3>2, <3>3
  <2> QED BY <2>1, <2>2
<1>2. CASE r # "CH"
  <2>1. Sent(d) /\ (r = "CCS" => ~d.active) BY <1>2 DEF Legal
  <2>2. ~d.waiting BY <2>1 DEF Sent, Sound, Flags
  <2>3. ReadOrWait(d, r) = process_read_record(d, r) BY <2>2 DEF ReadOrWait
  <2>4. CASE r = "CCS" BY <2>1, <2>3, <2>4, CipherSpecSound, Zenon DEF process_read_record
  <2>5. CASE r = "CF"
    <3>1. ReadOrWait(d, r) = ReadFinished(d) BY <2>3, <2>5 DEF process_read_record
    <3>2. Sound(ReadFinished(d)) /\ Sent(ReadFinished(d)) BY <2>1, FinishedSound, Zenon
    <3> QED BY <3>1, <3>2
  <2>6. CASE r = "REQ" BY <2>1, <2>3, <2>6, RequestSound DEF process_read_record
  <2> QED BY <1>2, <2>4, <2>5, <2>6
<1> QED BY <1>1, <1>2

\* So does every part of the stream, whole records and halves.
LEMMA PartSound ==
  ASSUME NEW d, Sound(d), isn \in SeqNo, NEW u \in Parts, Legal(d, u)
  PROVE  Sound(ReadPart(d, u)) /\ (Sent(d) => Sent(ReadPart(d, u)))
<1> DEFINE n == IF d.crr = <<>> THEN [d EXCEPT !.held = @ + 1] ELSE d
           c == Append(d.crr, u)
           a == [n EXCEPT !.crr = c]
           z == [n EXCEPT !.crr = <<>>]
<1>1. c \in Seq(Parts) /\ <<>> \in Seq(Parts) BY ItemAdded, NoItem DEF Sound, Shape
<1>2. Sound(n) /\ Frame(d, n, {"held"}) /\ Sound(a) /\ Frame(d, a, {"held", "crr"})
  BY <1>1, TakeSound, Zenon
<1>3. Sound(z) /\ Frame(d, z, {"held", "crr"}) BY <1>1, TakeSound, Zenon
<1>4. ReadPart(d, u) = IF d.lapse \cap Lost # {} THEN d
                       ELSE IF c = <<"CH1">> THEN a
                       ELSE IF c = <<"CH1", "CH2">> THEN ReadOrWait(z, "CH")
                       ELSE IF u \in {"CH1", "CH2"} THEN Lapse(n, "broken")
                       ELSE ReadOrWait(z, u)
  BY DEF ReadPart, Complete
<1> HIDE DEF n, c, a, z
<1>5. n.hs = d.hs /\ a.hs = d.hs /\ z.hs = d.hs /\ z.active = d.active
  BY <1>2, <1>3 DEF Frame, Fields
<1>6. Sound(ReadOrWait(z, "CH")) /\ (Sent(d) => Sent(ReadOrWait(z, "CH")))
  BY <1>3, <1>5, RecordSound, Zenon DEF Legal, Sent
<1>7. u \notin {"CH1", "CH2"} =>
        Sound(ReadOrWait(z, u)) /\ (Sent(d) => Sent(ReadOrWait(z, u)))
  <2> HAVE u \notin {"CH1", "CH2"}
  <2>1. u \in {"CH", "CCS", "CF", "REQ"} BY DEF Parts
  <2>2. Legal(z, u) BY <1>5, <2>1 DEF Legal, Sent
  <2> QED BY <1>3, <1>5, <2>1, <2>2, RecordSound DEF Sent
<1>8. Sound(Lapse(n, "broken")) /\ (Sent(d) => Sent(Lapse(n, "broken")))
  <2>1. Sound(Lapse(n, "broken")) /\ Frame(n, Lapse(n, "broken"), {"lapse"})
    BY <1>2, LapseSound DEF Mishap
  <2>2. Lapse(n, "broken").hs = n.hs BY <2>1 DEF Frame, Fields
  <2> QED BY <1>5, <2>1, <2>2 DEF Sent
<1>9. Sound(a) /\ (Sent(d) => Sent(a)) BY <1>2, <1>5 DEF Sent
<1> QED BY <1>4, <1>6, <1>7, <1>8, <1>9

\* A segment of up to three parts is read part by part.
LEMMA Unrolled ==
  ASSUME NEW d, NEW s \in Segment, s.from < s.to, s.to <= s.from + 3
  PROVE  LET e1 == ReadPart(d, Stream[s.from + 1])
             e2 == ReadPart(e1, Stream[s.from + 2])
             e3 == ReadPart(e2, Stream[s.from + 3])
         IN  process_new_record(d, s) =
               IF s.to = s.from + 1 THEN e1 ELSE IF s.to = s.from + 2 THEN e2 ELSE e3
<1> DEFINE a == s.from
           b == s.to
           e1 == ReadPart(d, Stream[s.from + 1])
           e2 == ReadPart(e1, Stream[s.from + 2])
           e3 == ReadPart(e2, Stream[s.from + 3])
           D(g) == g = [k \in a .. b |-> IF k = a THEN d ELSE ReadPart(g[k - 1], Stream[k])]
           h == [k \in a .. b |-> IF k = a THEN d ELSE IF k = a + 1 THEN e1
                                  ELSE IF k = a + 2 THEN e2 ELSE e3]
<1>1. a \in Int /\ b \in Int /\ a < b /\ b <= a + 3 BY DEF Segment
<1>2. ReadParts(d, s) = CHOOSE g : D(g) BY DEF ReadParts
<1>3. D(h)
  <2>1. ASSUME NEW k \in a .. b
        PROVE  h[k] = IF k = a THEN d ELSE ReadPart(h[k - 1], Stream[k])
    <3>1. CASE k = a BY <1>1, <3>1
    <3>2. CASE k = a + 1
      <4>1. k - 1 = a /\ a \in a .. b BY <1>1, <3>2
      <4>2. h[k - 1] = d BY <4>1
      <4>3. h[k] = e1 BY <1>1, <3>2
      <4> QED BY <1>1, <3>2, <4>2, <4>3
    <3>3. CASE k = a + 2
      <4>1. k - 1 = a + 1 /\ a + 1 \in a .. b /\ a + 1 # a BY <1>1, <3>3
      <4>2. h[k - 1] = e1 BY <4>1
      <4>3. h[k] = e2 /\ k # a BY <1>1, <3>3
      <4> QED BY <3>3, <4>2, <4>3
    <3>4. CASE k = a + 3
      <4>1. k - 1 = a + 2 /\ a + 2 \in a .. b /\ a + 2 # a /\ a + 2 # a + 1 BY <1>1, <3>4
      <4>2. h[k - 1] = e2 BY <4>1
      <4>3. h[k] = e3 /\ k # a BY <1>1, <3>4
      <4> QED BY <3>4, <4>2, <4>3
    <3> QED BY <1>1, <3>1, <3>2, <3>3, <3>4
  <2> HIDE DEF e1, e2, e3
  <2>2. h = [k \in a .. b |-> h[k]] OBVIOUS
  <2> HIDE DEF h
  <2> QED BY <2>1, <2>2, Zenon
<1> HIDE DEF D, h, e1, e2, e3
<1>4. D(ReadParts(d, s)) BY <1>2, <1>3
<1> DEFINE f == ReadParts(d, s)
<1>5. f = [k \in a .. b |-> IF k = a THEN d ELSE ReadPart(f[k - 1], Stream[k])] BY <1>4, Zenon DEF D
<1> HIDE DEF f
<1>6. f[a] = d
  <2>1. a \in a .. b BY <1>1
  <2> QED BY <1>5, <2>1
<1>13. ASSUME NEW j, NEW k \in a .. b, k # a, j = k - 1 PROVE f[k] = ReadPart(f[j], Stream[k])
  <2>1. f[k] = IF k = a THEN d ELSE ReadPart(f[k - 1], Stream[k]) BY <1>5, Zenon
  <2> QED BY <1>13, <2>1, Zenon
<1>7. f[a + 1] = e1
  <2>1. a + 1 \in a .. b /\ a + 1 # a /\ a = (a + 1) - 1 BY <1>1
  <2>2. f[a + 1] = ReadPart(f[a], Stream[a + 1]) BY <1>13, <2>1, Zenon
  <2> QED BY <1>6, <2>1, <2>2 DEF e1
<1>8. b >= a + 2 => f[a + 2] = e2
  <2> HAVE b >= a + 2
  <2>1. a + 2 \in a .. b /\ a + 2 # a /\ a + 1 = (a + 2) - 1 BY <1>1
  <2>2. f[a + 2] = ReadPart(f[a + 1], Stream[a + 2]) BY <1>13, <2>1, Zenon
  <2> QED BY <1>7, <2>1, <2>2 DEF e2
<1>9. b = a + 3 => f[a + 3] = e3
  <2> HAVE b = a + 3
  <2>1. a + 3 \in a .. b /\ a + 3 # a /\ a + 2 = (a + 3) - 1 /\ b >= a + 2 BY <1>1
  <2>2. f[a + 3] = ReadPart(f[a + 2], Stream[a + 3]) BY <1>13, <2>1, Zenon
  <2> QED BY <1>8, <2>1, <2>2 DEF e3
<1>10. process_new_record(d, s) = f[b] BY DEF process_new_record, f
<1>11. b = a + 1 \/ b = a + 2 \/ b = a + 3 BY <1>1
<1>12. f[b] = IF b = a + 1 THEN e1 ELSE IF b = a + 2 THEN e2 ELSE e3
  BY <1>1, <1>7, <1>8, <1>9, <1>11
<1> QED BY <1>10, <1>12 DEF e1, e2, e3

\* The parts of the client's stream in order.
LEMMA StreamParts ==
  /\ Stream[1] = "CH1" /\ Stream[2] = "CH2" /\ Stream[3] = "CCS" /\ Stream[4] = "CF"
  /\ Stream[5] = "REQ"
BY DEF Stream

\* The segments that there are.
LEMMA SegmentCases ==
  ASSUME NEW d, NEW s, Fitting(d, s)
  PROVE  /\ s.ack = 0 => \/ s.from = 0 /\ s.to = 1
                         \/ s.from = 0 /\ s.to = 2
                         \/ s.from = 1 /\ s.to = 2
         /\ s.ack # 0 => /\ s.ack = 1 /\ Sent(d)
                         /\ \/ s.from = 2 /\ s.to = 3
                            \/ s.from = 2 /\ s.to = 4
                            \/ s.from = 2 /\ s.to = 5
                            \/ s.from = 3 /\ s.to = 4
                            \/ s.from = 3 /\ s.to = 5
                            \/ s.from = 4 /\ s.to = 5
<1>1. s.from \in 0 .. 5 /\ s.to \in 0 .. 5 /\ s.ack \in {0, 1} BY DEF Fitting, Segment, StreamEnd
<1> QED BY <1>1 DEF Fitting, HelloEnd

\* process_new_record: all parts of a segment keep the session sound.
LEMMA NewRecordSound ==
  ASSUME NEW d, Sound(d), isn \in SeqNo, NEW s, Fitting(d, s)
  PROVE  LET e == process_new_record(d, s) IN Sound(e) /\ (Sent(d) => Sent(e))
<1> DEFINE e1 == ReadPart(d, Stream[s.from + 1])
           e2 == ReadPart(e1, Stream[s.from + 2])
           e3 == ReadPart(e2, Stream[s.from + 3])
<1>0. s \in Segment /\ s.from < s.to /\ ~d.active BY DEF Fitting
<1>1. process_new_record(d, s) =
        IF s.to = s.from + 1 THEN e1 ELSE IF s.to = s.from + 2 THEN e2 ELSE e3
  <2>1. s.to <= s.from + 3 BY SegmentCases
  <2> QED BY <1>0, <2>1, Unrolled
<1>2. CASE s.ack = 0
  <2>1. Stream[s.from + 1] \in {"CH1", "CH2"} BY <1>2, SegmentCases, StreamParts
  <2>2. Sound(e1) /\ (Sent(d) => Sent(e1)) BY <2>1, PartSound DEF Legal, Parts
  <2> HIDE DEF e1
  <2>3. s.to # s.from + 1 => Sound(e2) /\ (Sent(d) => Sent(e2))
    <3> HAVE s.to # s.from + 1
    <3>1. Stream[s.from + 2] = "CH2" BY <1>2, SegmentCases, StreamParts
    <3> QED BY <2>2, <3>1, PartSound DEF Legal, Parts
  <2> HIDE DEF e2
  <2>4. s.to = s.from + 1 \/ s.to = s.from + 2 BY <1>2, SegmentCases
  <2> QED BY <1>1, <2>2, <2>3, <2>4
<1>3. CASE s.ack # 0
  <2>0. Sent(d) BY <1>3, SegmentCases
  <2>1. Stream[s.from + 1] \in {"CCS", "CF", "REQ"} BY <1>3, SegmentCases, StreamParts
  <2>2. Sound(e1) /\ Sent(e1) BY <1>0, <2>0, <2>1, PartSound DEF Legal, Parts
  <2> HIDE DEF e1
  <2>3. s.to # s.from + 1 => Sound(e2) /\ Sent(e2)
    <3> HAVE s.to # s.from + 1
    <3>1. Stream[s.from + 2] \in {"CF", "REQ"} BY <1>3, SegmentCases, StreamParts
    <3> QED BY <2>2, <3>1, PartSound DEF Legal, Parts
  <2> HIDE DEF e2
  <2>4. s.to # s.from + 1 /\ s.to # s.from + 2 => Sound(e3) /\ Sent(e3)
    <3> HAVE s.to # s.from + 1 /\ s.to # s.from + 2
    <3>1. Stream[s.from + 3] = "REQ" BY <1>3, SegmentCases, StreamParts
    <3> QED BY <2>3, <3>1, PartSound DEF Legal, Parts
  <2> HIDE DEF e3
  <2> QED BY <1>1, <2>0, <2>2, <2>3, <2>4
<1> QED BY <1>2, <1>3

\* Noting the numbers of a segment keeps the session sound.
LEMMA NotedSound ==
  ASSUME NEW d, Sound(d), isn \in SeqNo, NEW s, Fitting(d, s)
  PROVE  LET e == Noted(d, s) IN
         /\ Sound(e) /\ Frame(d, e, {"seq", "len", "ack"}) /\ Fitting(e, s)
         /\ e.seq = At(s.from) /\ e.len = SegLen(s) /\ e.ack = s.ack
<1> DEFINE e == Noted(d, s)
<1>1. DOMAIN d = Fields BY DEF Sound, Shape
<1>2. /\ Frame(d, e, {"seq", "len", "ack"})
      /\ e.seq = At(s.from) /\ e.len = SegLen(s) /\ e.ack = s.ack
  BY <1>1, Zenon DEF Noted, Frame, Fields
<1>3. s.from \in Pos /\ s.to \in Pos /\ s.from < s.to /\ s.ack \in {0, 1}
  BY DEF Fitting, Segment, Pos
<1>4. At(s.from) \in SeqNo BY <1>3, Positions
<1>5. SegLen(s) \in Nat
  <2>1. /\ Offset[s.from + 1] \in Nat /\ Offset[s.to + 1] \in Nat
        /\ Offset[s.from + 1] < Offset[s.to + 1]
    BY <1>3, Increasing
  <2> QED BY <2>1 DEF SegLen
<1> HIDE DEF e
<1>6. Frame(d, e, Numbers) BY <1>2 DEF Frame, Numbers
<1>7. Shape(e) BY <1>1, <1>2, <1>3, <1>4, <1>5 DEF Sound, Shape, Frame, Fields, Sent, Begun
<1>8. Says(e, e.tx) BY <1>2 DEF Sound, Says, Frame, Fields, Sent
<1>9. Sound(e) BY <1>6, <1>7, <1>8, SoundFrame
<1>10. Fitting(e, s) BY <1>2 DEF Fitting, Frame, Fields, Sent
<1> QED BY <1>2, <1>9, <1>10 DEF e

\* process_normal_seq_case keeps the session sound.
LEMMA NormalSound ==
  ASSUME NEW d, Sound(d), isn \in SeqNo, NEW s, Fitting(d, s)
  PROVE  LET e == process_normal_seq_case(d, s) IN Sound(e) /\ (Sent(d) => Sent(e))
<1> DEFINE a == Noted(d, s)
           r == process_new_record(a, s)
           part == IF d.hs = "HELLO_REQUEST" /\ ~d.waiting THEN "split" ELSE "rewound"
           b == send_tcp_packet(r, <<>>)
           e == Lapse(b, part)
<1>1. Sound(a) /\ Frame(d, a, {"seq", "len", "ack"}) /\ Fitting(a, s) BY NotedSound
<1>2. process_normal_seq_case(d, s) = IF r.crr # <<>> THEN e ELSE r
  BY DEF process_normal_seq_case, Noted
<1> HIDE DEF a
<1>3. Sound(r) /\ (Sent(a) => Sent(r)) BY <1>1, NewRecordSound
<1>4. part \in Mishap \ {"refused"} BY DEF Mishap
<1> HIDE DEF r, part
<1>5. Sound(b) BY <1>3, SendSound
<1>6. Frame(r, b, {"sentAck", "tx"}) BY <1>3, SendChanges, Zenon DEF Sound, Shape
<1> HIDE DEF b
<1>7. Sound(e) /\ Frame(b, e, {"lapse"}) BY <1>4, <1>5, LapseSound
<1> HIDE DEF e
<1>8. a.hs = d.hs /\ b.hs = r.hs /\ e.hs = b.hs BY <1>1, <1>6, <1>7 DEF Frame, Fields
<1> QED BY <1>2, <1>3, <1>7, <1>8 DEF Sent

\* process_handshake_packet, whatever validate_sequence says of the segment.
LEMMA PacketSound ==
  ASSUME NEW d, Sound(d), isn \in SeqNo, NEW s, d.active \/ Fitting(d, s), s \in Segment
  PROVE  LET e == process_handshake_packet(d, s) IN Sound(e) /\ (Sent(d) => Sent(e))
<1>1. CASE d.active
  <2> DEFINE e == [d EXCEPT !.pending = s]
  <2>1. process_handshake_packet(d, s) = e BY <1>1 DEF process_handshake_packet
  <2>2. DOMAIN d = Fields BY DEF Sound, Shape
  <2>3. Frame(d, e, {"pending"}) /\ e.pending = s BY <2>2 DEF Frame, Fields
  <2> HIDE DEF e
  <2>4. Frame(d, e, Numbers) BY <2>3 DEF Frame, Numbers
  <2>5. Shape(e) BY <2>2, <2>3 DEF Sound, Shape, Frame, Fields, Sent, Begun
  <2>6. Says(e, e.tx) BY <2>3 DEF Sound, Says, Frame, Fields, Sent
  <2>7. e.hs = d.hs BY <2>3 DEF Frame, Fields
  <2> QED BY <2>1, <2>4, <2>5, <2>6, <2>7, SoundFrame DEF Sent
<1>2. CASE ~d.active
  <2> DEFINE v == validate_sequence(d, s)
             b == send_tcp_packet(d, <<>>)
             c == process_normal_seq_case(d, s)
  <2>1. process_handshake_packet(d, s) = IF v = "OK" THEN c ELSE IF v = "OVER" THEN b ELSE d
    BY <1>2 DEF process_handshake_packet, InSequence
  <2>2. Sound(c) /\ (Sent(d) => Sent(c)) BY <1>2, NormalSound
  <2>3. Sound(b) BY SendSound
  <2>4. Frame(d, b, {"sentAck", "tx"}) BY SendChanges DEF Sound, Shape
  <2> HIDE DEF v, b, c
  <2>5. b.hs = d.hs BY <2>4 DEF Frame, Fields
  <2> QED BY <2>1, <2>2, <2>3, <2>5 DEF Sent
<1>3. d.active \in BOOLEAN BY DEF Sound, Flags
<1> QED BY <1>1, <1>2, <1>3
-----------------------------------------------------------------------------
(* A packet leaves the migration alone.                                     *)

\* Two operations that leave the migration alone do so together.
LEMMA KeepsTrans ==
  ASSUME NEW d, NEW e, NEW f, Keeps(d, e), Keeps(e, f)
  PROVE  Keeps(d, f)
BY DEF Keeps

\* The small operations leave the migration alone.
LEMMA SimpleKeeps ==
  ASSUME NEW d, DOMAIN d = Fields
  PROVE  /\ Keeps(d, d) /\ Keeps(d, delete_record(d)) /\ Keeps(d, send_key_meta(d))
         /\ \A what : Keeps(d, Lapse(d, what))
         /\ \A f : Keeps(d, send_tcp_packet(d, f))
BY DEF Keeps, Fields, delete_record, send_key_meta, Lapse, send_tcp_packet

\* So does a ClientHello.
LEMMA HelloKeeps ==
  ASSUME NEW d, DOMAIN d = Fields
  PROVE  Keeps(d, ReadHello(d))
<1> DEFINE a == [d EXCEPT !.waiting = TRUE]
           b == IF d.hs = "CERTIFICATE_VERIFY" THEN send_key_meta(d)
                ELSE IF d.hs = "FINISHED" THEN send_tcp_packet(d, d.serverRecords) ELSE d
<1>1. Keeps(d, a) BY DEF Keeps, Fields
<1>2. Keeps(d, b) BY SimpleKeeps
<1>3. ReadHello(d) = IF d.hs = "HELLO_REQUEST" THEN a ELSE delete_record(b) BY DEF ReadHello
<1> HIDE DEF a, b
<1>4. Keeps(b, delete_record(b)) BY <1>2, SimpleKeeps DEF Keeps
<1> QED BY <1>1, <1>2, <1>3, <1>4, KeepsTrans

\* So does a record that does not decrypt.
LEMMA DecryptKeeps ==
  ASSUME NEW d, DOMAIN d = Fields
  PROVE  Keeps(d, DecryptFails(d))
<1> DEFINE a == delete_record(d)
           b == delete_record(a)
<1>1. Keeps(d, a) BY SimpleKeeps
<1> HIDE DEF a
<1>2. Keeps(a, b) BY <1>1, SimpleKeeps DEF Keeps
<1> HIDE DEF b
<1>3. Keeps(b, Lapse(b, "reread")) BY <1>2, SimpleKeeps DEF Keeps
<1>4. Keeps(d, b) BY <1>1, <1>2, KeepsTrans
<1>5. Keeps(d, Lapse(b, "reread")) BY <1>3, <1>4, KeepsTrans
<1> QED BY <1>5 DEF DecryptFails, a, b

\* So does a ChangeCipherSpec.
LEMMA CipherSpecKeeps ==
  ASSUME NEW d, DOMAIN d = Fields
  PROVE  Keeps(d, ReadCipherSpec(d))
<1> DEFINE a == [d EXCEPT !.hs = "CLIENT_CIPHER_SPEC", !.readSp = TRUE]
<1>1. Keeps(d, a) BY DEF Keeps, Fields
<1>2. ReadCipherSpec(d) \in {DecryptFails(d), delete_record(d), delete_record(a)}
  BY DEF ReadCipherSpec
<1> HIDE DEF a
<1>3. Keeps(a, delete_record(a)) BY <1>1, SimpleKeeps DEF Keeps
<1>4. Keeps(d, delete_record(a)) BY <1>1, <1>3, KeepsTrans
<1>5. Keeps(d, delete_record(d)) BY SimpleKeeps
<1> QED BY <1>2, <1>4, <1>5, DecryptKeeps

\* So does the client's Finished.
LEMMA FinishedKeeps ==
  ASSUME NEW d, DOMAIN d = Fields
  PROVE  Keeps(d, ReadFinished(d))
<1> DEFINE a == [d EXCEPT !.hs = "FINISHED", !.active = TRUE]
           b == send_tcp_packet(a, <<>>)
<1>1. Keeps(d, a) BY DEF Keeps, Fields
<1>2. ReadFinished(d) \in {UnpackFails(d), delete_record(d), Lapse(d, "refused"), delete_record(b)}
  BY DEF ReadFinished
<1> HIDE DEF a
<1>3. Keeps(a, b) BY <1>1, SimpleKeeps, Zenon DEF Keeps
<1> HIDE DEF b
<1>4. Keeps(b, delete_record(b)) BY <1>3, SimpleKeeps DEF Keeps
<1>5. Keeps(d, b) BY <1>1, <1>3, KeepsTrans
<1>6. Keeps(d, delete_record(b)) BY <1>4, <1>5, KeepsTrans
<1>7. Keeps(d, delete_record(d)) /\ Keeps(d, Lapse(d, "refused")) BY SimpleKeeps
<1>8. Keeps(d, UnpackFails(d)) BY SimpleKeeps DEF UnpackFails
<1> QED BY <1>2, <1>6, <1>7, <1>8

\* So does every record.
LEMMA RecordKeeps ==
  ASSUME NEW d, DOMAIN d = Fields, NEW r
  PROVE  Keeps(d, ReadOrWait(d, r))
<1>1. Keeps(d, ReadRequest(d))
  <2>1. Keeps(d, UnpackFails(d)) BY SimpleKeeps DEF UnpackFails
  <2> QED BY <2>1, DecryptKeeps DEF ReadRequest
<1>2. process_read_record(d, r)
        \in {ReadHello(d), ReadCipherSpec(d), ReadFinished(d), ReadRequest(d)}
  BY DEF process_read_record
<1>3. Keeps(d, process_read_record(d, r))
  BY <1>1, <1>2, HelloKeeps, CipherSpecKeeps, FinishedKeeps
<1> DEFINE a == [d EXCEPT !.recvQ = Append(@, r)]
<1>4. Keeps(d, a) BY DEF Keeps, Fields
<1>5. ReadOrWait(d, r) \in {a, process_read_record(d, r)} BY DEF ReadOrWait
<1> HIDE DEF a
<1> QED BY <1>3, <1>4, <1>5

\* So does every part of the stream.
LEMMA PartKeeps ==
  ASSUME NEW d, DOMAIN d = Fields, NEW u
  PROVE  Keeps(d, ReadPart(d, u))
<1> DEFINE n == IF d.crr = <<>> THEN [d EXCEPT !.held = @ + 1] ELSE d
           c == Append(d.crr, u)
           x == [n EXCEPT !.crr = c]
           z == [n EXCEPT !.crr = <<>>]
<1>1. Keeps(d, n) BY DEF Keeps, Fields
<1>2. ReadPart(d, u) \in {d, x, ReadOrWait(z, "CH"), Lapse(n, "broken"), ReadOrWait(z, u)}
  BY DEF ReadPart, Complete
<1> HIDE DEF n, c
<1>3. Keeps(n, x) /\ Keeps(n, z) BY <1>1 DEF Keeps, Fields
<1> HIDE DEF x, z
<1>4. Keeps(n, Lapse(n, "broken")) BY <1>1, SimpleKeeps DEF Keeps
<1>5. \A r : Keeps(z, ReadOrWait(z, r)) BY <1>3, RecordKeeps DEF Keeps
<1>6. \A r : Keeps(n, ReadOrWait(z, r)) BY <1>3, <1>5, KeepsTrans
<1>7. Keeps(d, d) BY SimpleKeeps
<1>8. CASE ReadPart(d, u) = d BY <1>7, <1>8
<1>9. CASE ReadPart(d, u) # d
  <2>1. Keeps(n, ReadPart(d, u)) BY <1>2, <1>3, <1>4, <1>6, <1>9
  <2> QED BY <1>1, <2>1, KeepsTrans
<1> QED BY <1>8, <1>9

\* process_handshake_packet leaves the migration alone.
LEMMA PacketKeeps ==
  ASSUME NEW d, Sound(d), isn \in SeqNo, NEW s, Fitting(d, s)
  PROVE  process_handshake_packet(d, s).mig = d.mig
<1> DEFINE n == Noted(d, s)
           r == process_new_record(n, s)
           part == IF d.hs = "HELLO_REQUEST" /\ ~d.waiting THEN "split" ELSE "rewound"
           g == send_tcp_packet(r, <<>>)
           f == Lapse(g, part)
           o == send_tcp_packet(d, <<>>)
<1>1. DOMAIN d = Fields BY DEF Sound, Shape
<1>2. Keeps(d, n) BY <1>1 DEF Keeps, Noted, Fields
<1>3. Keeps(d, d) /\ Keeps(d, o) BY <1>1, SimpleKeeps
<1>4. process_handshake_packet(d, s) \in {d, o, f, r}
  BY DEF process_handshake_packet, InSequence, process_normal_seq_case, Noted, Fitting
<1> HIDE DEF o, part
<1>5. Keeps(n, r)
  <2> DEFINE e1 == ReadPart(n, Stream[s.from + 1])
             e2 == ReadPart(e1, Stream[s.from + 2])
             e3 == ReadPart(e2, Stream[s.from + 3])
  <2>1. s \in Segment /\ s.from < s.to /\ s.to <= s.from + 3
    <3>1. s \in Segment /\ s.from < s.to BY DEF Fitting
    <3> QED BY <3>1, SegmentCases DEF Segment
  <2>2. r \in {e1, e2, e3} BY <2>1, Unrolled
  <2> HIDE DEF n
  <2>3. Keeps(n, e1) BY <1>2, PartKeeps DEF Keeps
  <2> HIDE DEF e1
  <2>4. Keeps(e1, e2) BY <2>3, PartKeeps DEF Keeps
  <2> HIDE DEF e2
  <2>5. Keeps(e2, e3) BY <2>4, PartKeeps DEF Keeps
  <2> HIDE DEF e3
  <2>6. Keeps(n, e2) BY <2>3, <2>4, KeepsTrans
  <2>7. Keeps(n, e3) BY <2>5, <2>6, KeepsTrans
  <2> QED BY <2>2, <2>3, <2>6, <2>7
<1> HIDE DEF n, r
<1>6. Keeps(r, g) BY <1>5, SimpleKeeps DEF Keeps
<1> HIDE DEF g
<1>7. Keeps(g, f) BY <1>6, SimpleKeeps DEF Keeps
<1> HIDE DEF f
<1>8. n.mig = d.mig /\ r.mig = n.mig /\ g.mig = r.mig /\ f.mig = g.mig /\ o.mig = d.mig
  BY <1>2, <1>3, <1>5, <1>6, <1>7 DEF Keeps
<1> QED BY <1>4, <1>8
-----------------------------------------------------------------------------
(* What a connection that is followed makes of a part of the stream.        *)

\* Which halves make up a ClientHello.
LEMMA PartAppend ==
  /\ Append(<<>>, "CH1") = <<"CH1">> /\ Append(<<"CH1">>, "CH2") = <<"CH1", "CH2">>
  /\ \A u \in Parts : /\ Append(<<>>, u) # <<"CH1", "CH2">>
                       /\ u # "CH1" => Append(<<>>, u) # <<"CH1">>
  /\ Append(<<"CH1">>, "CH1") # <<"CH1">> /\ Append(<<"CH1">>, "CH1") # <<"CH1", "CH2">>
  /\ <<"CH1">> # <<>> /\ Append(<<"CH1">>, "CH2") # <<"CH1">>
<1>1. /\ <<>> \in Seq(Parts) /\ <<"CH1">> \in Seq(Parts) /\ <<"CH1", "CH2">> \in Seq(Parts)
      /\ Len(<<>>) = 0 /\ Len(<<"CH1">>) = 1 /\ Len(<<"CH1", "CH2">>) = 2
      /\ <<"CH1">>[1] = "CH1" /\ <<"CH1", "CH2">>[1] = "CH1" /\ <<"CH1", "CH2">>[2] = "CH2"
  BY DEF Parts
<1>2. "CH1" \in Parts /\ "CH2" \in Parts BY DEF Parts
<1>3. ASSUME NEW q \in Seq(Parts), NEW u \in Parts
      PROVE  /\ Append(q, u) \in Seq(Parts) /\ Len(Append(q, u)) = Len(q) + 1
             /\ Append(q, u)[Len(q) + 1] = u
             /\ \A i \in 1 .. Len(q) : Append(q, u)[i] = q[i]
  BY ItemAdded
<1>4. ASSUME NEW u \in Parts
      PROVE  /\ Append(<<>>, u) \in Seq(Parts) /\ Len(Append(<<>>, u)) = 1
             /\ Append(<<>>, u)[1] = u
  BY <1>1, <1>3
<1>5. ASSUME NEW u \in Parts
      PROVE  /\ Append(<<"CH1">>, u) \in Seq(Parts) /\ Len(Append(<<"CH1">>, u)) = 2
             /\ Append(<<"CH1">>, u)[1] = "CH1" /\ Append(<<"CH1">>, u)[2] = u
  BY <1>1, <1>3
<1>6. Append(<<>>, "CH1") = <<"CH1">> BY <1>1, <1>2, <1>4, SameItems
<1>7. Append(<<"CH1">>, "CH2") = <<"CH1", "CH2">>
  <2> DEFINE q == Append(<<"CH1">>, "CH2")
             r == <<"CH1", "CH2">>
  <2>1. /\ q \in Seq(Parts) /\ r \in Seq(Parts) /\ Len(q) = 2 /\ Len(r) = 2
        /\ q[1] = "CH1" /\ r[1] = "CH1" /\ q[2] = "CH2" /\ r[2] = "CH2"
    BY <1>1, <1>2, <1>5
  <2> HIDE DEF q, r
  <2>2. \A i \in 1 .. Len(q) : q[i] = r[i] BY <2>1
  <2>3. q = r BY <2>1, <2>2, SameItems
  <2> QED BY <2>3 DEF q, r
<1>8. ASSUME NEW u \in Parts
      PROVE  Append(<<>>, u) # <<"CH1", "CH2">> /\ (u # "CH1" => Append(<<>>, u) # <<"CH1">>)
  BY <1>1, <1>4
<1>9. Append(<<"CH1">>, "CH1") # <<"CH1">> /\ Append(<<"CH1">>, "CH2") # <<"CH1">>
  BY <1>1, <1>2, <1>5
<1>10. Append(<<"CH1">>, "CH1") # <<"CH1", "CH2">> BY <1>1, <1>2, <1>5, Zenon
<1>11. <<"CH1">> # <<>> BY <1>1
<1> QED BY <1>6, <1>7, <1>8, <1>9, <1>10, <1>11

\* No part is read after a mishap.
LEMMA PartStops ==
  ASSUME NEW d, NEW u, d.lapse \cap Lost # {}
  PROVE  ReadPart(d, u) = d
BY DEF ReadPart

\* The first part of a ClientHello.
LEMMA PartFirst ==
  ASSUME NEW d, Sound(d), d.lapse = {}, d.crr = <<>>
  PROVE  LET e == ReadPart(d, "CH1") IN
         Sound(e) /\ Frame(d, e, {"held", "crr"}) /\ e.crr = <<"CH1">> /\ e.held = d.held + 1
<1> DEFINE e == [[d EXCEPT !.held = @ + 1] EXCEPT !.crr = <<"CH1">>]
<1>1. ReadPart(d, "CH1") = e BY PartAppend DEF ReadPart
<1>2. <<"CH1">> \in Seq(Parts) BY DEF Parts
<1>3. LET n == IF d.crr = <<>> THEN [d EXCEPT !.held = @ + 1] ELSE d
          a == [n EXCEPT !.crr = <<"CH1">>]
      IN  /\ Sound(a) /\ Frame(d, a, {"held", "crr"}) /\ a.crr = <<"CH1">>
          /\ a.held = IF d.crr = <<>> THEN d.held + 1 ELSE d.held
  BY <1>2, TakeSound, Zenon
<1>4. Sound(e) /\ Frame(d, e, {"held", "crr"}) /\ e.crr = <<"CH1">> /\ e.held = d.held + 1
  BY <1>3
<1> QED BY <1>1, <1>4, Zenon

\* A part that does not fit.
LEMMA PartBroken ==
  ASSUME NEW d, Sound(d), d.lapse = {}, NEW u,
         (d.crr = <<>> /\ u = "CH2") \/ (d.crr = <<"CH1">> /\ u = "CH1")
  PROVE  "broken" \in ReadPart(d, u).lapse
<1> DEFINE n == IF d.crr = <<>> THEN [d EXCEPT !.held = @ + 1] ELSE d
           c == Append(d.crr, u)
<1>1. c # <<"CH1">> /\ c # <<"CH1", "CH2">>
  <2>1. CASE d.crr = <<>> /\ u = "CH2" BY <2>1, PartAppend DEF Parts
  <2>2. CASE d.crr = <<"CH1">> /\ u = "CH1" BY <2>2, PartAppend
  <2> QED BY <2>1, <2>2
<1>2. u \in {"CH1", "CH2"} OBVIOUS
<1>3. ReadPart(d, u) = Lapse(n, "broken") BY <1>1, <1>2 DEF ReadPart
<1>4. <<>> \in Seq(Parts) BY NoItem
<1>5. Sound(n) BY <1>4, TakeSound, Zenon
<1> HIDE DEF n
<1>6. Lapse(n, "broken").lapse = n.lapse \cup {"broken"} BY <1>5, LapseSound DEF Mishap
<1> QED BY <1>3, <1>6

\* The second one makes it complete.
LEMMA PartSecond ==
  ASSUME NEW d, Sound(d), d.lapse = {}, d.crr = <<"CH1">>
  PROVE  LET z == [d EXCEPT !.crr = <<>>] IN
         /\ ReadPart(d, "CH2") = ReadOrWait(z, "CH")
         /\ Sound(z) /\ Frame(d, z, {"crr"}) /\ z.crr = <<>>
<1> DEFINE z == [d EXCEPT !.crr = <<>>]
<1>1. ReadPart(d, "CH2") = ReadOrWait(z, "CH") BY PartAppend DEF ReadPart, Complete
<1>2. <<>> \in Seq(Parts) BY NoItem
<1>3. d.crr # <<>> BY PartAppend
<1>4. LET n == IF d.crr = <<>> THEN [d EXCEPT !.held = @ + 1] ELSE d
          a == [n EXCEPT !.crr = <<>>]
      IN  Sound(a) /\ a.crr = <<>>
  BY <1>2, TakeSound, Zenon
<1>5. Sound(z) /\ z.crr = <<>> BY <1>3, <1>4
<1>6. Frame(d, z, {"crr"}) BY DEF Sound, Shape, Frame, Fields
<1> QED BY <1>1, <1>5, <1>6

\* A ClientHello that is complete: one record less is under way.
LEMMA HelloRead ==
  ASSUME NEW d, Sound(d), isn \in SeqNo
  PROVE  LET e == ReadOrWait(d, "CH") IN
         /\ Sound(e) /\ Frame(d, e, {"waiting", "recvQ", "held", "metaAck", "sentAck", "tx"})
         /\ Balance(e) = Balance(d) - 1 /\ Begun(e)
         /\ e.metaAck = IF d.hs = "CERTIFICATE_VERIFY" THEN (d.seq + d.len + 80) % SeqSpace
                        ELSE d.metaAck
         /\ d.hs # "FINISHED" => e.sentAck = d.sentAck /\ e.tx = d.tx
         /\ d.hs = "FINISHED" => /\ e.sentAck = AckNo(d)
                                 /\ e.tx = d.tx \cup {[ack |-> AckNo(d), flight |-> F[5]]}
<1>0. /\ d.waiting \in BOOLEAN /\ d.held \in Int /\ Len(d.recvQ) \in Int
      /\ d.waiting => d.hs \in {"HELLO_REQUEST", "CERTIFICATE"}
  BY Items DEF Sound, Shape, Flags
<1>1. CASE d.waiting
  <2> DEFINE e == [d EXCEPT !.recvQ = Append(@, "CH")]
  <2>1. ReadOrWait(d, "CH") = e BY <1>1 DEF ReadOrWait
  <2>2. Sound(e) /\ Frame(d, e, {"recvQ"}) /\ Len(e.recvQ) = Len(d.recvQ) + 1
    BY <1>1, WaitSound, Zenon
  <2> HIDE DEF e
  <2>3. /\ e.hs = d.hs /\ e.waiting = d.waiting /\ e.held = d.held /\ e.metaAck = d.metaAck
        /\ e.sentAck = d.sentAck /\ e.tx = d.tx
    BY <2>2 DEF Frame, Fields
  <2>4. Balance(e) = Balance(d) - 1 BY <1>0, <2>2, <2>3 DEF Balance
  <2>5. Frame(d, e, {"waiting", "recvQ", "held", "metaAck", "sentAck", "tx"}) BY <2>2 DEF Frame
  <2>6. Begun(e) /\ d.hs \notin {"CERTIFICATE_VERIFY", "FINISHED"} BY <1>0, <1>1, <2>3 DEF Begun
  <2> QED BY <2>1, <2>2, <2>3, <2>4, <2>5, <2>6
<1>2. CASE ~d.waiting /\ d.hs = "HELLO_REQUEST"
  <2> DEFINE e == ReadHello(d)
  <2>1. ReadOrWait(d, "CH") = e BY <1>2 DEF ReadOrWait, process_read_record
  <2>2. Sound(e) /\ Frame(d, e, {"waiting"}) /\ e.waiting = TRUE BY <1>2, FirstHello, Zenon
  <2> HIDE DEF e
  <2>3. /\ e.hs = d.hs /\ e.held = d.held /\ e.metaAck = d.metaAck /\ e.recvQ = d.recvQ
        /\ e.sentAck = d.sentAck /\ e.tx = d.tx
    BY <2>2 DEF Frame, Fields
  <2>4. Balance(e) = Balance(d) - 1 BY <1>0, <1>2, <2>2, <2>3 DEF Balance
  <2>5. Frame(d, e, {"waiting", "recvQ", "held", "metaAck", "sentAck", "tx"}) BY <2>2 DEF Frame
  <2>6. Begun(e) BY <2>2 DEF Begun
  <2> QED BY <1>2, <2>1, <2>2, <2>3, <2>4, <2>5, <2>6
<1>3. CASE ~d.waiting /\ d.hs # "HELLO_REQUEST"
  <2> DEFINE e == ReadHello(d)
  <2>1. ReadOrWait(d, "CH") = e BY <1>3 DEF ReadOrWait, process_read_record
  <2>2. /\ Sound(e) /\ Frame(d, e, {"held", "metaAck", "sentAck", "tx"})
        /\ e.held = d.held - 1
        /\ e.metaAck = IF d.hs = "CERTIFICATE_VERIFY" THEN (d.seq + d.len + 80) % SeqSpace
                       ELSE d.metaAck
        /\ IF d.hs = "FINISHED"
           THEN e.sentAck = AckNo(d) /\ e.tx = d.tx \cup {[ack |-> AckNo(d), flight |-> F[5]]}
           ELSE e.sentAck = d.sentAck /\ e.tx = d.tx
    BY <1>3, HelloAgain
  <2> HIDE DEF e
  <2>3. e.hs = d.hs /\ e.waiting = d.waiting /\ e.recvQ = d.recvQ BY <2>2 DEF Frame, Fields
  <2>4. Balance(e) = Balance(d) - 1 BY <1>0, <1>3, <2>2, <2>3 DEF Balance
  <2>5. Frame(d, e, {"waiting", "recvQ", "held", "metaAck", "sentAck", "tx"}) BY <2>2 DEF Frame
  <2>6. Begun(e) BY <1>3, <2>3 DEF Begun
  <2> QED BY <2>1, <2>2, <2>4, <2>5, <2>6
<1> QED BY <1>0, <1>1, <1>2, <1>3

\* A whole ClientHello that was accounted for leaves the session as described.
LEMMA HelloFollows ==
  ASSUME NEW n, Sound(n), isn \in SeqNo, n.crr = <<>>, n.ack = 0, n.active = FALSE,
         n.readSp = FALSE, n.hs # "CLIENT_CIPHER_SPEC", Balance(n) = 1, NEW b \in {0, 1},
         Covers(n, b, 2, IF Sent(n) THEN 2 ELSE b), RequestLen = 126 => Meets(n)
  PROVE  LET e == ReadOrWait(n, "CH") IN
         Sound(e) /\ Follows(e, FALSE) /\ e.lapse = n.lapse /\ e.crr = <<>>
<1> DEFINE e == ReadOrWait(n, "CH")
<1>1. /\ Sound(e) /\ Frame(n, e, {"waiting", "recvQ", "held", "metaAck", "sentAck", "tx"})
      /\ Balance(e) = 0 /\ Begun(e)
      /\ e.metaAck = IF n.hs = "CERTIFICATE_VERIFY" THEN (n.seq + n.len + 80) % SeqSpace
                     ELSE n.metaAck
      /\ n.hs # "FINISHED" => e.sentAck = n.sentAck /\ e.tx = n.tx
      /\ n.hs = "FINISHED" => /\ e.sentAck = AckNo(n)
                              /\ e.tx = n.tx \cup {[ack |-> AckNo(n), flight |-> F[5]]}
  BY HelloRead
<1> HIDE DEF e
<1>2. /\ e.crr = <<>> /\ e.ack = 0 /\ e.active = FALSE /\ e.readSp = FALSE /\ e.hs = n.hs
      /\ e.seq = n.seq /\ e.len = n.len /\ e.lapse = n.lapse
  BY <1>1 DEF Frame, Fields
<1>3. Sent(n) <=> n.hs = "FINISHED" BY DEF Sent
<1>4. Sent(e) <=> Sent(n) BY <1>2 DEF Sent
<1>5. AckNo(n) = At(2)
  <2>1. b \in Pos /\ 2 \in Pos /\ b <= 2 BY DEF Pos, StreamEnd
  <2>2. CASE Sent(n)
    <3>1. Covers(n, b, 2, 2) BY <2>2
    <3> QED BY <2>1, <3>1, EndNo, Zenon
  <2>3. CASE ~Sent(n)
    <3>1. Covers(n, b, 2, b) BY <2>3
    <3> QED BY <2>1, <3>1, EndNo, Zenon
  <2> QED BY <2>2, <2>3
<1>6. Covers(e, b, 2, IF Sent(n) THEN 2 ELSE b)
  BY <1>1, <1>2, <1>3, <1>5 DEF Covers
<1>7. Progress(e)
  <2>1. CASE Sent(n)
    <3>1. Covers(e, b, 2, 2) BY <1>6, <2>1
    <3>2. Covers(e, 0, 2, 2) \/ Covers(e, 1, 2, 2) BY <3>1
    <3> QED BY <1>2, <1>3, <2>1, <3>2 DEF Progress
  <2>2. CASE ~Sent(n)
    <3>1. Covers(e, b, 2, b) BY <1>6, <2>2
    <3>2. Covers(e, 0, 2, 0) \/ Covers(e, 1, 2, 1) BY <3>1
    <3> QED BY <1>1, <1>2, <1>4, <2>2, <3>2 DEF Progress
  <2> QED BY <2>1, <2>2
<1>8. Holds(e, FALSE) BY <1>1, <1>2 DEF Holds
<1>9. RequestLen = 126 => Meets(e)
  <2> HAVE RequestLen = 126
  <2>1. Meets(n) OBVIOUS
  <2>2. (n.seq + n.len + 80) % SeqSpace = At(4) BY MetaNo
  <2>3. e.hs = "CERTIFICATE_VERIFY" \/ Sent(e) => e.metaAck = At(4)
    BY <1>1, <1>2, <1>4, <2>1, <2>2 DEF Meets
  <2>4. \A m \in e.tx : \E p \in 0 .. 4 : m.ack = At(p)
    <3> SUFFICES ASSUME NEW m \in e.tx PROVE \E p \in 0 .. 4 : m.ack = At(p) OBVIOUS
    <3>1. m \in n.tx \/ m.ack = At(2) BY <1>1, <1>5
    <3>2. 2 \in 0 .. 4 OBVIOUS
    <3>3. \A x \in n.tx : \E p \in 0 .. 4 : x.ack = At(p) BY <2>1 DEF Meets
    <3> QED BY <3>1, <3>2, <3>3
  <2> QED BY <1>2, <2>3, <2>4 DEF Meets
<1> QED BY <1>1, <1>2, <1>7, <1>8, <1>9, Zenon DEF Follows, e

\* The first part of a ClientHello, then the second.
LEMMA HalvesFollow ==
  ASSUME NEW n, Sound(n), isn \in SeqNo, n.crr = <<>>, n.lapse = {}, n.ack = 0, n.active = FALSE,
         n.readSp = FALSE, n.hs # "CLIENT_CIPHER_SPEC", Balance(n) = 0,
         Covers(n, 0, 2, IF Sent(n) THEN 2 ELSE 0), RequestLen = 126 => Meets(n)
  PROVE  Settled(ReadPart(ReadPart(n, "CH1"), "CH2"))
<1> DEFINE x == ReadPart(n, "CH1")
           z == [x EXCEPT !.crr = <<>>]
           y == ReadOrWait(z, "CH")
<1>1. Sound(x) /\ Frame(n, x, {"held", "crr"}) /\ x.crr = <<"CH1">> /\ x.held = n.held + 1
  BY PartFirst
<1>2. x.lapse = {} BY <1>1 DEF Frame, Fields
<1> HIDE DEF x
<1>3. ReadPart(x, "CH2") = y /\ Sound(z) /\ Frame(x, z, {"crr"}) /\ z.crr = <<>>
  BY <1>1, <1>2, PartSecond, Zenon
<1> HIDE DEF z
<1>4. /\ z.ack = 0 /\ z.active = FALSE /\ z.readSp = FALSE /\ z.hs = n.hs /\ z.lapse = {}
      /\ z.seq = n.seq /\ z.len = n.len /\ z.sentAck = n.sentAck /\ z.metaAck = n.metaAck
      /\ z.tx = n.tx /\ z.held = n.held + 1 /\ z.recvQ = n.recvQ /\ z.waiting = n.waiting
  BY <1>1, <1>3 DEF Frame, Fields
<1>5. Balance(z) = 1
  <2>1. n.held \in Int /\ Len(n.recvQ) \in Int BY DEF Sound, Shape
  <2> QED BY <1>4, <2>1 DEF Balance
<1>6. Covers(z, 0, 2, IF Sent(z) THEN 2 ELSE 0) BY <1>4 DEF Covers, Sent
<1>7. RequestLen = 126 => Meets(z) BY <1>4 DEF Meets, Sent
<1>8. Sound(y) /\ Follows(y, FALSE) /\ y.lapse = z.lapse /\ y.crr = <<>>
  BY <1>3, <1>4, <1>5, <1>6, <1>7, HelloFollows, Zenon
<1> HIDE DEF y
<1>9. ("lost" \in y.lapse) = FALSE BY <1>4, <1>8
<1>10. Follows(y, "lost" \in y.lapse) BY <1>8, <1>9, Zenon
<1> QED BY <1>3, <1>8, <1>10 DEF Settled, x

\* The second part after the first, which was sent and read alone.
LEMMA SecondFollows ==
  ASSUME NEW n, Sound(n), isn \in SeqNo, n.crr = <<"CH1">>, n.lapse = {}, n.ack = 0,
         n.active = FALSE, n.readSp = FALSE, n.hs = "HELLO_REQUEST", Balance(n) = 1,
         Covers(n, 1, 2, 1), RequestLen = 126 => Meets(n)
  PROVE  Settled(ReadPart(n, "CH2"))
<1> DEFINE z == [n EXCEPT !.crr = <<>>]
           y == ReadOrWait(z, "CH")
<1>1. ReadPart(n, "CH2") = y /\ Sound(z) /\ Frame(n, z, {"crr"}) /\ z.crr = <<>>
  BY PartSecond, Zenon
<1> HIDE DEF z
<1>2. /\ z.ack = 0 /\ z.active = FALSE /\ z.readSp = FALSE /\ z.hs = n.hs /\ z.lapse = {}
      /\ z.seq = n.seq /\ z.len = n.len /\ z.sentAck = n.sentAck /\ z.metaAck = n.metaAck
      /\ z.tx = n.tx /\ z.held = n.held /\ z.recvQ = n.recvQ /\ z.waiting = n.waiting
  BY <1>1 DEF Frame, Fields
<1>3. Balance(z) = 1 BY <1>2 DEF Balance
<1>4. Covers(z, 1, 2, IF Sent(z) THEN 2 ELSE 1) BY <1>2 DEF Covers, Sent
<1>5. RequestLen = 126 => Meets(z) BY <1>2 DEF Meets, Sent
<1>6. Sound(y) /\ Follows(y, FALSE) /\ y.lapse = z.lapse /\ y.crr = <<>>
  BY <1>1, <1>2, <1>3, <1>4, <1>5, HelloFollows, Zenon
<1> HIDE DEF y
<1>7. ("lost" \in y.lapse) = FALSE BY <1>2, <1>6
<1>8. Follows(y, "lost" \in y.lapse) BY <1>6, <1>7, Zenon
<1> QED BY <1>1, <1>6, <1>8 DEF Settled

\* Any other part is a record.
LEMMA PartOther ==
  ASSUME NEW d, Sound(d), d.lapse \cap Lost = {}, d.crr = <<>>, d.waiting = FALSE,
         NEW u \in {"CCS", "CF", "REQ"}
  PROVE  LET n == [d EXCEPT !.held = @ + 1] IN
         /\ ReadPart(d, u) = process_read_record(n, u)
         /\ Sound(n) /\ Frame(d, n, {"held"}) /\ n.held = d.held + 1
<1> DEFINE n == [d EXCEPT !.held = @ + 1]
           z == [n EXCEPT !.crr = <<>>]
<1>1. u # "CH1" /\ u \notin {"CH1", "CH2"} /\ u \in Parts BY DEF Parts
<1>2. ReadPart(d, u) = ReadOrWait(z, u) BY <1>1, PartAppend DEF ReadPart, Complete
<1>3. <<>> \in Seq(Parts) BY NoItem
<1>4. Sound(n) /\ Frame(d, n, {"held"}) /\ n.held = d.held + 1
  <2>1. LET m == IF d.crr = <<>> THEN [d EXCEPT !.held = @ + 1] ELSE d
        IN  /\ Sound(m) /\ Frame(d, m, {"held"})
            /\ m.held = IF d.crr = <<>> THEN d.held + 1 ELSE d.held
    BY <1>3, TakeSound, Zenon
  <2> QED BY <2>1
<1> HIDE DEF n
<1>5. n.crr = <<>> /\ n.waiting = FALSE /\ DOMAIN n = Fields BY <1>4 DEF Frame, Fields
<1>6. z.waiting = FALSE BY <1>5 DEF Fields
<1>7. ReadOrWait(z, u) = process_read_record(z, u) BY <1>6 DEF ReadOrWait
<1>8. z = n
  <2>1. n = [x \in Fields |-> n[x]]
    <3>1. n = [n EXCEPT !.held = n.held] BY <1>4, Zenon DEF Sound, Shape, Fields, n
    <3> QED BY <1>5, <3>1
  <2> QED BY <1>5, <2>1 DEF Fields
<1> QED BY <1>2, <1>4, <1>7, <1>8 DEF n

\* Once the flight is out nothing is queued.
LEMMA NotWaiting ==
  ASSUME NEW d, Sound(d), Sent(d)
  PROVE  d.waiting = FALSE /\ d.recvQ = <<>> /\ Balance(d) = d.held /\ d.held \in Int
<1>1. d.waiting = FALSE
  <2>1. d.waiting \in BOOLEAN /\ ~d.waiting BY DEF Sound, Flags, Sent
  <2> QED BY <2>1
<1>2. d.recvQ = <<>> /\ d.held \in Int /\ d.hs # "HELLO_REQUEST" BY DEF Sound, Shape, Sent
<1>3. Len(<<>>) = 0 BY NoItem
<1>4. Balance(d) = d.held - 0 - 0 BY <1>1, <1>2, <1>3 DEF Balance
<1> QED BY <1>1, <1>2, <1>4

\* ChangeCipherSpec, the first time and again.
LEMMA CipherRead ==
  ASSUME NEW d, Sound(d), d.hs = "FINISHED", d.active = FALSE, d.readSp = FALSE, d.crr = <<>>,
         d.lapse = {}
  PROVE  LET e == ReadPart(d, "CCS") IN
         /\ Sound(e) /\ Frame(d, e, {"held", "hs", "readSp"})
         /\ e.hs = "CLIENT_CIPHER_SPEC" /\ e.readSp = TRUE /\ Balance(e) = Balance(d)
<1> DEFINE n == [d EXCEPT !.held = @ + 1]
           e == ReadCipherSpec(n)
<1>1. Sent(d) BY DEF Sent
<1>2. d.waiting = FALSE /\ Balance(d) = d.held /\ d.held \in Int BY <1>1, NotWaiting, Zenon
<1>3. ReadPart(d, "CCS") = e /\ Sound(n) /\ Frame(d, n, {"held"}) /\ n.held = d.held + 1
  <2>1. LET m == [d EXCEPT !.held = @ + 1] IN
        /\ ReadPart(d, "CCS") = process_read_record(m, "CCS")
        /\ Sound(m) /\ Frame(d, m, {"held"}) /\ m.held = d.held + 1
    BY <1>2, PartOther, Zenon
  <2>2. process_read_record(n, "CCS") = e BY DEF process_read_record
  <2> QED BY <2>1, <2>2
<1> HIDE DEF n
<1>4. n.hs = "FINISHED" /\ n.active = FALSE /\ n.readSp = FALSE /\ Sent(n)
  BY <1>3 DEF Frame, Fields, Sent
<1>5. /\ Sound(e) /\ Sent(e) /\ Frame(n, e, {"held", "hs", "readSp"})
      /\ e.held = n.held - 1 /\ e.hs = "CLIENT_CIPHER_SPEC" /\ e.readSp = TRUE
  BY <1>3, <1>4, CipherSpecSound, Zenon
<1> HIDE DEF e
<1>6. Frame(d, e, {"held", "hs", "readSp"}) BY <1>3, <1>5 DEF Frame
<1>7. Balance(e) = e.held BY <1>5, NotWaiting, Zenon
<1>8. e.held = d.held BY <1>2, <1>3, <1>5
<1> QED BY <1>2, <1>3, <1>5, <1>6, <1>7, <1>8

\* The first ChangeCipherSpec switches the reading side on.
LEMMA CipherFollows ==
  ASSUME NEW n, Sound(n), n.hs = "FINISHED", n.active = FALSE, n.readSp = FALSE, n.crr = <<>>,
         n.lapse = {}, n.ack = 1, NEW to, Covers(n, 2, to, 2), Balance(n) = 0,
         RequestLen = 126 => Meets(n)
  PROVE  LET x == ReadPart(n, "CCS") IN
         /\ Sound(x) /\ x.hs = "CLIENT_CIPHER_SPEC" /\ x.active = FALSE /\ x.readSp = TRUE
         /\ x.crr = <<>> /\ x.lapse = {} /\ Covers(x, 2, to, 2) /\ Balance(x) = 0
         /\ RequestLen = 126 => Meets(x)
         /\ to = 3 => Settled(x)
<1> DEFINE x == ReadPart(n, "CCS")
<1>1. /\ Sound(x) /\ Frame(n, x, {"held", "hs", "readSp"})
      /\ x.hs = "CLIENT_CIPHER_SPEC" /\ x.readSp = TRUE /\ Balance(x) = Balance(n)
  BY CipherRead, Zenon
<1> HIDE DEF x
<1>2. /\ x.active = FALSE /\ x.crr = <<>> /\ x.lapse = {} /\ x.ack = 1 /\ x.seq = n.seq
      /\ x.len = n.len /\ x.sentAck = n.sentAck /\ x.metaAck = n.metaAck /\ x.tx = n.tx
  BY <1>1 DEF Frame, Fields
<1>3. Covers(x, 2, to, 2) BY <1>2 DEF Covers
<1>4. RequestLen = 126 => Meets(x)
  <2>1. Sent(n) BY DEF Sent
  <2> QED BY <1>2, <2>1 DEF Meets
<1>5. to = 3 => Settled(x)
  <2> SUFFICES ASSUME to = 3 PROVE Settled(x) OBVIOUS
  <2>1. Progress(x) BY <1>1, <1>2, <1>3 DEF Progress
  <2>2. Holds(x, "lost" \in x.lapse) BY <1>1, <1>2 DEF Holds
  <2> QED BY <1>2, <1>4, <2>1, <2>2 DEF Settled, Follows
<1> QED BY <1>1, <1>2, <1>3, <1>4, <1>5 DEF x

\* A second ChangeCipherSpec is a mishap.
LEMMA CipherAgain ==
  ASSUME NEW d, Sound(d), Sent(d), d.active = FALSE, d.readSp = TRUE, d.crr = <<>>, d.lapse = {}
  PROVE  "reread" \in ReadPart(d, "CCS").lapse
<1> DEFINE n == [d EXCEPT !.held = @ + 1]
<1>1. d.waiting = FALSE BY NotWaiting, Zenon
<1>2. ReadPart(d, "CCS") = ReadCipherSpec(n) /\ Sound(n) /\ Frame(d, n, {"held"})
  <2>1. LET m == [d EXCEPT !.held = @ + 1] IN
        /\ ReadPart(d, "CCS") = process_read_record(m, "CCS")
        /\ Sound(m) /\ Frame(d, m, {"held"})
    BY <1>1, PartOther, Zenon
  <2>2. process_read_record(n, "CCS") = ReadCipherSpec(n) BY DEF process_read_record
  <2> QED BY <2>1, <2>2
<1> HIDE DEF n
<1>3. n.active = FALSE /\ n.readSp = TRUE /\ Sent(n) BY <1>2 DEF Frame, Fields, Sent
<1>4. ReadCipherSpec(n).lapse = n.lapse \cup {"reread"} BY <1>2, <1>3, CipherSpecSound, Zenon
<1> QED BY <1>2, <1>4

\* The acknowledgement of the Finished leaves a request of 126 bytes to the host.
LEMMA FinishedNo ==
  ASSUME NEW d, isn \in SeqNo, NEW b \in {2, 3}, NEW e \in {4, 5}, NEW a, Covers(d, b, e, a),
         RequestLen = 126
  PROVE  (d.seq + d.len - (IF d.len > 126 THEN 126 ELSE 0)) % SeqSpace = At(4)
<1>1. b \in Pos /\ 4 \in Pos /\ b <= 4 BY DEF Pos, StreamEnd
<1>2. (At(b) + (Offset[4 + 1] - Offset[b + 1])) % SeqSpace = At(4) BY <1>1, Advance
<1>3. At(b) \in Int BY <1>1, Positions DEF SeqNo
<1>4. Offset[b + 1] \in {200, 206} /\ Offset[4 + 1] = 280 BY Offsets
<1>5. Offset[e + 1] = IF e = 4 THEN 280 ELSE 406 BY Offsets
<1>6. d.seq = At(b) /\ d.len = Offset[e + 1] - Offset[b + 1] BY DEF Covers
<1> PICK k : k = IF d.len > 126 THEN 126 ELSE 0 OBVIOUS
<1>7. d.len - k = 280 - Offset[b + 1] /\ d.len \in Int /\ k \in Int
  <2>1. CASE e = 4
    <3>1. d.len = 280 - Offset[b + 1] /\ d.len \in {80, 74} BY <1>4, <1>5, <1>6, <2>1
    <3>2. k = 0 BY <3>1
    <3> QED BY <3>1, <3>2
  <2>2. CASE e = 5
    <3>1. d.len = 406 - Offset[b + 1] /\ d.len \in {206, 200} BY <1>4, <1>5, <1>6, <2>2
    <3>2. k = 126 BY <3>1
    <3> QED BY <1>4, <3>1, <3>2
  <2> QED BY <2>1, <2>2
<1>8. d.seq + d.len - k = At(b) + (Offset[4 + 1] - Offset[b + 1]) BY <1>3, <1>4, <1>6, <1>7
<1> QED BY <1>2, <1>8

\* The client's Finished makes the session active and acknowledges up to the seam.
LEMMA FinishedRead ==
  ASSUME NEW d, Sound(d), isn \in SeqNo, d.hs = "CLIENT_CIPHER_SPEC", d.active = FALSE,
         d.readSp = TRUE, d.crr = <<>>, d.lapse = {}
  PROVE  LET e == ReadPart(d, "CF") IN
         /\ Sound(e) /\ Frame(d, e, {"held", "hs", "active", "sentAck", "tx"})
         /\ e.hs = "FINISHED" /\ e.active = TRUE /\ Balance(e) = Balance(d)
         /\ e.sentAck = (d.seq + d.len - (IF d.len > 126 THEN 126 ELSE 0)) % SeqSpace
         /\ e.tx = d.tx \cup {[ack |-> e.sentAck, flight |-> <<>>]}
<1> DEFINE n == [d EXCEPT !.held = @ + 1]
           e == ReadFinished(n)
<1>1. Sent(d) BY DEF Sent
<1>2. d.waiting = FALSE /\ Balance(d) = d.held /\ d.held \in Int BY <1>1, NotWaiting, Zenon
<1>3. ReadPart(d, "CF") = e /\ Sound(n) /\ Frame(d, n, {"held"}) /\ n.held = d.held + 1
  <2>1. LET m == [d EXCEPT !.held = @ + 1] IN
        /\ ReadPart(d, "CF") = process_read_record(m, "CF")
        /\ Sound(m) /\ Frame(d, m, {"held"}) /\ m.held = d.held + 1
    BY <1>2, PartOther, Zenon
  <2>2. process_read_record(n, "CF") = e BY DEF process_read_record
  <2> QED BY <2>1, <2>2
<1> HIDE DEF n
<1>4. /\ n.hs = "CLIENT_CIPHER_SPEC" /\ n.active = FALSE /\ n.readSp = TRUE /\ Sent(n)
      /\ n.seq = d.seq /\ n.len = d.len /\ n.tx = d.tx
  BY <1>3 DEF Frame, Fields, Sent
<1>5. /\ Sound(e) /\ Sent(e) /\ Frame(n, e, {"held", "hs", "active", "sentAck", "tx"})
      /\ e.held = n.held - 1 /\ e.hs = "FINISHED" /\ e.active = TRUE
      /\ e.sentAck = (n.seq + n.len - (IF n.len > 126 THEN 126 ELSE 0)) % SeqSpace
      /\ e.tx = n.tx \cup {[ack |-> e.sentAck, flight |-> <<>>]}
  BY <1>3, <1>4, FinishedSound, Zenon
<1> HIDE DEF e
<1>6. Frame(d, e, {"held", "hs", "active", "sentAck", "tx"}) BY <1>3, <1>5 DEF Frame
<1>7. Balance(e) = e.held BY <1>5, NotWaiting, Zenon
<1>8. e.held = d.held BY <1>2, <1>3, <1>5
<1> QED BY <1>2, <1>3, <1>4, <1>5, <1>6, <1>7, <1>8

\* The request is lost when the SmartNIC reads it itself.
LEMMA RequestRead ==
  ASSUME NEW d, Sound(d), Sent(d), d.active = TRUE, d.crr = <<>>, d.lapse = {}
  PROVE  LET e == ReadPart(d, "REQ") IN
         /\ Sound(e) /\ Frame(d, e, {"held", "lapse"})
         /\ e.lapse = {"lost"} /\ Balance(e) = Balance(d) + 1
<1> DEFINE n == [d EXCEPT !.held = @ + 1]
           e == ReadRequest(n)
<1>1. d.waiting = FALSE /\ Balance(d) = d.held /\ d.held \in Int BY NotWaiting, Zenon
<1>2. ReadPart(d, "REQ") = e /\ Sound(n) /\ Frame(d, n, {"held"}) /\ n.held = d.held + 1
  <2>1. LET m == [d EXCEPT !.held = @ + 1] IN
        /\ ReadPart(d, "REQ") = process_read_record(m, "REQ")
        /\ Sound(m) /\ Frame(d, m, {"held"}) /\ m.held = d.held + 1
    BY <1>1, PartOther, Zenon
  <2>2. process_read_record(n, "REQ") = e BY DEF process_read_record
  <2> QED BY <2>1, <2>2
<1> HIDE DEF n
<1>3. n.active = TRUE /\ Sent(n) /\ n.lapse = {} BY <1>2 DEF Frame, Fields, Sent
<1>4. Sound(e) /\ Sent(e) /\ Frame(n, e, {"lapse"}) /\ e.lapse = n.lapse \cup {"lost"}
  BY <1>2, <1>3, RequestSound
<1> HIDE DEF e
<1>5. Frame(d, e, {"held", "lapse"}) BY <1>2, <1>4 DEF Frame
<1>6. Balance(e) = e.held BY <1>4, NotWaiting, Zenon
<1>7. e.held = n.held BY <1>4 DEF Frame, Fields
<1> QED BY <1>1, <1>2, <1>3, <1>4, <1>5, <1>6, <1>7

\* Finished, alone or with the request in its segment, leaves the session as described.
LEMMA FinishedFollows ==
  ASSUME NEW x, Sound(x), isn \in SeqNo, x.hs = "CLIENT_CIPHER_SPEC", x.active = FALSE,
         x.readSp = TRUE, x.crr = <<>>, x.lapse = {}, NEW b \in {2, 3}, NEW to \in {4, 5}, NEW a,
         Covers(x, b, to, a), Balance(x) = 0, RequestLen = 126 => Meets(x)
  PROVE  LET y == ReadPart(x, "CF") IN Settled(y) /\ Settled(ReadPart(y, "REQ"))
<1> DEFINE y == ReadPart(x, "CF")
<1>1. /\ Sound(y) /\ Frame(x, y, {"held", "hs", "active", "sentAck", "tx"})
      /\ y.hs = "FINISHED" /\ y.active = TRUE /\ Balance(y) = Balance(x)
      /\ y.sentAck = (x.seq + x.len - (IF x.len > 126 THEN 126 ELSE 0)) % SeqSpace
      /\ y.tx = x.tx \cup {[ack |-> y.sentAck, flight |-> <<>>]}
  BY FinishedRead, Zenon
<1> HIDE DEF y
<1>2. y.crr = <<>> /\ y.lapse = {} /\ y.metaAck = x.metaAck /\ Sent(y)
  BY <1>1 DEF Frame, Fields, Sent
<1>3. RequestLen = 126 => Meets(y)
  <2> SUFFICES ASSUME RequestLen = 126 PROVE Meets(y) OBVIOUS
  <2>1. y.sentAck = At(4) BY <1>1, FinishedNo
  <2>2. y.metaAck = At(4) BY <1>2 DEF Meets, Sent
  <2>3. \A m \in x.tx : \E p \in 0 .. 4 : m.ack = At(p) BY DEF Meets
  <2>4. ASSUME NEW m \in y.tx PROVE \E p \in 0 .. 4 : m.ack = At(p)
    <3>1. CASE m \in x.tx BY <2>3, <3>1
    <3>2. CASE m = [ack |-> y.sentAck, flight |-> <<>>]
      <4>1. m.ack = At(4) /\ 4 \in 0 .. 4 BY <2>1, <3>2
      <4> QED BY <4>1
    <3> QED BY <1>1, <3>1, <3>2
  <2> QED BY <2>1, <2>2, <2>4 DEF Meets
<1>4. Settled(y)
  <2>1. Progress(y) BY <1>1, <1>2 DEF Progress
  <2>2. Holds(y, "lost" \in y.lapse) BY <1>1, <1>2 DEF Holds
  <2> QED BY <1>2, <1>3, <2>1, <2>2 DEF Settled, Follows
<1>5. Settled(ReadPart(y, "REQ"))
  <2> DEFINE z == ReadPart(y, "REQ")
  <2>1. /\ Sound(z) /\ Frame(y, z, {"held", "lapse"}) /\ z.lapse = {"lost"}
        /\ Balance(z) = Balance(y) + 1
    BY <1>1, <1>2, RequestRead, Zenon
  <2> HIDE DEF z
  <2>2. /\ z.crr = <<>> /\ z.active = TRUE /\ z.hs = y.hs /\ z.metaAck = y.metaAck
        /\ z.sentAck = y.sentAck /\ z.tx = y.tx
    BY <1>1, <1>2, <2>1 DEF Frame, Fields
  <2>3. Progress(z) BY <2>2 DEF Progress
  <2>4. Holds(z, "lost" \in z.lapse)
    <3>1. Balance(z) = 1 BY <1>1, <2>1
    <3> QED BY <2>1, <2>2, <3>1 DEF Holds
  <2>5. RequestLen = 126 => Meets(z)
    <3> SUFFICES ASSUME RequestLen = 126 PROVE Meets(z) OBVIOUS
    <3>1. y.sentAck = At(4) /\ y.metaAck = At(4) BY <1>1, <1>3 DEF Meets, Sent
    <3>2. \A m \in z.tx : \E p \in 0 .. 4 : m.ack = At(p) BY <1>3, <2>2 DEF Meets
    <3> QED BY <2>2, <3>1, <3>2 DEF Meets
  <2> QED BY <2>2, <2>3, <2>4, <2>5 DEF Settled, Follows, z
<1> QED BY <1>4, <1>5 DEF y
-----------------------------------------------------------------------------
(* What it makes of a segment.                                              *)

\* A part of a segment in sequence: the parts of each segment.
LEMMA SegmentReads ==
  ASSUME NEW d, NEW s, Fitting(d, s), NEW n
  PROVE  LET r == process_new_record(n, s) IN
         /\ s.from = 0 /\ s.to = 1 => r = ReadPart(n, "CH1")
         /\ s.from = 0 /\ s.to = 2 => r = ReadPart(ReadPart(n, "CH1"), "CH2")
         /\ s.from = 1 /\ s.to = 2 => r = ReadPart(n, "CH2")
         /\ s.from = 2 /\ s.to = 3 => r = ReadPart(n, "CCS")
         /\ s.from = 2 /\ s.to = 4 => r = ReadPart(ReadPart(n, "CCS"), "CF")
         /\ s.from = 2 /\ s.to = 5 => r = ReadPart(ReadPart(ReadPart(n, "CCS"), "CF"), "REQ")
         /\ s.from = 3 /\ s.to = 4 => r = ReadPart(n, "CF")
         /\ s.from = 3 /\ s.to = 5 => r = ReadPart(ReadPart(n, "CF"), "REQ")
<1>1. s \in Segment /\ s.from < s.to BY DEF Fitting
<1>2. s.to <= s.from + 3 BY SegmentCases
<1>3. LET e1 == ReadPart(n, Stream[s.from + 1])
          e2 == ReadPart(e1, Stream[s.from + 2])
          e3 == ReadPart(e2, Stream[s.from + 3])
      IN  process_new_record(n, s) =
            IF s.to = s.from + 1 THEN e1 ELSE IF s.to = s.from + 2 THEN e2 ELSE e3
  BY <1>1, <1>2, Unrolled
<1>4. CASE s.from = 0
  <2>1. s.from + 1 = 1 /\ s.from + 2 = 2 /\ s.from + 3 = 3 BY <1>4
  <2> QED BY <1>3, <1>4, <2>1, StreamParts
<1>5. CASE s.from = 1
  <2>1. s.from + 1 = 2 /\ s.from + 2 = 3 /\ s.from + 3 = 4 BY <1>5
  <2> QED BY <1>3, <1>5, <2>1, StreamParts
<1>6. CASE s.from = 2
  <2>1. s.from + 1 = 3 /\ s.from + 2 = 4 /\ s.from + 3 = 5 BY <1>6
  <2> QED BY <1>3, <1>6, <2>1, StreamParts
<1>7. CASE s.from = 3
  <2>1. s.from + 1 = 4 /\ s.from + 2 = 5 /\ s.from + 3 = 6 BY <1>7
  <2> QED BY <1>3, <1>7, <2>1, StreamParts
<1> QED BY <1>4, <1>5, <1>6, <1>7

\* What Open says, in parts.
LEMMA OpenFacts ==
  ASSUME NEW d, Open(d)
  PROVE  /\ Sound(d) /\ d.lapse = {} /\ d.active = FALSE /\ Progress(d) /\ Holds(d, FALSE)
         /\ RequestLen = 126 => Meets(d)
         /\ Balance(d) = IF d.crr # <<>> THEN 1 ELSE 0
<1>1. /\ Sound(d) /\ d.lapse = {} /\ d.active = FALSE /\ Progress(d) /\ Holds(d, FALSE)
      /\ RequestLen = 126 => Meets(d)
  BY Zenon DEF Open, Follows
<1> QED BY <1>1 DEF Holds

\* The session before the records of an accepted segment are read.
LEMMA NotedOpen ==
  ASSUME NEW d, Open(d), isn \in SeqNo, NEW s, Fitting(d, s), NEW a, d.sentAck = At(a),
         NEW b, s.from = b, NEW e, s.to = e, NEW k, s.ack = k
  PROVE  Notes(Noted(d, s), d, b, e, k, a)
<1>1. Sound(d) /\ d.lapse = {} /\ d.active = FALSE /\ (RequestLen = 126 => Meets(d)) BY OpenFacts, Zenon
<1> DEFINE n == Noted(d, s)
<1>2. /\ Sound(n) /\ Frame(d, n, {"seq", "len", "ack"})
      /\ n.seq = At(s.from) /\ n.len = SegLen(s) /\ n.ack = s.ack
  BY <1>1, NotedSound
<1> HIDE DEF n
<1>3. /\ n.crr = d.crr /\ n.hs = d.hs /\ n.waiting = d.waiting /\ n.held = d.held
      /\ n.active = d.active /\ n.readSp = d.readSp /\ n.recvQ = d.recvQ /\ n.lapse = d.lapse
      /\ n.sentAck = d.sentAck /\ n.metaAck = d.metaAck /\ n.tx = d.tx
  BY <1>2 DEF Frame, Fields
<1>4. Covers(n, b, e, a) BY <1>2, <1>3 DEF Covers, SegLen
<1>5. Balance(n) = Balance(d) BY <1>3 DEF Balance
<1>6. RequestLen = 126 => Meets(n)
  <2> SUFFICES ASSUME RequestLen = 126 PROVE Meets(n) OBVIOUS
  <2>1. Meets(d) BY <1>1
  <2> QED BY <1>3, <2>1 DEF Meets, Sent
<1> QED BY <1>1, <1>2, <1>3, <1>4, <1>5, <1>6 DEF Notes, n

\* If the records leave the session settled, so does process_normal_seq_case.
LEMMA NormalOutcome ==
  ASSUME NEW d, Sound(d), isn \in SeqNo, NEW s, Fitting(d, s), NEW r,
         r = process_new_record(Noted(d, s), s), Settled(r)
  PROVE  Outcome(process_normal_seq_case(d, s))
<1> DEFINE part == IF d.hs = "HELLO_REQUEST" /\ ~d.waiting THEN "split" ELSE "rewound"
           b == send_tcp_packet(r, <<>>)
           e == Lapse(b, part)
<1>1. process_normal_seq_case(d, s) = IF r.crr # <<>> THEN e ELSE r
  BY DEF process_normal_seq_case, Noted
<1>2. CASE r.crr = <<>> BY <1>1, <1>2 DEF Outcome, Settled
<1>3. CASE r.crr # <<>>
  <2>1. Sound(Noted(d, s)) /\ Fitting(Noted(d, s), s) BY NotedSound
  <2>2. Sound(r) BY <2>1, NewRecordSound
  <2>3. Sound(b) BY <2>2, SendSound
  <2>4. Frame(r, b, {"sentAck", "tx"}) BY <2>2, SendChanges DEF Sound, Shape
  <2>5. part \in Mishap \ {"refused"} BY DEF Mishap
  <2> HIDE DEF b, part
  <2>6. e.lapse = b.lapse \cup {part} BY <2>3, <2>5, LapseSound
  <2>7. b.lapse = r.lapse BY <2>4 DEF Frame, Fields
  <2> QED BY <1>1, <1>3, <2>6, <2>7 DEF Outcome, Settled
<1> QED BY <1>2, <1>3

\* A segment that validate_sequence accepts.
LEMMA ReadOutcome ==
  ASSUME NEW d, Open(d), isn \in SeqNo, NEW s, Fitting(d, s), validate_sequence(d, s) = "OK",
         Settled(process_new_record(Noted(d, s), s))
  PROVE  Outcome(process_handshake_packet(d, s))
<1>1. process_handshake_packet(d, s) = process_normal_seq_case(d, s)
  BY DEF Open, process_handshake_packet, InSequence
<1>2. Outcome(process_normal_seq_case(d, s)) BY NormalOutcome DEF Open
<1> QED BY <1>1, <1>2

\* A segment that validate_sequence ignores.
LEMMA IgnoredOutcome ==
  ASSUME NEW d, Open(d), NEW s, validate_sequence(d, s) \in {"UNDER", "WEIRD"}
  PROVE  Outcome(process_handshake_packet(d, s))
<1>1. process_handshake_packet(d, s) = d
  BY DEF Open, process_handshake_packet, InSequence
<1>2. Holds(d, "lost" \in d.lapse) BY OpenFacts, Zenon DEF Holds
<1> QED BY <1>1, <1>2, OpenFacts, Zenon DEF Outcome, Follows

\* A segment beyond the next byte: the acknowledgement is repeated.
LEMMA OverFollows ==
  ASSUME NEW d, Sound(d), isn \in SeqNo, d.lapse = {}, d.active = FALSE, Follows(d, FALSE),
         NEW b \in Pos, NEW e \in 0 .. 4, NEW a \in Pos, b <= e, Covers(d, b, e, a),
         NEW f, Frame(d, f, {"sentAck", "tx"}), Covers(f, b, e, e) => Progress(f),
         f = send_tcp_packet(d, <<>>)
  PROVE  Outcome(f)
<1>1. e \in Pos BY DEF Pos, StreamEnd
<1>2. AckNo(d) = At(e) BY <1>1, EndNo, Zenon
<1>3. f.sentAck = At(e) /\ f.tx = d.tx \cup {[ack |-> At(e), flight |-> <<>>]}
  BY <1>2, SendChanges DEF Sound, Shape
<1>4. /\ f.crr = d.crr /\ f.hs = d.hs /\ f.waiting = d.waiting /\ f.held = d.held
      /\ f.active = FALSE /\ f.recvQ = d.recvQ /\ f.lapse = {} /\ f.metaAck = d.metaAck
      /\ f.seq = d.seq /\ f.len = d.len
  BY DEF Frame, Fields
<1>5. Progress(f) BY <1>3, <1>4 DEF Covers
<1>6. Holds(f, FALSE) BY <1>4 DEF Follows, Holds, Balance
<1>7. RequestLen = 126 => Meets(f)
  <2> HAVE RequestLen = 126
  <2>1. Meets(d) BY DEF Follows
  <2>2. \A x \in d.tx : \E p \in 0 .. 4 : x.ack = At(p) BY <2>1 DEF Meets
  <2>3. \A m \in f.tx : \E p \in 0 .. 4 : m.ack = At(p)
    <3> SUFFICES ASSUME NEW m \in f.tx PROVE \E p \in 0 .. 4 : m.ack = At(p) OBVIOUS
    <3>1. m \in d.tx \/ m.ack = At(e) BY <1>3
    <3> QED BY <2>2, <3>1
  <2> QED BY <1>4, <2>1, <2>3 DEF Meets, Sent
<1>8. Holds(f, "lost" \in f.lapse) BY <1>4, <1>6 DEF Holds
<1> QED BY <1>5, <1>7, <1>8 DEF Outcome, Follows

\* A segment from beyond a gap is answered with an acknowledgment.
LEMMA OverOutcome ==
  ASSUME NEW d, Open(d), isn \in SeqNo, NEW s, validate_sequence(d, s) = "OVER",
         NEW b \in Pos, NEW e \in 0 .. 4, NEW a \in Pos, b <= e, Covers(d, b, e, a),
         \A f : Frame(d, f, {"sentAck", "tx"}) /\ Covers(f, b, e, e) => Progress(f)
  PROVE  Outcome(process_handshake_packet(d, s))
<1> DEFINE f == send_tcp_packet(d, <<>>)
<1>1. process_handshake_packet(d, s) = f
  BY DEF Open, process_handshake_packet, InSequence
<1>2. Frame(d, f, {"sentAck", "tx"}) BY SendChanges DEF Open, Sound, Shape
<1>3. Outcome(f) BY <1>2, OverFollows, Zenon DEF Open
<1> QED BY <1>1, <1>3

\* The first part alone.
LEMMA FirstOutcome ==
  ASSUME NEW d, Open(d), isn \in SeqNo, NEW s, Fitting(d, s), validate_sequence(d, s) = "OK",
         s.from = 0, s.to = 1, s.ack = 0, d.crr = <<>>, ~Sent(d), NEW a \in Pos, d.sentAck = At(a)
  PROVE  Outcome(process_handshake_packet(d, s))
<1> DEFINE n == Noted(d, s)
           r == ReadPart(n, "CH1")
           part == IF d.hs = "HELLO_REQUEST" /\ ~d.waiting THEN "split" ELSE "rewound"
           g == send_tcp_packet(r, <<>>)
           e == Lapse(g, part)
<1>1. /\ Sound(d) /\ d.lapse = {} /\ d.active = FALSE /\ Balance(d) = 0
      /\ RequestLen = 126 => Meets(d)
  BY OpenFacts, Zenon
<1>2. /\ Sound(n) /\ Covers(n, 0, 1, a) /\ n.ack = 0 /\ n.lapse = {}
      /\ n.crr = d.crr /\ n.hs = d.hs /\ n.waiting = d.waiting
      /\ n.active = FALSE /\ n.readSp = d.readSp /\ Balance(n) = Balance(d)
      /\ RequestLen = 126 => Meets(n)
  <2>1. Notes(n, d, 0, 1, 0, a) BY NotedOpen
  <2> HIDE DEF n
  <2> QED BY <2>1 DEF Notes
<1>3. process_new_record(n, s) = r BY SegmentReads
<1>4. process_handshake_packet(d, s) = IF r.crr # <<>> THEN e ELSE r
  BY <1>1, <1>3 DEF process_handshake_packet, InSequence, process_normal_seq_case, Noted
<1> HIDE DEF n
<1>5. Sound(r) /\ Frame(n, r, {"held", "crr"}) /\ r.crr = <<"CH1">> /\ r.held = n.held + 1
  BY <1>2, PartFirst
<1> HIDE DEF r
<1>6. r.crr # <<>> BY <1>5, PartAppend
<1>7. /\ r.ack = 0 /\ r.lapse = {} /\ r.hs = d.hs /\ r.waiting = d.waiting /\ r.active = FALSE
      /\ r.seq = n.seq /\ r.len = n.len /\ r.sentAck = n.sentAck /\ r.metaAck = n.metaAck
      /\ r.tx = n.tx /\ r.recvQ = n.recvQ
  BY <1>2, <1>5 DEF Frame, Fields
<1>8. AckNo(r) = At(1)
  <2>1. Covers(r, 0, 1, a) BY <1>2, <1>7 DEF Covers
  <2>2. 0 \in Pos /\ 1 \in Pos /\ 0 <= 1 BY DEF Pos, StreamEnd
  <2>3. r.active = FALSE BY <1>7
  <2> QED BY <2>1, <2>2, <2>3, EndNo, Zenon
<1>9. Sound(g) BY <1>5, SendSound
<1>10. /\ Frame(r, g, {"sentAck", "tx"}) /\ g.sentAck = At(1)
       /\ g.tx = r.tx \cup {[ack |-> At(1), flight |-> <<>>]}
  BY <1>5, <1>8, SendChanges DEF Sound, Shape
<1>11. part \in Mishap \ {"refused"} BY DEF Mishap
<1> HIDE DEF g
<1>12. Sound(e) /\ Frame(g, e, {"lapse"}) /\ e.lapse = g.lapse \cup {part} BY <1>9, <1>11, LapseSound
<1> HIDE DEF e
<1>13. /\ e.ack = 0 /\ e.hs = d.hs /\ e.waiting = d.waiting /\ e.active = FALSE /\ e.seq = n.seq
       /\ e.len = n.len /\ e.metaAck = n.metaAck /\ e.recvQ = n.recvQ /\ e.held = n.held + 1
       /\ e.crr = <<"CH1">> /\ e.sentAck = At(1) /\ e.tx = n.tx \cup {[ack |-> At(1), flight |-> <<>>]}
       /\ g.lapse = {}
  BY <1>5, <1>7, <1>10, <1>12 DEF Frame, Fields
<1>14. CASE Begun(d)
  <2>1. part = "rewound" BY <1>14 DEF Begun
  <2>2. "rewound" \in e.lapse /\ "rewound" \in Lost BY <1>12, <2>1 DEF Lost
  <2> QED BY <1>4, <1>6, <2>2 DEF Outcome
<1>15. CASE ~Begun(d)
  <2>1. part = "split" BY <1>15 DEF Begun
  <2>2. e.lapse = {"split"} BY <1>12, <1>13, <2>1
  <2>3. ("lost" \in e.lapse) = FALSE BY <2>2
  <2>4. ~Begun(e) BY <1>13, <1>15 DEF Begun
  <2>5. Covers(e, 0, 1, 1) BY <1>2, <1>13 DEF Covers
  <2>6. Progress(e) BY <1>13, <2>4, <2>5 DEF Progress
  <2>7. Balance(e) = 1
    <3>1. n.held \in Int /\ Len(n.recvQ) \in Int BY <1>2 DEF Sound, Shape
    <3>2. Balance(n) = 0 BY <1>1, <1>2
    <3> QED BY <1>2, <1>13, <3>1, <3>2 DEF Balance
  <2>8. Holds(e, FALSE) BY <1>5, <1>6, <1>13, <2>7 DEF Holds
  <2>9. RequestLen = 126 => Meets(e)
    <3> SUFFICES ASSUME RequestLen = 126 PROVE Meets(e) OBVIOUS
    <3>1. \A x \in n.tx : \E p \in 0 .. 4 : x.ack = At(p) BY <1>2 DEF Meets
    <3>2. ASSUME NEW x \in e.tx PROVE \E p \in 0 .. 4 : x.ack = At(p)
      <4>1. x \in n.tx \/ x.ack = At(1) BY <1>13
      <4>2. 1 \in 0 .. 4 OBVIOUS
      <4> QED BY <3>1, <4>1, <4>2
    <3>3. e.hs # "CERTIFICATE_VERIFY" /\ ~Sent(e) BY <1>13, <1>15 DEF Begun, Sent
    <3> QED BY <1>13, <3>2, <3>3 DEF Meets
  <2>10. Follows(e, "lost" \in e.lapse) BY <2>3, <2>6, <2>8, <2>9, Zenon DEF Follows
  <2> QED BY <1>4, <1>6, <2>10 DEF Outcome
<1> QED BY <1>14, <1>15

\* validate_sequence, in positions.
LEMMA Verdict ==
  ASSUME NEW d, isn \in SeqNo, NEW b \in Pos, NEW e \in Pos, NEW a \in Pos, b <= e,
         Covers(d, b, e, a), NEW s \in Segment
  PROVE  /\ \/ s.from = b /\ s.ack = d.ack /\ s.to = e
            \/ s.from \in {a, e}
            => validate_sequence(d, s) = "OK"
         /\ ~(s.from = b /\ s.ack = d.ack /\ s.to = e) /\ s.from \notin {a, e} =>
              /\ s.from < b \/ s.ack < d.ack => validate_sequence(d, s) = "UNDER"
              /\ ~(s.from < b) /\ ~(s.ack < d.ack) =>
                   /\ a < s.from /\ e < s.from => validate_sequence(d, s) = "OVER"
                   /\ ~(a < s.from /\ e < s.from) => validate_sequence(d, s) = "WEIRD"
<1> PICK q : q = At(s.from) OBVIOUS
<1> PICK end : end = (d.seq + d.len) % SeqSpace OBVIOUS
<1>1. s.from \in Pos /\ s.to \in Pos BY DEF Segment, Pos
<1>2. end = At(e) /\ d.seq = At(b) /\ d.sentAck = At(a) BY Advance DEF Covers
<1>3. (q = d.seq <=> s.from = b) /\ (q = d.sentAck <=> s.from = a) /\ (q = end <=> s.from = e)
  BY <1>1, <1>2, Positions
<1>4. /\ SEQ_LT(q, d.seq) <=> s.from < b
      /\ SEQ_GT(q, d.sentAck) <=> a < s.from
      /\ SEQ_GT(q, end) <=> e < s.from
  BY <1>1, <1>2, Positions
<1>5. s.from = b => (SegLen(s) = d.len <=> s.to = e)
  <2> SUFFICES ASSUME s.from = b PROVE SegLen(s) = d.len <=> s.to = e OBVIOUS
  <2>1. SegLen(s) = Offset[s.to + 1] - Offset[b + 1] /\ d.len = Offset[e + 1] - Offset[b + 1]
    BY DEF SegLen, Covers
  <2>2. /\ Offset[s.to + 1] \in Int /\ Offset[e + 1] \in Int /\ Offset[b + 1] \in Int
        /\ (s.to = e) <=> (Offset[s.to + 1] = Offset[e + 1])
    BY <1>1, Increasing
  <2> QED BY <2>1, <2>2
<1>6. validate_sequence(d, s) =
        IF \/ q = d.seq /\ s.ack = d.ack /\ SegLen(s) = d.len
           \/ q \in {d.sentAck, end}
        THEN "OK"
        ELSE IF SEQ_LT(q, d.seq) \/ s.ack < d.ack THEN "UNDER"
        ELSE IF SEQ_GT(q, d.sentAck) /\ SEQ_GT(q, end) THEN "OVER" ELSE "WEIRD"
  BY DEF validate_sequence
<1>7. (q = d.seq /\ s.ack = d.ack /\ SegLen(s) = d.len) <=> (s.from = b /\ s.ack = d.ack /\ s.to = e)
  BY <1>3, <1>5
<1>8. q \in {d.sentAck, end} <=> s.from \in {a, e} BY <1>3
<1> QED BY <1>4, <1>6, <1>7, <1>8

\* validate_sequence in positions: when it accepts.
LEMMA Accepted ==
  ASSUME NEW d, isn \in SeqNo, NEW b \in Pos, NEW e \in Pos, NEW a \in Pos, b <= e,
         Covers(d, b, e, a), NEW s \in Segment,
         (s.from = b /\ s.ack = d.ack /\ s.to = e) \/ s.from = a \/ s.from = e
  PROVE  validate_sequence(d, s) = "OK"
<1>1. (s.from = b /\ s.ack = d.ack /\ s.to = e) \/ s.from \in {a, e} OBVIOUS
<1> QED BY <1>1, Verdict

\* When it ignores.
LEMMA Ignored ==
  ASSUME NEW d, isn \in SeqNo, NEW b \in Pos, NEW e \in Pos, NEW a \in Pos, b <= e,
         Covers(d, b, e, a), NEW s \in Segment,
         ~(s.from = b /\ s.ack = d.ack /\ s.to = e), s.from # a, s.from # e,
         s.from < b \/ s.ack < d.ack \/ ~(a < s.from) \/ ~(e < s.from)
  PROVE  validate_sequence(d, s) \in {"UNDER", "WEIRD"}
<1>1. s.from \notin {a, e} OBVIOUS
<1>2. CASE s.from < b \/ s.ack < d.ack BY <1>1, <1>2, Verdict
<1>3. CASE ~(s.from < b \/ s.ack < d.ack)
  <2>1. ~(s.from < b) /\ ~(s.ack < d.ack) /\ ~(a < s.from /\ e < s.from) BY <1>3
  <2> QED BY <1>1, <2>1, Verdict
<1> QED BY <1>2, <1>3

\* When it asks for what is missing.
LEMMA Beyond ==
  ASSUME NEW d, isn \in SeqNo, NEW b \in Pos, NEW e \in Pos, NEW a \in Pos, b <= e,
         Covers(d, b, e, a), NEW s \in Segment, a < s.from, e < s.from, ~(s.ack < d.ack)
  PROVE  validate_sequence(d, s) = "OVER"
<1>1. b \in Int /\ e \in Int /\ a \in Int /\ s.from \in Int BY DEF Pos, Segment
<1>2. s.from # b /\ ~(s.from < b) /\ s.from \notin {a, e} BY <1>1
<1> QED BY <1>2, Verdict

\* Before the ClientHello is in.
LEMMA StartOutcome ==
  ASSUME NEW d, Open(d), isn \in SeqNo, NEW s, Fitting(d, s), ~Begun(d), d.ack = 0,
         Covers(d, 0, 0, 0), d.crr = <<>>
  PROVE  Outcome(process_handshake_packet(d, s))
<1> USE DEF Pos, StreamEnd
<1>1. s \in Segment /\ d.sentAck = At(0) BY DEF Fitting, Covers
<1>2. d.hs = "HELLO_REQUEST" /\ ~d.waiting /\ ~Sent(d) BY DEF Begun, Sent
<1>3. /\ s.ack = 0
      /\ (s.from = 0 /\ s.to = 1) \/ (s.from = 0 /\ s.to = 2) \/ (s.from = 1 /\ s.to = 2)
  BY <1>2, SegmentCases
<1>4. CASE s.from = 0
  <2>1. validate_sequence(d, s) = "OK" BY <1>1, <1>4, Accepted
  <2>2. CASE s.to = 1 BY <1>1, <1>2, <1>3, <1>4, <2>1, <2>2, FirstOutcome
  <2>3. CASE s.to = 2
    <3> DEFINE n == Noted(d, s)
    <3>1. Notes(n, d, 0, 2, 0, 0) BY <1>1, <1>3, <1>4, <2>3, NotedOpen
    <3>2. process_new_record(n, s) = ReadPart(ReadPart(n, "CH1"), "CH2")
      BY <1>4, <2>3, SegmentReads
    <3> HIDE DEF n
    <3>3. d.readSp = FALSE /\ Balance(d) = 0
      <4>1. d.readSp \in BOOLEAN /\ ~d.readSp BY <1>2 DEF Open, Sound, Flags
      <4> QED BY <4>1, OpenFacts, Zenon
    <3>4. /\ Sound(n) /\ n.crr = <<>> /\ n.lapse = {} /\ n.ack = 0 /\ n.active = FALSE
          /\ n.readSp = FALSE /\ n.hs = "HELLO_REQUEST" /\ Balance(n) = 0
          /\ Covers(n, 0, 2, 0) /\ (RequestLen = 126 => Meets(n))
      BY <1>2, <3>1, <3>3 DEF Notes
    <3>5. Covers(n, 0, 2, IF Sent(n) THEN 2 ELSE 0) BY <3>4 DEF Sent
    <3>6. n.hs # "CLIENT_CIPHER_SPEC" BY <3>4
    <3>7. Settled(ReadPart(ReadPart(n, "CH1"), "CH2")) BY <3>4, <3>5, <3>6, HalvesFollow, Zenon
    <3> QED BY <2>1, <3>2, <3>7, ReadOutcome DEF n
  <2> QED BY <1>3, <1>4, <2>2, <2>3
<1>5. CASE s.from = 1
  <2>1. validate_sequence(d, s) = "OVER" BY <1>1, <1>3, <1>5, Beyond
  <2>2. ASSUME NEW f, Frame(d, f, {"sentAck", "tx"}), Covers(f, 0, 0, 0) PROVE Progress(f)
    <3>1. f.hs = d.hs /\ f.waiting = d.waiting /\ f.ack = d.ack /\ f.crr = d.crr
      BY <2>2 DEF Frame, Fields
    <3> QED BY <2>2, <3>1, <1>2 DEF Progress, Begun
  <2> QED BY <2>1, <2>2, OverOutcome
<1> QED BY <1>3, <1>4, <1>5

\* After its first part.
LEMMA HalfOutcome ==
  ASSUME NEW d, Open(d), isn \in SeqNo, NEW s, Fitting(d, s), ~Begun(d), d.ack = 0,
         Covers(d, 0, 1, 1), d.crr = <<"CH1">>
  PROVE  Outcome(process_handshake_packet(d, s))
<1> USE DEF Pos, StreamEnd
<1> DEFINE n == Noted(d, s)
<1>1. s \in Segment /\ d.sentAck = At(1) BY DEF Fitting, Covers
<1>2. d.hs = "HELLO_REQUEST" /\ ~d.waiting /\ ~Sent(d) BY DEF Begun, Sent
<1>3. /\ s.ack = 0
      /\ (s.from = 0 /\ s.to = 1) \/ (s.from = 0 /\ s.to = 2) \/ (s.from = 1 /\ s.to = 2)
  BY <1>2, SegmentCases
<1>4. CASE s.from = 0 /\ s.to = 1
  <2>1. validate_sequence(d, s) = "OK" BY <1>1, <1>3, <1>4, Accepted
  <2>2. Notes(n, d, 0, 1, 0, 1) BY <1>1, <1>3, <1>4, NotedOpen
  <2>3. process_new_record(n, s) = ReadPart(n, "CH1") BY <1>4, SegmentReads
  <2> HIDE DEF n
  <2>4. "broken" \in ReadPart(n, "CH1").lapse BY <2>2, PartBroken DEF Notes
  <2>5. Settled(ReadPart(n, "CH1")) BY <2>4 DEF Settled, Lost
  <2> QED BY <2>1, <2>3, <2>5, ReadOutcome DEF n
<1>5. CASE s.from = 0 /\ s.to = 2
  <2>1. validate_sequence(d, s) \in {"UNDER", "WEIRD"} BY <1>1, <1>3, <1>5, Ignored
  <2> QED BY <2>1, IgnoredOutcome
<1>6. CASE s.from = 1 /\ s.to = 2
  <2>1. validate_sequence(d, s) = "OK" BY <1>1, <1>3, <1>6, Accepted
  <2>2. Notes(n, d, 1, 2, 0, 1) BY <1>1, <1>3, <1>6, NotedOpen
  <2>3. process_new_record(n, s) = ReadPart(n, "CH2") BY <1>6, SegmentReads
  <2> HIDE DEF n
  <2>4. d.readSp = FALSE /\ Balance(d) = 1
    <3>1. d.readSp \in BOOLEAN /\ ~d.readSp BY <1>2 DEF Open, Sound, Flags
    <3> QED BY <3>1, OpenFacts, PartAppend, Zenon
  <2>5. /\ Sound(n) /\ n.crr = <<"CH1">> /\ n.lapse = {} /\ n.ack = 0 /\ n.active = FALSE
        /\ n.readSp = FALSE /\ n.hs = "HELLO_REQUEST" /\ Balance(n) = 1
        /\ Covers(n, 1, 2, 1) /\ (RequestLen = 126 => Meets(n))
    BY <1>2, <2>2, <2>4 DEF Notes
  <2>6. Settled(ReadPart(n, "CH2")) BY <2>5, SecondFollows, Zenon
  <2> QED BY <2>1, <2>3, <2>6, ReadOutcome DEF n
<1> QED BY <1>3, <1>4, <1>5, <1>6

\* A ClientHello again, in two parts of which the first came with another
\* segment.
LEMMA OrphanOutcome ==
  ASSUME NEW d, Open(d), isn \in SeqNo, NEW s, Fitting(d, s), validate_sequence(d, s) = "OK",
         s.from = 1, s.to = 2, s.ack = 0, d.crr = <<>>, NEW a, d.sentAck = At(a)
  PROVE  Outcome(process_handshake_packet(d, s))
<1> DEFINE n == Noted(d, s)
<1>1. Notes(n, d, 1, 2, 0, a) BY NotedOpen
<1>2. process_new_record(n, s) = ReadPart(n, "CH2") BY SegmentReads
<1> HIDE DEF n
<1>3. "broken" \in ReadPart(n, "CH2").lapse BY <1>1, PartBroken DEF Notes
<1>4. Settled(ReadPart(n, "CH2")) BY <1>3 DEF Settled, Lost
<1> QED BY <1>2, <1>4, ReadOutcome DEF n

\* While the flight is built.
LEMMA BuildOutcome ==
  ASSUME NEW d, Open(d), isn \in SeqNo, NEW s, Fitting(d, s), Begun(d), ~Sent(d), d.ack = 0,
         d.crr = <<>>, Covers(d, 0, 2, 0) \/ Covers(d, 1, 2, 1)
  PROVE  Outcome(process_handshake_packet(d, s))
<1> USE DEF Pos, StreamEnd
<1>1. s \in Segment BY DEF Fitting
<1>2. /\ s.ack = 0
      /\ (s.from = 0 /\ s.to = 1) \/ (s.from = 0 /\ s.to = 2) \/ (s.from = 1 /\ s.to = 2)
  BY SegmentCases
<1>3. CASE Covers(d, 0, 2, 0)
  <2>1. d.sentAck = At(0) BY <1>3 DEF Covers
  <2>2. CASE s.from = 0 /\ s.to = 1
    <3>1. validate_sequence(d, s) = "OK" BY <1>1, <1>3, <2>2, Accepted
    <3> QED BY <1>2, <2>1, <2>2, <3>1, FirstOutcome
  <2>3. CASE s.from = 0 /\ s.to = 2
    <3> DEFINE n == Noted(d, s)
    <3>1. validate_sequence(d, s) = "OK" BY <1>1, <1>3, <2>3, Accepted
    <3>2. Notes(n, d, 0, 2, 0, 0) BY <1>2, <2>1, <2>3, NotedOpen
    <3>3. process_new_record(n, s) = ReadPart(ReadPart(n, "CH1"), "CH2") BY <2>3, SegmentReads
    <3> HIDE DEF n
    <3>4. d.readSp = FALSE /\ Balance(d) = 0
      <4>1. d.readSp \in BOOLEAN /\ ~d.readSp BY DEF Open, Sound, Flags
      <4> QED BY <4>1, OpenFacts, Zenon
    <3>5. /\ Sound(n) /\ n.crr = <<>> /\ n.lapse = {} /\ n.ack = 0 /\ n.active = FALSE
          /\ n.readSp = FALSE /\ n.hs = d.hs /\ Balance(n) = 0
          /\ Covers(n, 0, 2, 0) /\ (RequestLen = 126 => Meets(n))
      BY <3>2, <3>4 DEF Notes
    <3>6. Covers(n, 0, 2, IF Sent(n) THEN 2 ELSE 0) BY <3>5 DEF Sent
    <3>7. n.hs # "CLIENT_CIPHER_SPEC" BY <3>5 DEF Sent
    <3>8. Settled(ReadPart(ReadPart(n, "CH1"), "CH2")) BY <3>5, <3>6, <3>7, HalvesFollow, Zenon
    <3> QED BY <3>1, <3>3, <3>8, ReadOutcome DEF n
  <2>4. CASE s.from = 1 /\ s.to = 2
    <3>1. validate_sequence(d, s) \in {"UNDER", "WEIRD"} BY <1>1, <1>3, <2>4, Ignored
    <3> QED BY <3>1, IgnoredOutcome
  <2> QED BY <1>2, <2>2, <2>3, <2>4
<1>4. CASE Covers(d, 1, 2, 1)
  <2>1. d.sentAck = At(1) BY <1>4 DEF Covers
  <2>2. CASE s.from = 0
    <3>1. validate_sequence(d, s) \in {"UNDER", "WEIRD"} BY <1>1, <1>4, <2>2, Ignored
    <3> QED BY <3>1, IgnoredOutcome
  <2>3. CASE s.from = 1 /\ s.to = 2
    <3>1. validate_sequence(d, s) = "OK" BY <1>1, <1>4, <2>3, Accepted
    <3> QED BY <1>2, <2>1, <2>3, <3>1, OrphanOutcome
  <2> QED BY <1>2, <2>2, <2>3
<1> QED BY <1>3, <1>4

\* After the flight, a ClientHello again.
LEMMA AgainOutcome ==
  ASSUME NEW d, Open(d), isn \in SeqNo, NEW s, Fitting(d, s), d.hs = "FINISHED", ~d.readSp,
         d.ack = 0, d.crr = <<>>, Covers(d, 0, 2, 2) \/ Covers(d, 1, 2, 2), s.ack = 0
  PROVE  Outcome(process_handshake_packet(d, s))
<1> USE DEF Pos, StreamEnd
<1>1. s \in Segment BY DEF Fitting
<1>2. (s.from = 0 /\ s.to = 1) \/ (s.from = 0 /\ s.to = 2) \/ (s.from = 1 /\ s.to = 2)
  BY SegmentCases
<1>3. d.sentAck = At(2) BY DEF Covers
<1>4. CASE Covers(d, 0, 2, 2)
  <2>1. CASE s.from = 0 /\ s.to = 2
    <3> DEFINE n == Noted(d, s)
    <3>1. validate_sequence(d, s) = "OK" BY <1>1, <1>4, <2>1, Accepted
    <3>2. Notes(n, d, 0, 2, 0, 2) BY <1>3, <2>1, NotedOpen
    <3>3. process_new_record(n, s) = ReadPart(ReadPart(n, "CH1"), "CH2") BY <2>1, SegmentReads
    <3> HIDE DEF n
    <3>4. d.readSp = FALSE /\ Balance(d) = 0
      <4>1. d.readSp \in BOOLEAN BY DEF Open, Sound, Flags
      <4> QED BY <4>1, OpenFacts, Zenon
    <3>5. /\ Sound(n) /\ n.crr = <<>> /\ n.lapse = {} /\ n.ack = 0 /\ n.active = FALSE
          /\ n.readSp = FALSE /\ n.hs = "FINISHED" /\ Balance(n) = 0
          /\ Covers(n, 0, 2, 2) /\ (RequestLen = 126 => Meets(n))
      BY <3>2, <3>4 DEF Notes
    <3>6. Covers(n, 0, 2, IF Sent(n) THEN 2 ELSE 0) BY <3>5 DEF Sent
    <3>7. n.hs # "CLIENT_CIPHER_SPEC" BY <3>5
    <3>8. Settled(ReadPart(ReadPart(n, "CH1"), "CH2")) BY <3>5, <3>6, <3>7, HalvesFollow, Zenon
    <3> QED BY <3>1, <3>3, <3>8, ReadOutcome DEF n
  <2>2. CASE s.to = 1 \/ s.from = 1
    <3>1. s.from \in {0, 1} /\ ~(s.from = 0 /\ s.to = 2) BY <1>2, <2>2
    <3>2. validate_sequence(d, s) \in {"UNDER", "WEIRD"} BY <1>1, <1>4, <3>1, Ignored
    <3> QED BY <3>2, IgnoredOutcome
  <2> QED BY <1>2, <2>1, <2>2
<1>5. CASE Covers(d, 1, 2, 2)
  <2>1. CASE s.from = 0
    <3>1. validate_sequence(d, s) \in {"UNDER", "WEIRD"} BY <1>1, <1>5, <2>1, Ignored
    <3> QED BY <3>1, IgnoredOutcome
  <2>2. CASE s.from = 1 /\ s.to = 2
    <3>1. validate_sequence(d, s) = "OK" BY <1>1, <1>5, <2>2, Accepted
    <3> QED BY <1>3, <2>2, <3>1, OrphanOutcome
  <2> QED BY <1>2, <2>1, <2>2
<1> QED BY <1>4, <1>5

\* After the flight, the client's second flight.
LEMMA AnswerOutcome ==
  ASSUME NEW d, Open(d), isn \in SeqNo, NEW s, Fitting(d, s), d.hs = "FINISHED", ~d.readSp,
         d.ack = 0, d.crr = <<>>, NEW b \in {0, 1}, Covers(d, b, 2, 2), s.ack = 1
  PROVE  Outcome(process_handshake_packet(d, s))
<1> USE DEF Pos, StreamEnd
<1> DEFINE n == Noted(d, s)
<1>1. s \in Segment /\ d.sentAck = At(2) BY DEF Fitting, Covers
<1>2. s.from \in {2, 3, 4} /\ s.to \in {3, 4, 5} BY SegmentCases
<1>3. CASE s.from = 2
  <2> DEFINE x == ReadPart(n, "CCS")
             to == s.to
  <2>1. validate_sequence(d, s) = "OK" BY <1>1, <1>3, Accepted
  <2>2. Notes(n, d, 2, to, 1, 2) BY <1>1, <1>3, NotedOpen
  <2>3. /\ to = 3 => process_new_record(n, s) = x
        /\ to = 4 => process_new_record(n, s) = ReadPart(x, "CF")
        /\ to = 5 => process_new_record(n, s) = ReadPart(ReadPart(x, "CF"), "REQ")
    BY <1>3, SegmentReads
  <2>4. to \in {3, 4, 5} BY <1>2
  <2> HIDE DEF n, to
  <2>5. d.readSp = FALSE /\ Balance(d) = 0
    <3>1. d.readSp \in BOOLEAN BY DEF Open, Sound, Flags
    <3> QED BY <3>1, OpenFacts, Zenon
  <2>6. /\ Sound(n) /\ n.crr = <<>> /\ n.lapse = {} /\ n.ack = 1 /\ n.active = FALSE
        /\ n.readSp = FALSE /\ n.hs = "FINISHED" /\ Balance(n) = 0
        /\ Covers(n, 2, to, 2) /\ (RequestLen = 126 => Meets(n))
    BY <2>2, <2>5 DEF Notes
  <2>7. /\ Sound(x) /\ x.hs = "CLIENT_CIPHER_SPEC" /\ x.active = FALSE /\ x.readSp = TRUE
        /\ x.crr = <<>> /\ x.lapse = {} /\ Covers(x, 2, to, 2) /\ Balance(x) = 0
        /\ RequestLen = 126 => Meets(x)
        /\ to = 3 => Settled(x)
    BY <2>6, CipherFollows, Zenon
  <2> HIDE DEF x
  <2>8. to \in {4, 5} => Settled(ReadPart(x, "CF")) /\ Settled(ReadPart(ReadPart(x, "CF"), "REQ"))
    BY <2>7, FinishedFollows, Zenon
  <2>9. Settled(process_new_record(n, s)) BY <2>3, <2>4, <2>7, <2>8
  <2> QED BY <2>1, <2>9, ReadOutcome DEF n
<1>4. CASE s.from \in {3, 4}
  <2>1. validate_sequence(d, s) = "OVER" BY <1>1, <1>4, Beyond
  <2>2. ASSUME NEW f, Frame(d, f, {"sentAck", "tx"}), Covers(f, b, 2, 2) PROVE Progress(f)
    <3>1. /\ f.hs = d.hs /\ f.active = d.active /\ f.readSp = d.readSp /\ f.ack = d.ack
          /\ f.crr = d.crr
      BY <2>2 DEF Frame, Fields
    <3>2. d.active = FALSE BY DEF Open
    <3> QED BY <2>2, <3>1, <3>2 DEF Progress
  <2> QED BY <2>1, <2>2, OverOutcome
<1> QED BY <1>2, <1>3, <1>4

\* After the ChangeCipherSpec.
LEMMA SecuredOutcome ==
  ASSUME NEW d, Open(d), isn \in SeqNo, NEW s, Fitting(d, s), d.hs = "CLIENT_CIPHER_SPEC", d.readSp,
         d.ack = 1, d.crr = <<>>, NEW a \in {2, 3}, Covers(d, 2, 3, a)
  PROVE  Outcome(process_handshake_packet(d, s))
<1> USE DEF Pos, StreamEnd
<1> DEFINE n == Noted(d, s)
<1>1. s \in Segment /\ d.sentAck = At(a) BY DEF Fitting, Covers
<1>2. d.readSp = TRUE /\ Balance(d) = 0
  <2>1. d.readSp \in BOOLEAN BY DEF Open, Sound, Flags
  <2> QED BY <2>1, OpenFacts, Zenon
<1>3. CASE s.ack = 0
  <2>1. s.from \in {0, 1} BY <1>3, SegmentCases
  <2>2. validate_sequence(d, s) \in {"UNDER", "WEIRD"} BY <1>1, <1>3, <2>1, Ignored
  <2> QED BY <2>2, IgnoredOutcome
<1>4. CASE s.ack # 0
  <2>1. /\ s.ack = 1
        /\ \/ s.from = 2 /\ s.to \in {3, 4, 5}
           \/ s.from = 3 /\ s.to \in {4, 5}
           \/ s.from = 4 /\ s.to = 5
    BY <1>4, SegmentCases
  <2>2. Notes(n, d, s.from, s.to, 1, a) BY <1>1, <2>1, NotedOpen
  <2>3. CASE s.from = 2 /\ (s.to = 3 \/ a = 2)
    <3> DEFINE x == ReadPart(n, "CCS")
    <3>1. validate_sequence(d, s) = "OK" BY <1>1, <2>1, <2>3, Accepted
    <3>2. process_new_record(n, s) \in {x, ReadPart(x, "CF"), ReadPart(ReadPart(x, "CF"), "REQ")}
      BY <2>1, <2>3, SegmentReads
    <3> HIDE DEF n
    <3>3. /\ Sound(n) /\ n.crr = <<>> /\ n.lapse = {} /\ n.active = FALSE /\ n.readSp = TRUE
          /\ n.hs = "CLIENT_CIPHER_SPEC"
      BY <1>2, <2>2 DEF Notes
    <3>4. "reread" \in x.lapse BY <3>3, CipherAgain, Zenon DEF Sent
    <3> HIDE DEF x
    <3>5. x.lapse \cap Lost # {} BY <3>4 DEF Lost
    <3>6. ReadPart(x, "CF") = x BY <3>5, PartStops
    <3>7. ReadPart(x, "REQ") = x BY <3>5, PartStops
    <3>8. process_new_record(n, s) = x BY <3>2, <3>6, <3>7
    <3>9. Settled(process_new_record(n, s)) BY <3>5, <3>8 DEF Settled
    <3> QED BY <3>1, <3>9, ReadOutcome DEF n
  <2>4. CASE s.from = 2 /\ s.to # 3 /\ a = 3
    <3>1. validate_sequence(d, s) \in {"UNDER", "WEIRD"} BY <1>1, <2>4, Ignored
    <3> QED BY <3>1, IgnoredOutcome
  <2>5. CASE s.from = 3
    <3> DEFINE to == s.to
    <3>1. validate_sequence(d, s) = "OK" BY <1>1, <2>5, Accepted
    <3>2. /\ to = 4 => process_new_record(n, s) = ReadPart(n, "CF")
          /\ to = 5 => process_new_record(n, s) = ReadPart(ReadPart(n, "CF"), "REQ")
      BY <2>5, SegmentReads
    <3>3. to \in {4, 5} BY <2>1, <2>5
    <3>4. Notes(n, d, 3, to, 1, a) BY <2>2, <2>5
    <3> HIDE DEF n, to
    <3>5. /\ Sound(n) /\ n.crr = <<>> /\ n.lapse = {} /\ n.active = FALSE /\ n.readSp = TRUE
          /\ n.hs = "CLIENT_CIPHER_SPEC" /\ Covers(n, 3, to, a) /\ Balance(n) = 0
          /\ RequestLen = 126 => Meets(n)
      BY <1>2, <3>4 DEF Notes
    <3>6. Settled(ReadPart(n, "CF")) /\ Settled(ReadPart(ReadPart(n, "CF"), "REQ"))
      BY <3>3, <3>5, FinishedFollows, Zenon
    <3>7. Settled(process_new_record(n, s)) BY <3>2, <3>3, <3>6
    <3> QED BY <3>1, <3>7, ReadOutcome DEF n
  <2>6. CASE s.from = 4
    <3>1. validate_sequence(d, s) = "OVER" BY <1>1, <2>1, <2>6, Beyond
    <3>2. ASSUME NEW f, Frame(d, f, {"sentAck", "tx"}), Covers(f, 2, 3, 3) PROVE Progress(f)
      <4>1. f.hs = d.hs /\ f.readSp = d.readSp /\ f.ack = d.ack /\ f.crr = d.crr
        BY <3>2, Zenon DEF Frame, Fields
      <4> QED BY <1>2, <3>2, <4>1 DEF Progress
    <3> QED BY <3>1, <3>2, OverOutcome
  <2> QED BY <2>1, <2>3, <2>4, <2>5, <2>6
<1> QED BY <1>3, <1>4

\* Every segment, in every state of a session that is followed.
LEMMA PacketOutcome ==
  ASSUME NEW d, Open(d), isn \in SeqNo, NEW s, Fitting(d, s)
  PROVE  Outcome(process_handshake_packet(d, s))
<1>1. Progress(d) /\ d.active = FALSE BY OpenFacts, Zenon
<1>2. CASE /\ ~Begun(d) /\ d.ack = 0
           /\ (Covers(d, 0, 0, 0) /\ d.crr = <<>>) \/ (Covers(d, 0, 1, 1) /\ d.crr = <<"CH1">>)
  BY <1>2, StartOutcome, HalfOutcome
<1>3. CASE /\ Begun(d) /\ ~Sent(d) /\ d.ack = 0 /\ d.crr = <<>>
           /\ Covers(d, 0, 2, 0) \/ Covers(d, 1, 2, 1)
  BY <1>3, BuildOutcome
<1>4. CASE /\ d.hs = "FINISHED" /\ ~d.active /\ ~d.readSp /\ d.ack = 0 /\ d.crr = <<>>
           /\ Covers(d, 0, 2, 2) \/ Covers(d, 1, 2, 2)
  <2>1. s.ack \in {0, 1} BY DEF Fitting, Segment
  <2>2. CASE s.ack = 0 BY <1>4, <2>2, AgainOutcome
  <2>3. CASE s.ack = 1
    <3>1. PICK b \in {0, 1} : Covers(d, b, 2, 2) BY <1>4
    <3> QED BY <1>4, <2>3, <3>1, AnswerOutcome
  <2> QED BY <2>1, <2>2, <2>3
<1>5. CASE /\ d.hs = "CLIENT_CIPHER_SPEC" /\ d.readSp /\ d.ack = 1 /\ d.crr = <<>>
           /\ Covers(d, 2, 3, 2) \/ Covers(d, 2, 3, 3)
  <2>1. PICK a \in {2, 3} : Covers(d, 2, 3, a) BY <1>5
  <2> QED BY <1>5, <2>1, SecuredOutcome
<1> QED BY <1>1, <1>2, <1>3, <1>4, <1>5 DEF Progress
=============================================================================
