-------------------------- MODULE HostServerProofs --------------------------
(***************************************************************************)
(* The connection pool of a worker of the host's server, the events that   *)
(* its epoll loop follows and the responses that it sends, for any number  *)
(* of structures, clients, key meta packets and pieces of a file.          *)
(***************************************************************************)
EXTENDS HostServer, SequenceTheorems, FiniteSetTheorems, TLAPS

ConnState == [client : Client \cup {NoClient}, id : 0 .. MaxId, st : SockState,
              keep : BOOLEAN, hdr : 0 .. Header, remain : 0 .. Body,
              file : BOOLEAN, fd : BOOLEAN]

Item == {"part", "req", "reqc", "big", "hs", "notify", "fin"}

Request == {"req", "reqc", "big"}

Place == {"none", "idle", "part", "wait", "over", "notified", "closed"}

\* Behind the record that the server reads next there is only the end of the
\* stream.
Stream == {q \in Seq(Item) : \A i \in 2 .. Len(q) : q[i] = "fin"}

Socket == [up : {"none", "up", "reset"}, rx : Stream]

\* The types of TypeOK, and those of the kernel's sockets and of the clients.
Types ==
  /\ pool \in Seq(Slot) /\ tbl \subseteq Slot
  /\ conn \in [Slot -> ConnState]
  /\ epoll \in [Slot -> SUBSET {"IN", "OUT"}]
  /\ batch \in [meta : BOOLEAN, ev : [Slot -> SUBSET {"IN", "OUT"}]]
  /\ metaq \in Seq(KeyMeta) /\ Len(metaq) <= MaxQueue
  /\ sock \in [Slot -> Socket]
  /\ client \in [Slot -> Place]
  /\ got \in [Slot -> 0 .. Header + Body]
  /\ cached \in BOOLEAN /\ crashed \in BOOLEAN
  /\ last \in [Client -> 0 .. MaxId]

\* A structure that is not in the hash table is clear, and so are its kernel
\* objects.
Idle(s) ==
  /\ conn[s] = Fresh /\ epoll[s] = {} /\ sock[s] = NoSocket
  /\ client[s] = "none" /\ got[s] = 0

Asks(q) == q # <<>> /\ Head(q) \in Request

\* The structure c has no response under way and nothing left of the last one.
Cleared(c) == c.hdr = 0 /\ c.remain = 0 /\ c.st # "HTTP_REQ_RECVED"

\* A structure, its stream, where its client stands and what it was sent: a
\* client that may still send a request finds the structure cleared, and so
\* does a request that is not read yet; while a response is sent, the client
\* has been sent what the structure counts.
Talks(c, q, p, g) ==
  /\ p \in {"none", "idle", "part"} => Cleared(c) /\ ~Asks(q)
  /\ Asks(q) => Cleared(c)
  /\ c.st = "HTTP_REQ_RECVED" =>
       /\ g = c.hdr + (IF c.remain = 0 THEN 0 ELSE Body - c.remain)
       /\ c.remain # 0 => c.hdr = Header /\ c.file

Talk(s) == Talks(conn[s], sock[s].rx, client[s], got[s])

Distinct(q) == \A i, j \in DOMAIN q : q[i] = q[j] => i = j

Stacked(q, s) == \E i \in DOMAIN q : q[i] = s

\* The stack and the hash table share the structures out.
Shared ==
  /\ Distinct(pool)
  /\ \A s \in Slot : s \in tbl <=> ~Stacked(pool, s)
  /\ \A s, t \in tbl : conn[s].client = conn[t].client => s = t

\* What the steps preserve together.
IInv ==
  /\ Types /\ Shared /\ EventsAreLive
  /\ batch.meta => metaq # <<>>
  /\ \A s \in Slot \ tbl : Idle(s)
  /\ \A s \in Slot : Talk(s)

\* What the socket's stream holds when the client adds to it and when the
\* server takes from it.
LEMMA StreamFacts ==
  /\ <<>> \in Stream /\ ~Asks(<<>>)
  /\ \A x \in Item : <<x>> \in Stream /\ Append(<<>>, x) = <<x>> /\ Head(<<x>>) = x /\ <<x>> # <<>>
  /\ \A q \in Stream : /\ Append(q, "fin") \in Stream
                       /\ Asks(Append(q, "fin")) <=> Asks(q)
  /\ \A q \in Stream : q # <<>> => Head(q) \in Item /\ Tail(q) \in Stream /\ ~Asks(Tail(q))
<1>1. <<>> \in Stream /\ ~Asks(<<>>)
  <2>1. <<>> \in Seq(Item) /\ Len(<<>>) = 0 BY EmptySeq
  <2> QED BY <2>1 DEF Stream, Asks
<1>2. ASSUME NEW x \in Item
      PROVE  <<x>> \in Stream /\ Append(<<>>, x) = <<x>> /\ Head(<<x>>) = x /\ <<x>> # <<>>
  <2>1. <<x>> \in Seq(Item) /\ Len(<<x>>) = 1 OBVIOUS
  <2>2. <<x>> \in Stream BY <2>1 DEF Stream
  <2> QED BY <2>1, <2>2
<1>3. ASSUME NEW q \in Stream
      PROVE  Append(q, "fin") \in Stream /\ (Asks(Append(q, "fin")) <=> Asks(q))
  <2>1. q \in Seq(Item) /\ "fin" \in Item /\ \A i \in 2 .. Len(q) : q[i] = "fin" BY DEF Stream, Item
  <2>2. /\ Append(q, "fin") \in Seq(Item) /\ Len(Append(q, "fin")) = Len(q) + 1
        /\ \A i \in 1 .. Len(q) : Append(q, "fin")[i] = q[i]
        /\ Append(q, "fin")[Len(q) + 1] = "fin"
        /\ Len(q) \in Nat
    BY <2>1, AppendProperties
  <2>3. Append(q, "fin") \in Stream
    <3>1. ASSUME NEW i \in 2 .. Len(q) + 1 PROVE Append(q, "fin")[i] = "fin"
      <4>1. CASE i = Len(q) + 1 BY <2>2, <4>1
      <4>2. CASE i # Len(q) + 1
        <5>1. i \in 2 .. Len(q) /\ i \in 1 .. Len(q) BY <2>2, <4>2
        <5> QED BY <2>1, <2>2, <5>1
      <4> QED BY <4>1, <4>2
    <3> QED BY <2>2, <3>1, Zenon DEF Stream
  <2>4. CASE q = <<>>
    <3>1. Append(q, "fin") = <<"fin">> /\ Head(<<"fin">>) = "fin" /\ "fin" \notin Request
      BY <2>4 DEF Request
    <3> QED BY <2>3, <2>4, <3>1 DEF Asks
  <2>5. CASE q # <<>>
    <3>1. Head(q) = q[1] /\ Len(q) # 0 BY <2>1, <2>5, HeadTailProperties, EmptySeq
    <3>2. Append(q, "fin") # <<>> /\ Head(Append(q, "fin")) = Append(q, "fin")[1]
      BY <2>2, EmptySeq
    <3>3. Append(q, "fin")[1] = q[1] BY <2>2, <3>1
    <3> QED BY <2>3, <2>5, <3>1, <3>2, <3>3 DEF Asks
  <2> QED BY <2>4, <2>5
<1>4. ASSUME NEW q \in Stream, q # <<>>
      PROVE  Head(q) \in Item /\ Tail(q) \in Stream /\ ~Asks(Tail(q))
  <2>1. q \in Seq(Item) /\ \A i \in 2 .. Len(q) : q[i] = "fin" BY DEF Stream
  <2>2. /\ Head(q) \in Item /\ Tail(q) \in Seq(Item) /\ Len(q) \in Nat
        /\ Len(Tail(q)) = Len(q) - 1 /\ \A i \in 1 .. Len(Tail(q)) : Tail(q)[i] = q[i + 1]
    BY <1>4, <2>1, HeadTailProperties
  <2>3. \A i \in 1 .. Len(Tail(q)) : Tail(q)[i] = "fin" BY <2>1, <2>2
  <2>4. Tail(q) \in Stream
    <3>1. \A i \in 2 .. Len(Tail(q)) : i \in 1 .. Len(Tail(q)) BY <2>2
    <3> QED BY <2>2, <2>3, <3>1, Zenon DEF Stream
  <2>5. Tail(q) # <<>> => Head(Tail(q)) = "fin"
    <3>1. Tail(q) # <<>> => Len(Tail(q)) # 0 /\ Head(Tail(q)) = Tail(q)[1]
      BY <2>2, HeadTailProperties, EmptySeq
    <3> QED BY <2>2, <2>3, <3>1
  <2> QED BY <2>2, <2>4, <2>5 DEF Asks, Request
<1> QED BY <1>1, <1>2, <1>3, <1>4


\* The invariant implies what the runs check of a state.
LEMMA InvSound == IInv => PoolSound /\ EventsAreLive
<1> SUFFICES ASSUME IInv PROVE PoolSound /\ EventsAreLive OBVIOUS
<1>1. TypeOK
  <2>1. conn \in [Slot -> [client : Client \cup {NoClient}, id : 0 .. MaxId, st : SockState,
                           keep : BOOLEAN, hdr : 0 .. Header, remain : 0 .. Body,
                           file : BOOLEAN, fd : BOOLEAN]]
    BY Zenon DEF IInv, Types, ConnState
  <2>2. \A s \in Slot : sock[s].up \in {"none", "up", "reset"} BY DEF IInv, Types, Socket
  <2>3. \A s \in Slot : got[s] \in 0 .. Header + Body BY DEF IInv, Types
  <2> QED BY <2>1, <2>2, <2>3, Zenon DEF IInv, Types, TypeOK
<1>2. Shared /\ EventsAreLive BY DEF IInv
<1>3. ASSUME NEW s \in Slot PROVE (s \in tbl) # (\E i \in DOMAIN pool : pool[i] = s)
  BY <1>2, Zenon DEF Shared, Stacked
<1> QED BY <1>1, <1>2, <1>3, Zenon DEF Shared, Distinct, PoolSound

\* The cleared structure and the absent socket have their types, and no
\* response is under way in them.
LEMMA FreshFacts ==
  /\ Fresh \in ConnState /\ NoSocket \in Socket /\ Cleared(Fresh) /\ Fresh.st = "DEFAULT"
  /\ NoSocket.up = "none" /\ NoSocket.rx = <<>>
  /\ 0 \in 0 .. Header + Body
<1>1. /\ 0 \in 0 .. MaxId /\ 0 \in 0 .. Header /\ 0 \in 0 .. Body /\ 0 \in 0 .. Header + Body
      /\ "DEFAULT" \in SockState
  BY HostAssumption DEF Header, SockState
<1>2. Fresh \in ConnState BY <1>1 DEF Fresh, ConnState
<1>3. NoSocket \in Socket BY StreamFacts DEF NoSocket, Socket
<1> QED BY <1>1, <1>2, <1>3 DEF Fresh, NoSocket, Cleared

\* The initial states satisfy the invariant.
LEMMA InitInv == Init => IInv
<1> SUFFICES ASSUME Init PROVE IInv OBVIOUS
<1>0. /\ pool \in [1 .. Cardinality(Slot) -> Slot] /\ tbl = {}
      /\ \A i, j \in DOMAIN pool : pool[i] = pool[j] => i = j
  BY DEF Init
<1>1. Cardinality(Slot) \in Nat BY HostAssumption, FS_CardinalityType
<1>2. pool \in Seq(Slot) BY <1>0, <1>1, SeqDef
<1>3. Types
  <2>1. <<>> \in Seq(KeyMeta) /\ Len(<<>>) = 0 /\ 0 <= MaxQueue BY EmptySeq, HostAssumption
  <2>2. NoEvents \in [meta : BOOLEAN, ev : [Slot -> SUBSET {"IN", "OUT"}]] BY DEF NoEvents
  <2>3. last \in [Client -> 0 .. MaxId] BY HostAssumption DEF Init
  <2> QED BY <1>0, <1>2, <2>1, <2>2, <2>3, FreshFacts, Zenon DEF Init, Types, Place
<1>4. \A s \in Slot : \E i \in DOMAIN pool : pool[i] = s
  <2> SUFFICES ASSUME NEW s \in Slot PROVE \E i \in 1 .. Cardinality(Slot) : pool[i] = s
    BY <1>0
  <2>1. pool \in Injection(1 .. Cardinality(Slot), Slot) BY <1>0 DEF Injection, IsInjective
  <2>2. IsFiniteSet(1 .. Cardinality(Slot)) /\ Cardinality(1 .. Cardinality(Slot)) = Cardinality(Slot)
    BY <1>1, FS_Interval
  <2>3. pool \in Surjection(1 .. Cardinality(Slot), Slot)
    BY <2>1, <2>2, HostAssumption, FS_Injection
  <2> QED BY <2>3 DEF Surjection
<1>5. Shared BY <1>0, <1>4 DEF Shared, Distinct, Stacked
<1>6. \A s \in Slot : Idle(s) /\ Talk(s)
  BY FreshFacts, StreamFacts DEF Init, Idle, Talk, Talks, Cleared
<1>7. EventsAreLive /\ ~batch.meta BY DEF Init, NoEvents, EventsAreLive
<1> QED BY <1>3, <1>5, <1>6, <1>7 DEF IInv


\* What the step leaves of the loop's own state.
Queues ==
  /\ batch' \in [meta : BOOLEAN, ev : [Slot -> SUBSET {"IN", "OUT"}]]
  /\ metaq' \in Seq(KeyMeta) /\ Len(metaq') <= MaxQueue
  /\ batch'.meta => metaq' # <<>>
  /\ cached' \in BOOLEAN /\ crashed' \in BOOLEAN
  /\ last' \in [Client -> 0 .. MaxId]

\* The step leaves every other structure, its socket and its client alone, and
\* the events that are waiting for them.
Untouched(s) ==
  \A t \in Slot \ {s} :
    /\ conn'[t] = conn[t] /\ epoll'[t] = epoll[t] /\ sock'[t] = sock[t]
    /\ client'[t] = client[t] /\ got'[t] = got[t] /\ batch'.ev[t] = batch.ev[t]

\* What a structure of the hash table, its socket and its client are after a
\* step.
Touched(s) ==
  /\ conn' \in [Slot -> ConnState] /\ epoll' \in [Slot -> SUBSET {"IN", "OUT"}]
  /\ sock' \in [Slot -> Socket] /\ client' \in [Slot -> Place]
  /\ got' \in [Slot -> 0 .. Header + Body]
  /\ Talks(conn'[s], sock'[s].rx, client'[s], got'[s])
  /\ conn'[s].client = conn[s].client
  /\ batch'.ev[s] \subseteq epoll'[s]

\* A step that touches one structure of the hash table, its socket and its
\* client, and handles at most an event of its own, preserves the invariant
\* when it does so for that structure.
LEMMA SlotStep ==
  ASSUME IInv, Queues, NEW s \in tbl, Untouched(s), Touched(s), pool' = pool, tbl' = tbl
  PROVE  IInv'
<1>1. Types /\ Shared /\ EventsAreLive /\ s \in Slot BY DEF IInv, Types
<1>2. Types' BY <1>1 DEF Types, Queues, Touched
<1>3. Shared'
  <2>1. \A t \in tbl : t \in Slot /\ conn'[t].client = conn[t].client
    BY <1>1, Zenon DEF Types, Untouched, Touched
  <2>2. \A t, u \in tbl : conn'[t].client = conn'[u].client => t = u BY <1>1, <2>1 DEF Shared
  <2> QED BY <1>1, <2>2 DEF Shared
<1>4. EventsAreLive' BY <1>1 DEF EventsAreLive, Untouched, Touched
<1>5. ASSUME NEW t \in Slot \ tbl' PROVE Idle(t)'
  <2>1. t # s /\ Idle(t) BY DEF IInv
  <2> QED BY <2>1 DEF Idle, Untouched
<1>6. ASSUME NEW t \in Slot PROVE Talk(t)'
  <2>1. Talk(t) BY DEF IInv
  <2>2. CASE t = s BY <2>2 DEF Talk, Touched
  <2>3. CASE t # s BY <2>1, <2>3 DEF Talk, Untouched
  <2> QED BY <2>2, <2>3
<1> QED BY <1>2, <1>3, <1>4, <1>5, <1>6 DEF IInv, Queues

\* What the invariant says of one structure.
LEMMA SlotFacts ==
  ASSUME IInv, NEW s \in Slot
  PROVE  /\ conn[s] \in ConnState /\ epoll[s] \in SUBSET {"IN", "OUT"} /\ sock[s] \in Socket
         /\ client[s] \in Place /\ got[s] \in 0 .. Header + Body
         /\ Talks(conn[s], sock[s].rx, client[s], got[s])
         /\ sock[s].up # "none" \/ client[s] # "none" => s \in tbl
         /\ batch.ev[s] # {} => s \in tbl /\ batch.ev[s] \subseteq epoll[s]
         /\ epoll[s] # {} => s \in tbl
<1>1. Types BY DEF IInv
<1>2. /\ conn[s] \in ConnState /\ epoll[s] \in SUBSET {"IN", "OUT"} /\ sock[s] \in Socket
      /\ client[s] \in Place /\ got[s] \in 0 .. Header + Body
  BY <1>1 DEF Types
<1>3. s \notin tbl => epoll[s] = {} /\ sock[s].up = "none" /\ client[s] = "none"
  BY FreshFacts DEF IInv, Idle
<1> QED BY <1>2, <1>3 DEF IInv, EventsAreLive, Talk

\* A client of the handful of moves, and what its record does to the stream.
LEMMA MoveFacts ==
  ASSUME NEW m \in ClientMoves
  PROVE  /\ m.item \in Item /\ m.to \in Place \ {"none"} /\ "none" \notin m.from
         /\ m.item \in Request => m.from \subseteq {"idle", "part"} /\ m.to \notin {"idle", "part"}
         /\ m.to \in {"idle", "part"} => m.from \subseteq {"idle"}
BY DEF ClientMoves, Item, Place, Request

\* A client that sends a record, or closes its direction.
LEMMA ClientSendsStep ==
  ASSUME IInv, NEW s \in Slot, ClientSends(s)
  PROVE  IInv'
<1>1. PICK m \in ClientMoves :
        /\ client[s] \in m.from /\ (sock[s].rx = <<>> \/ m.item = "fin")
        /\ client' = [client EXCEPT ![s] = m.to]
        /\ sock' = [sock EXCEPT ![s].rx = Append(@, m.item)]
  BY Zenon DEF ClientSends
<1>2. /\ UNCHANGED <<pool, tbl, conn, epoll, batch, metaq, cached, got, last, crashed>>
      /\ sock[s].up = "up"
  BY DEF ClientSends
<1>3. /\ s \in tbl /\ conn[s] \in ConnState /\ sock[s] \in Socket /\ client[s] \in Place
      /\ Talks(conn[s], sock[s].rx, client[s], got[s]) /\ batch.ev[s] \subseteq epoll[s]
      /\ epoll[s] \in SUBSET {"IN", "OUT"} /\ got[s] \in 0 .. Header + Body
  BY <1>2, SlotFacts
<1> DEFINE q == Append(sock[s].rx, m.item)
<1>4. sock[s].rx \in Stream BY <1>3 DEF Socket
<1>5. /\ q \in Stream
      /\ Asks(q) => Asks(sock[s].rx) \/ m.item \in Request
  <2>1. CASE sock[s].rx = <<>>
    <3>1. m.item \in Item /\ q = <<m.item>> /\ Head(q) = m.item BY <2>1, MoveFacts, StreamFacts
    <3> QED BY <3>1, StreamFacts DEF Asks
  <2>2. CASE m.item = "fin" BY <1>4, <2>2, StreamFacts
  <2> QED BY <1>1, <2>1, <2>2
<1>6. /\ sock' \in [Slot -> Socket] /\ sock'[s].rx = q
      /\ \A t \in Slot \ {s} : sock'[t] = sock[t]
  BY <1>1, <1>3, <1>5, Zenon DEF IInv, Types, Socket
<1> HIDE DEF q
<1>7. Talks(conn[s], q, m.to, got[s])
  <2>1. client[s] \in {"idle", "part"} => Cleared(conn[s]) /\ ~Asks(sock[s].rx)
    BY <1>3 DEF Talks
  <2>2. Asks(sock[s].rx) => Cleared(conn[s]) BY <1>3 DEF Talks
  <2>3. Asks(q) => Cleared(conn[s]) BY <1>1, <1>5, <2>1, <2>2, MoveFacts
  <2>4. m.to \in {"none", "idle", "part"} => Cleared(conn[s]) /\ ~Asks(q)
    BY <1>1, <1>5, <2>1, MoveFacts
  <2> QED BY <1>3, <2>3, <2>4 DEF Talks
<1>8. client' \in [Slot -> Place] /\ client'[s] = m.to
  BY <1>1, MoveFacts DEF IInv, Types
<1>9. Touched(s) BY <1>2, <1>3, <1>6, <1>7, <1>8 DEF Touched, IInv, Types
<1>10. Untouched(s) BY <1>1, <1>2, <1>6 DEF Untouched, IInv, Types
<1>11. Queues BY <1>2 DEF Queues, IInv, Types
<1> QED BY <1>2, <1>3, <1>9, <1>10, <1>11, SlotStep

\* A client that resets its connection.
LEMMA ClientResetsStep ==
  ASSUME IInv, NEW s \in Slot, ClientResets(s)
  PROVE  IInv'
<1>1. PICK rx \in {<<>>, sock[s].rx} : sock' = [sock EXCEPT ![s] = [up |-> "reset", rx |-> rx]]
  BY Zenon DEF ClientResets
<1>2. /\ UNCHANGED <<pool, tbl, conn, epoll, batch, metaq, cached, got, last, crashed>>
      /\ sock[s].up = "up" /\ client' = [client EXCEPT ![s] = "closed"]
  BY DEF ClientResets
<1>3. /\ s \in tbl /\ sock[s] \in Socket /\ batch.ev[s] \subseteq epoll[s]
      /\ Talks(conn[s], sock[s].rx, client[s], got[s])
  BY <1>2, SlotFacts
<1>4. rx \in Stream /\ (Asks(rx) => Asks(sock[s].rx)) BY <1>1, <1>3, StreamFacts DEF Socket
<1>5. [up |-> "reset", rx |-> rx] \in Socket BY <1>4 DEF Socket
<1>6. sock' \in [Slot -> Socket] /\ sock'[s].rx = rx BY <1>1, <1>5 DEF IInv, Types
<1>7. Talks(conn[s], rx, "closed", got[s]) BY <1>3, <1>4 DEF Talks
<1>8. client' \in [Slot -> Place] /\ client'[s] = "closed" BY <1>2 DEF IInv, Types, Place
<1>9. Touched(s) BY <1>2, <1>3, <1>6, <1>7, <1>8 DEF Touched, IInv, Types
<1>10. Untouched(s) BY <1>1, <1>2 DEF Untouched, IInv, Types
<1>11. Queues BY <1>2 DEF Queues, IInv, Types
<1> QED BY <1>2, <1>3, <1>9, <1>10, <1>11, SlotStep


\* The loop has handled the event of s; it leaves the meta socket alone.
Handled(s) == batch' = [batch EXCEPT !.ev[s] = {}] /\ UNCHANGED <<metaq, last, crashed>>

\* What a handler leaves of the structure s, its socket and its client.
Leaves(s, c, ev, k, p, g) ==
  /\ conn' = [conn EXCEPT ![s] = c] /\ epoll' = [epoll EXCEPT ![s] = ev]
  /\ sock' = [sock EXCEPT ![s] = k] /\ client' = [client EXCEPT ![s] = p]
  /\ got' = [got EXCEPT ![s] = g]

\* The events of the other structures stay where they are.
LEMMA HandledFacts ==
  ASSUME IInv, NEW s \in Slot, Handled(s)
  PROVE  /\ batch' \in [meta : BOOLEAN, ev : [Slot -> SUBSET {"IN", "OUT"}]]
         /\ batch'.meta = batch.meta /\ batch'.ev[s] = {}
         /\ \A t \in Slot \ {s} : batch'.ev[t] = batch.ev[t]
BY Zenon DEF IInv, Types, Handled

\* A handler that does not close the connection preserves the invariant when
\* it leaves the structure, its stream and its client in agreement.
LEMMA HandlerStep ==
  ASSUME IInv, NEW s \in tbl, Handled(s), UNCHANGED <<pool, tbl, cached>>,
         NEW c \in ConnState, NEW ev \in SUBSET {"IN", "OUT"}, NEW k \in Socket,
         NEW p \in Place, NEW g \in 0 .. Header + Body, Leaves(s, c, ev, k, p, g),
         Talks(c, k.rx, p, g), c.client = conn[s].client
  PROVE  IInv'
<1>1. Types /\ s \in Slot BY DEF IInv, Types
<1>2. /\ conn' \in [Slot -> ConnState] /\ conn'[s] = c
      /\ epoll' \in [Slot -> SUBSET {"IN", "OUT"}] /\ epoll'[s] = ev
  BY <1>1 DEF Types, Leaves
<1>3. sock' \in [Slot -> Socket] /\ sock'[s] = k BY <1>1 DEF Types, Leaves
<1>4. /\ client' \in [Slot -> Place] /\ client'[s] = p
      /\ got' \in [Slot -> 0 .. Header + Body] /\ got'[s] = g
  BY <1>1 DEF Types, Leaves
<1>5. Touched(s) BY <1>1, <1>2, <1>3, <1>4, HandledFacts DEF Touched
<1>6. Untouched(s) BY <1>1, HandledFacts DEF Untouched, Types, Leaves
<1>7. Queues BY <1>1, HandledFacts, Zenon DEF Queues, IInv, Types, Handled
<1> QED BY <1>5, <1>6, <1>7, SlotStep

\* A structure that leaves the response alone, or is not responding, still
\* agrees with its stream and its client.
LEMMA TalksOn ==
  ASSUME NEW c, NEW d, NEW q, NEW p, NEW g, NEW h, Talks(c, q, p, g),
         d.hdr = c.hdr, d.remain = c.remain, d.st # "HTTP_REQ_RECVED"
  PROVE  Talks(d, q, p, h)
BY DEF Talks, Cleared

\* A step that moves a structure to another state.
LEMMA StateFacts ==
  ASSUME NEW c \in ConnState, NEW st \in SockState
  PROVE  LET d == [c EXCEPT !.st = st] IN
         /\ d \in ConnState /\ d.st = st /\ d.client = c.client
         /\ d.hdr = c.hdr /\ d.remain = c.remain
BY DEF ConnState

\* An event that the state does not ask for.
LEMMA IgnoredStep ==
  ASSUME IInv, NEW s \in tbl, Handled(s), Ignored(s)
  PROVE  IInv'
<1>1. s \in Slot /\ Types BY DEF IInv, Types
<1>2. Leaves(s, conn[s], epoll[s], sock[s], client[s], got[s])
  BY <1>1 DEF Ignored, Types, Leaves
<1> QED BY <1>1, <1>2, SlotFacts, HandlerStep DEF Ignored

\* mig_tls_conn, whether TCP_ULP is accepted or refused.
LEMMA MigrateTlsStep ==
  ASSUME IInv, NEW s \in tbl, Handled(s), MigrateTls(s)
  PROVE  IInv'
<1>1. s \in Slot /\ Types BY DEF IInv, Types
<1>2. CASE UNCHANGED conn
  <2>1. Ignored(s) BY <1>2 DEF MigrateTls, Ignored
  <2> QED BY <2>1, IgnoredStep
<1>3. CASE conn' = [conn EXCEPT ![s].st = "CONNECTED"]
  <2> DEFINE d == [conn[s] EXCEPT !.st = "CONNECTED"]
  <2>1. /\ d \in ConnState /\ d.st = "CONNECTED" /\ d.client = conn[s].client
        /\ d.hdr = conn[s].hdr /\ d.remain = conn[s].remain
    BY <1>1, SlotFacts, StateFacts, Zenon DEF SockState
  <2>2. Leaves(s, d, epoll[s], sock[s], client[s], got[s])
    BY <1>1, <1>3 DEF MigrateTls, Types, Leaves
  <2> HIDE DEF d
  <2>3. Talks(d, sock[s].rx, client[s], got[s]) BY <1>1, <2>1, SlotFacts, TalksOn
  <2> QED BY <1>1, <2>1, <2>2, <2>3, SlotFacts, HandlerStep DEF MigrateTls
<1> QED BY <1>2, <1>3 DEF MigrateTls

\* send_mig_fin_to_arm from the loop, and the socket registered for input.
LEMMA SendMigFinStep ==
  ASSUME IInv, NEW s \in tbl, Handled(s), SendMigFin(s)
  PROVE  IInv'
<1>1. s \in Slot /\ Types BY DEF IInv, Types
<1> DEFINE d == [conn[s] EXCEPT !.st = "READY_TO_RECV"]
           p == IF client[s] = "none" THEN "idle" ELSE client[s]
<1>2. /\ d \in ConnState /\ d.st = "READY_TO_RECV" /\ d.client = conn[s].client
      /\ d.hdr = conn[s].hdr /\ d.remain = conn[s].remain
  BY <1>1, SlotFacts, StateFacts, Zenon DEF SockState
<1>3. Leaves(s, d, {"IN"}, sock[s], p, got[s]) /\ UNCHANGED <<pool, tbl, cached>>
  BY <1>1 DEF SendMigFin, send_mig_fin_to_arm, Set, Types, Leaves
<1>4. p \in Place /\ (p \in {"none", "idle", "part"} <=> client[s] \in {"none", "idle", "part"})
  BY <1>1, SlotFacts DEF Place
<1> HIDE DEF d, p
<1>5. Talks(d, sock[s].rx, client[s], got[s]) BY <1>1, <1>2, SlotFacts, TalksOn
<1>6. Talks(d, sock[s].rx, p, got[s]) BY <1>4, <1>5 DEF Talks
<1>7. {"IN"} \in SUBSET {"IN", "OUT"} OBVIOUS
<1> QED BY <1>1, <1>2, <1>3, <1>4, <1>6, <1>7, SlotFacts, HandlerStep

\* send_server_records: the handshake's last records once more.
LEMMA ResendStep ==
  ASSUME IInv, NEW s \in tbl, Handled(s), ResendRecords(s)
  PROVE  IInv'
<1>1. s \in Slot /\ Types BY DEF IInv, Types
<1> DEFINE d == [conn[s] EXCEPT !.st = "READY_TO_RECV"]
<1>2. /\ d \in ConnState /\ d.st = "READY_TO_RECV" /\ d.client = conn[s].client
      /\ d.hdr = conn[s].hdr /\ d.remain = conn[s].remain
  BY <1>1, SlotFacts, StateFacts, Zenon DEF SockState
<1>3. Leaves(s, d, {"IN"}, sock[s], client[s], got[s]) /\ UNCHANGED <<pool, tbl, cached>>
  BY <1>1 DEF ResendRecords, Set, Types, Leaves
<1> HIDE DEF d
<1>4. Talks(d, sock[s].rx, client[s], got[s]) BY <1>1, <1>2, SlotFacts, TalksOn
<1>5. {"IN"} \in SUBSET {"IN", "OUT"} OBVIOUS
<1> QED BY <1>1, <1>2, <1>3, <1>4, <1>5, SlotFacts, HandlerStep


\* handle_received_pkt and the loop's switch change the state of the structure
\* and, for a request, what the response will be.
LEMMA ReceivedFacts ==
  ASSUME IInv, NEW s \in tbl, conn[s].st = "READY_TO_RECV", NEW item \in Item, Received(s, item)
  PROVE  \E d \in ConnState, ev \in SUBSET {"IN", "OUT"} :
           /\ conn' = [conn EXCEPT ![s] = d] /\ epoll' = [epoll EXCEPT ![s] = ev]
           /\ d.hdr = conn[s].hdr /\ d.remain = conn[s].remain /\ d.client = conn[s].client
           /\ d.st = "HTTP_REQ_RECVED" => item \in Request
<1>1. /\ s \in Slot /\ conn \in [Slot -> ConnState] /\ epoll \in [Slot -> SUBSET {"IN", "OUT"}]
      /\ conn[s] \in ConnState /\ epoll[s] \in SUBSET {"IN", "OUT"}
  BY SlotFacts DEF IInv, Types
<1>2. ASSUME NEW keep \in BOOLEAN, NEW file \in BOOLEAN, item \in Request,
             Set(s, [conn[s] EXCEPT !.st = "HTTP_REQ_RECVED", !.keep = keep, !.file = file],
                 {"IN", "OUT"})
      PROVE  \E d \in ConnState, ev \in SUBSET {"IN", "OUT"} :
               /\ conn' = [conn EXCEPT ![s] = d] /\ epoll' = [epoll EXCEPT ![s] = ev]
               /\ d.hdr = conn[s].hdr /\ d.remain = conn[s].remain /\ d.client = conn[s].client
               /\ d.st = "HTTP_REQ_RECVED" => item \in Request
  <2> DEFINE d == [conn[s] EXCEPT !.st = "HTTP_REQ_RECVED", !.keep = keep, !.file = file]
  <2>1. /\ d \in ConnState /\ d.hdr = conn[s].hdr /\ d.remain = conn[s].remain
        /\ d.client = conn[s].client
    BY <1>1, Zenon DEF ConnState, SockState
  <2> QED BY <1>2, <2>1, Zenon DEF Set
<1>3. ASSUME NEW st \in SockState \ {"HTTP_REQ_RECVED"}, NEW ev \in SUBSET {"IN", "OUT"},
             Set(s, [conn[s] EXCEPT !.st = st], ev)
      PROVE  \E d \in ConnState, e \in SUBSET {"IN", "OUT"} :
               /\ conn' = [conn EXCEPT ![s] = d] /\ epoll' = [epoll EXCEPT ![s] = e]
               /\ d.hdr = conn[s].hdr /\ d.remain = conn[s].remain /\ d.client = conn[s].client
               /\ d.st = "HTTP_REQ_RECVED" => item \in Request
  <2> DEFINE d == [conn[s] EXCEPT !.st = st]
  <2>1. /\ d \in ConnState /\ d.st = st /\ d.client = conn[s].client
        /\ d.hdr = conn[s].hdr /\ d.remain = conn[s].remain
    BY <1>1, StateFacts
  <2> HIDE DEF d
  <2>2. conn' = [conn EXCEPT ![s] = d] /\ epoll' = [epoll EXCEPT ![s] = ev] BY <1>3 DEF Set, d
  <2> QED BY <2>1, <2>2, Zenon
<1>4. conn[s].keep \in BOOLEAN BY <1>1 DEF ConnState
<1>5. CASE item = "part" /\ UNCHANGED <<conn, epoll>>
  <2>1. conn' = [conn EXCEPT ![s] = conn[s]] /\ epoll' = [epoll EXCEPT ![s] = epoll[s]]
    BY <1>1, <1>5
  <2>2. conn[s].st # "HTTP_REQ_RECVED" OBVIOUS
  <2> QED BY <1>1, <2>1, <2>2, Zenon
<1>6. CASE item \in Request
  <2>1. \E keep, file \in BOOLEAN :
          Set(s, [conn[s] EXCEPT !.st = "HTTP_REQ_RECVED", !.keep = keep, !.file = file],
              {"IN", "OUT"})
    <3>1. CASE item = "req" BY <3>1, Zenon DEF Received
    <3>2. CASE item = "reqc" BY <3>2, Zenon DEF Received
    <3>3. CASE item = "big" BY <1>4, <3>3, Zenon DEF Received
    <3> QED BY <1>6, <3>1, <3>2, <3>3, Zenon DEF Request
  <2> QED BY <1>2, <1>6, <2>1, Zenon
<1>7. CASE item \in {"notify", "hs", "fin"}
  <2>1. \E st \in SockState \ {"HTTP_REQ_RECVED"}, ev \in SUBSET {"IN", "OUT"} :
          Set(s, [conn[s] EXCEPT !.st = st], ev)
    <3>1. /\ {"WAIT_TCP_FIN", "TLS_HS_RECVED", "ERRORED"} \subseteq SockState \ {"HTTP_REQ_RECVED"}
          /\ {{"IN", "OUT"}, {"OUT"}} \subseteq SUBSET {"IN", "OUT"}
      BY DEF SockState
    <3>2. CASE item = "notify" /\ Set(s, [conn[s] EXCEPT !.st = "WAIT_TCP_FIN"], {"IN", "OUT"})
      BY <3>1, <3>2
    <3>3. CASE item = "hs" /\ Set(s, [conn[s] EXCEPT !.st = "TLS_HS_RECVED"], {"OUT"})
      BY <3>1, <3>3
    <3>4. CASE item = "fin" /\ Set(s, [conn[s] EXCEPT !.st = "ERRORED"], {"OUT"})
      BY <3>1, <3>4
    <3> QED BY <1>7, <3>2, <3>3, <3>4, Zenon DEF Received
  <2> QED BY <1>3, <2>1
<1> QED BY <1>5, <1>6, <1>7, Zenon DEF Received, Item, Request

\* A record is read, or the reset is seen.
LEMMA ReceiveStep ==
  ASSUME IInv, NEW s \in tbl, Handled(s), conn[s].st = "READY_TO_RECV", Receive(s)
  PROVE  IInv'
<1> DEFINE rx == sock[s].rx
           q == IF Head(rx) = "fin" THEN rx ELSE Tail(rx)
           k == [sock[s] EXCEPT !.rx = q]
           g == IF Head(rx) \in Request THEN 0 ELSE got[s]
<1>1. /\ s \in Slot /\ Types /\ sock[s] \in Socket /\ rx \in Stream
      /\ UNCHANGED <<pool, tbl, cached, client>>
  BY SlotFacts DEF IInv, Types, Socket, Receive
<1>2. CASE rx # <<>>
  <2>1. /\ Received(s, Head(rx)) /\ sock' = [sock EXCEPT ![s].rx = q]
        /\ got' = [got EXCEPT ![s] = g]
    BY <1>1, <1>2 DEF Receive, Request, Types
  <2>2. Head(rx) \in Item /\ q \in Stream /\ ~Asks(q)
    BY <1>1, <1>2, StreamFacts DEF Asks, Request
  <2>3. PICK d \in ConnState, ev \in SUBSET {"IN", "OUT"} :
           /\ conn' = [conn EXCEPT ![s] = d] /\ epoll' = [epoll EXCEPT ![s] = ev]
           /\ d.hdr = conn[s].hdr /\ d.remain = conn[s].remain /\ d.client = conn[s].client
           /\ d.st = "HTTP_REQ_RECVED" => Head(rx) \in Request
    BY <2>1, <2>2, ReceivedFacts, Zenon
  <2>4. k \in Socket /\ k.rx = q /\ sock' = [sock EXCEPT ![s] = k]
    BY <1>1, <2>1, <2>2, Zenon DEF Socket, Types
  <2>5. g \in 0 .. Header + Body BY <1>1, SlotFacts, FreshFacts
  <2>6. client' = [client EXCEPT ![s] = client[s]] /\ client[s] \in Place BY <1>1 DEF Types
  <2>7. Head(rx) \in Request => /\ conn[s].hdr = 0 /\ conn[s].remain = 0
                                /\ client[s] \notin {"none", "idle", "part"} /\ g = 0
    BY <1>1, <1>2, SlotFacts DEF Talks, Cleared, Asks
  <2> HIDE DEF q, g, k
  <2>8. Leaves(s, d, ev, k, client[s], g) BY <2>1, <2>3, <2>4, <2>6, Zenon DEF Leaves
  <2>9. Talks(d, k.rx, client[s], g)
    <3>1. client[s] \in {"none", "idle", "part"} => Cleared(conn[s]) BY <1>1, SlotFacts DEF Talks
    <3>2. client[s] \in {"none", "idle", "part"} => Cleared(d) BY <2>3, <2>7, <3>1 DEF Cleared
    <3> QED BY <2>2, <2>3, <2>4, <2>7, <3>2 DEF Talks
  <2> QED BY <1>1, <2>3, <2>4, <2>5, <2>6, <2>8, <2>9, HandlerStep
<1>3. CASE rx = <<>>
  <2> DEFINE d == [conn[s] EXCEPT !.st = "ERRORED"]
  <2>1. /\ d \in ConnState /\ d.st = "ERRORED" /\ d.client = conn[s].client
        /\ d.hdr = conn[s].hdr /\ d.remain = conn[s].remain
    BY <1>1, SlotFacts, StateFacts, Zenon DEF SockState
  <2>2. Leaves(s, d, {"OUT"}, sock[s], client[s], got[s])
    BY <1>1, <1>3 DEF Receive, Set, Types, Leaves
  <2> HIDE DEF d
  <2>3. Talks(d, sock[s].rx, client[s], got[s]) BY <1>1, <2>1, SlotFacts, TalksOn
  <2>4. {"OUT"} \in SUBSET {"IN", "OUT"} OBVIOUS
  <2> QED BY <1>1, <2>1, <2>2, <2>3, <2>4, SlotFacts, HandlerStep
<1> QED BY <1>2, <1>3


\* What a send leaves: the structure d and n pieces sent in all.
Sends(s, d, n) ==
  /\ d \in ConnState /\ n \in 0 .. Header + Body
  /\ conn' = [conn EXCEPT ![s] = d] /\ Deliver(s, n)
  /\ d.client = conn[s].client
  /\ d.st = "HTTP_REQ_RECVED" =>
       /\ n = d.hdr + (IF d.remain = 0 THEN 0 ELSE Body - d.remain)
       /\ d.remain # 0 => d.hdr = Header /\ d.file
  /\ n = Pieces(s) /\ conn[s].keep => Cleared(d)
  /\ ~HdrBlocks /\ d.st = "READY_TO_RECV" => n = Pieces(s)

\* What is left of a response that is complete.
LEMMA DoneFacts ==
  ASSUME NEW c \in ConnState
  PROVE  /\ Done(c) \in ConnState /\ Done(c).st = "READY_TO_RECV" /\ Done(c).client = c.client
         /\ c.keep => Cleared(Done(c))
<1>1. "READY_TO_RECV" \in SockState /\ 0 \in 0 .. Header /\ 0 \in 0 .. Body
  BY HostAssumption DEF SockState, Header
<1>2. CASE c.keep
  <2> DEFINE d == reset_conn_for_next_req(c)
  <2>1. d \in ConnState /\ d.client = c.client /\ d.hdr = 0 /\ d.remain = 0
    BY <1>1, Zenon DEF reset_conn_for_next_req, ConnState
  <2>2. Done(c) = [d EXCEPT !.st = "READY_TO_RECV"] BY <1>2, Zenon DEF Done
  <2> HIDE DEF d
  <2>3. /\ Done(c) \in ConnState /\ Done(c).st = "READY_TO_RECV" /\ Done(c).client = d.client
        /\ Done(c).hdr = d.hdr /\ Done(c).remain = d.remain
    BY <1>1, <2>1, <2>2, StateFacts
  <2> QED BY <2>1, <2>3 DEF Cleared
<1>3. CASE ~c.keep
  <2> DEFINE d == [c EXCEPT !.remain = 0, !.fd = FALSE]
  <2>1. d \in ConnState /\ d.client = c.client BY <1>1, Zenon DEF ConnState
  <2>2. Done(c) = [d EXCEPT !.st = "READY_TO_RECV"] BY <1>3, Zenon DEF Done
  <2> HIDE DEF d
  <2>3. Done(c) \in ConnState /\ Done(c).st = "READY_TO_RECV" /\ Done(c).client = d.client
    BY <1>1, <2>1, <2>2, StateFacts
  <2> QED BY <1>3, <2>1, <2>3
<1> QED BY <1>2, <1>3

\* A structure that is responding and what its client has been sent.
LEMMA RespondingFacts ==
  ASSUME IInv, NEW s \in tbl, conn[s].st = "HTTP_REQ_RECVED"
  PROVE  /\ s \in Slot /\ conn[s] \in ConnState
         /\ conn[s].hdr \in 0 .. Header /\ conn[s].remain \in 0 .. Body /\ conn[s].file \in BOOLEAN
         /\ conn[s].keep \in BOOLEAN
         /\ got[s] = conn[s].hdr + (IF conn[s].remain = 0 THEN 0 ELSE Body - conn[s].remain)
         /\ conn[s].remain # 0 => conn[s].hdr = Header /\ conn[s].file
         /\ client[s] \notin {"none", "idle", "part"} /\ ~Asks(sock[s].rx)
<1>1. s \in Slot BY DEF IInv, Types
<1>2. conn[s] \in ConnState /\ Talks(conn[s], sock[s].rx, client[s], got[s]) BY <1>1, SlotFacts
<1>3. ~Cleared(conn[s]) BY DEF Cleared
<1>4. /\ conn[s].hdr \in 0 .. Header /\ conn[s].remain \in 0 .. Body /\ conn[s].file \in BOOLEAN
      /\ conn[s].keep \in BOOLEAN
  BY <1>2 DEF ConnState
<1> QED BY <1>1, <1>2, <1>3, <1>4 DEF Talks

\* The send ends with the header: the response has no file, or the header was
\* cut short.
LEMMA HeaderOnly ==
  ASSUME IInv, NEW s \in tbl, conn[s].st = "HTTP_REQ_RECVED",
         NEW h \in conn[s].hdr .. Header, HdrBlocks \/ h = Header, h < Header \/ ~conn[s].file,
         conn' = [conn EXCEPT ![s] = AfterHeader([conn[s] EXCEPT !.hdr = h])],
         Deliver(s, got[s] + h - conn[s].hdr)
  PROVE  \E d, n : Sends(s, d, n)
<1> DEFINE c == [conn[s] EXCEPT !.hdr = h]
           d == AfterHeader(c)
<1>0. /\ s \in Slot /\ conn[s] \in ConnState
      /\ conn[s].hdr \in 0 .. Header /\ conn[s].remain \in 0 .. Body /\ conn[s].file \in BOOLEAN
      /\ got[s] = conn[s].hdr + (IF conn[s].remain = 0 THEN 0 ELSE Body - conn[s].remain)
      /\ conn[s].remain # 0 => conn[s].hdr = Header /\ conn[s].file
  BY RespondingFacts
<1>1. h \in 0 .. Header /\ h \in Nat /\ Body \in Nat /\ Body # 0 BY <1>0, HostAssumption DEF Header
<1>2. conn[s].remain = 0 BY <1>0, <1>1 DEF Header
<1>3. got[s] + h - conn[s].hdr = h BY <1>0, <1>1, <1>2 DEF Header
<1>4. /\ c \in ConnState /\ c.hdr = h /\ c.client = conn[s].client /\ c.keep = conn[s].keep
  BY <1>0, <1>1 DEF ConnState
<1>5. h = Pieces(s) <=> h = Header /\ ~conn[s].file
  BY <1>0, <1>1 DEF Pieces, Header
<1>6. h \in 0 .. Header + Body BY <1>1 DEF Header
<1> HIDE DEF c
<1>7. /\ d \in ConnState /\ d.st = "READY_TO_RECV" /\ d.client = conn[s].client
      /\ h = Header /\ conn[s].keep => Cleared(d)
  <2>1. CASE h = Header
    <3>1. d = Done(c) BY <1>4, <2>1 DEF AfterHeader
    <3> QED BY <1>4, <3>1, DoneFacts
  <2>2. CASE h # Header
    <3>1. d = [c EXCEPT !.st = "READY_TO_RECV"] BY <1>4, <2>2 DEF AfterHeader
    <3>2. "READY_TO_RECV" \in SockState BY DEF SockState
    <3>3. d \in ConnState /\ d.st = "READY_TO_RECV" /\ d.client = c.client
      BY <1>4, <3>1, <3>2, StateFacts
    <3> QED BY <1>4, <2>2, <3>3
  <2> QED BY <2>1, <2>2
<1>8. conn' = [conn EXCEPT ![s] = d] BY DEF c
<1>9. Deliver(s, h) BY <1>3
<1> HIDE DEF d
<1>10. ~HdrBlocks => h = Pieces(s) BY <1>5 DEF Header
<1>11. h = Pieces(s) /\ conn[s].keep => Cleared(d) BY <1>5, <1>7
<1>12. Sends(s, d, h) BY <1>6, <1>7, <1>8, <1>9, <1>10, <1>11, Zenon DEF Sends
<1> QED BY <1>12


\* The numbers of a file's send: r pieces were left (0: the file was not
\* begun), k more are out now.
LEMMA FileNumbers ==
  ASSUME NEW hdr \in 0 .. Header, NEW r \in 0 .. Body, NEW g, r # 0 => hdr = Header,
         g = hdr + (IF r = 0 THEN 0 ELSE Body - r),
         NEW k \in 0 .. (IF r = 0 THEN Body ELSE r)
  PROVE  LET left == (IF r = 0 THEN Body ELSE r) - k IN
         /\ left \in 0 .. Body
         /\ g + Header - hdr + k = Header + (Body - left)
         /\ Header + (Body - left) \in 0 .. Header + Body
         /\ Header + (Body - left) = Header + Body <=> left = 0
<1>1. Body \in Nat BY HostAssumption
<1>2. CASE r = 0 BY <1>1, <1>2 DEF Header
<1>3. CASE r # 0 BY <1>1, <1>3 DEF Header
<1> QED BY <1>2, <1>3

\* The send reaches the file.
LEMMA FilePart ==
  ASSUME IInv, NEW s \in tbl, conn[s].st = "HTTP_REQ_RECVED", conn[s].file,
         NEW k \in 0 .. (IF conn[s].remain = 0 THEN Body ELSE conn[s].remain),
         conn' = [conn EXCEPT ![s] = IF FileSent(conn[s], k).remain = 0
                                     THEN Done(FileSent(conn[s], k)) ELSE FileSent(conn[s], k)],
         Deliver(s, got[s] + Header - conn[s].hdr + k)
  PROVE  \E d, n : Sends(s, d, n)
<1> DEFINE left == (IF conn[s].remain = 0 THEN Body ELSE conn[s].remain) - k
           n == Header + (Body - left)
           f == FileSent(conn[s], k)
           d == IF f.remain = 0 THEN Done(f) ELSE f
<1>0. /\ s \in Slot /\ conn[s] \in ConnState
      /\ conn[s].hdr \in 0 .. Header /\ conn[s].remain \in 0 .. Body
      /\ got[s] = conn[s].hdr + (IF conn[s].remain = 0 THEN 0 ELSE Body - conn[s].remain)
      /\ conn[s].remain # 0 => conn[s].hdr = Header
  BY RespondingFacts
<1>1. /\ left \in 0 .. Body /\ got[s] + Header - conn[s].hdr + k = n
      /\ n \in 0 .. Header + Body /\ (n = Header + Body <=> left = 0)
  BY <1>0, FileNumbers
<1>2. Pieces(s) = Header + Body BY DEF Pieces
<1>3. Header \in 0 .. Header BY DEF Header
<1>4. f = [conn[s] EXCEPT !.hdr = Header, !.remain = left, !.fd = TRUE]
  BY <1>0 DEF FileSent, ConnState
<1> HIDE DEF left
<1>5. /\ f \in ConnState /\ f.remain = left /\ f.hdr = Header /\ f.client = conn[s].client
      /\ f.keep = conn[s].keep /\ f.file = conn[s].file /\ f.st = conn[s].st
  <2>1. left \in 0 .. Body BY <1>1
  <2> HIDE DEF f
  <2> QED BY <1>0, <1>3, <1>4, <2>1, Zenon DEF ConnState
<1> HIDE DEF n, f
<1>6. Deliver(s, n) /\ conn' = [conn EXCEPT ![s] = d] BY <1>1 DEF f
<1>7. CASE left = 0
  <2>1. d = Done(f) BY <1>5, <1>7
  <2>2. /\ d \in ConnState /\ d.st = "READY_TO_RECV" /\ d.client = conn[s].client
        /\ conn[s].keep => Cleared(d)
    BY <1>5, <2>1, DoneFacts
  <2> HIDE DEF d
  <2>3. n = Pieces(s) BY <1>1, <1>2, <1>7
  <2>4. Sends(s, d, n) BY <1>1, <1>6, <2>2, <2>3, Zenon DEF Sends
  <2> QED BY <2>4
<1>8. CASE left # 0
  <2>1. d = f BY <1>5, <1>8
  <2> HIDE DEF d
  <2>2. n # Pieces(s) BY <1>1, <1>2, <1>8
  <2>3. n = d.hdr + (IF d.remain = 0 THEN 0 ELSE Body - d.remain)
    BY <1>5, <1>8, <2>1 DEF n
  <2>4. d \in ConnState /\ d.client = conn[s].client /\ d.st # "READY_TO_RECV"
        /\ d.hdr = Header /\ d.file
    BY <1>5, <2>1, Zenon
  <2>5. Sends(s, d, n) BY <1>1, <1>6, <2>2, <2>3, <2>4, Zenon DEF Sends
  <2> QED BY <2>5
<1> QED BY <1>7, <1>8

\* The cached descriptor is closed.
LEMMA FileGone ==
  ASSUME IInv, NEW s \in tbl, conn[s].st = "HTTP_REQ_RECVED", conn[s].file,
         conn' = [conn EXCEPT ![s] = [conn[s] EXCEPT !.hdr = Header, !.fd = TRUE, !.st = "ERRORED"]],
         Deliver(s, got[s] + Header - conn[s].hdr)
  PROVE  \E d, n : Sends(s, d, n)
<1> DEFINE n == got[s] + Header - conn[s].hdr
           d == [conn[s] EXCEPT !.hdr = Header, !.fd = TRUE, !.st = "ERRORED"]
<1>0. /\ s \in Slot /\ conn[s] \in ConnState
      /\ conn[s].hdr \in 0 .. Header /\ conn[s].remain \in 0 .. Body
      /\ got[s] = conn[s].hdr + (IF conn[s].remain = 0 THEN 0 ELSE Body - conn[s].remain)
  BY RespondingFacts
<1>1. n = Header + (IF conn[s].remain = 0 THEN 0 ELSE Body - conn[s].remain)
  BY <1>0, HostAssumption DEF Header
<1> HIDE DEF n
<1>2. n \in 0 .. Header + Body /\ n # Header + Body
  <2>1. Body \in Nat /\ Body # 0 BY HostAssumption
  <2>2. CASE conn[s].remain = 0 BY <1>1, <2>1, <2>2 DEF Header
  <2>3. CASE conn[s].remain # 0 BY <1>0, <1>1, <2>1, <2>3 DEF Header
  <2> QED BY <2>2, <2>3
<1>3. Pieces(s) = Header + Body BY DEF Pieces
<1>4. d \in ConnState /\ d.st = "ERRORED" /\ d.client = conn[s].client
  <2>1. Header \in 0 .. Header /\ "ERRORED" \in SockState BY DEF Header, SockState
  <2> QED BY <1>0, <2>1, Zenon DEF ConnState
<1>5. conn' = [conn EXCEPT ![s] = d] /\ Deliver(s, n) BY DEF n
<1> HIDE DEF d
<1>6. Sends(s, d, n) BY <1>2, <1>3, <1>4, <1>5, Zenon DEF Sends
<1> QED BY <1>6

\* send_https_resp on a socket that takes data, by what it gets out.
LEMMA RespondFacts ==
  ASSUME IInv, NEW s \in tbl, conn[s].st = "HTTP_REQ_RECVED", Respond(s)
  PROVE  /\ \E d, n : Sends(s, d, n)
         /\ \E ev \in SUBSET {"IN", "OUT"} : epoll' = [epoll EXCEPT ![s] = ev]
<1>1. PICK h \in IF HdrBlocks THEN conn[s].hdr .. Header ELSE {Header} :
       \/ /\ h < Header \/ ~conn[s].file
          /\ Set(s, AfterHeader([conn[s] EXCEPT !.hdr = h]), {"IN"})
          /\ Deliver(s, got[s] + h - conn[s].hdr)
       \/ /\ h = Header /\ conn[s].file /\ cached
          /\ \E k \in 0 .. (IF conn[s].remain = 0 THEN Body ELSE conn[s].remain) :
               LET f == FileSent(conn[s], k) IN
               /\ IF f.remain = 0 THEN Set(s, Done(f), {"IN"}) ELSE Set(s, f, epoll[s])
               /\ Deliver(s, got[s] + h - conn[s].hdr + k)
       \/ /\ h = Header /\ conn[s].file /\ ~cached
          /\ Set(s, [conn[s] EXCEPT !.hdr = Header, !.fd = TRUE, !.st = "ERRORED"], epoll[s])
          /\ Deliver(s, got[s] + h - conn[s].hdr)
  BY DEF Respond
<1>2. /\ s \in Slot /\ epoll[s] \in SUBSET {"IN", "OUT"} /\ {"IN"} \in SUBSET {"IN", "OUT"}
      /\ conn[s].hdr \in 0 .. Header
  BY SlotFacts, RespondingFacts
<1>3. h \in conn[s].hdr .. Header /\ (HdrBlocks \/ h = Header) BY <1>1, <1>2 DEF Header
<1>4. CASE /\ h < Header \/ ~conn[s].file
           /\ Set(s, AfterHeader([conn[s] EXCEPT !.hdr = h]), {"IN"})
           /\ Deliver(s, got[s] + h - conn[s].hdr)
  <2>1. \E d, n : Sends(s, d, n) BY <1>3, <1>4, HeaderOnly, Zenon DEF Set
  <2> QED BY <1>2, <1>4, <2>1, Zenon DEF Set
<1>5. CASE /\ h = Header /\ conn[s].file
           /\ \E k \in 0 .. (IF conn[s].remain = 0 THEN Body ELSE conn[s].remain) :
                LET f == FileSent(conn[s], k) IN
                /\ IF f.remain = 0 THEN Set(s, Done(f), {"IN"}) ELSE Set(s, f, epoll[s])
                /\ Deliver(s, got[s] + h - conn[s].hdr + k)
  <2>1. PICK k \in 0 .. (IF conn[s].remain = 0 THEN Body ELSE conn[s].remain) :
          /\ IF FileSent(conn[s], k).remain = 0 THEN Set(s, Done(FileSent(conn[s], k)), {"IN"})
             ELSE Set(s, FileSent(conn[s], k), epoll[s])
          /\ Deliver(s, got[s] + Header - conn[s].hdr + k)
    BY <1>5
  <2>2. conn' = [conn EXCEPT ![s] = IF FileSent(conn[s], k).remain = 0
                                    THEN Done(FileSent(conn[s], k)) ELSE FileSent(conn[s], k)]
    BY <2>1 DEF Set
  <2>3. epoll' = [epoll EXCEPT ![s] = {"IN"}] \/ epoll' = [epoll EXCEPT ![s] = epoll[s]]
    BY <2>1 DEF Set
  <2>4. \E d, n : Sends(s, d, n) BY <1>5, <2>1, <2>2, FilePart, Zenon
  <2> QED BY <1>2, <2>3, <2>4
<1>6. CASE /\ h = Header /\ conn[s].file
           /\ Set(s, [conn[s] EXCEPT !.hdr = Header, !.fd = TRUE, !.st = "ERRORED"], epoll[s])
           /\ Deliver(s, got[s] + h - conn[s].hdr)
  <2>1. \E d, n : Sends(s, d, n) BY <1>6, FileGone, Zenon DEF Set
  <2> QED BY <1>2, <1>6, <2>1, Zenon DEF Set
<1> QED BY <1>1, <1>4, <1>5, <1>6, Zenon


\* send_https_resp gets something out, or finds the descriptor closed.
LEMMA RespondStep ==
  ASSUME IInv, NEW s \in tbl, Handled(s), conn[s].st = "HTTP_REQ_RECVED", Respond(s)
  PROVE  IInv'
<1>1. PICK d, n : Sends(s, d, n) BY RespondFacts
<1>2. PICK ev \in SUBSET {"IN", "OUT"} : epoll' = [epoll EXCEPT ![s] = ev] BY RespondFacts
<1> DEFINE p == IF n = Pieces(s) /\ client[s] = "wait"
                THEN IF conn[s].keep THEN "idle" ELSE "over" ELSE client[s]
<1>3. /\ s \in Slot /\ Types /\ sock[s] \in Socket /\ client[s] \in Place
      /\ UNCHANGED <<pool, tbl, cached, sock>>
  BY SlotFacts DEF IInv, Types, Respond
<1>4. client[s] \notin {"none", "idle", "part"} /\ ~Asks(sock[s].rx) BY RespondingFacts
<1>5. p \in Place /\ (p \in {"none", "idle", "part"} => n = Pieces(s) /\ conn[s].keep)
  BY <1>3, <1>4 DEF Place
<1>6. Leaves(s, d, ev, sock[s], p, n)
  <2>1. conn' = [conn EXCEPT ![s] = d] /\ got' = [got EXCEPT ![s] = n] BY <1>1 DEF Sends, Deliver
  <2>2. client' = [client EXCEPT ![s] = p] BY <1>1, <1>3 DEF Sends, Deliver, Types
  <2>3. sock' = [sock EXCEPT ![s] = sock[s]] BY <1>3 DEF Types
  <2> QED BY <1>2, <2>1, <2>2, <2>3, Zenon DEF Leaves
<1> HIDE DEF p
<1>7. Talks(d, sock[s].rx, p, n) BY <1>1, <1>4, <1>5 DEF Sends, Talks
<1>8. d \in ConnState /\ n \in 0 .. Header + Body /\ d.client = conn[s].client
  BY <1>1 DEF Sends
<1> QED BY <1>3, <1>5, <1>6, <1>7, <1>8, HandlerStep

\* send_https_resp on a socket that was reset.
LEMMA RespondFailsStep ==
  ASSUME IInv, NEW s \in tbl, Handled(s), RespondFails(s)
  PROVE  IInv'
<1> DEFINE d == [conn[s] EXCEPT !.st = "ERRORED",
                                !.fd = @ \/ (conn[s].hdr = Header /\ conn[s].file)]
<1>1. s \in Slot /\ Types /\ conn[s] \in ConnState BY SlotFacts DEF IInv, Types
<1>2. /\ d \in ConnState /\ d.st = "ERRORED" /\ d.client = conn[s].client
      /\ d.hdr = conn[s].hdr /\ d.remain = conn[s].remain
  BY <1>1, Zenon DEF ConnState, SockState
<1>3. Leaves(s, d, epoll[s], sock[s], client[s], got[s]) /\ UNCHANGED <<pool, tbl, cached>>
  BY <1>1, Zenon DEF RespondFails, Types, Leaves
<1> HIDE DEF d
<1>4. Talks(d, sock[s].rx, client[s], got[s]) BY <1>1, <1>2, SlotFacts, TalksOn
<1> QED BY <1>1, <1>2, <1>3, <1>4, SlotFacts, HandlerStep

\* A structure of the hash table goes back on the stack, or the top of the
\* stack goes into the hash table.
LEMMA PushFacts ==
  ASSUME NEW q \in Seq(Slot), NEW s \in Slot, Distinct(q), ~Stacked(q, s)
  PROVE  /\ Append(q, s) \in Seq(Slot) /\ Distinct(Append(q, s))
         /\ \A t \in Slot : Stacked(Append(q, s), t) <=> t = s \/ Stacked(q, t)
<1> DEFINE r == Append(q, s)
<1>1. /\ r \in Seq(Slot) /\ Len(r) = Len(q) + 1 /\ Len(q) \in Nat
      /\ \A i \in 1 .. Len(q) : r[i] = q[i]
      /\ r[Len(q) + 1] = s
  <2>1. Len(q) \in Nat BY LenProperties
  <2>2. r \in Seq(Slot) /\ Len(r) = Len(q) + 1 BY AppendProperties
  <2>3. \A i \in 1 .. Len(q) : r[i] = q[i] BY AppendProperties
  <2>4. r[Len(q) + 1] = s BY AppendProperties
  <2> QED BY <2>1, <2>2, <2>3, <2>4, Zenon
<1>2. DOMAIN q = 1 .. Len(q) /\ DOMAIN r = 1 .. Len(q) + 1 BY <1>1, LenProperties
<1> HIDE DEF r
<1>3. \A i \in DOMAIN r : i = Len(q) + 1 \/ i \in DOMAIN q BY <1>1, <1>2
<1>4. \A i \in DOMAIN q : i \in DOMAIN r /\ r[i] = q[i] BY <1>1, <1>2
<1>5. Len(q) + 1 \in DOMAIN r BY <1>1, <1>2
<1>6. ASSUME NEW i \in DOMAIN r, NEW j \in DOMAIN r, r[i] = r[j] PROVE i = j
  BY <1>1, <1>3, <1>4, <1>6 DEF Distinct, Stacked
<1>7. ASSUME NEW t \in Slot PROVE Stacked(r, t) <=> t = s \/ Stacked(q, t)
  BY <1>1, <1>3, <1>4, <1>5 DEF Stacked
<1>8. Distinct(r) BY <1>6 DEF Distinct
<1> QED BY <1>1, <1>7, <1>8, Zenon DEF r

LEMMA PopFacts ==
  ASSUME NEW q \in Seq(Slot), q # <<>>, Distinct(q)
  PROVE  /\ SubSeq(q, 1, Len(q) - 1) \in Seq(Slot) /\ Distinct(SubSeq(q, 1, Len(q) - 1))
         /\ q[Len(q)] \in Slot /\ Stacked(q, q[Len(q)])
         /\ \A t \in Slot :
              Stacked(SubSeq(q, 1, Len(q) - 1), t) <=> t # q[Len(q)] /\ Stacked(q, t)
<1> DEFINE r == SubSeq(q, 1, Len(q) - 1)
           s == q[Len(q)]
<1>1. Len(q) \in Nat /\ Len(q) # 0 /\ DOMAIN q = 1 .. Len(q) BY LenProperties, EmptySeq
<1>2. /\ r \in Seq(Slot) /\ Len(r) = Len(q) - 1
      /\ \A i \in 1 .. Len(q) - 1 : r[i] = q[i]
  BY <1>1, SubSeqProperties
<1>3. DOMAIN r = 1 .. Len(q) - 1 BY <1>2, LenProperties
<1>4. s \in Slot /\ Len(q) \in DOMAIN q BY <1>1
<1> HIDE DEF r
<1>5. \A i \in DOMAIN r : i \in DOMAIN q /\ r[i] = q[i] /\ i # Len(q) BY <1>1, <1>2, <1>3
<1>6. \A i \in DOMAIN q : i # Len(q) => i \in DOMAIN r BY <1>1, <1>3
<1>7. Distinct(r) BY <1>5 DEF Distinct
<1>8. ASSUME NEW t \in Slot PROVE Stacked(r, t) <=> t # s /\ Stacked(q, t)
  <2>1. ASSUME NEW i \in DOMAIN r, r[i] = t PROVE t # s /\ Stacked(q, t)
    BY <1>4, <1>5, <2>1 DEF Distinct, Stacked
  <2>2. ASSUME t # s, NEW i \in DOMAIN q, q[i] = t PROVE Stacked(r, t)
    BY <1>5, <1>6, <2>2 DEF Stacked
  <2> QED BY <2>1, <2>2 DEF Stacked
<1>9. Stacked(q, s) BY <1>4 DEF Stacked
<1> QED BY <1>2, <1>4, <1>7, <1>8, <1>9 DEF r


\* What a structure, its socket and its client are after a step that takes the
\* structure from the stack or gives it back.
Moved(s) ==
  /\ conn' \in [Slot -> ConnState] /\ epoll' \in [Slot -> SUBSET {"IN", "OUT"}]
  /\ sock' \in [Slot -> Socket] /\ client' \in [Slot -> Place]
  /\ got' \in [Slot -> 0 .. Header + Body]
  /\ Talks(conn'[s], sock'[s].rx, client'[s], got'[s])
  /\ batch'.ev[s] = {}

\* close_tcp_conn: the structure, cleared, goes back on the stack.
LEMMA CloseStep ==
  ASSUME IInv, NEW s \in tbl, Handled(s), close_tcp_conn(s)
  PROVE  IInv'
<1>1. Types /\ Shared /\ EventsAreLive /\ s \in Slot BY DEF IInv, Types
<1>2. /\ conn' = [conn EXCEPT ![s] = Fresh] /\ epoll' = [epoll EXCEPT ![s] = {}]
      /\ sock' = [sock EXCEPT ![s] = NoSocket] /\ client' = [client EXCEPT ![s] = "none"]
      /\ got' = [got EXCEPT ![s] = 0] /\ tbl' = tbl \ {s} /\ pool' = Append(pool, s)
      /\ cached' = (cached /\ ~conn[s].fd)
  BY DEF close_tcp_conn, conn_state_free, Set
<1>3. /\ pool' \in Seq(Slot) /\ Distinct(pool')
      /\ \A t \in Slot : Stacked(pool', t) <=> t = s \/ Stacked(pool, t)
  <2>1. pool \in Seq(Slot) /\ Distinct(pool) /\ ~Stacked(pool, s) BY <1>1 DEF Types, Shared
  <2> QED BY <1>1, <1>2, <2>1, PushFacts
<1>4. Moved(s)
  <2>1. conn' \in [Slot -> ConnState] /\ conn'[s] = Fresh BY <1>1, <1>2, FreshFacts DEF Types
  <2>2. epoll' \in [Slot -> SUBSET {"IN", "OUT"}] BY <1>1, <1>2 DEF Types
  <2>3. sock' \in [Slot -> Socket] /\ sock'[s].rx = <<>> BY <1>1, <1>2, FreshFacts DEF Types
  <2>4. client' \in [Slot -> Place] BY <1>1, <1>2 DEF Types, Place
  <2>5. got' \in [Slot -> 0 .. Header + Body] BY <1>1, <1>2, FreshFacts DEF Types
  <2>6. \A p, g : Talks(Fresh, <<>>, p, g) BY FreshFacts, StreamFacts DEF Talks, Cleared
  <2> QED BY <1>1, <2>1, <2>2, <2>3, <2>4, <2>5, <2>6, HandledFacts DEF Moved
<1>5. Untouched(s) BY <1>1, <1>2, HandledFacts DEF Untouched, Types
<1>6. Idle(s)' BY <1>1, <1>2 DEF Idle, Types
<1>7. cached' \in BOOLEAN BY <1>2
<1>8. Queues BY <1>1, <1>7, HandledFacts, Zenon DEF Queues, IInv, Types, Handled
<1>9. Types' BY <1>1, <1>2, <1>3, <1>4, <1>8 DEF Types, Moved, Queues
<1>10. Shared'
  <2>1. \A t \in tbl' : t \in tbl /\ t \in Slot /\ conn'[t] = conn[t]
    BY <1>1, <1>2, <1>5 DEF Types, Untouched
  <2>2. \A t, u \in tbl' : conn'[t].client = conn'[u].client => t = u BY <1>1, <2>1 DEF Shared
  <2>3. \A t \in Slot : t \in tbl' <=> ~Stacked(pool', t)
    BY <1>1, <1>2, <1>3 DEF Shared
  <2> QED BY <1>3, <2>2, <2>3 DEF Shared
<1>11. EventsAreLive' BY <1>1, <1>2, <1>4, <1>5 DEF EventsAreLive, Untouched, Moved
<1>12. ASSUME NEW t \in Slot \ tbl' PROVE Idle(t)'
  <2>1. CASE t = s BY <1>6, <2>1
  <2>2. CASE t # s
    <3>1. Idle(t) BY <1>2, <2>2 DEF IInv
    <3> QED BY <1>5, <2>2, <3>1 DEF Idle, Untouched
  <2> QED BY <2>1, <2>2
<1>13. ASSUME NEW t \in Slot PROVE Talk(t)'
  <2>1. Talk(t) BY DEF IInv
  <2>2. CASE t = s BY <1>4, <2>2 DEF Talk, Moved
  <2>3. CASE t # s BY <1>5, <2>1, <2>3 DEF Talk, Untouched
  <2> QED BY <2>2, <2>3
<1> QED BY <1>8, <1>9, <1>10, <1>11, <1>12, <1>13 DEF IInv, Queues

\* A structure from the top of the stack goes into the hash table for a client
\* that is not in it.
LEMMA TakeStep ==
  ASSUME IInv, Queues, pool # <<>>, NEW s, s = pool[Len(pool)],
         pool' = SubSeq(pool, 1, Len(pool) - 1), tbl' = tbl \cup {s},
         Untouched(s), Moved(s), \A t \in tbl : conn[t].client # conn'[s].client
  PROVE  IInv'
<1>1. Types /\ Shared /\ EventsAreLive BY DEF IInv
<1>2. /\ pool' \in Seq(Slot) /\ Distinct(pool') /\ s \in Slot /\ s \notin tbl
      /\ \A t \in Slot : Stacked(pool', t) <=> t # s /\ Stacked(pool, t)
  <2>1. pool \in Seq(Slot) /\ Distinct(pool) BY <1>1 DEF Types, Shared
  <2>2. s \in Slot /\ Stacked(pool, s) BY <2>1, PopFacts
  <2>3. s \notin tbl BY <1>1, <2>2 DEF Shared
  <2> QED BY <2>1, <2>2, <2>3, PopFacts
<1>3. Types' BY <1>1, <1>2 DEF Types, Moved, Queues
<1>4. Shared'
  <2>1. \A t \in tbl : t \in Slot /\ t # s /\ conn'[t] = conn[t] BY <1>1, <1>2 DEF Types, Untouched
  <2>2. \A t, u \in tbl' : conn'[t].client = conn'[u].client => t = u BY <1>1, <2>1 DEF Shared
  <2>3. \A t \in Slot : t \in tbl' <=> ~Stacked(pool', t)
    BY <1>1, <1>2 DEF Shared
  <2> QED BY <1>2, <2>2, <2>3 DEF Shared
<1>5. EventsAreLive' BY <1>1, Zenon DEF EventsAreLive, Untouched, Moved
<1>6. ASSUME NEW t \in Slot \ tbl' PROVE Idle(t)'
  <2>1. t # s /\ Idle(t) BY DEF IInv
  <2> QED BY <2>1 DEF Idle, Untouched
<1>7. ASSUME NEW t \in Slot PROVE Talk(t)'
  <2>1. Talk(t) BY DEF IInv
  <2>2. CASE t = s BY <2>2 DEF Talk, Moved
  <2>3. CASE t # s BY <2>1, <2>3 DEF Talk, Untouched
  <2> QED BY <2>2, <2>3
<1> QED BY <1>3, <1>4, <1>5, <1>6, <1>7 DEF IInv, Queues

\* A step that leaves the structures alone.
LEMMA QuietStep ==
  ASSUME IInv, Queues, UNCHANGED <<pool, tbl, conn, epoll, sock, client, got>>,
         \A s \in Slot : batch'.ev[s] \subseteq epoll[s]
  PROVE  IInv'
<1>1. Types /\ Shared BY DEF IInv
<1>2. Types' BY <1>1 DEF Types, Queues
<1>3. Shared' BY <1>1 DEF Shared
<1>4. \A s \in Slot \ tbl' : Idle(s)' BY DEF IInv, Idle
<1>5. \A s \in Slot : Talk(s)' BY DEF IInv, Talk
<1>6. EventsAreLive'
  <2>1. \A s \in Slot : epoll[s] # {} => s \in tbl BY SlotFacts
  <2> QED BY <2>1 DEF EventsAreLive
<1> QED BY <1>2, <1>3, <1>4, <1>5, <1>6 DEF IInv, Queues


\* One key meta packet is taken from the meta socket.
MetaTaken ==
  /\ batch.meta /\ batch' = [batch EXCEPT !.meta = FALSE] /\ metaq' = Tail(metaq)
  /\ UNCHANGED <<cached, last>>

LEMMA MetaFacts ==
  ASSUME IInv, MetaTaken, crashed' \in BOOLEAN
  PROVE  Queues /\ batch'.ev = batch.ev /\ Head(metaq) \in KeyMeta
<1>1. Types /\ metaq # <<>> BY DEF IInv, MetaTaken
<1>2. /\ Head(metaq) \in KeyMeta /\ Tail(metaq) \in Seq(KeyMeta)
      /\ Len(Tail(metaq)) = Len(metaq) - 1 /\ Len(metaq) \in Nat
  BY <1>1, HeadTailProperties, LenProperties DEF Types
<1>3. metaq' \in Seq(KeyMeta) /\ Len(metaq') <= MaxQueue
  BY <1>1, <1>2, HostAssumption DEF Types, MetaTaken
<1>4. /\ batch' \in [meta : BOOLEAN, ev : [Slot -> SUBSET {"IN", "OUT"}]]
      /\ batch'.ev = batch.ev /\ ~batch'.meta
  BY <1>1, Zenon DEF Types, MetaTaken
<1> QED BY <1>1, <1>2, <1>3, <1>4 DEF Types, Queues, MetaTaken

\* handle_key_packet answers a packet for a client that has a connection.
LEMMA KeyExistingStep ==
  ASSUME IInv, MetaTaken, NEW s \in tbl, KeyExisting(s)
  PROVE  IInv'
<1>1. /\ s \in Slot /\ Types /\ UNCHANGED <<pool, tbl, conn, epoll, sock, got, crashed>>
      /\ client' = [client EXCEPT ![s] = IF @ = "none" THEN "idle" ELSE @]
  BY DEF IInv, Types, KeyExisting, send_mig_fin_to_arm
<1>2. Queues /\ batch'.ev = batch.ev BY <1>1, MetaFacts DEF Types
<1>3. client' \in [Slot -> Place] BY <1>1 DEF Types, Place
<1>4. client'[s] \in {"none", "idle", "part"} => client[s] \in {"none", "idle", "part"}
  BY <1>1 DEF Types
<1>5. Talks(conn[s], sock[s].rx, client'[s], got[s]) BY <1>1, <1>4, SlotFacts DEF Talks
<1>6. batch.ev[s] \subseteq epoll[s] BY <1>1, SlotFacts
<1>7. Touched(s) BY <1>1, <1>2, <1>3, <1>5, <1>6 DEF Touched, Types
<1>8. Untouched(s) BY <1>1, <1>2 DEF Untouched, Types
<1> QED BY <1>1, <1>2, <1>7, <1>8, SlotStep

\* handle_key_packet opens a connection, or takes the structure back.
LEMMA KeyNewStep ==
  ASSUME IInv, MetaTaken, NEW m, m = Head(metaq), ~Connected(m.client), pool # <<>>,
         KeyNew(m, pool[Len(pool)])
  PROVE  IInv'
<1> DEFINE s == pool[Len(pool)]
           c == [Fresh EXCEPT !.client = m.client, !.id = m.id]
           d == [c EXCEPT !.st = "INIT"]
<1>1. Types /\ Shared BY DEF IInv
<1>2. s \in Slot /\ s \notin tbl
  <2>1. s \in Slot /\ Stacked(pool, s) BY <1>1, PopFacts DEF Types, Shared
  <2> QED BY <1>1, <2>1 DEF Shared
<1>3. Idle(s) /\ batch.ev[s] = {} BY <1>2, SlotFacts DEF IInv
<1>4. crashed' = crashed BY DEF KeyNew
<1>5. Queues /\ batch'.ev = batch.ev /\ m \in KeyMeta BY <1>1, <1>4, MetaFacts DEF Types
<1>6. m.client \in Client /\ m.id \in 0 .. MaxId BY <1>5, HostAssumption DEF KeyMeta
<1>7. /\ c \in ConnState /\ c.client = m.client /\ Cleared(c)
  BY <1>6, FreshFacts, Zenon DEF ConnState, Fresh, Cleared
<1>8. /\ d \in ConnState /\ d.client = m.client /\ Cleared(d)
  <2> HIDE DEF c
  <2>1. "INIT" \in SockState BY DEF SockState
  <2>2. d \in ConnState /\ d.st = "INIT" /\ d.client = c.client /\ d.hdr = c.hdr /\ d.remain = c.remain
    BY <1>7, <2>1, StateFacts
  <2> QED BY <1>7, <2>2 DEF Cleared
<1>9. \A t \in tbl : conn[t].client # m.client BY DEF Connected
<1>10. CASE /\ pool' = SubSeq(pool, 1, Len(pool) - 1) /\ tbl' = tbl \cup {s}
            /\ set_mig_sock(s) /\ mig_tcp_conn(s, c)
            /\ UNCHANGED <<client, got, crashed>>
  <2>1. /\ conn' = [conn EXCEPT ![s] = d] /\ epoll' = [epoll EXCEPT ![s] = {"OUT"}]
        /\ sock' = [sock EXCEPT ![s].up = "up"]
    BY <1>10 DEF mig_tcp_conn, Set, set_mig_sock
  <2> HIDE DEF s, c, d
  <2>2. conn' \in [Slot -> ConnState] /\ conn'[s] = d BY <1>1, <1>2, <1>8, <2>1 DEF Types
  <2>3. epoll' \in [Slot -> SUBSET {"IN", "OUT"}] BY <1>1, <1>2, <2>1 DEF Types
  <2>4. sock' \in [Slot -> Socket] /\ sock'[s].rx = <<>>
    BY <1>1, <1>2, <1>3, <2>1, FreshFacts, Zenon DEF Types, Socket, Idle
  <2>5. Talks(d, <<>>, client'[s], got'[s]) BY <1>8, StreamFacts DEF Talks, Cleared
  <2>6. Moved(s) BY <1>1, <1>3, <1>5, <1>10, <2>2, <2>3, <2>4, <2>5 DEF Moved, Types
  <2>7. Untouched(s) BY <1>1, <1>5, <1>10, <2>1 DEF Untouched, Types
  <2>8. \A t \in tbl : conn[t].client # conn'[s].client BY <1>8, <1>9, <2>2
  <2> QED BY <1>5, <1>10, <2>6, <2>7, <2>8, TakeStep DEF s
<1>11. CASE /\ pool' = SubSeq(pool, 1, Len(pool) - 1) /\ tbl' = tbl \cup {s}
            /\ Set(s, c, {}) /\ UNCHANGED <<sock, client, got, crashed>>
  <2>1. conn' = [conn EXCEPT ![s] = c] /\ epoll' = [epoll EXCEPT ![s] = {}]
    BY <1>11 DEF Set
  <2> HIDE DEF s, c
  <2>2. conn' \in [Slot -> ConnState] /\ conn'[s] = c BY <1>1, <1>2, <1>7, <2>1 DEF Types
  <2>3. epoll' \in [Slot -> SUBSET {"IN", "OUT"}] BY <1>1, <1>2, <2>1 DEF Types
  <2>4. sock[s].rx = <<>> BY <1>3, FreshFacts DEF Idle
  <2>5. Talks(c, <<>>, client'[s], got'[s]) BY <1>7, StreamFacts DEF Talks, Cleared
  <2>6. Moved(s) BY <1>1, <1>3, <1>5, <1>11, <2>2, <2>3, <2>4, <2>5 DEF Moved, Types
  <2>7. Untouched(s) BY <1>1, <1>5, <1>11, <2>1 DEF Untouched, Types
  <2>8. \A t \in tbl : conn[t].client # conn'[s].client BY <1>7, <1>9, <2>2
  <2> QED BY <1>5, <1>11, <2>6, <2>7, <2>8, TakeStep DEF s
<1>12. CASE UNCHANGED <<pool, tbl, conn, epoll, sock, client, got, crashed>>
  <2>1. \A t \in Slot : batch'.ev[t] \subseteq epoll[t] BY <1>5, SlotFacts
  <2> QED BY <1>5, <1>12, <2>1, QuietStep
<1> QED BY <1>10, <1>11, <1>12 DEF KeyNew

\* handle_key_packet as a whole, the write through NULL included.
LEMMA HandleMetaStep ==
  ASSUME IInv, HandleMeta
  PROVE  IInv'
<1>1. MetaTaken /\ handle_key_packet(Head(metaq)) BY DEF HandleMeta, MetaTaken
<1>2. CASE \E s \in tbl : KeyExisting(s) BY <1>1, <1>2, KeyExistingStep
<1>3. CASE /\ ~Connected(Head(metaq).client) /\ pool # <<>>
           /\ KeyNew(Head(metaq), pool[Len(pool)])
  BY <1>1, <1>3, KeyNewStep
<1>4. CASE crashed' = TRUE /\ UNCHANGED <<pool, tbl, conn, epoll, sock, client, got>>
  <2>1. Queues /\ batch'.ev = batch.ev BY <1>1, <1>4, MetaFacts
  <2>2. \A t \in Slot : batch'.ev[t] \subseteq epoll[t] BY <2>1, SlotFacts
  <2> QED BY <1>4, <2>1, <2>2, QuietStep
<1> QED BY <1>1, <1>2, <1>3, <1>4, Zenon DEF handle_key_packet

\* The loop's chain of conditions on one event.
LEMMA HandleEventStep ==
  ASSUME IInv, NEW s \in Slot, HandleEvent(s)
  PROVE  IInv'
<1>1. s \in tbl /\ Handled(s) BY SlotFacts DEF HandleEvent, Handled
<1>2. CASE Ignored(s) BY <1>1, <1>2, IgnoredStep
<1>3. CASE Dispatch(s)
  <2>1. CASE MigrateTls(s) BY <1>1, <2>1, MigrateTlsStep
  <2>2. CASE SendMigFin(s) BY <1>1, <2>2, SendMigFinStep
  <2>3. CASE conn[s].st = "READY_TO_RECV" /\ Receive(s) BY <1>1, <2>3, ReceiveStep
  <2>4. CASE conn[s].st = "HTTP_REQ_RECVED" /\ Respond(s) BY <1>1, <2>4, RespondStep
  <2>5. CASE RespondFails(s) BY <1>1, <2>5, RespondFailsStep
  <2>6. CASE ResendRecords(s) BY <1>1, <2>6, ResendStep
  <2>7. CASE close_tcp_conn(s) BY <1>1, <2>7, CloseStep
  <2> QED BY <1>3, <2>1, <2>2, <2>3, <2>4, <2>5, <2>6, <2>7 DEF Dispatch
<1> QED BY <1>2, <1>3 DEF HandleEvent

\* epoll_wait returns events of registered sockets only.
LEMMA EpollWaitStep ==
  ASSUME IInv, EpollWait
  PROVE  IInv'
<1>1. /\ Types /\ batch' = [meta |-> metaq # <<>>, ev |-> [s \in Slot |-> Ready(s)]]
      /\ UNCHANGED <<pool, tbl, conn, epoll, metaq, sock, cached, client, got, last, crashed>>
  BY DEF IInv, EpollWait
<1>2. \A s \in Slot : Ready(s) \subseteq epoll[s] BY DEF Ready
<1>3. [s \in Slot |-> Ready(s)] \in [Slot -> SUBSET {"IN", "OUT"}] BY <1>1, <1>2 DEF Types
<1>4. /\ batch' \in [meta : BOOLEAN, ev : [Slot -> SUBSET {"IN", "OUT"}]]
      /\ batch'.meta => metaq # <<>>
      /\ batch'.ev = [s \in Slot |-> Ready(s)]
  BY <1>1, <1>3, Zenon
<1>5. Queues BY <1>1, <1>4 DEF Queues, Types
<1>6. \A s \in Slot : batch'.ev[s] \subseteq epoll[s] BY <1>2, <1>4
<1> QED BY <1>1, <1>5, <1>6, QuietStep

\* A key meta packet comes, for a new connection or once more.
LEMMA MetaStep ==
  ASSUME IInv, NEW c \in Client, NewConnection(c) \/ RepeatedMeta(c)
  PROVE  IInv'
<1>1. /\ Types /\ UNCHANGED <<pool, tbl, conn, epoll, batch, sock, cached, client, got, crashed>>
      /\ Len(metaq) < MaxQueue
  BY DEF IInv, NewConnection, RepeatedMeta
<1>2. last[c] \in 0 .. MaxId /\ MaxId \in Nat BY <1>1, HostAssumption DEF Types
<1>3. last' \in [Client -> 0 .. MaxId]
  <2>1. CASE NewConnection(c)
    <3>1. last[c] < MaxId /\ last' = [last EXCEPT ![c] = last[c] + 1]
      BY <2>1, Zenon DEF NewConnection
    <3>2. last[c] + 1 \in 0 .. MaxId
      <4> DEFINE n == last[c]
      <4>1. n \in 0 .. MaxId /\ MaxId \in Nat /\ n < MaxId BY <1>2, <3>1
      <4> HIDE DEF n
      <4>2. n + 1 \in 0 .. MaxId BY <4>1
      <4> QED BY <4>2 DEF n
    <3>3. last \in [Client -> 0 .. MaxId] BY <1>1 DEF Types
    <3> QED BY <3>1, <3>2, <3>3
  <2>2. CASE RepeatedMeta(c) BY <1>1, <2>2 DEF RepeatedMeta, Types
  <2> QED BY <2>1, <2>2
<1>4. \E i \in 1 .. MaxId : metaq' = Append(metaq, [client |-> c, id |-> i])
  <2>1. CASE NewConnection(c)
    <3>1. last[c] + 1 \in 1 .. MaxId BY <1>2, <2>1 DEF NewConnection
    <3> QED BY <2>1, <3>1 DEF NewConnection
  <2>2. CASE RepeatedMeta(c)
    <3>1. \A i \in 1 .. last[c] : i \in 1 .. MaxId BY <1>2
    <3> QED BY <2>2, <3>1 DEF RepeatedMeta
  <2> QED BY <2>1, <2>2
<1>5. PICK i \in 1 .. MaxId : metaq' = Append(metaq, [client |-> c, id |-> i]) BY <1>4
<1>6. [client |-> c, id |-> i] \in KeyMeta BY DEF KeyMeta
<1>7. /\ metaq' \in Seq(KeyMeta) /\ Len(metaq') = Len(metaq) + 1 /\ Len(metaq) \in Nat
  BY <1>1, <1>5, <1>6, AppendProperties, LenProperties DEF Types
<1>8. Len(metaq') <= MaxQueue /\ metaq' # <<>> BY <1>1, <1>7, HostAssumption, EmptySeq
<1>9. Queues BY <1>1, <1>3, <1>7, <1>8 DEF Queues, Types
<1>10. \A s \in Slot : batch'.ev[s] \subseteq epoll[s] BY <1>1, SlotFacts
<1> QED BY <1>1, <1>9, <1>10, QuietStep


\* Every step preserves the invariant.
LEMMA NextInv == IInv /\ [Next]_vars => IInv'
<1> SUFFICES ASSUME IInv, [Next]_vars PROVE IInv' OBVIOUS
<1>1. CASE EpollWait BY <1>1, EpollWaitStep
<1>2. CASE HandleMeta BY <1>2, HandleMetaStep
<1>3. CASE \E s \in Slot : HandleEvent(s) BY <1>3, HandleEventStep
<1>4. CASE \E c \in Client : NewConnection(c) \/ RepeatedMeta(c) BY <1>4, MetaStep
<1>5. CASE \E s \in Slot : ClientSends(s) BY <1>5, ClientSendsStep
<1>6. CASE \E s \in Slot : ClientResets(s) BY <1>6, ClientResetsStep
<1>7. CASE UNCHANGED vars
  <2>1. Queues BY <1>7 DEF vars, Queues, IInv, Types
  <2>2. \A s \in Slot : batch'.ev[s] \subseteq epoll[s] BY <1>7, SlotFacts DEF vars
  <2> QED BY <1>7, <2>1, <2>2, QuietStep DEF vars
<1> QED BY <1>1, <1>2, <1>3, <1>4, <1>5, <1>6, <1>7 DEF Next, Server

\* conn_state_alloc, conn_state_free, ht_insert and ht_remove share the
\* structures out between the stack and the hash table, with no client twice,
\* over any sequence of migrations, failures, requests and closes.
THEOREM PoolStaysSound == Spec => []PoolSound
<1>1. IInv => PoolSound BY InvSound
<1> QED BY <1>1, InitInv, NextInv, PTL DEF Spec

\* No event that the epoll loop follows is for a structure that was freed, or
\* for a socket that is not registered for it any more.
THEOREM EventsStayLive == Spec => []EventsAreLive
<1>1. IInv => EventsAreLive BY InvSound
<1> QED BY <1>1, InitInv, NextInv, PTL DEF Spec

\* What a handler of another structure's event does to conn.
LEMMA OthersKept ==
  ASSUME NEW s, NEW t, s # t, IInv, s \in Slot, Dispatch(t) \/ Ignored(t)
  PROVE  conn'[s] = conn[s]
<1>1. conn \in [Slot -> ConnState] BY DEF IInv, Types
<1>2. CASE \E d : conn' = [conn EXCEPT ![t] = d] BY <1>1, <1>2
<1>3. CASE UNCHANGED conn BY <1>3
<1>4. ASSUME MigrateTls(t) PROVE (\E d : conn' = [conn EXCEPT ![t] = d]) \/ UNCHANGED conn
  BY <1>4 DEF MigrateTls
<1>5. ASSUME NEW d, NEW ev, Set(t, d, ev) PROVE \E e : conn' = [conn EXCEPT ![t] = e]
  BY <1>5, Zenon DEF Set
<1>6. ASSUME SendMigFin(t) \/ ResendRecords(t) \/ close_tcp_conn(t)
      PROVE  \E d : conn' = [conn EXCEPT ![t] = d]
  BY <1>5, <1>6, Zenon DEF SendMigFin, ResendRecords, close_tcp_conn
<1>7. ASSUME Receive(t) PROVE (\E d : conn' = [conn EXCEPT ![t] = d]) \/ UNCHANGED conn
  <2>1. ASSUME NEW item, Received(t, item)
        PROVE  (\E d : conn' = [conn EXCEPT ![t] = d]) \/ UNCHANGED conn
    BY <1>5, <2>1, Zenon DEF Received
  <2> QED BY <1>5, <1>7, <2>1, Zenon DEF Receive
<1>8. ASSUME Respond(t) PROVE \E d : conn' = [conn EXCEPT ![t] = d]
  BY <1>5, <1>8, Zenon DEF Respond
<1>9. ASSUME RespondFails(t) PROVE \E d : conn' = [conn EXCEPT ![t] = d]
  BY <1>9, Zenon DEF RespondFails
<1> QED BY <1>2, <1>3, <1>4, <1>6, <1>7, <1>8, <1>9, Zenon DEF Dispatch, Ignored

\* The step to which ResponseComplete refers.
LEMMA CompleteStep ==
  ASSUME ~HdrBlocks, IInv, Next, NEW s \in Slot,
         conn[s].st = "HTTP_REQ_RECVED", conn'[s].st = "READY_TO_RECV"
  PROVE  got'[s] = Pieces(s)
<1>0. conn'[s] # conn[s] OBVIOUS
<1>1. CASE EpollWait BY <1>0, <1>1 DEF EpollWait
<1>2. CASE HandleMeta
  <2>1. conn \in [Slot -> ConnState] /\ pool \in Seq(Slot) /\ Distinct(pool)
    BY DEF IInv, Types, Shared
  <2>2. s \in tbl BY FreshFacts DEF IInv, Idle
  <2>3. ASSUME NEW m, pool # <<>>, KeyNew(m, pool[Len(pool)]) PROVE conn'[s] = conn[s]
    <3>1. Stacked(pool, pool[Len(pool)]) BY <2>1, <2>3, PopFacts
    <3>2. s # pool[Len(pool)] BY <2>2, <3>1 DEF IInv, Shared
    <3> QED BY <2>1, <2>3, <3>2 DEF KeyNew, mig_tcp_conn, Set
  <2>4. ASSUME NEW m, handle_key_packet(m) PROVE conn'[s] = conn[s]
    BY <2>3, <2>4 DEF handle_key_packet, KeyExisting
  <2> QED BY <1>0, <1>2, <2>4 DEF HandleMeta
<1>3. ASSUME NEW t \in Slot, HandleEvent(t) PROVE got'[s] = Pieces(s)
  <2>1. t \in tbl /\ (Dispatch(t) \/ Ignored(t)) BY <1>3, SlotFacts DEF HandleEvent
  <2>2. t = s BY <1>0, <2>1, OthersKept
  <2>3. ~Ignored(s) BY <1>0 DEF Ignored
  <2>4. Respond(s) \/ RespondFails(s) BY <2>1, <2>2, <2>3 DEF Dispatch
  <2>5. ~RespondFails(s)
    <3>1. conn \in [Slot -> ConnState] BY DEF IInv, Types
    <3>2. RespondFails(s) => conn'[s].st = "ERRORED" BY <3>1 DEF RespondFails, ConnState
    <3> QED BY <3>2
  <2>6. PICK d, n : Sends(s, d, n) BY <2>1, <2>2, <2>4, <2>5, RespondFacts
  <2>7. conn'[s] = d /\ got'[s] = n BY <2>6 DEF Sends, Deliver, IInv, Types
  <2> QED BY <2>6, <2>7 DEF Sends
<1>4. CASE \E c \in Client : NewConnection(c) \/ RepeatedMeta(c)
  BY <1>0, <1>4 DEF NewConnection, RepeatedMeta
<1>5. CASE \E t \in Slot : ClientSends(t) \/ ClientResets(t)
  BY <1>0, <1>5 DEF ClientSends, ClientResets
<1> QED BY <1>1, <1>2, <1>3, <1>4, <1>5 DEF Next, Server

\* send_https_resp and the loop's test of resp_remain: where the socket takes
\* a response header whole, the client has been sent every piece of the
\* response, each once, when the loop goes back to receiving, however the
\* file was cut up.
THEOREM ResponsesComplete == ASSUME ~HdrBlocks PROVE Spec => ResponseComplete
<1>1. IInv /\ [Next]_vars =>
        [\A s \in Slot : conn[s].st = "HTTP_REQ_RECVED" /\ conn'[s].st = "READY_TO_RECV"
                           => got'[s] = Pieces(s)]_vars
  BY CompleteStep
<1> QED BY <1>1, InitInv, NextInv, PTL DEF Spec, ResponseComplete

=============================================================================
