----------------------------- MODULE HostServer -----------------------------
(***************************************************************************)
(* host/custom_server: one worker thread of the host's server.  Key meta   *)
(* packets from the SmartNIC make it open a repaired TCP socket; the epoll *)
(* loop then hands the keys to kTLS, tells the SmartNIC that the migration *)
(* is complete, and serves HTTP requests until the client goes away.       *)
(***************************************************************************)
EXTENDS Naturals, Sequences, FiniteSets

CONSTANTS Slot,      \* preallocated conn_state structures (MAX_CONN)
          Client,    \* clients, by address and port
          MaxId,     \* bound: connections that one client opens
          MaxQueue,  \* bound: key meta packets waiting in the meta socket
          Body,      \* bound: pieces that the file is sent in
          Repeats,   \* key meta packets come for clients that are connected
          Failures,  \* socket calls of the migration may fail
          HdrBlocks, \* the send of a response header may be cut short
          Cuts,      \* clients may go away before the response is complete
          NoClient

ASSUME HostAssumption ==
  /\ IsFiniteSet(Slot) /\ Slot # {}
  /\ MaxId \in Nat /\ MaxQueue \in Nat /\ Body \in Nat \ {0}
  /\ {Repeats, Failures, HdrBlocks, Cuts} \subseteq BOOLEAN
  /\ NoClient \notin Client

VARIABLES
  pool,      \* conn_pool below pool_top, a stack
  tbl,       \* the structures in ht_conn
  conn,      \* conn_state
  epoll,     \* the events that each socket is registered for
  batch,     \* what epoll_wait returned and the loop has not handled yet
  metaq,     \* the meta socket
  sock,      \* the kernel's socket of each connection
  cached,    \* the descriptor of the cached file is open
  client,    \* where each connection's client stands
  got,       \* pieces of the response that the client was sent
  last,      \* connections that each client has opened
  crashed    \* the process has ended

vars == <<pool, tbl, conn, epoll, batch, metaq, sock, cached, client, got, last, crashed>>

KeyMeta == [client : Client, id : 1 .. MaxId]

\* The response header goes out in at most two pieces.
Header == 2

\* conn_state_alloc clears the structure; hdr counts what was sent of the
\* header, remain is resp_remain, file that the request names a cached file,
\* fd that resp_fd holds the cached descriptor.
Fresh == [client |-> NoClient, id |-> 0, st |-> "DEFAULT", keep |-> FALSE, hdr |-> 0,
          remain |-> 0, file |-> FALSE, fd |-> FALSE]

NoSocket == [up |-> "none", rx |-> <<>>]

NoEvents == [meta |-> FALSE, ev |-> [s \in Slot |-> {}]]

Init ==
  /\ pool \in {q \in [1 .. Cardinality(Slot) -> Slot] :
                 \A i, j \in DOMAIN q : q[i] = q[j] => i = j}
  /\ tbl = {} /\ conn = [s \in Slot |-> Fresh]
  /\ epoll = [s \in Slot |-> {}] /\ batch = NoEvents
  /\ metaq = <<>> /\ sock = [s \in Slot |-> NoSocket]
  /\ cached = TRUE
  /\ client = [s \in Slot |-> "none"] /\ got = [s \in Slot |-> 0]
  /\ last = [c \in Client |-> 0]
  /\ crashed = FALSE

\* The SmartNIC lets the client's packets through once it has the MIG_FIN.
send_mig_fin_to_arm(s) ==
  client' = [client EXCEPT ![s] = IF @ = "none" THEN "idle" ELSE @]
-----------------------------------------------------------------------------
(* The SmartNIC and the clients.                                            *)

Connected(c) == \E s \in tbl : conn[s].client = c

\* A key meta packet for a new connection of c.
NewConnection(c) ==
  /\ last[c] < MaxId /\ Len(metaq) < MaxQueue
  /\ Repeats \/ ~(Connected(c) \/ \E i \in DOMAIN metaq : metaq[i].client = c)
  /\ last' = [last EXCEPT ![c] = @ + 1]
  /\ metaq' = Append(metaq, [client |-> c, id |-> last[c] + 1])
  /\ UNCHANGED <<pool, tbl, conn, epoll, batch, sock, cached, client, got, crashed>>

\* A retransmitted or delayed key meta packet.
RepeatedMeta(c) ==
  /\ Repeats /\ Len(metaq) < MaxQueue
  /\ \E i \in 1 .. last[c] : metaq' = Append(metaq, [client |-> c, id |-> i])
  /\ UNCHANGED <<pool, tbl, conn, epoll, batch, sock, cached, client, got, last, crashed>>

ClientMoves == {
  [from |-> {"idle"}, item |-> "part", to |-> "part"],          \* half a request
  [from |-> {"idle", "part"}, item |-> "req", to |-> "wait"],   \* a request
  [from |-> {"idle", "part"}, item |-> "reqc", to |-> "wait"],  \* connection: close
  [from |-> {"idle", "part"}, item |-> "big", to |-> "wait"],   \* more than req_buf
  [from |-> {"idle"}, item |-> "hs", to |-> "idle"],            \* a handshake record
  [from |-> {"idle", "over"}, item |-> "notify", to |-> "notified"],
  [from |-> {"idle", "over", "notified"}, item |-> "fin", to |-> "closed"],
  [from |-> IF Cuts THEN {"part", "wait"} ELSE {}, item |-> "fin", to |-> "closed"]}

\* The client sends one record when the last one was read, or closes its
\* direction.
ClientSends(s) ==
  /\ sock[s].up = "up"
  /\ \E m \in ClientMoves :
       /\ client[s] \in m.from
       /\ sock[s].rx = <<>> \/ m.item = "fin"
       /\ client' = [client EXCEPT ![s] = m.to]
       /\ sock' = [sock EXCEPT ![s].rx = Append(@, m.item)]
  /\ UNCHANGED <<pool, tbl, conn, epoll, batch, metaq, cached, got, last, crashed>>

\* The client resets the connection; unread records may be lost.
ClientResets(s) ==
  /\ sock[s].up = "up" /\ client[s] # "none"
  /\ Cuts \/ client[s] \notin {"part", "wait"}
  /\ client' = [client EXCEPT ![s] = "closed"]
  /\ \E rx \in {<<>>, sock[s].rx} : sock' = [sock EXCEPT ![s] = [up |-> "reset", rx |-> rx]]
  /\ UNCHANGED <<pool, tbl, conn, epoll, batch, metaq, cached, got, last, crashed>>
-----------------------------------------------------------------------------
(* The epoll loop.  epoll_wait returns every socket that is ready, and the  *)
(* loop handles them one by one, with the readiness of that moment.         *)

Ready(s) ==
  epoll[s] \cap (IF sock[s].rx # <<>> \/ sock[s].up = "reset" THEN {"IN", "OUT"} ELSE {"OUT"})

EpollWait ==
  /\ ~crashed /\ batch = NoEvents
  /\ batch' = [meta |-> metaq # <<>>, ev |-> [s \in Slot |-> Ready(s)]]
  /\ batch' # NoEvents
  /\ UNCHANGED <<pool, tbl, conn, epoll, metaq, sock, cached, client, got, last, crashed>>

\* The conn fields and the epoll registration that a handler leaves behind.
Set(s, c, ev) ==
  /\ conn' = [conn EXCEPT ![s] = c]
  /\ epoll' = [epoll EXCEPT ![s] = ev]

\* Variant: the connection is given up for the new one.
KeyReplaces(s) ==
  /\ tbl' = tbl \ {s} /\ pool' = Append(pool, s)
  /\ conn' = [conn EXCEPT ![s] = Fresh] /\ epoll' = [epoll EXCEPT ![s] = {}]
  /\ sock' = [sock EXCEPT ![s] = NoSocket] /\ client' = [client EXCEPT ![s] = "none"]
  /\ got' = [got EXCEPT ![s] = 0]
  /\ UNCHANGED crashed

\* handle_key_packet for a client that has a connection.
KeyExisting(s) ==
  /\ send_mig_fin_to_arm(s)
  /\ UNCHANGED <<pool, tbl, conn, epoll, sock, got, crashed>>

\* set_mig_sock: a socket in repair mode with the numbers of the meta packet.
set_mig_sock(s) == sock' = [sock EXCEPT ![s].up = "up"]

\* mig_tcp_conn: registered for output, bound, connected, out of repair mode.
mig_tcp_conn(s, c) == Set(s, [c EXCEPT !.st = "INIT"], {"OUT"})

\* handle_key_packet for a new client: the structure is filled and inserted,
\* then the socket is made, set non-blocking and moved to the client's
\* connection.
KeyNew(m, s) ==
  LET c == [Fresh EXCEPT !.client = m.client, !.id = m.id] IN
  \/ /\ pool' = SubSeq(pool, 1, Len(pool) - 1) /\ tbl' = tbl \cup {s}
     /\ set_mig_sock(s) /\ mig_tcp_conn(s, c)
     /\ UNCHANGED <<client, got, crashed>>
  \/ /\ Failures                    \* no socket: set_nonblock fails
     /\ pool' = SubSeq(pool, 1, Len(pool) - 1) /\ tbl' = tbl \cup {s}
     /\ Set(s, c, {})
     /\ UNCHANGED <<sock, client, got, crashed>>
  \/ /\ Failures                    \* mig_tcp_conn fails: taken back
     /\ UNCHANGED <<pool, tbl, conn, epoll, sock, client, got, crashed>>

\* handle_key_packet; conn_state_alloc returns NULL when the pool is empty,
\* and conn_start is written through it before the test.
handle_key_packet(m) ==
  \/ \E s \in tbl : conn[s].client = m.client /\ KeyExisting(s)
  \/ /\ ~Connected(m.client) /\ pool # <<>>
     /\ KeyNew(m, pool[Len(pool)])
  \/ /\ ~Connected(m.client) /\ pool = <<>>
     /\ crashed' = TRUE
     /\ UNCHANGED <<pool, tbl, conn, epoll, sock, client, got>>

HandleMeta ==
  /\ ~crashed /\ batch.meta
  /\ batch' = [batch EXCEPT !.meta = FALSE]
  /\ metaq' = Tail(metaq)
  /\ handle_key_packet(Head(metaq))
  /\ UNCHANGED <<cached, last>>

\* mig_tls_conn: TCP_ULP is refused on a socket that is no longer
\* established, and then the state stays INIT.
MigrateTls(s) ==
  /\ \/ /\ sock[s].up = "up"
        /\ conn' = [conn EXCEPT ![s].st = "CONNECTED"]
     \/ /\ sock[s].up = "reset"
        /\ UNCHANGED conn
  /\ UNCHANGED <<pool, tbl, epoll, sock, cached, client, got>>

SendMigFin(s) ==
  /\ send_mig_fin_to_arm(s)
  /\ Set(s, [conn[s] EXCEPT !.st = "READY_TO_RECV"], {"IN"})
  /\ UNCHANGED <<pool, tbl, sock, cached, got>>

\* What handle_received_pkt makes of one record, and the loop's switch on
\* its result.  A request may or may not name a cached file.
Received(s, item) ==
  LET c == conn[s]
      respond(keep, file) ==
        Set(s, [c EXCEPT !.st = "HTTP_REQ_RECVED", !.keep = keep, !.file = file], {"IN", "OUT"})
  IN
  \/ item = "part" /\ UNCHANGED <<conn, epoll>>
  \/ item = "req" /\ \E f \in BOOLEAN : respond(TRUE, f)
  \/ item = "reqc" /\ \E f \in BOOLEAN : respond(FALSE, f)
  \/ item = "big" /\ respond(c.keep, FALSE)
  \/ item = "notify" /\ Set(s, [c EXCEPT !.st = "WAIT_TCP_FIN"], {"IN", "OUT"})
  \/ item = "hs" /\ Set(s, [c EXCEPT !.st = "TLS_HS_RECVED"], {"OUT"})
  \/ item = "fin" /\ Set(s, [c EXCEPT !.st = "ERRORED"], {"OUT"})

\* The end of the stream stays readable.
Receive(s) ==
  LET rx == sock[s].rx IN
  /\ \/ /\ rx # <<>>
        /\ Received(s, Head(rx))
        /\ sock' = [sock EXCEPT ![s].rx = IF Head(rx) = "fin" THEN rx ELSE Tail(rx)]
        /\ got' = [got EXCEPT ![s] = IF Head(rx) \in {"req", "reqc", "big"} THEN 0 ELSE @]
     \/ /\ rx = <<>> /\ sock[s].up = "reset"
        /\ Set(s, [conn[s] EXCEPT !.st = "ERRORED"], {"OUT"})
        /\ UNCHANGED <<sock, got>>
  /\ UNCHANGED <<pool, tbl, cached, client>>

\* Pieces of a response, as the request that conn[s] serves determines it.
Pieces(s) == Header + (IF conn[s].file THEN Body ELSE 0)

\* Variant: what sendfile did not take is not remembered.
FileForgets(c, k) == [c EXCEPT !.hdr = Header, !.remain = 0, !.fd = TRUE]

\* send_file_content after k more pieces; remain = 0 makes it start the file.
FileSent(c, k) ==
  [c EXCEPT !.hdr = Header, !.remain = (IF @ = 0 THEN Body ELSE @) - k, !.fd = TRUE]

\* Variant: hdr_sent survives into the next request.
DoneKeepsHeader(c) ==
  [c EXCEPT !.st = "READY_TO_RECV", !.remain = 0, !.fd = FALSE,
            !.file = IF c.keep THEN FALSE ELSE @]

reset_conn_for_next_req(c) ==
  [c EXCEPT !.hdr = 0, !.remain = 0, !.file = FALSE, !.fd = FALSE]

\* The response is out.  On a connection that is not kept, a close_notify
\* alert is sent, or dropped when the socket does not take it.
Done(c) ==
  [IF c.keep THEN reset_conn_for_next_req(c) ELSE [c EXCEPT !.remain = 0, !.fd = FALSE]
     EXCEPT !.st = "READY_TO_RECV"]

\* A response without a file is complete after the header; one whose header
\* was cut short is taken for complete, because remain is still 0.
AfterHeader(c) == IF c.hdr = Header THEN Done(c) ELSE [c EXCEPT !.st = "READY_TO_RECV"]

\* The client was sent n pieces in all; the header tells it whether the
\* server keeps the connection.
Deliver(s, n) ==
  /\ got' = [got EXCEPT ![s] = n]
  /\ client' = [client EXCEPT ![s] = IF n = Pieces(s) /\ @ = "wait"
                                     THEN IF conn[s].keep THEN "idle" ELSE "over"
                                     ELSE @]

\* send_https_resp on a socket that takes data: h pieces of the header are
\* then out, and k more of the file.  The loop takes resp_remain <= 0 for
\* the end of the response.
Respond(s) ==
  LET c == conn[s] IN
  /\ sock[s].up = "up"
  /\ \E h \in IF HdrBlocks THEN c.hdr .. Header ELSE {Header} :
       \/ /\ h < Header \/ ~c.file
          /\ Set(s, AfterHeader([c EXCEPT !.hdr = h]), {"IN"})
          /\ Deliver(s, got[s] + h - c.hdr)
       \/ /\ h = Header /\ c.file /\ cached
          /\ \E k \in 0 .. (IF c.remain = 0 THEN Body ELSE c.remain) :
               LET f == FileSent(c, k) IN
               /\ IF f.remain = 0 THEN Set(s, Done(f), {"IN"}) ELSE Set(s, f, epoll[s])
               /\ Deliver(s, got[s] + h - c.hdr + k)
       \/ /\ h = Header /\ c.file /\ ~cached          \* sendfile: EBADF
          /\ Set(s, [c EXCEPT !.hdr = Header, !.fd = TRUE, !.st = "ERRORED"], epoll[s])
          /\ Deliver(s, got[s] + h - c.hdr)
  /\ UNCHANGED <<pool, tbl, sock, cached>>

\* send_https_resp on a socket that was reset: the header fails, or the file.
RespondFails(s) ==
  /\ sock[s].up = "reset"
  /\ conn' = [conn EXCEPT ![s].st = "ERRORED", ![s].fd = @ \/ (conn[s].hdr = Header /\ conn[s].file)]
  /\ UNCHANGED <<pool, tbl, epoll, sock, cached, client, got>>

\* Variant: the socket stays registered for output.
ResendKeepsOut(s) ==
  /\ Set(s, [conn[s] EXCEPT !.st = "READY_TO_RECV"], {"OUT"})
  /\ UNCHANGED <<pool, tbl, sock, cached, client, got>>

\* send_server_records: the result is not looked at.
ResendRecords(s) ==
  /\ Set(s, [conn[s] EXCEPT !.st = "READY_TO_RECV"], {"IN"})
  /\ UNCHANGED <<pool, tbl, sock, cached, client, got>>

\* Variant: the structure stays in the hash table.
CloseLeavesTable(s) ==
  /\ Set(s, Fresh, {}) /\ sock' = [sock EXCEPT ![s] = NoSocket]
  /\ pool' = Append(pool, s)
  /\ cached' = (cached /\ ~conn[s].fd)
  /\ client' = [client EXCEPT ![s] = "none"] /\ got' = [got EXCEPT ![s] = 0]
  /\ UNCHANGED tbl

\* conn_state_free closes resp_fd.  The structure is shown as the next
\* conn_state_alloc will clear it.
conn_state_free(s) ==
  /\ pool' = Append(pool, s)
  /\ cached' = (cached /\ ~conn[s].fd)

close_tcp_conn(s) ==
  /\ Set(s, Fresh, {}) /\ sock' = [sock EXCEPT ![s] = NoSocket]
  /\ tbl' = tbl \ {s} /\ conn_state_free(s)
  /\ client' = [client EXCEPT ![s] = "none"] /\ got' = [got EXCEPT ![s] = 0]

Ignored(s) == UNCHANGED <<pool, tbl, conn, epoll, sock, cached, client, got>>

\* The event that the loop's chain of conditions asks for in each state.
Wanted(st) == IF st \in {"READY_TO_RECV", "WAIT_TCP_FIN"} THEN "IN" ELSE "OUT"

Dispatch(s) ==
  LET st == conn[s].st IN
  \/ st = "INIT" /\ MigrateTls(s)
  \/ st = "CONNECTED" /\ SendMigFin(s)
  \/ st = "READY_TO_RECV" /\ Receive(s)
  \/ st = "HTTP_REQ_RECVED" /\ (Respond(s) \/ RespondFails(s))
  \/ st = "TLS_HS_RECVED" /\ ResendRecords(s)
  \/ st \in {"WAIT_TCP_FIN", "ERRORED"} /\ close_tcp_conn(s)

HandleEvent(s) ==
  /\ ~crashed /\ batch.ev[s] # {}
  /\ batch' = [batch EXCEPT !.ev[s] = {}]
  /\ IF Wanted(conn[s].st) \in batch.ev[s] THEN Dispatch(s) ELSE Ignored(s)
  /\ UNCHANGED <<metaq, last, crashed>>
-----------------------------------------------------------------------------
Server == EpollWait \/ HandleMeta \/ (\E s \in Slot : HandleEvent(s))

Next ==
  \/ Server
  \/ \E c \in Client : NewConnection(c) \/ RepeatedMeta(c)
  \/ \E s \in Slot : ClientSends(s) \/ ClientResets(s)

Spec == Init /\ [][Next]_vars

\* The loop runs for ever and handles the whole batch; a client that does not
\* go away reads, so that a send that is tried again and again gets on.
Fairness ==
  /\ WF_vars(Server)
  /\ \A s \in Slot : SF_vars(HandleEvent(s) /\ got'[s] # got[s])

FairSpec == Spec /\ Fairness
-----------------------------------------------------------------------------
SockState == {"DEFAULT", "INIT", "CONNECTED", "READY_TO_RECV", "TLS_HS_RECVED",
              "HTTP_REQ_RECVED", "WAIT_TCP_FIN", "ERRORED"}

\* The structures of common.h and the kernel objects have their types.
TypeOK ==
  /\ pool \in Seq(Slot) /\ tbl \subseteq Slot
  /\ conn \in [Slot -> [client : Client \cup {NoClient}, id : 0 .. MaxId, st : SockState,
                        keep : BOOLEAN, hdr : 0 .. Header, remain : 0 .. Body,
                        file : BOOLEAN, fd : BOOLEAN]]
  /\ epoll \in [Slot -> SUBSET {"IN", "OUT"}]
  /\ batch \in [meta : BOOLEAN, ev : [Slot -> SUBSET {"IN", "OUT"}]]
  /\ metaq \in Seq(KeyMeta) /\ Len(metaq) <= MaxQueue
  /\ \A s \in Slot : /\ sock[s].up \in {"none", "up", "reset"}
                     /\ got[s] \in 0 .. Header + Body
  /\ cached \in BOOLEAN /\ crashed \in BOOLEAN
  /\ last \in [Client -> 0 .. MaxId]

\* conn_state_alloc, conn_state_free, ht_insert and ht_remove, over any
\* sequence of migrations, failures and closes: every structure is on the
\* stack once or in the hash table, and no client is in the table twice.  All
\* structures and kernel objects have their types.
PoolSound ==
  /\ TypeOK
  /\ \A i, j \in DOMAIN pool : pool[i] = pool[j] => i = j
  /\ \A s \in Slot : (s \in tbl) # (\E i \in DOMAIN pool : pool[i] = s)
  /\ \A s, t \in tbl : conn[s].client = conn[t].client => s = t

\* epoll_wait hands out pointers to structures (data.ptr), which the loop
\* follows after it has handled other events of the batch, key meta packets
\* that take structures included: none of them has been freed by then, and
\* each is for a socket still registered for that event.
EventsAreLive ==
  \A s \in Slot : batch.ev[s] # {} => s \in tbl /\ batch.ev[s] \subseteq epoll[s]

\* send_https_resp and the test of resp_remain: when the loop goes back to
\* receiving, the client has been sent the whole response, each piece once.
ResponseComplete ==
  [][\A s \in Slot : conn[s].st = "HTTP_REQ_RECVED" /\ conn'[s].st = "READY_TO_RECV"
                      => got'[s] = Pieces(s)]_vars

\* A client that waits for a response gets it, whatever the sizes of the
\* partial sends ("Send HTTPS resp"), unless one of the two ends goes away.
RequestServed ==
  \A s \in Slot : client[s] = "wait" ~> (client[s] # "wait" \/ crashed)

\* "Close errored socket": the structure of a client that has closed or reset
\* its connection goes back to the pool.
GoneIsFreed ==
  \A s \in Slot : client[s] = "closed" ~> (client[s] = "none" \/ crashed)

\* send_mig_fin_to_arm sends "Special ToS (Mig completion)": the socket of the
\* connection has been handed the keys by then.
MigFinIsCompletion ==
  \A s \in tbl : client[s] # "none" => conn[s].st \notin {"DEFAULT", "INIT"}
=============================================================================
