---------------------------- MODULE SessionTable ----------------------------
(***************************************************************************)
(* tcp.c and fhash.c: the connections of one worker core of the SmartNIC.  *)
(* They are preallocated; a SYN takes one from the free queue and puts it  *)
(* into the hash table under its four-tuple, and remove_session puts it    *)
(* back.  The TLS layer appears as the three points at which it changes a  *)
(* connection (key meta packet, server flight, client Finished); packets   *)
(* of the client and of the host arrive in any order, late or twice.       *)
(***************************************************************************)
EXTENDS Integers, Sequences, FiniteSets

CONSTANTS Conn,       \* preallocated connections (local_max_conn)
          Key,        \* four-tuples of clients that hash to this core
          Isn,        \* initial sequence numbers that clients choose
          Bin,        \* bins of the hash table
          Hash(_),    \* calculate_hash
          Eras,       \* number of values of t_major (32)
          NoKey, NoIsn

ASSUME TableAssumption ==
  /\ IsFiniteSet(Conn) /\ Conn # {}
  /\ \A k \in Key : Hash(k) \in Bin
  /\ Eras \in Nat \ {0}
  /\ NoKey \notin Key /\ NoIsn \notin Isn

Era == 0 .. Eras - 1

VARIABLES
  conn,      \* the connections, with the fields of ssl_session_t they need
  table,     \* active_session_table
  free,      \* free_session_q
  active,    \* active_cnt
  tmajor,    \* t_major: the part of the time that enters a cookie
  metas,     \* key meta packets sent so far, which the host may answer
  open,      \* clients that have a connection, as they see it
  out,       \* the packet that the last handler sent
  dead       \* the process has exited

vars == <<conn, table, free, active, tmajor, metas, open, out, dead>>

\* server_seq_num and server_ack_num of a meta packet, by what they depend
\* on: the client's sequence numbers, and whether 80 was added to the second.
MetaHdr == [isn : Isn, kind : {"key", "rst"}]
NoMeta == [isn |-> NoIsn, kind |-> "none"]

NoPkt == [type |-> "none", key |-> NoKey, cookie |-> 0]
Pkt(type, k, cookie) == [type |-> type, key |-> k, cookie |-> cookie]

\* Variant: the meta header survives.
ClearKeepsMeta(r) ==
  [state |-> "IDLE", key |-> NoKey, isn |-> NoIsn, cookie |-> r.cookie, first |-> 0,
   moved |-> FALSE, hs |-> "HANDSHAKE", meta |-> r.meta, mig |-> NoIsn,
   applied |-> FALSE, ready |-> NoIsn, pend |-> FALSE]

\* clear_ssl_session and clear_tcp_connection; the cookie stays.
Clear(r) ==
  [state |-> "IDLE", key |-> NoKey, isn |-> NoIsn, cookie |-> r.cookie, first |-> 0,
   moved |-> FALSE, hs |-> "HANDSHAKE", meta |-> NoMeta, mig |-> NoIsn,
   applied |-> FALSE, ready |-> NoIsn, pend |-> FALSE]

\* insert_tcp_connection fills a popped connection; first is the cookie of
\* the SYN-ACK that this SYN is answered with.
Opened(r, k, i, first) ==
  [r EXCEPT !.state = "OPEN", !.key = k, !.isn = i, !.cookie = tmajor, !.first = first]

Init ==
  /\ conn = [c \in Conn |-> Clear([cookie |-> 0, meta |-> NoMeta])]
  /\ table = [b \in Bin |-> {}]
  /\ free \in {q \in [1 .. Cardinality(Conn) -> Conn] :
                 /\ \A c \in Conn : \E i \in DOMAIN q : q[i] = c
                 /\ \A i, j \in DOMAIN q : q[i] = q[j] => i = j}
  /\ active = 0 /\ tmajor = 0
  /\ metas = [k \in Key |-> {}] /\ open = {}
  /\ out = NoPkt /\ dead = FALSE
-----------------------------------------------------------------------------
\* ht_search: the connections in the bin of k that have its four-tuple.
Matches(k) == {c \in table[Hash(k)] : conn[c].key = k}

Found(k) == Matches(k) # {}

Search(k) == CHOOSE c \in Matches(k) : TRUE

\* Variant: the connection does not go back to the free queue.
RemoveLeaks(c) ==
  /\ table' = [table EXCEPT ![Hash(conn[c].key)] = @ \ {c}]
  /\ conn' = [conn EXCEPT ![c] = Clear(@)]
  /\ active' = active - 1
  /\ UNCHANGED free

\* Variant: the connection goes back while it is still in the table.
RemoveLeavesTable(c) ==
  /\ conn' = [conn EXCEPT ![c] = Clear(@)]
  /\ free' = Append(free, c)
  /\ active' = active - 1
  /\ UNCHANGED table

RemoveSession(c) ==
  /\ table' = [table EXCEPT ![Hash(conn[c].key)] = @ \ {c}]
  /\ conn' = [conn EXCEPT ![c] = Clear(@)]
  /\ free' = Append(free, c)
  /\ active' = active - 1

\* insert_tcp_connection for a four-tuple that is not in the table.
InsertConnection(k, i) ==
  LET c == Head(free) IN
  /\ free' = Tail(free)
  /\ conn' = [conn EXCEPT ![c] = Opened(@, k, i, tmajor)]
  /\ table' = [table EXCEPT ![Hash(k)] = @ \cup {c}]
  /\ active' = active + 1

\* A SYN of a four-tuple that is not in the table.  pop_free_connection
\* ends the process when the queue is empty.
SynNone(k, i) ==
  /\ ~Found(k)
  /\ IF free # <<>>
     THEN /\ InsertConnection(k, i)
          /\ out' = Pkt("SYNACK", k, tmajor)
          /\ UNCHANGED dead
     ELSE /\ dead' = TRUE
          /\ UNCHANGED <<conn, table, free, active, out>>

\* validate_syn_packet: seq_no + 1 = last_recv_seq.
SynRetransmitted(c, i) == conn[c].isn = i /\ ~conn[c].moved

SynRetrans(k, i) ==
  /\ Found(k) /\ SynRetransmitted(Search(k), i)
  /\ out' = Pkt("SYNACK", k, conn[Search(k)].cookie)
  /\ UNCHANGED <<conn, table, free, active, dead>>

\* The old session goes to the tail of the free queue, the SYN-ACK is sent
\* with its cookie, and the head of the queue becomes the new session.
SynNew(k, i) ==
  /\ Found(k) /\ ~SynRetransmitted(Search(k), i)
  /\ LET c == Search(k)
         q == Append(free, c)
         d == Head(q)
     IN /\ free' = Tail(q)
        /\ conn' = LET cleared == [conn EXCEPT ![c] = Clear(@)]
                   IN [cleared EXCEPT ![d] = Opened(@, k, i, conn[c].cookie)]
        /\ table' = [table EXCEPT ![Hash(k)] = (@ \ {c}) \cup {d}]
        /\ out' = Pkt("SYNACK", k, conn[c].cookie)
  /\ UNCHANGED <<active, dead>>

process_syn_packet(k, i) ==
  /\ SynNone(k, i) \/ SynRetrans(k, i) \/ SynNew(k, i)
  /\ open' = open \cup {k}
  /\ UNCHANGED <<tmajor, metas>>

\* Only an onloaded connection acts on an ACK or on data (one packet is kept
\* for forward_app_data; a later one overwrites it).
process_ack_packet(k) ==
  /\ Found(k) /\ conn[Search(k)].hs = "ACTIVE"
  /\ conn' = [conn EXCEPT ![Search(k)].pend = TRUE]
  /\ out' = NoPkt
  /\ UNCHANGED <<table, free, active, tmajor, metas, open, dead>>

\* A FIN or RST of the client: to the host once onloaded; before that the
\* calls to remove_session are commented out.
process_fin_packet(k) ==
  /\ k \in open
  /\ open' = open \ {k}
  /\ out' = Pkt(CASE ~Found(k) -> "RST"
                  [] Found(k) /\ conn[Search(k)].hs = "ACTIVE" -> "FWD"
                  [] OTHER -> "NONE", k, 0)
  /\ UNCHANGED <<conn, table, free, active, tmajor, metas, dead>>

process_rst_packet(k) ==
  /\ k \in open
  /\ open' = open \ {k}
  /\ out' = Pkt(IF Found(k) /\ conn[Search(k)].hs = "ACTIVE" THEN "FWD" ELSE "NONE", k, 0)
  /\ UNCHANGED <<conn, table, free, active, tmajor, metas, dead>>
-----------------------------------------------------------------------------
(***************************************************************************)
(* The TLS layer.                                                          *)
(***************************************************************************)

\* The certificate is signed, or a retransmitted Client Hello arrives while
\* the host has not answered: the keys go to the host.
send_key_meta(c) ==
  /\ conn[c].state # "IDLE" /\ conn[c].hs \in {"HANDSHAKE", "CERTIFICATE_VERIFY"}
  /\ conn' = [conn EXCEPT ![c].hs = "CERTIFICATE_VERIFY",
                          ![c].meta = [isn |-> conn[c].isn, kind |-> "key"]]
  /\ metas' = [metas EXCEPT ![conn[c].key] = @ \cup {conn[c].isn}]
  /\ out' = Pkt("META", conn[c].key, 0)
  /\ UNCHANGED <<table, free, active, tmajor, open, dead>>

\* The client's Finished, in a segment behind that of the Client Hello.
handle_application_data(c) ==
  /\ conn[c].hs = "FINISHED"
  /\ conn' = [conn EXCEPT ![c].hs = "ACTIVE", ![c].moved = TRUE]
  /\ out' = NoPkt
  /\ UNCHANGED <<table, free, active, tmajor, metas, open, dead>>

\* A wrong Finished, an alert or an unknown handshake message.
abort_session(c) ==
  /\ conn[c].state # "IDLE" /\ conn[c].hs # "ACTIVE"
  /\ RemoveSession(c)
  /\ out' = Pkt("RST", conn[c].key, 0)
  /\ UNCHANGED <<tmajor, metas, open, dead>>
-----------------------------------------------------------------------------
(***************************************************************************)
(* Packets of the host, each an answer to a key meta packet sent for k     *)
(* with the sequence numbers i, in this or an earlier session.             *)
(***************************************************************************)

\* Variant: the sequence numbers are not compared.
AnswersAny(c, i) == conn[c].meta # NoMeta

Answers(c, i) == conn[c].meta = [isn |-> i, kind |-> "key"]

process_host_mig_fin(k, i) ==
  /\ i \in metas[k] /\ Found(k)
  /\ LET c == Search(k) IN
     \/ /\ Answers(c, i)
        /\ conn' = [conn EXCEPT ![c].mig = i]
        /\ out' = NoPkt
     \/ /\ ~Answers(c, i)
        /\ conn' = [conn EXCEPT ![c].meta = [isn |-> conn[c].isn, kind |-> "rst"]]
        /\ out' = Pkt("RSTMETA", k, 0)
  /\ UNCHANGED <<table, free, active, tmajor, metas, open, dead>>

process_host_close(k, i) ==
  /\ i \in metas[k] /\ Found(k) /\ Answers(Search(k), i)
  /\ conn' = [conn EXCEPT ![Search(k)].ready = i]
  /\ out' = NoPkt
  /\ UNCHANGED <<table, free, active, tmajor, metas, open, dead>>
-----------------------------------------------------------------------------
\* Variant: the rule is never in place.
NeverApplied(c) == FALSE

\* apply_hws: the rule is in place from this visit on.
apply_hws(c) == conn[c].hs = "ACTIVE" /\ conn[c].mig # NoIsn

remove_hws(c) == (conn[c].applied \/ apply_hws(c)) /\ conn[c].ready # NoIsn

\* One visit of the main loop to a session: apply_hws, remove_hws,
\* forward_app_data, send_remain_server_records.
LoopVisit(c) ==
  /\ conn[c].state # "IDLE"
  /\ \/ /\ remove_hws(c)
        /\ RemoveSession(c)
        /\ out' = NoPkt
     \/ /\ ~remove_hws(c)
        /\ LET on == conn[c].applied \/ apply_hws(c) IN
           /\ conn' = [conn EXCEPT ![c].applied = on,
                                   ![c].pend = @ /\ ~on,
                                   ![c].hs = IF @ = "CERTIFICATE_VERIFY" /\ conn[c].mig # NoIsn
                                             THEN "FINISHED" ELSE @]
           /\ out' = IF on /\ conn[c].pend THEN Pkt("FWD", conn[c].key, 0) ELSE NoPkt
        /\ UNCHANGED <<table, free, active>>
  /\ UNCHANGED <<tmajor, metas, open, dead>>

\* update_cookie, at a tick that carries into t_major.
update_cookie ==
  /\ tmajor' = (tmajor + 1) % Eras
  /\ out' = NoPkt
  /\ UNCHANGED <<conn, table, free, active, metas, open, dead>>

Next ==
  /\ ~dead
  /\ \/ \E k \in Key, i \in Isn : process_syn_packet(k, i)
     \/ \E k \in Key : process_ack_packet(k)
     \/ \E k \in Key : process_fin_packet(k)
     \/ \E k \in Key : process_rst_packet(k)
     \/ \E c \in Conn : send_key_meta(c)
     \/ \E c \in Conn : handle_application_data(c)
     \/ \E c \in Conn : abort_session(c)
     \/ \E k \in Key, i \in Isn : process_host_mig_fin(k, i)
     \/ \E k \in Key, i \in Isn : process_host_close(k, i)
     \/ \E c \in Conn : LoopVisit(c)
     \/ update_cookie

\* The main loop never stops visiting the sessions of its table.
Fairness == \A c \in Conn : WF_vars(LoopVisit(c) /\ ~dead)

Spec == Init /\ [][Next]_vars /\ Fairness
-----------------------------------------------------------------------------
ConnState ==
  [state : {"IDLE", "OPEN"}, key : Key \cup {NoKey}, isn : Isn \cup {NoIsn},
   cookie : Era, first : Era, moved : BOOLEAN,
   hs : {"HANDSHAKE", "CERTIFICATE_VERIFY", "FINISHED", "ACTIVE"},
   meta : MetaHdr \cup {NoMeta}, mig : Isn \cup {NoIsn},
   applied : BOOLEAN, ready : Isn \cup {NoIsn}, pend : BOOLEAN]

\* The tables, queues and fields of tcp.c hold values of their types.
TypeOK ==
  /\ conn \in [Conn -> ConnState]
  /\ table \in [Bin -> SUBSET Conn]
  /\ free \in Seq(Conn)
  /\ active \in Nat
  /\ tmajor \in Era
  /\ metas \in [Key -> SUBSET Isn]
  /\ open \in SUBSET Key
  /\ out \in [type : {"none", "SYNACK", "RST", "FWD", "NONE", "META", "RSTMETA"},
              key : Key \cup {NoKey}, cookie : Era]
  /\ dead \in BOOLEAN

Used == {c \in Conn : conn[c].state # "IDLE"}

\* Every connection is in the free queue, once and idle, or in use and then
\* in the one bin of its own four-tuple (the asserts of insert_tcp_connection
\* and ht_search); no two share a four-tuple, so ht_search's first match is
\* the only one; active_cnt counts them (remove_session asserts it positive).
TableSound ==
  /\ \A c \in Conn : conn[c].state = "IDLE" <=> \E i \in DOMAIN free : free[i] = c
  /\ \A i, j \in DOMAIN free : free[i] = free[j] => i = j
  /\ \A b \in Bin : table[b] = {c \in Used : Hash(conn[c].key) = b}
  /\ \A c \in Used : conn[c].key \in Key
  /\ \A c, d \in Used : conn[c].key = conn[d].key => c = d
  /\ active = Cardinality(Used)

\* The server flight (send_remain_server_records) and the forwarding to the
\* host follow a MIG_FIN for the keys of this very session: one for an
\* earlier session of the four-tuple, or of the slot, never counts, and
\* neither does such a close; a free connection keeps nothing of its last use.
MigrationMatches ==
  \A c \in Conn :
    /\ {conn[c].meta.isn, conn[c].mig, conn[c].ready} \subseteq {NoIsn, conn[c].isn}
    /\ conn[c].hs \in {"FINISHED", "ACTIVE"} => conn[c].mig # NoIsn
    /\ conn[c].state = "IDLE" <=> conn[c].isn = NoIsn

\* A session that the host serves is dropped only after the host's close of
\* this session, or for a new SYN of the client (process_host_close,
\* remove_hws, process_syn_packet).
OnloadedUntilClosed ==
  [][\A c \in Conn :
       conn[c].hs = "ACTIVE" /\ conn'[c].hs # "ACTIVE" =>
         \/ conn[c].ready = conn[c].isn
         \/ out'.type = "SYNACK" /\ out'.key = conn[c].key]_vars

\* pop_free_connection never finds the queue empty while there are no more
\* four-tuples than connections: no session is lost, none is held twice.
NotExhausted == Cardinality(Key) <= Cardinality(Conn) => ~dead

\* A session that the host has closed leaves the table (remove_hws), if the
\* client's Finished had arrived and the process runs on.
ClosedIsRemoved ==
  \A c \in Conn : (conn[c].hs = "ACTIVE" /\ conn[c].ready # NoIsn)
                    ~> (conn[c].ready = NoIsn \/ dead)

\* tcp.c:2819, "Validate SYN for classifying retransmitted SYN & new SYN": a
\* late copy of the SYN that opened a session is not taken for a new one.
LateSynIsHarmless ==
  [][\A c, d \in Conn :
       conn[c].hs = "ACTIVE" /\ conn'[d].key = conn[c].key /\ conn'[d].isn = conn[c].isn
         => conn'[d].hs = "ACTIVE"]_vars
=============================================================================
