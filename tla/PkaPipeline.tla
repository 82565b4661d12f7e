---------------------------- MODULE PkaPipeline ----------------------------
(***************************************************************************)
(* The public-key pipeline of the SmartNIC server.  Worker cores take      *)
(* crypto ops from their pool and put them into their submit ring; core 0  *)
(* moves them into the PKA engine, collects the results and flags the      *)
(* session; the worker then goes on with the handshake.  The submit ring   *)
(* is the bounded queue that SjRing implements.  A worker's call is split  *)
(* at each point where core 0 can see or change what it touches.           *)
(***************************************************************************)
EXTENDS Integers, Sequences, FiniteSets, Functions

CONSTANTS Session,          \* the sessions of all workers
          Op,               \* the crypto ops of all workers
          NumWorkers,       \* rte_lcore_count() - 1
          Home(_),          \* the worker core of a session or an op
          MaxOutstanding,   \* MAX_OUTSTANDING_PKA_REQ
          CntRange,         \* 2^32: cur_crypto_cnt is unsigned
          MaxRemovals,      \* bound on how many sessions are removed
          RemoveEarly,      \* sessions are also removed in mid-handshake
          PkaOutlastsCall,  \* a result never overtakes the submitting call
          NoOp, NoSess      \* NULL

Worker == 1 .. NumWorkers

Opcode == {"KEY_GENERATION", "SHARED_SECRET_CALC", "SIGNATURE"}

ASSUME PkaAssumption ==
  /\ NumWorkers \in Nat \ {0}
  /\ IsFiniteSet(Session) /\ IsFiniteSet(Op)
  /\ \A x \in Session \cup Op : Home(x) \in Worker
  /\ MaxOutstanding \in Nat \ {0}
  /\ CntRange \in Nat /\ CntRange > MaxOutstanding
  /\ MaxRemovals \in Nat
  /\ RemoveEarly \in BOOLEAN /\ PkaOutlastsCall \in BOOLEAN
  /\ NoOp \notin Op /\ NoSess \notin Session

\* Sessions per worker, local_max_conn.
MaxConn(w) == Cardinality({s \in Session : Home(s) = w})

\* thread_local_init gives each worker local_max_conn * 3 ops.
ASSUME OpPoolAssumption ==
  \A w \in Worker : Cardinality({o \in Op : Home(o) = w}) = 3 * MaxConn(w)

\* The least element of a set of numbers: where main's doubling stops.
Least(N) == CHOOSE n \in N : \A m \in N : n <= m

PowersOfTwo(w) == {2^k : k \in 0 .. MaxConn(w) + 1}

\* A ring that is only as large as the number of sessions.
RingCntTight(w) == Least({n \in PowersOfTwo(w) : n >= MaxConn(w)})

\* local_ring_cnt: main doubles it while it does not exceed local_max_conn.
RingCnt(w) == Least({n \in PowersOfTwo(w) : n > MaxConn(w)})

VARIABLES
  sess,       \* the part of ssl_session_t that the pipeline touches
  op,         \* the crypto ops
  pool,       \* op_pool of each worker, first to last
  ring,       \* submit_pka_ring of each worker
  cnt,        \* cur_crypto_cnt of each worker
  hw,         \* requests inside the PKA engine
  wk,         \* where each worker is
  c0,         \* where core 0 is
  removals,   \* sessions removed so far
  dead        \* why the process exited, if it did

vars == <<sess, op, pool, ring, cnt, hw, wk, c0, removals, dead>>

FreshSession ==
  [hs |-> "HELLO_REQUEST", waiting |-> FALSE, completed |-> FALSE, pending |-> NoOp,
   pka_op |-> NoOp, result |-> "none", keyed |-> FALSE, signed |-> FALSE]

ZeroedOp == [sess |-> NoSess, opcode |-> "none", data |-> FALSE, pka_flag |-> FALSE]

Idle == [pc |-> "idle", s |-> NoSess, op |-> NoOp, done |-> NoOp]

\* The ops of a worker in the order in which thread_local_init queued them.
InitialPool(w) ==
  CHOOSE q \in [1 .. Cardinality({o \in Op : Home(o) = w}) -> {o \in Op : Home(o) = w}] :
    \A i, j \in DOMAIN q : q[i] = q[j] => i = j

Init ==
  /\ sess = [s \in Session |-> FreshSession]
  /\ op = [o \in Op |-> ZeroedOp]
  /\ pool = [w \in Worker |-> InitialPool(w)]
  /\ ring = [w \in Worker |-> <<>>]
  /\ cnt = [w \in Worker |-> 0]
  /\ hw = <<>>
  /\ wk = [w \in Worker |-> Idle]
  /\ c0 = [pc |-> "submit", w |-> 1, op |-> NoOp, s |-> NoSess]
  /\ removals = 0
  /\ dead = "no"
-----------------------------------------------------------------------------
Alive == dead = "no"

\* new_ssl_crypto_op followed by the assignments of its caller: the worker
\* holds the head of its pool as an op for session s and is about to submit
\* it; done is the finished op that get_processed_crypto still has to free.
TakeOp(w, s, opcode, data, done) ==
  IF pool[w] = <<>>
  THEN dead' = "no op" /\ UNCHANGED <<op, pool, wk>>
  ELSE LET o == Head(pool[w]) IN
       /\ op' = [op EXCEPT ![o] = [@ EXCEPT !.sess = s, !.opcode = opcode, !.data = data]]
       /\ pool' = [pool EXCEPT ![w] = Tail(@)]
       /\ wk' = [wk EXCEPT ![w] = [pc |-> "enqueue", s |-> s, op |-> o, done |-> done]]
       /\ UNCHANGED dead

\* Where a worker goes when the submitting function returns.
AfterSubmit(w) ==
  IF wk[w].done = NoOp THEN Idle ELSE [wk[w] EXCEPT !.pc = "clear"]

\* A full Client Hello of a session that has none yet reaches
\* unpack_handshake, which calls generate_ecdhe_key_pair.
ClientHello(w, s) ==
  /\ Alive /\ wk[w].pc = "idle" /\ Home(s) = w
  /\ sess[s].hs = "HELLO_REQUEST" /\ ~sess[s].waiting
  /\ TakeOp(w, s, "KEY_GENERATION", TRUE, NoOp)
  /\ UNCHANGED <<sess, ring, cnt, hw, c0, removals>>

\* submit_pka_request: a full ring makes it free the op again.
Enqueue(w) ==
  /\ Alive /\ wk[w].pc = "enqueue"
  /\ IF Len(ring[w]) < RingCnt(w) - 1
     THEN /\ ring' = [ring EXCEPT ![w] = Append(@, wk[w].op)]
          /\ wk' = [wk EXCEPT ![w].pc = "mark"]
          /\ UNCHANGED <<op, pool>>
     ELSE /\ op' = [op EXCEPT ![wk[w].op] = ZeroedOp]
          /\ pool' = [pool EXCEPT ![w] = Append(@, wk[w].op)]
          /\ wk' = [wk EXCEPT ![w] = AfterSubmit(w)]
          /\ UNCHANGED ring
  /\ UNCHANGED <<sess, cnt, hw, c0, removals, dead>>

\* The stores that follow submit_pka_request, when core 0 may have the op.
MarkSubmitted(w) ==
  /\ Alive /\ wk[w].pc = "mark"
  /\ sess' = [sess EXCEPT ![wk[w].s] = [@ EXCEPT !.waiting = TRUE, !.pending = wk[w].op]]
  /\ op' = [op EXCEPT ![wk[w].op].pka_flag = TRUE]
  /\ wk' = [wk EXCEPT ![w] = AfterSubmit(w)]
  /\ UNCHANGED <<pool, ring, cnt, hw, c0, removals, dead>>

\* get_processed_crypto up to the call that continues the handshake.  After
\* the key generation it runs handle_handshake, which answers the Client
\* Hello and submits the next op from inside this call.
GetProcessedCrypto(w, s) ==
  /\ Alive /\ wk[w].pc = "idle" /\ Home(s) = w
  /\ sess[s].completed
  /\ LET done == sess[s].pka_op IN
     CASE sess[s].hs = "HELLO_REQUEST" ->
            /\ sess' = [sess EXCEPT ![s] = [@ EXCEPT !.pending = NoOp, !.hs = "SERVER_HELLO"]]
            /\ TakeOp(w, s, "SHARED_SECRET_CALC", FALSE, done)
       [] sess[s].hs = "SERVER_HELLO" ->
            /\ sess' = [sess EXCEPT ![s] = [@ EXCEPT !.pending = NoOp, !.keyed = TRUE]]
            /\ wk' = [wk EXCEPT ![w] = [pc |-> "clear", s |-> s, op |-> NoOp, done |-> done]]
            /\ UNCHANGED <<op, pool, dead>>
       [] sess[s].hs = "CERTIFICATE" ->
            /\ sess' = [sess EXCEPT ![s] = [@ EXCEPT !.pending = NoOp, !.signed = TRUE]]
            /\ wk' = [wk EXCEPT ![w] = [pc |-> "clear", s |-> s, op |-> NoOp, done |-> done]]
            /\ UNCHANGED <<op, pool, dead>>
       [] OTHER ->
            /\ dead' = "unsupported state"
            /\ UNCHANGED <<sess, op, pool, wk>>
  /\ UNCHANGED <<ring, cnt, hw, c0, removals>>

\* Variant: the op that was just submitted is freed instead of the one that
\* was processed.
ClearFlagsWrongOp(w) ==
  /\ Alive /\ wk[w].pc = "clear"
  /\ sess' = [sess EXCEPT ![wk[w].s] = [@ EXCEPT !.waiting = FALSE, !.completed = FALSE]]
  /\ LET o == IF wk[w].op = NoOp THEN wk[w].done ELSE wk[w].op IN
     /\ op' = [op EXCEPT ![o] = ZeroedOp]
     /\ pool' = [pool EXCEPT ![w] = Append(@, o)]
  /\ wk' = [wk EXCEPT ![w] = Idle]
  /\ UNCHANGED <<ring, cnt, hw, c0, removals, dead>>

\* The end of get_processed_crypto: both flags go down and the op that was
\* processed is freed.
ClearFlags(w) ==
  /\ Alive /\ wk[w].pc = "clear"
  /\ sess' = [sess EXCEPT ![wk[w].s] = [@ EXCEPT !.waiting = FALSE, !.completed = FALSE]]
  /\ op' = [op EXCEPT ![wk[w].done] = ZeroedOp]
  /\ pool' = [pool EXCEPT ![w] = Append(@, wk[w].done)]
  /\ wk' = [wk EXCEPT ![w] = Idle]
  /\ UNCHANGED <<ring, cnt, hw, c0, removals, dead>>

\* Variant: the handshake state is not advanced before the signature is
\* submitted.
SubmitSignatureSameState(w, s) ==
  /\ Alive /\ wk[w].pc = "idle" /\ Home(s) = w
  /\ sess[s].hs = "SERVER_HELLO" /\ sess[s].keyed
  /\ TakeOp(w, s, "SIGNATURE", FALSE, NoOp)
  /\ UNCHANGED <<sess, ring, cnt, hw, c0, removals>>

\* send_remain_server_records with the handshake keys: the certificate is
\* queued and its signature submitted.
SubmitSignature(w, s) ==
  /\ Alive /\ wk[w].pc = "idle" /\ Home(s) = w
  /\ sess[s].hs = "SERVER_HELLO" /\ sess[s].keyed
  /\ sess' = [sess EXCEPT ![s].hs = "CERTIFICATE"]
  /\ TakeOp(w, s, "SIGNATURE", FALSE, NoOp)
  /\ UNCHANGED <<ring, cnt, hw, c0, removals>>

\* send_remain_server_records with the signature: the rest of the flight is
\* built and the key meta packet goes to the host.
SendKeyMeta(w, s) ==
  /\ Alive /\ wk[w].pc = "idle" /\ Home(s) = w
  /\ sess[s].hs = "CERTIFICATE" /\ sess[s].signed
  /\ sess' = [sess EXCEPT ![s].hs = "CERTIFICATE_VERIFY"]
  /\ UNCHANGED <<op, pool, ring, cnt, hw, wk, c0, removals, dead>>

\* remove_session, with clear_ssl_session and remove_pending_pka_op; the slot
\* is then free for a new connection.  Normally the host has closed the
\* connection; a new SYN on the same four-tuple or a fatal alert remove a
\* session that is still in its handshake.
RemoveSession(w, s) ==
  /\ Alive /\ wk[w].pc = "idle" /\ Home(s) = w
  /\ removals < MaxRemovals
  /\ RemoveEarly \/ sess[s].hs = "CERTIFICATE_VERIFY"
  /\ removals' = removals + 1
  /\ LET o == sess[s].pending IN
     /\ sess' = [sess EXCEPT ![s] = [FreshSession EXCEPT !.pka_op = sess[s].pka_op]]
     /\ IF o # NoOp
        THEN /\ op' = [op EXCEPT ![o] = ZeroedOp]
             /\ pool' = [pool EXCEPT ![w] = Append(@, o)]
             /\ cnt' = [cnt EXCEPT ![w] = (@ - 1) % CntRange]
        ELSE UNCHANGED <<op, pool, cnt>>
  /\ UNCHANGED <<ring, hw, wk, c0, dead>>
-----------------------------------------------------------------------------
\* Core 0 scans the workers, first to submit and then to collect.
NextWorker(other) ==
  IF c0.w < NumWorkers THEN [c0 EXCEPT !.w = @ + 1]
                       ELSE [c0 EXCEPT !.pc = other, !.w = 1]

MaySubmit(w) == cnt[w] < MaxOutstanding /\ ring[w] # <<>>

\* handle_submitted_pka: leave the inner loop.
SubmitNextWorker ==
  /\ Alive /\ c0.pc = "submit" /\ ~MaySubmit(c0.w)
  /\ c0' = NextWorker("complete")
  /\ UNCHANGED <<sess, op, pool, ring, cnt, hw, wk, removals, dead>>

\* handle_submitted_pka: take one op from the ring and start it.
SubmitOp ==
  /\ Alive /\ c0.pc = "submit" /\ MaySubmit(c0.w)
  /\ LET o == Head(ring[c0.w]) IN
     /\ ring' = [ring EXCEPT ![c0.w] = Tail(@)]
     /\ IF op[o].opcode \in Opcode
        THEN /\ hw' = Append(hw, [op |-> o, opcode |-> op[o].opcode, ready |-> FALSE])
             /\ c0' = [c0 EXCEPT !.pc = "mark", !.op = o]
             /\ UNCHANGED dead
        ELSE dead' = "unsupported opcode" /\ UNCHANGED <<hw, c0>>
  /\ UNCHANGED <<sess, op, pool, cnt, wk, removals>>

\* handle_submitted_pka: op->pka_flag and op->sess->pending_pka_op.
MarkExecuted ==
  /\ Alive /\ c0.pc = "mark"
  /\ op' = [op EXCEPT ![c0.op].pka_flag = TRUE]
  /\ IF op[c0.op].sess = NoSess
     THEN dead' = "null session" /\ UNCHANGED <<sess, c0>>
     ELSE /\ sess' = [sess EXCEPT ![op[c0.op].sess].pending = c0.op]
          /\ c0' = [c0 EXCEPT !.pc = "count", !.op = NoOp]
          /\ UNCHANGED dead
  /\ UNCHANGED <<pool, ring, cnt, hw, wk, removals>>

\* Variant: the request is counted twice.
CountTwice ==
  /\ Alive /\ c0.pc = "count"
  /\ cnt' = [cnt EXCEPT ![c0.w] = (@ + 2) % CntRange]
  /\ c0' = [c0 EXCEPT !.pc = "submit"]
  /\ UNCHANGED <<sess, op, pool, ring, hw, wk, removals, dead>>

\* handle_submitted_pka: cur_crypto_cnt++.
CountExecuted ==
  /\ Alive /\ c0.pc = "count"
  /\ cnt' = [cnt EXCEPT ![c0.w] = (@ + 1) % CntRange]
  /\ c0' = [c0 EXCEPT !.pc = "submit"]
  /\ UNCHANGED <<sess, op, pool, ring, hw, wk, removals, dead>>

\* The PKA engine finishes a request; the engine may reorder.
PkaFinish(i) ==
  /\ Alive /\ i \in DOMAIN hw /\ ~hw[i].ready
  /\ PkaOutlastsCall => \A w \in Worker : wk[w].op # hw[i].op
  /\ hw' = [hw EXCEPT ![i].ready = TRUE]
  /\ UNCHANGED <<sess, op, pool, ring, cnt, wk, c0, removals, dead>>

\* handle_completed_pka: leave the inner loop, or return because
\* pka_get_result has nothing.
CollectNextWorker ==
  /\ Alive /\ c0.pc = "complete"
  /\ IF cnt[c0.w] = 0 THEN c0' = NextWorker("submit")
     ELSE /\ \A i \in DOMAIN hw : ~hw[i].ready
          /\ c0' = [c0 EXCEPT !.pc = "submit", !.w = 1]
  /\ UNCHANGED <<sess, op, pool, ring, cnt, hw, wk, removals, dead>>

\* The engine once pka_get_result has taken the i-th request from it.
Without(q, i) == SubSeq(q, 1, i - 1) \o SubSeq(q, i + 1, Len(q))

\* handle_completed_pka: take one result.  The op names the session, also when
\* the session is gone.
TakeResult(i) ==
  /\ Alive /\ c0.pc = "complete" /\ cnt[c0.w] > 0
  /\ i \in DOMAIN hw /\ hw[i].ready
  /\ hw' = Without(hw, i)
  /\ LET o == hw[i].op
         s == op[o].sess IN
     IF s = NoSess THEN dead' = "rotten result" /\ UNCHANGED <<sess, c0>>
     ELSE IF ~op[o].pka_flag
          THEN sess' = [sess EXCEPT ![s].pka_op = o] /\ UNCHANGED <<c0, dead>>
          ELSE IF sess[s].hs = "HELLO_REQUEST" /\ ~op[o].data
          THEN dead' = "record is null" /\ UNCHANGED <<sess, c0>>
          ELSE /\ sess' = [sess EXCEPT ![s] = [@ EXCEPT !.pka_op = o, !.result = hw[i].opcode]]
               /\ c0' = [c0 EXCEPT !.pc = "uncount", !.s = s]
               /\ UNCHANGED dead
  /\ UNCHANGED <<op, pool, ring, cnt, wk, removals>>

\* Variants: a request is counted down twice, wrapping or not.
UncountTwice ==
  /\ Alive /\ c0.pc = "uncount"
  /\ cnt' = [cnt EXCEPT ![Home(c0.s)] = (@ - 2) % CntRange]
  /\ c0' = [c0 EXCEPT !.pc = "flag"]
  /\ UNCHANGED <<sess, op, pool, ring, hw, wk, removals, dead>>

\* handle_completed_pka: cur_crypto_cnt--.
Uncount ==
  /\ Alive /\ c0.pc = "uncount"
  /\ cnt' = [cnt EXCEPT ![Home(c0.s)] = (@ - 1) % CntRange]
  /\ c0' = [c0 EXCEPT !.pc = "flag"]
  /\ UNCHANGED <<sess, op, pool, ring, hw, wk, removals, dead>>

\* handle_completed_pka: the release store of completed_crypto.
FlagCompleted ==
  /\ Alive /\ c0.pc = "flag"
  /\ sess' = [sess EXCEPT ![c0.s].completed = TRUE]
  /\ c0' = [c0 EXCEPT !.pc = "complete", !.s = NoSess]
  /\ UNCHANGED <<op, pool, ring, cnt, hw, wk, removals, dead>>
-----------------------------------------------------------------------------
WorkerInCall(w) == Enqueue(w) \/ MarkSubmitted(w) \/ ClearFlags(w)

WorkerLoop(w, s) == GetProcessedCrypto(w, s) \/ SubmitSignature(w, s) \/ SendKeyMeta(w, s)

Collect == CollectNextWorker \/ \E i \in DOMAIN hw : TakeResult(i)

Core0 == SubmitNextWorker \/ SubmitOp \/ MarkExecuted \/ CountExecuted
         \/ Collect \/ Uncount \/ FlagCompleted

Next ==
  \/ \E w \in Worker :
       \/ WorkerInCall(w)
       \/ \E s \in Session : ClientHello(w, s) \/ WorkerLoop(w, s) \/ RemoveSession(w, s)
  \/ Core0
  \/ \E i \in DOMAIN hw : PkaFinish(i)

Spec == Init /\ [][Next]_vars

\* The workers' loop visits every session again and again, core 0 polls for
\* ever, and the PKA engine finishes what it was given.
FairSpec ==
  /\ Spec
  /\ \A w \in Worker : WF_vars(WorkerInCall(w))
  /\ \A w \in Worker, s \in Session : WF_vars(WorkerLoop(w, s))
  /\ WF_vars(Core0)
  /\ WF_vars(\E i \in DOMAIN hw : PkaFinish(i))
-----------------------------------------------------------------------------
TypeOK ==
  /\ sess \in [Session ->
       [hs : {"HELLO_REQUEST", "SERVER_HELLO", "CERTIFICATE", "CERTIFICATE_VERIFY"},
        waiting : BOOLEAN, completed : BOOLEAN, pending : Op \cup {NoOp},
        pka_op : Op \cup {NoOp}, result : Opcode \cup {"none"},
        keyed : BOOLEAN, signed : BOOLEAN]]
  /\ op \in [Op -> [sess : Session \cup {NoSess}, opcode : Opcode \cup {"none"},
                    data : BOOLEAN, pka_flag : BOOLEAN]]
  /\ \A w \in Worker : pool[w] \in Seq(Op) /\ ring[w] \in Seq(Op)
  /\ cnt \in [Worker -> 0 .. CntRange - 1]
  /\ hw \in Seq([op : Op, opcode : Opcode, ready : BOOLEAN])
  /\ wk \in [Worker -> [pc : {"idle", "enqueue", "mark", "clear"},
                        s : Session \cup {NoSess}, op : Op \cup {NoOp}, done : Op \cup {NoOp}]]
  /\ c0 \in [pc : {"submit", "mark", "count", "complete", "uncount", "flag"},
             w : Worker, op : Op \cup {NoOp}, s : Session \cup {NoSess}]
  /\ removals \in 0 .. MaxRemovals
  /\ dead \in {"no", "no op", "unsupported state", "unsupported opcode",
               "null session", "rotten result", "record is null"}

\* The op is queued for the engine or inside it.
InFlight(o) ==
  \/ \E w \in Worker : o \in Range(ring[w])
  \/ \E i \in DOMAIN hw : hw[i].op = o

\* The worker still has something to do with the op.
HeldByWorker(o) ==
  \E w \in Worker : o = wk[w].done \/ (wk[w].pc \in {"enqueue", "mark"} /\ o = wk[w].op)

\* The session waits for get_processed_crypto to pick the op up.
Awaited(s) == sess[s].completed /\ \A w \in Worker : wk[w].pc = "idle" \/ wk[w].s # s

\* An op in a pool is free: delete_op was not called for an op that is in the
\* submit ring, in the PKA engine, pending for a session or waiting to be
\* processed, and was not called twice.  new_ssl_crypto_op would otherwise
\* hand one op to two sessions.
FreeOpsAreFree ==
  \A w \in Worker :
    /\ IsInjective(pool[w])
    /\ \A o \in Range(pool[w]) :
         /\ ~InFlight(o) /\ ~HeldByWorker(o)
         /\ \A s \in Session : sess[s].pending # o
         /\ \A s \in Session : Awaited(s) => sess[s].pka_op # o

\* cur_crypto_cnt, which core 0 counts up and down and a worker counts down
\* when it removes a session, is the number of the worker's requests inside
\* the engine, up to the one core 0 is handling; it stays within
\* MAX_OUTSTANDING_PKA_REQ and never wraps.  All variables have their types.
CounterExact ==
  /\ TypeOK
  /\ \A w \in Worker :
      /\ cnt[w] = Cardinality({i \in DOMAIN hw : Home(hw[i].op) = w})
                  - (IF c0.pc \in {"mark", "count"} /\ c0.w = w THEN 1 ELSE 0)
                  + (IF c0.pc = "uncount" /\ Home(c0.s) = w THEN 1 ELSE 0)
      /\ cnt[w] <= MaxOutstanding

\* get_processed_crypto chooses its continuation by handshake_state alone;
\* the results it reads are always those of the operation this state stands
\* for, and belong to the op it will free.
ResultMatchesState ==
  \A s \in Session : Awaited(s) =>
    /\ sess[s].result = CASE sess[s].hs = "HELLO_REQUEST" -> "KEY_GENERATION"
                          [] sess[s].hs = "SERVER_HELLO" -> "SHARED_SECRET_CALC"
                          [] sess[s].hs = "CERTIFICATE" -> "SIGNATURE"
                          [] OTHER -> "unexpected"
    /\ op[sess[s].pka_op].sess = s

\* The ring that main() sizes from local_max_conn never refuses a request:
\* calculate_shared_secret and signature_certificate are called without
\* looking at their result, so a refused request would never be made again.
NeverRefused ==
  \A w \in Worker : wk[w].pc = "enqueue" => Len(ring[w]) < RingCnt(w) - 1

\* A session whose Client Hello was taken is handed to the host in the end:
\* no completion is lost between core 0 and the worker.
HandshakeServed ==
  \A s \in Session : sess[s].waiting ~> sess[s].hs = "CERTIFICATE_VERIFY"

\* A result that comes back for a session that was removed is dropped
\* ("it may be already rotten"): core 0 never follows the session pointer of
\* a zeroed op.
RottenResultDropped == dead # "rotten result"
=============================================================================
