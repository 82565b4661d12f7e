---------------------------- MODULE PkaBenchmark ----------------------------
(***************************************************************************)
(* The multi-threaded benchmark of the PKA engine (benchmark_example).     *)
(* main starts one worker per thread in the chosen mode.  The workers meet *)
(* at a barrier, worker 0 makes the keys, and each keeps a window of       *)
(* commands in flight on its own handle, whose answers come in any order,  *)
(* until its number of commands is reached.  A step ends wherever another  *)
(* thread can see or change what it touches.                               *)
(***************************************************************************)
EXTENDS Integers, Sequences, FiniteSets, Functions

CONSTANTS Modes,                \* option -m: the modes that are started
          ThreadNums,           \* option -t: the numbers of threads
          MAX_THREAD_NUM,       \* the length of the arrays of counters
          outstanding_cmd_num,  \* option -o: the window
          cmd_cnt_per_thread,   \* option -n
          CHECK_CORRECTNESS,    \* build: compare results with the answers
          MaxErrors,            \* bound on the answers with an error status
          MaxPrints,            \* bound on the lines of statistics
          MaxRand               \* bound on the loop of RANDworker

Simple == {"RSA_DECRYPTION", "P256", "X25519", "ECDSA_SIG_GEN"}
Tls == {"TLS13_ASYM", "TLS13_ASYM_HKDF", "SPSC"}

ASSUME BenchmarkAssumption ==
  /\ Modes \subseteq Simple \cup Tls \cup {"RAND"}
  /\ MAX_THREAD_NUM \in Nat /\ MAX_THREAD_NUM >= 2
  /\ ThreadNums \subseteq 1 .. MAX_THREAD_NUM
  /\ outstanding_cmd_num \in Nat \ {0}
  /\ cmd_cnt_per_thread \in Nat \ {0}
  /\ CHECK_CORRECTNESS \in BOOLEAN
  /\ MaxErrors \in Nat /\ MaxPrints \in Nat /\ MaxRand \in Nat

Thread == 0 .. MAX_THREAD_NUM - 1

VARIABLES
  operation_mode, thread_num,
  exited,          \* why the process ended, "no" while it runs
  pc,              \* where each thread is
  waiting,         \* threads inside thread_start_barrier
  keys,            \* the arrays of keys and answers are filled
  rsa_ciphertext,  \* the global operand: its contents
  cnt, cur,        \* cnt and cur_command_cnt of each worker
  user_data,       \* the tags of each worker
  busy, out,       \* commands in the engine; answers that wait, per handle
  errors,          \* answers with an error status so far
  cmd_cnt, ecdsa_done, ecdh_done,
  failed,          \* commands of each worker that came back with an error
  stat,            \* PrintStatistics: its statics and its place
  ring, ptr,       \* submit_pka_ring; what the Consumer's user_data points to
  wid,             \* the worker_id the Consumer found in tid[thread_num]
  joined           \* threads that main has joined

control == <<operation_mode, thread_num, wid>>
work == <<cnt, cur, user_data, busy, out, errors>>
counts == <<cmd_cnt, ecdsa_done, ecdh_done, failed>>
spsc == <<ring, ptr>>
vars == <<control, exited, pc, waiting, keys, rsa_ciphertext, work, counts,
          stat, spsc, joined>>

\* The threads pthread_create starts: two in mode SPSC, whatever -t says.
Started == IF operation_mode = "SPSC" THEN {0, 1} ELSE 0 .. thread_num - 1

Index == 0 .. outstanding_cmd_num - 1

\* The slot of the counters that a worker writes.
Id(w) == IF operation_mode = "SPSC" THEN wid ELSE w

\* The one worker that prints statistics.
Printer == IF operation_mode = "SPSC" THEN 1 ELSE 0

InitStat == [at |-> 0, half |-> "read", diff |-> 0, total_diff |-> 0, prints |-> 0,
             prev_cmd_cnt |-> [t \in Thread |-> 0], total_cmd |-> 0,
             sess_cnt |-> [t \in Thread |-> 0],
             prev_sess_cnt |-> [t \in Thread |-> 0], total_sess |-> 0]

\* main up to the creation of the threads.  A build with TEST_RSA has no
\* TLS13_ASYM_HKDF, one without has no RSA keys.
Init ==
  /\ operation_mode \in Modes
  /\ thread_num \in ThreadNums
  /\ wid \in Thread
  /\ operation_mode # "SPSC" => wid = 0
  /\ exited = "no"
  /\ pc = [t \in Thread |-> IF t \in Started THEN "start" ELSE "none"]
  /\ waiting = {}
  /\ keys = FALSE
  /\ rsa_ciphertext = "null"
  /\ cnt = [t \in Thread |-> 0] /\ cur = [t \in Thread |-> 0]
  /\ user_data = [t \in Thread |-> [i \in Index |-> -1]]
  /\ busy = [t \in Thread |-> {}] /\ out = [t \in Thread |-> <<>>]
  /\ errors = 0
  /\ cmd_cnt = [t \in Thread |-> 0]
  /\ ecdsa_done = [t \in Thread |-> 0] /\ ecdh_done = [t \in Thread |-> 0]
  /\ failed = [t \in Thread |-> 0]
  /\ stat = InitStat
  /\ ring = <<>> /\ ptr = "own"
  /\ joined = 0

Running == exited = "no"

Goto(w, place) == pc' = [pc EXCEPT ![w] = place]

AfterBarrier(place) ==
  IF place = "barrier2" THEN "submit"
  ELSE IF operation_mode = "RSA_DECRYPTION" THEN "encrypt" ELSE "keys"

\* A barrier that lets everybody through.
BarrierOpen(w, place) ==
  /\ pc' = [pc EXCEPT ![w] = AfterBarrier(place)]
  /\ UNCHANGED waiting

\* pka_barrier_wait: the last of thread_num threads lets all of them go on.
BarrierWait(w, place) ==
  LET inside == waiting \cup {w}
  IN  IF Cardinality(inside) = thread_num
      THEN /\ waiting' = {}
           /\ pc' = [v \in Thread |-> CASE v = w -> AfterBarrier(place)
                                        [] v \in waiting -> AfterBarrier(pc[v])
                                        [] OTHER -> pc[v]]
      ELSE waiting' = inside /\ Goto(w, place)

-----------------------------------------------------------------------------
(* The window: what the loops of all the workers have in common.           *)

MaySubmit(w) == cnt[w] < cmd_cnt_per_thread /\ cur[w] < outstanding_cmd_num

\* The index of a command is its number.
CommandUnwrapped(w, op, slot, ready) ==
  [n |-> cnt[w], op |-> op, slot |-> slot, idx |-> cnt[w], ready |-> ready]

\* A command on the handle of w: its number, its tag, and the index of its
\* operands, and whether those operands hold what they should.
Command(w, op, slot, ready) ==
  [n |-> cnt[w], op |-> op, slot |-> slot, idx |-> cnt[w] % outstanding_cmd_num,
   ready |-> ready]

\* A submission that the library refuses ends the process: exit(0).
Refused(w) ==
  /\ exited' = "refused"
  /\ UNCHANGED <<pc, cnt, cur, busy>>

Accepted(w, c) ==
  /\ busy' = [busy EXCEPT ![w] = @ \cup {c}]
  /\ cnt' = [cnt EXCEPT ![w] = @ + 1]
  /\ cur' = [cur EXCEPT ![w] = @ + 1]
  /\ UNCHANGED <<pc, exited>>

\* The inner loop is over: the worker asks for answers.
StopSubmitting(w) ==
  /\ Running /\ pc[w] = "submit"
  /\ operation_mode # "RAND" /\ ~(operation_mode = "SPSC" /\ w = 0)
  /\ ~MaySubmit(w) /\ (cnt[w] < cmd_cnt_per_thread \/ cur[w] > 0)
  /\ Goto(w, "collect")
  /\ UNCHANGED <<control, exited, waiting, keys, rsa_ciphertext, work, counts, stat,
                 spsc, joined>>

\* The engine finishes some command of a handle, well or not.
HwAnswer(w) ==
  /\ Running
  /\ \E c \in busy[w], s \in {"ok", "error"} :
       /\ s = "error" => errors < MaxErrors
       /\ errors' = IF s = "error" THEN errors + 1 ELSE errors
       /\ busy' = [busy EXCEPT ![w] = @ \ {c}]
       /\ out' = [out EXCEPT ![w] = Append(@, [cmd |-> c, status |-> s])]
  /\ UNCHANGED <<control, exited, pc, waiting, keys, rsa_ciphertext, cnt, cur, user_data,
                 counts, stat, spsc, joined>>

\* What follows an answer: back to the loop, or first a line of statistics
\* when a second has passed since the last one.
GoOn(w) ==
  \/ Goto(w, "submit") /\ UNCHANGED stat
  \/ /\ w = Printer /\ stat.prints < MaxPrints
     /\ Goto(w, "print")
     /\ stat' = [stat EXCEPT !.at = 0, !.half = "read", !.total_diff = 0, !.prints = @ + 1]

\* With CHECK_CORRECTNESS a result must be the answer its tag points to.
Mismatch(w, c) == CHECK_CORRECTNESS /\ ~(c.ready /\ user_data[w][c.slot] = c.idx)

\* An answer with an error status is not counted.
CollectUncounted(w, mode, wrong) ==
  LET err == Head(out[w]).status # "ok"
  IN  /\ Running /\ operation_mode = mode
      /\ pc[w] = "collect"
      /\ out[w] # <<>>
      /\ out' = [out EXCEPT ![w] = Tail(@)]
      /\ cur' = [cur EXCEPT ![w] = @ - 1]
      /\ cmd_cnt' = [cmd_cnt EXCEPT ![w] = @ + (IF err THEN 0 ELSE 1)]
      /\ Goto(w, "submit")
      /\ UNCHANGED <<control, exited, waiting, keys, rsa_ciphertext, cnt, user_data, busy,
                     ecdsa_done, ecdh_done, failed, stat, spsc, errors, joined>>

\* One pka_get_result in the loop of a worker of the modes in Simple: an
\* answer with an error status is counted like the others, without a check.
CollectOne(w, mode, wrong) ==
  /\ Running /\ operation_mode = mode
  /\ pc[w] = "collect"
  /\ out[w] # <<>>
  /\ out' = [out EXCEPT ![w] = Tail(@)]
  /\ IF Head(out[w]).status = "ok" /\ wrong
     THEN exited' = "mismatch" /\ UNCHANGED <<pc, cur, counts, stat>>
     ELSE /\ cur' = [cur EXCEPT ![w] = @ - 1]
          /\ cmd_cnt' = [cmd_cnt EXCEPT ![w] = @ + 1]
          /\ IF Head(out[w]).status = "ok"
             THEN GoOn(w) /\ UNCHANGED failed
             ELSE /\ Goto(w, "submit")
                  /\ failed' = [failed EXCEPT ![w] = @ + 1]
                  /\ UNCHANGED stat
          /\ UNCHANGED <<exited, ecdsa_done, ecdh_done>>
  /\ UNCHANGED <<control, waiting, keys, rsa_ciphertext, cnt, user_data, busy, spsc, errors, joined>>

\* The worker leaves as soon as its last command is submitted.
FinishEarly(w, mode) ==
  /\ Running /\ operation_mode = mode
  /\ pc[w] = "submit"
  /\ cnt[w] >= cmd_cnt_per_thread
  /\ Goto(w, "returned")
  /\ UNCHANGED <<control, exited, waiting, keys, rsa_ciphertext, work, counts, stat,
                 spsc, joined>>

\* The loop is over: the results are freed and the handle is given back.
Finish(w, mode) ==
  /\ Running /\ operation_mode = mode
  /\ pc[w] = "submit"
  /\ cnt[w] >= cmd_cnt_per_thread /\ cur[w] = 0
  /\ Goto(w, "returned")
  /\ UNCHANGED <<control, exited, waiting, keys, rsa_ciphertext, work, counts, stat,
                 spsc, joined>>

\* From the entry to the first barrier; the tag of each slot is its index.
Enter(w, mode) ==
  /\ Running /\ operation_mode = mode
  /\ pc[w] = "start"
  /\ user_data' = [user_data EXCEPT ![w] = [i \in Index |-> i]]
  /\ BarrierWait(w, "barrier1")
  /\ UNCHANGED <<control, exited, keys, rsa_ciphertext, cnt, cur, busy, out, counts, stat,
                 spsc, errors, joined>>

\* Between the barriers: worker 0 makes the keys for everybody.
MakeKeys(w, mode) ==
  /\ Running /\ operation_mode = mode
  /\ pc[w] = "keys"
  /\ keys' = (keys \/ w = 0)
  /\ BarrierWait(w, "barrier2")
  /\ UNCHANGED <<control, exited, rsa_ciphertext, work, counts, stat, spsc, joined>>

\* One command whose operands are the ones of index cnt % outstanding_cmd_num.
SubmitIndexed(w, mode, op) ==
  /\ Running /\ operation_mode = mode
  /\ pc[w] = "submit" /\ MaySubmit(w)
  /\ Refused(w) \/ Accepted(w, Command(w, op, cnt[w] % outstanding_cmd_num, keys))
  /\ UNCHANGED <<control, waiting, keys, rsa_ciphertext, user_data, out, counts, stat,
                 spsc, errors, joined>>

-----------------------------------------------------------------------------
(* RSAworker: no second barrier, and a ciphertext that all workers share.  *)

\* The tags stay unset until a command uses them.
RsaEnter(w) ==
  /\ Running /\ operation_mode = "RSA_DECRYPTION"
  /\ pc[w] = "start"
  /\ BarrierWait(w, "barrier1")
  /\ UNCHANGED <<control, exited, keys, rsa_ciphertext, work, counts, stat, spsc, joined>>

\* The plaintext is encrypted with the public key, without a tag.
RsaEncrypt(w) ==
  /\ Running /\ pc[w] = "encrypt"
  /\ \/ exited' = "refused" /\ UNCHANGED <<pc, busy>>
     \/ /\ busy' = [busy EXCEPT ![w] = @ \cup {Command(w, "encrypt", 0, TRUE)}]
        /\ Goto(w, "malloc")
        /\ UNCHANGED exited
  /\ UNCHANGED <<control, waiting, keys, rsa_ciphertext, cnt, cur, user_data, out, counts,
                 stat, spsc, errors, joined>>

\* The answer is there: every worker replaces the global operand by an empty one.
RsaMalloc(w) ==
  /\ Running /\ pc[w] = "malloc"
  /\ out[w] # <<>>
  /\ rsa_ciphertext' = "empty"
  /\ Goto(w, "copy")
  /\ UNCHANGED <<control, exited, waiting, keys, work, counts, stat, spsc, joined>>

\* The copy is left out when the encryption has failed.
RsaCopyChecked(w) ==
  /\ Running /\ pc[w] = "copy"
  /\ rsa_ciphertext' = IF Head(out[w]).status = "ok" THEN "ciphertext" ELSE rsa_ciphertext
  /\ out' = [out EXCEPT ![w] = Tail(@)]
  /\ Goto(w, "submit")
  /\ UNCHANGED <<control, exited, waiting, keys, cnt, cur, user_data, busy, counts, stat,
                 spsc, errors, joined>>

\* copy_operand into whatever the global points to now.  The status of the
\* encryption is not looked at.
RsaCopy(w) ==
  /\ Running /\ pc[w] = "copy"
  /\ rsa_ciphertext' = IF Head(out[w]).status = "ok" THEN "ciphertext" ELSE "garbage"
  /\ out' = [out EXCEPT ![w] = Tail(@)]
  /\ Goto(w, "submit")
  /\ UNCHANGED <<control, exited, waiting, keys, cnt, cur, user_data, busy, counts, stat,
                 spsc, errors, joined>>

\* The tag of a slot is the number of the command that used it last.
RsaSubmit(w) ==
  LET slot == cnt[w] % outstanding_cmd_num
  IN  /\ Running /\ operation_mode = "RSA_DECRYPTION"
      /\ pc[w] = "submit" /\ MaySubmit(w)
      /\ user_data' = [user_data EXCEPT ![w][slot] = cnt[w]]
      /\ \/ Refused(w)
         \/ Accepted(w, Command(w, "decrypt", slot, rsa_ciphertext = "ciphertext"))
      /\ UNCHANGED <<control, waiting, keys, rsa_ciphertext, out, counts, stat, spsc, errors, joined>>

\* The check compares with the plaintext and needs no tag.
RsaCollect(w) ==
  CollectOne(w, "RSA_DECRYPTION", CHECK_CORRECTNESS /\ ~Head(out[w]).cmd.ready)

RsaFinish(w) == Finish(w, "RSA_DECRYPTION")

-----------------------------------------------------------------------------
(* P256worker, X25519worker, ECDSAworker.                                  *)

P256Enter(w) == Enter(w, "P256")
P256Keys(w) == MakeKeys(w, "P256")
P256Submit(w) == SubmitIndexed(w, "P256", "ecc_pt_mult")
P256Collect(w) == CollectOne(w, "P256", Mismatch(w, Head(out[w]).cmd))
P256Finish(w) == Finish(w, "P256")

X25519Enter(w) == Enter(w, "X25519")
X25519Keys(w) == MakeKeys(w, "X25519")
X25519Submit(w) == SubmitIndexed(w, "X25519", "mont_ecdh_mult")
X25519Collect(w) == CollectOne(w, "X25519", Mismatch(w, Head(out[w]).cmd))
X25519Finish(w) == Finish(w, "X25519")

\* A tag that depends on how many commands are in flight.
SubmitTaggedByWindow(w) ==
  /\ Running /\ operation_mode = "ECDSA_SIG_GEN"
  /\ pc[w] = "submit" /\ MaySubmit(w)
  /\ Refused(w) \/ Accepted(w, Command(w, "ecdsa", cur[w], keys))
  /\ UNCHANGED <<control, waiting, keys, rsa_ciphertext, user_data, out, counts, stat,
                 spsc, errors, joined>>

EcdsaEnter(w) == Enter(w, "ECDSA_SIG_GEN")
EcdsaKeys(w) == MakeKeys(w, "ECDSA_SIG_GEN")
EcdsaSubmit(w) == SubmitIndexed(w, "ECDSA_SIG_GEN", "ecdsa")
EcdsaCollect(w) == CollectOne(w, "ECDSA_SIG_GEN", Mismatch(w, Head(out[w]).cmd))
EcdsaFinish(w) == Finish(w, "ECDSA_SIG_GEN")

-----------------------------------------------------------------------------
(* TLS13worker, TLS13HKDFworker and the loops they share with Consumer.    *)

\* Every third command signs, the others multiply on X25519.
TlsOp(n) == IF n % 3 = 0 THEN "ecdsa" ELSE "mont_ecdh_mult"

\* The tag is a random element of a table and is never read: slot 0 stands
\* for all of them.
TlsCommand(w) == Command(w, TlsOp(cnt[w]), 0, keys)

\* An answer with an error status stays in the window.
TlsCollectKept(w, mode) ==
  /\ Running /\ operation_mode = mode
  /\ pc[w] = "collect"
  /\ cur[w] > 0 /\ out[w] # <<>>
  /\ out' = [out EXCEPT ![w] = Tail(@)]
  /\ cur' = [cur EXCEPT ![w] = IF Head(out[w]).status = "ok" THEN @ - 1 ELSE @]
  /\ UNCHANGED <<control, exited, pc, waiting, keys, rsa_ciphertext, cnt, user_data, busy,
                 counts, stat, spsc, errors, joined>>

\* An answer, as long as there is one: an error is taken off the window and
\* counted nowhere.
TlsCollect(w, mode) ==
  /\ Running /\ operation_mode = mode
  /\ pc[w] = "collect"
  /\ cur[w] > 0 /\ out[w] # <<>>
  /\ out' = [out EXCEPT ![w] = Tail(@)]
  /\ cur' = [cur EXCEPT ![w] = @ - 1]
  /\ LET a == Head(out[w])
         ok(op) == IF a.status = "ok" /\ a.cmd.op = op THEN 1 ELSE 0
     IN  /\ ecdsa_done' = [ecdsa_done EXCEPT ![Id(w)] = @ + ok("ecdsa")]
         /\ ecdh_done' = [ecdh_done EXCEPT ![Id(w)] = @ + ok("mont_ecdh_mult")]
         /\ failed' = [failed EXCEPT ![w] = @ + (IF a.status = "ok" THEN 0 ELSE 1)]
  /\ UNCHANGED <<control, exited, pc, waiting, keys, rsa_ciphertext, cnt, user_data, busy,
                 cmd_cnt, stat, spsc, errors, joined>>

\* No answer is left at this moment: on to the end of the loop's body.
TlsStopCollecting(w, mode) ==
  /\ Running /\ operation_mode = mode
  /\ pc[w] = "collect"
  /\ cur[w] = 0 \/ out[w] = <<>>
  /\ GoOn(w)
  /\ UNCHANGED <<control, exited, waiting, keys, rsa_ciphertext, work, counts, spsc, joined>>

Tls13Enter(w) == Enter(w, "TLS13_ASYM")
Tls13Keys(w) == MakeKeys(w, "TLS13_ASYM")
Tls13Submit(w) ==
  /\ Running /\ operation_mode = "TLS13_ASYM"
  /\ pc[w] = "submit" /\ MaySubmit(w)
  /\ Refused(w) \/ Accepted(w, TlsCommand(w))
  /\ UNCHANGED <<control, waiting, keys, rsa_ciphertext, user_data, out, counts, stat,
                 spsc, errors, joined>>
Tls13Collect(w) == TlsCollect(w, "TLS13_ASYM")
Tls13Poll(w) == TlsStopCollecting(w, "TLS13_ASYM")
Tls13Finish(w) == Finish(w, "TLS13_ASYM")

\* The key derivation that goes with a signature and with the first of the
\* two multiplications.
HasHkdf(n) == n % 3 = 0 \/ (n + 1) % 3 = 0

HkdfEnter(w) == Enter(w, "TLS13_ASYM_HKDF")
HkdfKeys(w) == MakeKeys(w, "TLS13_ASYM_HKDF")

\* A failing derivation makes the worker return at once: the command is in
\* the engine and not in the window, and the handle is not given back.
HkdfFails(w) ==
  /\ HasHkdf(cnt[w])
  /\ busy' = [busy EXCEPT ![w] = @ \cup {TlsCommand(w)}]
  /\ Goto(w, "gave up")
  /\ UNCHANGED <<exited, cnt, cur>>

HkdfSubmit(w) ==
  /\ Running /\ operation_mode = "TLS13_ASYM_HKDF"
  /\ pc[w] = "submit" /\ MaySubmit(w)
  /\ Refused(w) \/ Accepted(w, TlsCommand(w)) \/ HkdfFails(w)
  /\ UNCHANGED <<control, waiting, keys, rsa_ciphertext, user_data, out, counts, stat,
                 spsc, errors, joined>>
HkdfCollect(w) == TlsCollect(w, "TLS13_ASYM_HKDF")
HkdfPoll(w) == TlsStopCollecting(w, "TLS13_ASYM_HKDF")
HkdfFinish(w) == Finish(w, "TLS13_ASYM_HKDF")

-----------------------------------------------------------------------------
(* RANDworker, Producer and Consumer.                                      *)

RandEnter(w) ==
  /\ Running /\ operation_mode = "RAND"
  /\ pc[w] = "start"
  /\ BarrierWait(w, "barrier1")
  /\ UNCHANGED <<control, exited, keys, rsa_ciphertext, work, counts, stat, spsc, joined>>

RandKeys(w) == MakeKeys(w, "RAND")

\* The synchronous call fills the key of an index.  cur_command_cnt only
\* grows, so the loop never ends; from MaxRand on its rounds look alike.
RandLoop(w) ==
  /\ Running /\ operation_mode = "RAND"
  /\ pc[w] = "submit"
  /\ cnt[w] < cmd_cnt_per_thread \/ cur[w] > 0
  /\ LET step == IF cnt[w] < MaxRand THEN 1 ELSE 0
     IN  /\ cnt' = [cnt EXCEPT ![w] = @ + step]
         /\ cur' = [cur EXCEPT ![w] = @ + step]
         /\ cmd_cnt' = [cmd_cnt EXCEPT ![w] = @ + step]
  /\ GoOn(w)
  /\ UNCHANGED <<control, exited, waiting, keys, rsa_ciphertext, user_data, busy, out,
                 ecdsa_done, ecdh_done, failed, spsc, errors, joined>>

\* ck_ring_init, then both barriers.
ProducerEnter ==
  /\ Running /\ operation_mode = "SPSC"
  /\ \/ pc[0] = "start" /\ ring' = <<>> /\ BarrierWait(0, "barrier1")
     \/ pc[0] = "keys" /\ BarrierWait(0, "barrier2") /\ UNCHANGED ring
  /\ UNCHANGED <<control, exited, keys, rsa_ciphertext, work, counts, stat, ptr, joined>>

\* An endless loop that keeps the ring below the window.  Of the table's
\* entries only the first one is the start of an allocation.
Producer ==
  /\ Running /\ operation_mode = "SPSC"
  /\ pc[0] = "submit"
  /\ IF Len(ring) >= outstanding_cmd_num
     THEN UNCHANGED <<ring, cnt>>
     ELSE /\ ring' = Append(ring, IF cnt[0] = 0 THEN "first" ELSE "later")
          /\ cnt' = [cnt EXCEPT ![0] = 1]
  /\ UNCHANGED <<control, exited, pc, waiting, keys, rsa_ciphertext, cur, user_data, busy,
                 out, counts, stat, ptr, errors, joined>>

ConsumerEnter ==
  /\ Running /\ operation_mode = "SPSC"
  /\ pc[1] = "start"
  /\ BarrierWait(1, "barrier1")
  /\ UNCHANGED <<control, exited, keys, rsa_ciphertext, work, counts, stat, spsc, joined>>

\* The Consumer makes the keys itself.
ConsumerKeys ==
  /\ Running /\ operation_mode = "SPSC"
  /\ pc[1] = "keys"
  /\ keys' = TRUE
  /\ BarrierWait(1, "barrier2")
  /\ UNCHANGED <<control, exited, rsa_ciphertext, work, counts, stat, spsc, joined>>

\* ck_ring_dequeue_spsc is a bool, so ret < 0 is never true: an empty ring
\* does not stop the submission, and user_data stays what it was.
ConsumerSubmit ==
  /\ Running /\ operation_mode = "SPSC"
  /\ pc[1] = "submit" /\ MaySubmit(1)
  /\ IF ring = <<>> THEN UNCHANGED spsc ELSE ring' = Tail(ring) /\ ptr' = Head(ring)
  /\ Refused(1) \/ Accepted(1, TlsCommand(1))
  /\ UNCHANGED <<control, waiting, keys, rsa_ciphertext, user_data, out, counts, stat, errors, joined>>

ConsumerCollect == TlsCollect(1, "SPSC")
ConsumerPoll == TlsStopCollecting(1, "SPSC")

\* free(user_data) is given an entry of the Producer's table, unless no token
\* was ever taken: inside the table the C library aborts the process.
ConsumerFinish ==
  /\ Running /\ operation_mode = "SPSC"
  /\ pc[1] = "submit"
  /\ cnt[1] >= cmd_cnt_per_thread /\ cur[1] = 0
  /\ IF ptr = "later" THEN exited' = "bad free" /\ UNCHANGED pc
     ELSE Goto(1, "returned") /\ UNCHANGED exited
  /\ UNCHANGED <<control, waiting, keys, rsa_ciphertext, work, counts, stat, spsc, joined>>

-----------------------------------------------------------------------------
(* PrintStatistics, called by one worker while the others go on.           *)

\* cmd_cnt[i] is read for the difference ...
StatRead(w) ==
  /\ operation_mode \notin Tls
  /\ stat.half = "read" /\ stat.at < thread_num
  /\ stat' = [stat EXCEPT !.diff = cmd_cnt[stat.at] - stat.prev_cmd_cnt[stat.at],
                          !.half = "store"]
  /\ UNCHANGED pc

\* The difference is taken again, and the first reading is kept.
StatStoreFirst(w) ==
  /\ stat.half = "store"
  /\ stat' = [stat EXCEPT !.total_diff = @ + cmd_cnt[stat.at] - stat.prev_cmd_cnt[stat.at],
                          !.prev_cmd_cnt[stat.at] = @ + stat.diff,
                          !.at = @ + 1, !.half = "read"]
  /\ UNCHANGED pc

\* ... and, after a printf, read again for prev_cmd_cnt[i].
StatStore(w) ==
  /\ stat.half = "store"
  /\ stat' = [stat EXCEPT !.total_diff = @ + stat.diff,
                          !.prev_cmd_cnt[stat.at] = cmd_cnt[stat.at],
                          !.at = @ + 1, !.half = "read"]
  /\ UNCHANGED pc

StatTotal(w) ==
  /\ operation_mode \notin Tls
  /\ stat.half = "read" /\ stat.at = thread_num
  /\ stat' = [stat EXCEPT !.total_cmd = @ + stat.total_diff]
  /\ Goto(w, "submit")

\* The sessions of a worker: one signature and two multiplications each.
Sessions(i) == LET pairs == ecdh_done[i] \div 2 IN
  IF ecdsa_done[i] < pairs THEN ecdsa_done[i] ELSE pairs

StatSessions(w) ==
  /\ operation_mode \in Tls
  /\ stat.at \in Thread
  /\ stat' = [stat EXCEPT !.sess_cnt[stat.at] = Sessions(stat.at), !.at = @ + 1]
  /\ UNCHANGED pc

\* The second loop touches only what this thread writes.
StatSessionTotal(w) ==
  /\ operation_mode \in Tls
  /\ stat.at \notin Thread
  /\ LET diff == [i \in Thread |-> stat.sess_cnt[i] - stat.prev_sess_cnt[i]]
         seen == {i \in Thread : stat.sess_cnt[i] # 0}
     IN  stat' = [stat EXCEPT !.total_sess = @ + SumFunctionOnSet(diff, seen),
                              !.prev_sess_cnt = [i \in Thread |->
                                 IF i \in seen THEN stat.sess_cnt[i] ELSE @[i]]]
  /\ Goto(w, "submit")

PrintStatistics(w) ==
  /\ Running /\ pc[w] = "print"
  /\ StatRead(w) \/ StatStore(w) \/ StatTotal(w) \/ StatSessions(w) \/ StatSessionTotal(w)
  /\ UNCHANGED <<control, exited, waiting, keys, rsa_ciphertext, work, counts, spsc, joined>>

-----------------------------------------------------------------------------
\* main joins the threads one after the other and then frees the operands
\* and the instance.
Join ==
  /\ Running /\ joined < thread_num
  /\ pc[joined] \in {"returned", "gave up"}
  /\ joined' = joined + 1
  /\ exited' = IF joined' = thread_num THEN "end" ELSE exited
  /\ UNCHANGED <<control, pc, waiting, keys, rsa_ciphertext, work, counts, stat, spsc>>

\* The process is gone.
Ended == ~Running /\ UNCHANGED vars

WorkerStep(w) ==
  \/ StopSubmitting(w) \/ PrintStatistics(w)
  \/ RsaEnter(w) \/ RsaEncrypt(w) \/ RsaMalloc(w) \/ RsaCopy(w)
  \/ RsaSubmit(w) \/ RsaCollect(w) \/ RsaFinish(w)
  \/ P256Enter(w) \/ P256Keys(w) \/ P256Submit(w) \/ P256Collect(w) \/ P256Finish(w)
  \/ X25519Enter(w) \/ X25519Keys(w) \/ X25519Submit(w) \/ X25519Collect(w) \/ X25519Finish(w)
  \/ EcdsaEnter(w) \/ EcdsaKeys(w) \/ EcdsaSubmit(w) \/ EcdsaCollect(w) \/ EcdsaFinish(w)
  \/ Tls13Enter(w) \/ Tls13Keys(w) \/ Tls13Submit(w) \/ Tls13Collect(w) \/ Tls13Poll(w)
  \/ Tls13Finish(w)
  \/ HkdfEnter(w) \/ HkdfKeys(w) \/ HkdfSubmit(w) \/ HkdfCollect(w) \/ HkdfPoll(w)
  \/ HkdfFinish(w)
  \/ RandEnter(w) \/ RandKeys(w) \/ RandLoop(w)

SpscStep(w) ==
  \/ w = 0 /\ (ProducerEnter \/ Producer)
  \/ /\ w = 1
     /\ \/ ConsumerEnter \/ ConsumerKeys \/ ConsumerSubmit \/ ConsumerCollect
        \/ ConsumerPoll \/ ConsumerFinish

ThreadStep(w) == WorkerStep(w) \/ SpscStep(w)

Next ==
  \/ \E w \in Thread : ThreadStep(w) \/ HwAnswer(w)
  \/ Join
  \/ Ended

Spec == Init /\ [][Next]_vars

\* Each thread runs on a core of its own, and the engine answers every command.
Fairness ==
  /\ \A w \in Thread : WF_vars(ThreadStep(w)) /\ WF_vars(HwAnswer(w))
  /\ WF_vars(Join)

FairSpec == Spec /\ Fairness

-----------------------------------------------------------------------------
(* Properties.                                                             *)

Answers(w) == {out[w][i] : i \in DOMAIN out[w]}

Commands(w) == busy[w] \cup {a.cmd : a \in Answers(w)}

CommandType ==
  [n : Nat, op : {"encrypt", "decrypt", "ecc_pt_mult", "mont_ecdh_mult", "ecdsa"},
   slot : Index, idx : Index, ready : BOOLEAN]

Place == {"none", "start", "barrier1", "encrypt", "malloc", "copy", "keys", "barrier2",
          "submit", "collect", "print", "returned", "gave up"}

\* Every variable has its type; the counters of a worker never go below zero.
TypeOK ==
  /\ operation_mode \in Modes /\ thread_num \in ThreadNums /\ wid \in Thread
  /\ exited \in {"no", "refused", "mismatch", "bad free", "end"}
  /\ pc \in [Thread -> Place]
  /\ waiting \subseteq Thread
  /\ keys \in BOOLEAN
  /\ rsa_ciphertext \in {"null", "empty", "ciphertext", "garbage"}
  /\ cnt \in [Thread -> Nat] /\ cur \in [Thread -> Nat]
  /\ \A w \in Thread : user_data[w] \in [Index -> Int]
  /\ \A w \in Thread : Commands(w) \subseteq CommandType
  /\ cmd_cnt \in [Thread -> Nat] /\ failed \in [Thread -> Nat]
  /\ ecdsa_done \in [Thread -> Nat] /\ ecdh_done \in [Thread -> Nat]
  /\ ring \in Seq({"first", "later"}) /\ ptr \in {"own", "first", "later"}
  /\ errors \in 0 .. MaxErrors /\ joined \in Nat

\* What a worker has submitted is what it still waits for and what it has
\* counted, whatever the order and the status of the answers: the simple
\* loops count failed commands as done, the TLS loops count them nowhere.
CountsExact ==
  \A w \in Started :
    CASE operation_mode \in Simple -> cnt[w] = cmd_cnt[w] + cur[w]
      [] operation_mode = "RAND" -> cnt[w] = cmd_cnt[w] /\ cnt[w] = cur[w]
      [] operation_mode = "SPSC" /\ w = 0 -> cur[w] = 0
      [] OTHER -> cnt[w] = ecdsa_done[Id(w)] + ecdh_done[Id(w)] + failed[w] + cur[w]

\* The window is what the handle has, in the engine and as answers: at most
\* outstanding_cmd_num commands, and a worker that gives its handle back
\* leaves none of them behind.
HandleDrained ==
  Running => \A w \in Started :
    /\ pc[w] \in {"submit", "collect", "print"} =>
         /\ cur[w] = Cardinality(busy[w]) + Len(out[w]) \/ operation_mode = "RAND"
         /\ cur[w] <= outstanding_cmd_num \/ operation_mode = "RAND"
    /\ pc[w] = "returned" => busy[w] = {} /\ out[w] = <<>>

\* No command is built from keys that worker 0 (or the Consumer) has not
\* made yet: the second barrier orders the two.
KeysFirst ==
  \A w \in Started : \A c \in Commands(w) : c.op \notin {"encrypt", "decrypt"} => c.ready

\* With CHECK_CORRECTNESS no run of P256, X25519 or ECDSA stops at a
\* comparison: a tag still names the operands of its command after the slot
\* was reused by a younger one that overtook it.
ChecksPass == exited = "mismatch" => operation_mode = "RSA_DECRYPTION"

\* A decryption is given an operand without contents only while some worker
\* is between malloc_operand and copy_operand: once all have passed, the
\* shared ciphertext has been written, whichever of them allocated it last.
CiphertextSettles ==
  [][\A w \in Thread :
       /\ \E c \in busy'[w] \ busy[w] : c.op = "decrypt"
       /\ \A v \in Thread : pc[v] # "copy"
       => rsa_ciphertext \in {"ciphertext", "garbage"}]_vars

\* The printed totals never exceed what was done, although other workers
\* count while they are taken; those of sessions agree with the last line.
StatisticsSound ==
  /\ \A i \in Thread : stat.prev_cmd_cnt[i] <= cmd_cnt[i]
  /\ \A i \in Thread : stat.prev_sess_cnt[i] <= Sessions(i)
  /\ stat.total_cmd <= SumFunction(stat.prev_cmd_cnt)
  /\ stat.total_sess = SumFunction(stat.prev_sess_cnt)

\* Every worker but the endless ones (RANDworker, Producer) comes to its end,
\* or the process does.
WorkersFinish ==
  operation_mode # "RAND" =>
    <>(\/ ~Running
       \/ \A w \in Started : \/ pc[w] \in {"returned", "gave up"}
                            \/ (operation_mode = "SPSC" /\ w = 0))
=============================================================================
