-------------------------- MODULE PkaWorkerProofs ---------------------------
(***************************************************************************)
(* The invariant of the crypto ops of the public-key pipeline, and that    *)
(* the steps of the workers preserve it, for any number of workers,        *)
(* sessions and outstanding requests.  PkaPipelineProofs has the steps of  *)
(* core 0 and of the engine, and the theorems.                             *)
(***************************************************************************)
EXTENDS PkaPipeline, SequenceTheorems, FiniteSetTheorems, TLAPS

\* A queue holds o, and holds nothing twice.
In(q, o) == \E k \in DOMAIN q : q[k] = o
Once(q) == \A j, k \in DOMAIN q : q[j] = q[k] => j = k

\* The same for the requests in the engine; the request for o is finished; the
\* engine works on what the ops say.
Runs(q, o) == \E k \in DOMAIN q : q[k].op = o
RunsOnce(q) == \A j, k \in DOMAIN q : q[j].op = q[k].op => j = k
RunsReady(q, o) == \E k \in DOMAIN q : q[k].op = o /\ q[k].ready
Agrees(q, f) == \A k \in DOMAIN q : q[k].opcode = f[q[k].op].opcode

\* Where an op can be, besides its pool.
Taken(o) == wk[Home(o)].pc = "enqueue" /\ wk[Home(o)].op = o
Queued(o) == In(ring[Home(o)], o)
Inside(o) == Runs(hw, o)
Live(o) == Taken(o) \/ Queued(o) \/ Inside(o)
Ready(o) == RunsReady(hw, o)

\* The worker is in a call for s; core 0 is handling the result for s; the
\* session has an op whose result is in.
Held(s) == wk[Home(s)].pc # "idle" /\ wk[Home(s)].s = s
Collecting(s) == c0.pc \in {"uncount", "flag"} /\ c0.s = s
Done(s) == sess[s].completed \/ Collecting(s)

\* The operation that a handshake state waits for.
Expected(hs) == CASE hs = "HELLO_REQUEST" -> "KEY_GENERATION"
                  [] hs = "SERVER_HELLO" -> "SHARED_SECRET_CALC"
                  [] hs = "CERTIFICATE" -> "SIGNATURE"
                  [] OTHER -> "unexpected"

Waits(s) ==
  /\ sess[s].hs # "CERTIFICATE_VERIFY"
  /\ sess[s].hs = "SERVER_HELLO" => ~sess[s].keyed
  /\ sess[s].hs = "CERTIFICATE" => ~sess[s].signed

SessionType ==
  [hs : {"HELLO_REQUEST", "SERVER_HELLO", "CERTIFICATE", "CERTIFICATE_VERIFY"},
   waiting : BOOLEAN, completed : BOOLEAN, pending : Op \cup {NoOp},
   pka_op : Op \cup {NoOp}, result : Opcode \cup {"none"}, keyed : BOOLEAN, signed : BOOLEAN]
OpType == [sess : Session \cup {NoSess}, opcode : Opcode \cup {"none"},
           data : BOOLEAN, pka_flag : BOOLEAN]
Request == [op : Op, opcode : Opcode, ready : BOOLEAN]
CallType == [pc : {"idle", "enqueue", "mark", "clear"},
             s : Session \cup {NoSess}, op : Op \cup {NoOp}, done : Op \cup {NoOp}]
CoreType == [pc : {"submit", "mark", "count", "complete", "uncount", "flag"},
             w : Worker, op : Op \cup {NoOp}, s : Session \cup {NoSess}]
Deaths == {"no", "no op", "unsupported state", "unsupported opcode",
           "null session", "rotten result", "record is null"}

Types ==
  /\ sess \in [Session -> SessionType] /\ op \in [Op -> OpType]
  /\ pool \in [Worker -> Seq(Op)] /\ ring \in [Worker -> Seq(Op)]
  /\ cnt \in [Worker -> 0 .. CntRange - 1] /\ hw \in Seq(Request)
  /\ wk \in [Worker -> CallType] /\ c0 \in CoreType
  /\ removals \in 0 .. MaxRemovals /\ dead \in Deaths

\* An op is in its own worker's pool or in use, and in one place only.
Places ==
  /\ \A w \in Worker :
       /\ Once(pool[w]) /\ Once(ring[w])
       /\ \A o \in Op : In(pool[w], o) \/ In(ring[w], o) => Home(o) = w
  /\ RunsOnce(hw)
  /\ \A o \in Op :
       /\ In(pool[Home(o)], o) <=> op[o].sess = NoSess
       /\ Live(o) => op[o].sess # NoSess
       /\ ~(Taken(o) /\ Queued(o)) /\ ~(Taken(o) /\ Inside(o)) /\ ~(Queued(o) /\ Inside(o))

\* Where the workers and core 0 are.
Cores ==
  /\ \A w \in Worker :
       IF wk[w].pc = "idle" THEN wk[w] = Idle
       ELSE wk[w].s \in Session /\ Home(wk[w].s) = w
  /\ c0.pc = "mark" => c0.op \in Op /\ Inside(c0.op)
  /\ c0.pc \in {"uncount", "flag"} => c0.s \in Session
  /\ Agrees(hw, op)

\* An op of session s.
OpOf(s, o) ==
  /\ Home(o) = Home(s) /\ op[o].opcode \in Opcode
  /\ op[o].opcode = "KEY_GENERATION" => op[o].data
  /\ Live(o) \/ (Done(s) /\ sess[s].pka_op = o)
  /\ ~Held(s) => op[o].opcode = Expected(sess[s].hs) /\ op[o].pka_flag
  /\ Live(o) =>
       /\ Waits(s)
       /\ Held(s) => /\ wk[Home(s)].op = o /\ ~Ready(o)
                     /\ op[o].opcode = Expected(sess[s].hs)
                     /\ wk[Home(s)].pc = "clear" => op[o].pka_flag
       /\ ~Held(s) => ~Done(s)

\* The worker is in a call for s.
CallOf(s) ==
  LET k == wk[Home(s)] IN
  /\ ~Collecting(s)
  /\ k.pc \in {"enqueue", "mark"} => k.op \in Op /\ op[k.op].sess = s /\ Live(k.op)
  /\ k.pc = "mark" => ~Taken(k.op)
  /\ k.pc = "clear" => k.done # NoOp
  /\ k.done # NoOp => /\ sess[s].completed /\ sess[s].hs # "HELLO_REQUEST"
                      /\ k.done = sess[s].pka_op /\ k.done # sess[s].pending
  /\ k.done = NoOp => ~sess[s].completed

SessionOf(s) ==
  /\ \A o \in Op : op[o].sess = s => OpOf(s, o)
  /\ \A o, p \in Op : op[o].sess = s /\ op[p].sess = s /\ Live(o) /\ Live(p) => o = p
  /\ Done(s) => sess[s].pka_op \in Op /\ op[sess[s].pka_op].sess = s /\ ~Live(sess[s].pka_op)
  /\ ~(sess[s].completed /\ Collecting(s))
  /\ sess[s].pending # NoOp => op[sess[s].pending].sess = s /\ ~Taken(sess[s].pending)
  /\ Held(s) => CallOf(s)
  /\ ~Held(s) /\ Done(s) => sess[s].result = Expected(sess[s].hs) /\ Waits(s)
  /\ ~Held(s) /\ sess[s].hs = "HELLO_REQUEST" /\ ~sess[s].waiting =>
       \A o \in Op : op[o].sess # s
  /\ sess[s].hs = "HELLO_REQUEST" => ~sess[s].keyed
  /\ sess[s].hs \in {"HELLO_REQUEST", "SERVER_HELLO"} => ~sess[s].signed

\* What the steps preserve together.
IInv == Types /\ Places /\ Cores /\ \A s \in Session : SessionOf(s)
-----------------------------------------------------------------------------
(* Queues.                                                                  *)

\* An op is put at the end of a pool or ring.
LEMMA QueueAdd ==
  ASSUME NEW q \in Seq(Op), NEW x \in Op
  PROVE  /\ Append(q, x) \in Seq(Op)
         /\ \A o : In(Append(q, x), o) <=> In(q, o) \/ o = x
         /\ Once(q) /\ ~In(q, x) => Once(Append(q, x))
<1> DEFINE r == Append(q, x)
<1>1. Len(q) \in Nat /\ DOMAIN q = 1 .. Len(q) BY LenProperties
<1>2. /\ r \in Seq(Op) /\ Len(r) = Len(q) + 1 /\ DOMAIN r = 1 .. Len(q) + 1
      /\ \A k \in 1 .. Len(q) : r[k] = q[k]
      /\ r[Len(q) + 1] = x
  BY AppendProperties, LenProperties
<1> HIDE DEF r
<1>3. ASSUME NEW k \in DOMAIN r, k # Len(q) + 1 PROVE k \in DOMAIN q /\ r[k] = q[k]
  <2>1. k \in 1 .. Len(q) BY <1>1, <1>2, <1>3
  <2> QED BY <1>1, <1>2, <2>1
<1>4. \A k \in DOMAIN q : k \in DOMAIN r /\ r[k] = q[k] BY <1>1, <1>2
<1>5. Len(q) + 1 \in DOMAIN r BY <1>1, <1>2
<1>6. \A o : In(r, o) <=> In(q, o) \/ o = x BY <1>2, <1>3, <1>4, <1>5 DEF In
<1>7. ASSUME Once(q), ~In(q, x), NEW j \in DOMAIN r, NEW k \in DOMAIN r, r[j] = r[k] PROVE j = k
  <2>1. CASE j # Len(q) + 1 /\ k # Len(q) + 1 BY <1>3, <1>7, <2>1 DEF Once
  <2>2. CASE j = Len(q) + 1 /\ k # Len(q) + 1 BY <1>2, <1>3, <1>7, <2>2 DEF In
  <2>3. CASE j # Len(q) + 1 /\ k = Len(q) + 1 BY <1>2, <1>3, <1>7, <2>3 DEF In
  <2> QED BY <2>1, <2>2, <2>3
<1>8. Once(q) /\ ~In(q, x) => Once(r) BY <1>7 DEF Once
<1> QED BY <1>2, <1>6, <1>8 DEF r

\* The first op of a pool or ring is taken.
LEMMA QueueTake ==
  ASSUME NEW q \in Seq(Op), q # <<>>
  PROVE  /\ Head(q) \in Op /\ Tail(q) \in Seq(Op) /\ In(q, Head(q))
         /\ Once(q) => Once(Tail(q)) /\ \A o : In(Tail(q), o) <=> In(q, o) /\ o # Head(q)
<1> DEFINE r == Tail(q)
<1>1. Len(q) \in Nat /\ DOMAIN q = 1 .. Len(q) BY LenProperties
<1>2. /\ Head(q) \in Op /\ r \in Seq(Op)
      /\ Len(q) # 0 /\ Len(r) = Len(q) - 1 /\ DOMAIN r = 1 .. Len(q) - 1
      /\ \A k \in 1 .. Len(q) - 1 : r[k] = q[k + 1]
      /\ Head(q) = q[1]
  BY <1>1, HeadTailProperties, LenProperties, EmptySeq
<1> HIDE DEF r
<1>3. 1 \in DOMAIN q BY <1>1, <1>2
<1>4. \A k \in DOMAIN r : k \in Nat /\ k + 1 \in DOMAIN q /\ r[k] = q[k + 1] /\ k + 1 # 1
  BY <1>1, <1>2
<1>5. In(q, Head(q)) BY <1>2, <1>3 DEF In
<1>6. ASSUME Once(q) PROVE Once(r) /\ \A o : In(r, o) <=> In(q, o) /\ o # Head(q)
  <2>1. Once(r)
    <3> SUFFICES ASSUME NEW j \in DOMAIN r, NEW k \in DOMAIN r, r[j] = r[k] PROVE j = k BY DEF Once
    <3>1. j + 1 = k + 1 BY <1>4, <1>6 DEF Once
    <3>2. j \in Nat /\ k \in Nat BY <1>4
    <3> QED BY <3>1, <3>2
  <2>2. ASSUME NEW o, In(r, o) PROVE In(q, o) /\ o # Head(q)
    <3>1. PICK k \in DOMAIN r : r[k] = o BY <2>2 DEF In
    <3>2. k + 1 \in DOMAIN q /\ q[k + 1] = o /\ k + 1 # 1 BY <1>4, <3>1
    <3> QED BY <1>2, <1>3, <1>6, <3>2 DEF In, Once
  <2>3. ASSUME NEW o, In(q, o), o # Head(q) PROVE In(r, o)
    <3>1. PICK k \in DOMAIN q : q[k] = o BY <2>3 DEF In
    <3>2. k # 1 BY <1>2, <2>3, <3>1
    <3>3. k - 1 \in DOMAIN r /\ (k - 1) + 1 = k BY <1>1, <1>2, <3>2
    <3>4. r[k - 1] = o BY <1>4, <3>1, <3>3
    <3> QED BY <3>3, <3>4 DEF In
  <2> QED BY <2>1, <2>2, <2>3
<1> QED BY <1>2, <1>5, <1>6 DEF r

\* A request is given to the engine.
LEMMA EngineAdd ==
  ASSUME NEW q \in Seq(Request), NEW x \in Request
  PROVE  /\ Append(q, x) \in Seq(Request)
         /\ \A o : Runs(Append(q, x), o) <=> Runs(q, o) \/ o = x.op
         /\ \A o : RunsReady(Append(q, x), o) <=> RunsReady(q, o) \/ (o = x.op /\ x.ready)
         /\ RunsOnce(q) /\ ~Runs(q, x.op) => RunsOnce(Append(q, x))
         /\ \A f : Agrees(q, f) /\ x.opcode = f[x.op].opcode => Agrees(Append(q, x), f)
<1> DEFINE r == Append(q, x)
<1>1. Len(q) \in Nat /\ DOMAIN q = 1 .. Len(q) BY LenProperties
<1>2. /\ r \in Seq(Request) /\ Len(r) = Len(q) + 1 /\ DOMAIN r = 1 .. Len(q) + 1
      /\ \A k \in 1 .. Len(q) : r[k] = q[k]
      /\ r[Len(q) + 1] = x
  BY AppendProperties, LenProperties
<1> HIDE DEF r
<1>3. ASSUME NEW k \in DOMAIN r, k # Len(q) + 1 PROVE k \in DOMAIN q /\ r[k] = q[k]
  <2>1. k \in 1 .. Len(q) BY <1>1, <1>2, <1>3
  <2> QED BY <1>1, <1>2, <2>1
<1>4. \A k \in DOMAIN q : k \in DOMAIN r /\ r[k] = q[k] BY <1>1, <1>2
<1>5. Len(q) + 1 \in DOMAIN r BY <1>1, <1>2
<1>6. \A o : Runs(r, o) <=> Runs(q, o) \/ o = x.op BY <1>2, <1>3, <1>4, <1>5 DEF Runs
<1>7. \A o : RunsReady(r, o) <=> RunsReady(q, o) \/ (o = x.op /\ x.ready)
  BY <1>2, <1>3, <1>4, <1>5 DEF RunsReady
<1>8. ASSUME RunsOnce(q), ~Runs(q, x.op), NEW j \in DOMAIN r, NEW k \in DOMAIN r, r[j].op = r[k].op
      PROVE  j = k
  <2>1. CASE j # Len(q) + 1 /\ k # Len(q) + 1 BY <1>3, <1>8, <2>1 DEF RunsOnce
  <2>2. CASE j = Len(q) + 1 /\ k # Len(q) + 1 BY <1>2, <1>3, <1>8, <2>2 DEF Runs
  <2>3. CASE j # Len(q) + 1 /\ k = Len(q) + 1 BY <1>2, <1>3, <1>8, <2>3 DEF Runs
  <2> QED BY <2>1, <2>2, <2>3
<1>9. RunsOnce(q) /\ ~Runs(q, x.op) => RunsOnce(r) BY <1>8 DEF RunsOnce
<1>10. \A f : Agrees(q, f) /\ x.opcode = f[x.op].opcode => Agrees(r, f)
  BY <1>2, <1>3 DEF Agrees
<1> QED BY <1>2, <1>6, <1>7, <1>9, <1>10 DEF r

\* The engine finishes request i.
LEMMA EngineFinish ==
  ASSUME NEW q \in Seq(Request), NEW i \in DOMAIN q
  PROVE  LET r == [q EXCEPT ![i].ready = TRUE] IN
         /\ r \in Seq(Request)
         /\ \A o : Runs(r, o) <=> Runs(q, o)
         /\ \A o : RunsReady(r, o) <=> RunsReady(q, o) \/ o = q[i].op
         /\ RunsOnce(q) => RunsOnce(r)
         /\ \A f : Agrees(q, f) => Agrees(r, f)
<1> DEFINE r == [q EXCEPT ![i].ready = TRUE]
<1>1. Len(q) \in Nat /\ DOMAIN q = 1 .. Len(q) /\ q \in [1 .. Len(q) -> Request] BY LenProperties
<1>2. \A k \in DOMAIN q : q[k] \in Request BY <1>1
<1>3. /\ DOMAIN r = DOMAIN q
      /\ \A k \in DOMAIN q : r[k] = IF k = i THEN [q[i] EXCEPT !.ready = TRUE] ELSE q[k]
  OBVIOUS
<1>4. \A k \in DOMAIN q : r[k] \in Request BY <1>2, <1>3, Zenon DEF Request
<1>5. r \in [1 .. Len(q) -> Request] BY <1>1, <1>3, <1>4, Zenon
<1>6. r \in Seq(Request) BY <1>1, <1>5, SeqDef
<1> HIDE DEF r
<1>7. /\ \A k \in DOMAIN q : r[k].op = q[k].op /\ r[k].opcode = q[k].opcode
      /\ \A k \in DOMAIN q : k # i => r[k].ready = q[k].ready
      /\ r[i].ready
  BY <1>2, <1>3 DEF Request
<1>8. \A o : Runs(r, o) <=> Runs(q, o) BY <1>3, <1>7, Zenon DEF Runs
<1>9. \A o : RunsReady(r, o) <=> RunsReady(q, o) \/ o = q[i].op BY <1>3, <1>7 DEF RunsReady
<1>10. RunsOnce(q) => RunsOnce(r) BY <1>3, <1>7 DEF RunsOnce
<1>11. \A f : Agrees(q, f) => Agrees(r, f) BY <1>3, <1>7 DEF Agrees
<1> QED BY <1>6, <1>8, <1>9, <1>10, <1>11, Zenon DEF r

\* The result of request i is taken out of the engine.
LEMMA EngineTake ==
  ASSUME NEW q \in Seq(Request), NEW i \in DOMAIN q
  PROVE  /\ Without(q, i) \in Seq(Request)
         /\ RunsOnce(q) => /\ RunsOnce(Without(q, i))
                           /\ \A o : Runs(Without(q, i), o) <=> Runs(q, o) /\ o # q[i].op
                           /\ \A o : RunsReady(Without(q, i), o) => RunsReady(q, o)
         /\ \A f : Agrees(q, f) => Agrees(Without(q, i), f)
<1> DEFINE a == SubSeq(q, 1, i - 1)
           b == SubSeq(q, i + 1, Len(q))
           r == a \o b
<1>1. Len(q) \in Nat /\ DOMAIN q = 1 .. Len(q) /\ i \in 1 .. Len(q) BY LenProperties
<1>2. /\ a \in Seq(Request) /\ Len(a) = i - 1
      /\ \A k \in 1 .. i - 1 : a[k] = q[1 + k - 1]
  BY <1>1, SubSeqProperties
<1>3. /\ b \in Seq(Request) /\ Len(b) = Len(q) - i
      /\ \A k \in 1 .. Len(q) - i : b[k] = q[(i + 1) + k - 1]
  BY <1>1, SubSeqProperties
<1> HIDE DEF a, b
<1>4. /\ r \in Seq(Request) /\ Len(r) = Len(a) + Len(b)
      /\ \A k \in 1 .. Len(a) + Len(b) : r[k] = IF k <= Len(a) THEN a[k] ELSE b[k - Len(a)]
  BY <1>2, <1>3, ConcatProperties, Zenon
<1> HIDE DEF r
<1>5. Len(r) = Len(q) - 1 /\ DOMAIN r = 1 .. Len(q) - 1 BY <1>1, <1>2, <1>3, <1>4, LenProperties
<1> DEFINE g(k) == IF k < i THEN k ELSE k + 1
<1>6. ASSUME NEW k \in DOMAIN r PROVE k \in Nat /\ r[k] = q[g(k)] /\ g(k) \in DOMAIN q /\ g(k) # i
  <2>0. k \in 1 .. Len(q) - 1 BY <1>5
  <2>1. CASE k < i
    <3>1. k \in 1 .. i - 1 /\ k <= Len(a) /\ 1 + k - 1 = k BY <1>1, <1>2, <2>0, <2>1
    <3>2. r[k] = a[k] BY <1>1, <1>2, <1>3, <1>4, <2>0, <3>1
    <3> QED BY <1>1, <1>2, <2>0, <2>1, <3>1, <3>2
  <2>2. CASE ~(k < i)
    <3>1. /\ k - Len(a) \in 1 .. Len(q) - i /\ ~(k <= Len(a))
          /\ (i + 1) + (k - Len(a)) - 1 = k + 1
      BY <1>1, <1>2, <2>0, <2>2
    <3>2. r[k] = b[k - Len(a)] BY <1>1, <1>2, <1>3, <1>4, <2>0, <3>1
    <3> QED BY <1>1, <1>3, <2>0, <2>2, <3>1, <3>2
  <2> QED BY <2>1, <2>2
<1>7. ASSUME NEW j \in DOMAIN q, j # i PROVE \E k \in DOMAIN r : g(k) = j
  <2>1. CASE j < i
    <3>1. j \in DOMAIN r /\ g(j) = j BY <1>1, <1>5, <2>1
    <3> QED BY <3>1
  <2>2. CASE ~(j < i)
    <3>1. j - 1 \in DOMAIN r /\ g(j - 1) = j BY <1>1, <1>5, <1>7, <2>2
    <3> QED BY <3>1
  <2> QED BY <2>1, <2>2
<1>8. \A j, k \in DOMAIN r : g(j) = g(k) => j = k BY <1>1, <1>6
<1> HIDE DEF g
<1>9. ASSUME RunsOnce(q)
      PROVE  /\ RunsOnce(r)
             /\ \A o : Runs(r, o) <=> Runs(q, o) /\ o # q[i].op
             /\ \A o : RunsReady(r, o) => RunsReady(q, o)
  <2>1. RunsOnce(r) BY <1>6, <1>8, <1>9 DEF RunsOnce
  <2>2. ASSUME NEW o, Runs(r, o) PROVE Runs(q, o) /\ o # q[i].op
    BY <1>6, <1>9, <2>2 DEF Runs, RunsOnce
  <2>3. ASSUME NEW o, Runs(q, o), o # q[i].op PROVE Runs(r, o)
    <3>1. PICK j \in DOMAIN q : q[j].op = o BY <2>3 DEF Runs
    <3>2. PICK k \in DOMAIN r : g(k) = j BY <1>7, <2>3, <3>1
    <3> QED BY <1>6, <3>1, <3>2 DEF Runs
  <2>4. \A o : RunsReady(r, o) => RunsReady(q, o) BY <1>6 DEF RunsReady
  <2> QED BY <2>1, <2>2, <2>3, <2>4
<1>10. \A f : Agrees(q, f) => Agrees(r, f) BY <1>6 DEF Agrees
<1>11. Without(q, i) = r BY DEF Without, r, a, b
<1> QED BY <1>4, <1>9, <1>10, <1>11
-----------------------------------------------------------------------------
(* What a step leaves alone.                                                *)

\* The step changes nothing that SessionOf(t) speaks of.
Untouched(t) ==
  /\ sess'[t] = sess[t]
  /\ \A o \in Op : op[o].sess = t \/ op'[o].sess = t =>
       /\ op'[o] = op[o]
       /\ Taken(o)' <=> Taken(o)
       /\ Live(o)' <=> Live(o)
       /\ Held(t) /\ Live(o) => (Ready(o)' => Ready(o))
  /\ Held(t)' <=> Held(t)
  /\ Held(t) => wk'[Home(t)] = wk[Home(t)]
  /\ Collecting(t)' <=> Collecting(t)

LEMMA Frame ==
  ASSUME Types, NEW t \in Session, SessionOf(t), Untouched(t)
  PROVE  SessionOf(t)'
<1>0. /\ sess'[t] = sess[t] /\ (Held(t)' <=> Held(t)) /\ (Held(t) => wk'[Home(t)] = wk[Home(t)])
      /\ (Collecting(t)' <=> Collecting(t)) /\ (Done(t)' <=> Done(t)) /\ (Waits(t)' <=> Waits(t))
  BY DEF Untouched, Done, Waits
<1>1. \A o \in Op : op[o].sess = t \/ op'[o].sess = t =>
        /\ op'[o] = op[o] /\ op[o].sess = t /\ (Taken(o)' <=> Taken(o)) /\ (Live(o)' <=> Live(o))
        /\ Held(t) /\ Live(o) => (Ready(o)' => Ready(o))
  BY DEF Untouched
<1>2. sess[t] \in SessionType BY DEF Types
<1>3. ASSUME NEW o \in Op, op'[o].sess = t PROVE OpOf(t, o)'
  <2>1. OpOf(t, o) BY <1>1, <1>3 DEF SessionOf
  <2>2. op'[o] = op[o] /\ (Live(o)' <=> Live(o)) BY <1>1, <1>3
  <2>3. Held(t) /\ Live(o) => (Ready(o)' => Ready(o)) BY <1>1, <1>3
  <2> QED BY <1>0, <2>1, <2>2, <2>3 DEF OpOf
<1>4. \A o, p \in Op : op'[o].sess = t /\ op'[p].sess = t /\ Live(o)' /\ Live(p)' => o = p
  BY <1>1 DEF SessionOf
<1>5. Done(t)' => /\ sess'[t].pka_op \in Op /\ op'[sess'[t].pka_op].sess = t
                  /\ ~Live(sess[t].pka_op)'
  <2> DEFINE x == sess[t].pka_op
  <2>1. Done(t) => x \in Op /\ op[x].sess = t /\ ~Live(x) BY DEF SessionOf
  <2>2. x \in Op /\ op[x].sess = t => op'[x].sess = t /\ ((\E y \in {x} : Live(y)') => Live(x))
    BY <1>1
  <2>3. sess'[t].pka_op = x BY <1>0
  <2> HIDE DEF x
  <2> QED BY <1>0, <2>1, <2>2, <2>3
<1>6. (sess[t].pending # NoOp => op[sess[t].pending].sess = t /\ ~Taken(sess[t].pending))'
  <2> DEFINE x == sess[t].pending
  <2>1. x # NoOp => x \in Op /\ op[x].sess = t /\ ~Taken(x) BY <1>2 DEF SessionOf, SessionType
  <2>2. x \in Op /\ op[x].sess = t => op'[x].sess = t /\ ((\E y \in {x} : Taken(y)') => Taken(x))
    BY <1>1
  <2>3. sess'[t].pending = x BY <1>0
  <2> HIDE DEF x
  <2> QED BY <2>1, <2>2, <2>3
<1>7. Held(t)' => CallOf(t)'
  <2> SUFFICES ASSUME Held(t) PROVE CallOf(t)' BY <1>0
  <2> DEFINE k == wk[Home(t)]
             x == k.op
  <2>1. wk'[Home(t)] = k /\ CallOf(t) BY <1>0 DEF SessionOf
  <2>2. x \in Op /\ op[x].sess = t => /\ op'[x].sess = t /\ (Live(x) => \E y \in {x} : Live(y)')
                                      /\ (\E y \in {x} : Taken(y)') => Taken(x)
    BY <1>1
  <2>3. k.pc \in {"enqueue", "mark"} => x \in Op /\ op[x].sess = t /\ Live(x) BY <2>1, Zenon DEF CallOf
  <2>4. k.pc = "mark" => ~Taken(x) BY <2>1, Zenon DEF CallOf
  <2>5. /\ ~Collecting(t)
        /\ k.pc = "clear" => k.done # NoOp
        /\ k.done # NoOp => /\ sess[t].completed /\ sess[t].hs # "HELLO_REQUEST"
                            /\ k.done = sess[t].pka_op /\ k.done # sess[t].pending
        /\ k.done = NoOp => ~sess[t].completed
    BY <2>1 DEF CallOf
  <2>6. wk'[Home(t)].op = x /\ wk'[Home(t)].pc = k.pc /\ wk'[Home(t)].done = k.done BY <2>1
  <2> HIDE DEF x, k
  <2> QED BY <1>0, <2>2, <2>3, <2>4, <2>5, <2>6 DEF CallOf
<1>8. /\ ~(sess'[t].completed /\ Collecting(t)')
      /\ ~Held(t)' /\ Done(t)' => sess'[t].result = Expected(sess'[t].hs) /\ Waits(t)'
      /\ sess'[t].hs = "HELLO_REQUEST" => ~sess'[t].keyed
      /\ sess'[t].hs \in {"HELLO_REQUEST", "SERVER_HELLO"} => ~sess'[t].signed
  BY <1>0 DEF SessionOf
<1>9. ~Held(t)' /\ sess'[t].hs = "HELLO_REQUEST" /\ ~sess'[t].waiting => \A o \in Op : op'[o].sess # t
  BY <1>0, <1>1 DEF SessionOf
<1> QED BY <1>3, <1>4, <1>5, <1>6, <1>7, <1>8, <1>9, Zenon DEF SessionOf

\* A step of worker w for session s.
WorkerStep(w, s) ==
  /\ UNCHANGED <<hw, c0>>
  /\ wk[w].pc = "idle" \/ wk[w].s = s
  /\ wk'[w].pc = "idle" \/ wk'[w].s = s
  /\ wk'[w].pc = "enqueue" => op'[wk'[w].op].sess = s
  /\ \A v \in Worker : v # w => wk'[v] = wk[v]
  /\ \A t \in Session : t # s => sess'[t] = sess[t]
  /\ \A o \in Op : op'[o] = op[o] \/ (op[o].sess \in {s, NoSess} /\ op'[o].sess \in {s, NoSess})
  /\ \A o \in Op : (Queued(o)' <=> Queued(o)) \/ op[o].sess = s

\* Only session s is concerned.
LEMMA OtherSessions ==
  ASSUME IInv, NEW w \in Worker, NEW s \in Session, Home(s) = w, WorkerStep(w, s),
         NEW t \in Session, t # s
  PROVE  SessionOf(t)'
<1>1. Types /\ SessionOf(t) /\ SessionOf(s) BY DEF IInv
<1>2. Home(t) \in Worker /\ \A o \in Op : Home(o) \in Worker BY PkaAssumption
<1>3. t # NoSess /\ s # NoSess BY PkaAssumption
<1>4. /\ sess'[t] = sess[t] /\ (Collecting(t)' <=> Collecting(t))
  BY DEF WorkerStep, Collecting
<1>5. (Held(t)' <=> Held(t)) /\ (Held(t) => wk'[Home(t)] = wk[Home(t)])
  BY <1>2 DEF WorkerStep, Held
<1>6. wk[w].pc = "enqueue" => op[wk[w].op].sess = s
  BY <1>1, Zenon DEF WorkerStep, SessionOf, Held, CallOf
<1>7. ASSUME NEW o \in Op, op[o].sess = t \/ op'[o].sess = t
      PROVE  /\ op'[o] = op[o] /\ (Taken(o)' <=> Taken(o)) /\ (Live(o)' <=> Live(o))
             /\ Ready(o)' => Ready(o)
  <2>1. op'[o] = op[o] BY <1>3, <1>7, Zenon DEF WorkerStep
  <2>2. Queued(o)' <=> Queued(o) BY <1>7, <2>1 DEF WorkerStep
  <2>3. (Inside(o)' <=> Inside(o)) /\ (Ready(o)' => Ready(o)) BY DEF WorkerStep, Inside, Ready
  <2>4. Taken(o)' <=> Taken(o)
    <3>1. CASE Home(o) = w BY <1>6, <1>7, <2>1, <3>1 DEF WorkerStep, Taken
    <3>2. CASE Home(o) # w BY <1>2, <3>2 DEF WorkerStep, Taken
    <3> QED BY <3>1, <3>2
  <2> QED BY <2>1, <2>2, <2>3, <2>4 DEF Live
<1>8. Untouched(t) BY <1>4, <1>5, <1>7 DEF Untouched
<1> QED BY <1>1, <1>8, Frame
-----------------------------------------------------------------------------
(* Counting.                                                                *)

\* A session has one op at most while its worker is not in a call for it.
LEMMA OneOpEach ==
  ASSUME IInv, NEW s \in Session, ~Held(s), NEW o \in Op, NEW p \in Op,
         op[o].sess = s, op[p].sess = s
  PROVE  o = p
<1>1. SessionOf(s) BY DEF IInv
<1>2. OpOf(s, o) /\ OpOf(s, p) BY <1>1 DEF SessionOf
<1>3. CASE Live(o) /\ Live(p) BY <1>1, <1>3 DEF SessionOf
<1>4. CASE ~Live(o) /\ ~Live(p) BY <1>2, <1>4 DEF OpOf
<1>5. CASE Live(o) /\ ~Live(p) BY <1>2, <1>5 DEF OpOf
<1>6. CASE ~Live(o) /\ Live(p) BY <1>2, <1>6 DEF OpOf
<1> QED BY <1>3, <1>4, <1>5, <1>6

\* new_ssl_crypto_op finds an op: with three ops per session the pool of an
\* idle worker is never empty.
LEMMA PoolHasOps ==
  ASSUME IInv, NEW w \in Worker, wk[w].pc = "idle", NEW s \in Session, Home(s) = w
  PROVE  pool[w] # <<>>
<1> SUFFICES ASSUME pool[w] = <<>> PROVE FALSE OBVIOUS
<1> DEFINE O == {o \in Op : Home(o) = w}
           S == {t \in Session : Home(t) = w}
           f == [o \in O |-> op[o].sess]
<1>1. IsFiniteSet(S) /\ IsFiniteSet(O) /\ Cardinality(S) \in Nat /\ Cardinality(O) = 3 * Cardinality(S)
  <2>1. IsFiniteSet(S) /\ IsFiniteSet(O) BY PkaAssumption, FS_Subset
  <2>2. Cardinality(S) \in Nat BY <2>1, FS_CardinalityType
  <2> QED BY <2>1, <2>2, OpPoolAssumption DEF MaxConn
<1>2. Cardinality(S) # 0
  <2>1. s \in S OBVIOUS
  <2> QED BY <1>1, <2>1, FS_EmptySet
<1>3. ASSUME NEW o \in O PROVE op[o].sess \in S
  <2>1. ~In(pool[w], o) BY EmptySeq DEF In
  <2>2. op[o].sess # NoSess BY <2>1 DEF IInv, Places
  <2>3. op[o].sess \in Session BY <2>2 DEF IInv, Types, OpType
  <2>4. OpOf(op[o].sess, o) BY <2>3 DEF IInv, SessionOf
  <2> QED BY <2>3, <2>4 DEF OpOf
<1>4. f \in [O -> S] BY <1>3
<1>5. \A o, p \in O : f[o] = f[p] => o = p
  <2> SUFFICES ASSUME NEW o \in O, NEW p \in O, op[o].sess = op[p].sess PROVE o = p OBVIOUS
  <2>1. op[o].sess \in S BY <1>3
  <2>2. ~Held(op[o].sess) BY <2>1 DEF Held
  <2> QED BY <2>1, <2>2, OneOpEach
<1> HIDE DEF f, O, S
<1>6. Cardinality(S) < Cardinality(O) BY <1>1, <1>2
<1> QED BY <1>1, <1>4, <1>5, <1>6, FS_PigeonHole

\* The submit ring holds at most one op for each other session.
LEMMA RingHasRoom ==
  ASSUME IInv, NEW w \in Worker, wk[w].pc = "enqueue"
  PROVE  Len(ring[w]) < MaxConn(w)
<1> DEFINE s == wk[w].s
           S == {t \in Session : Home(t) = w}
           T == S \ {s}
           q == ring[w]
           D == 1 .. Len(q)
           f == [k \in D |-> op[q[k]].sess]
<1>1. s \in Session /\ Home(s) = w BY DEF IInv, Cores
<1>2. /\ wk[w].op \in Op /\ op[wk[w].op].sess = s /\ Live(wk[w].op)
      /\ Home(wk[w].op) = w
  <2>1. SessionOf(s) /\ Held(s) BY <1>1 DEF IInv, Held
  <2>2. wk[w].op \in Op /\ op[wk[w].op].sess = s /\ Live(wk[w].op)
    BY <1>1, <2>1, Zenon DEF SessionOf, CallOf
  <2> QED BY <1>1, <2>1, <2>2, Zenon DEF SessionOf, OpOf
<1>3. Taken(wk[w].op) BY <1>2 DEF Taken
<1>4. IsFiniteSet(T) /\ Cardinality(T) = MaxConn(w) - 1 /\ MaxConn(w) \in Nat
  <2>1. IsFiniteSet(S) BY PkaAssumption, FS_Subset
  <2>2. Cardinality(S) = MaxConn(w) /\ Cardinality(S) \in Nat BY <2>1, FS_CardinalityType DEF MaxConn
  <2> QED BY <1>1, <2>1, <2>2, FS_RemoveElement
<1>5. q \in Seq(Op) /\ DOMAIN q = D /\ Len(q) \in Nat /\ \A k \in D : q[k] \in Op
  BY LenProperties, ElementOfSeq DEF IInv, Types
<1>6. ASSUME NEW k \in D
      PROVE  Live(q[k]) /\ op[q[k]].sess \in T
  <2>1. q[k] \in Op /\ In(q, q[k]) BY <1>5 DEF In
  <2>2. Home(q[k]) = w BY <2>1 DEF IInv, Places
  <2>3. Queued(q[k]) BY <2>1, <2>2 DEF Queued
  <2>4. Live(q[k]) /\ ~Taken(q[k]) BY <2>1, <2>3 DEF Live, IInv, Places
  <2>5. op[q[k]].sess # NoSess BY <2>1, <2>4 DEF IInv, Places
  <2>6. op[q[k]].sess \in Session BY <2>1, <2>5 DEF IInv, Types, OpType
  <2>7. Home(op[q[k]].sess) = w BY <2>1, <2>2, <2>6 DEF IInv, SessionOf, OpOf
  <2>8. op[q[k]].sess # s
    <3> SUFFICES ASSUME op[q[k]].sess = s PROVE FALSE OBVIOUS
    <3>1. q[k] = wk[w].op BY <1>1, <1>2, <2>1, <2>4, Zenon DEF IInv, SessionOf
    <3> QED BY <1>3, <2>4, <3>1
  <2> QED BY <2>4, <2>6, <2>7, <2>8, Zenon
<1>7. f \in [D -> T] BY <1>6, Zenon
<1>8. \A j, k \in D : f[j] = f[k] => j = k
  <2> SUFFICES ASSUME NEW j \in D, NEW k \in D, op[q[j]].sess = op[q[k]].sess PROVE j = k BY Zenon
  <2>1. op[q[j]].sess \in Session /\ Live(q[j]) /\ Live(q[k]) BY <1>6
  <2>2. q[j] = q[k] BY <1>5, <2>1 DEF IInv, SessionOf
  <2> QED BY <1>5, <2>2 DEF IInv, Places, Once
<1>9. IsFiniteSet(D) /\ Cardinality(D) = Len(q)
  <2>1. Len(q) \in Nat BY <1>5
  <2> HIDE DEF q
  <2> QED BY <2>1, FS_Interval
<1> HIDE DEF f, T, D
<1>10. ~(Cardinality(T) < Cardinality(D)) BY <1>4, <1>7, <1>8, <1>9, FS_PigeonHole
<1> QED BY <1>4, <1>5, <1>9, <1>10
-----------------------------------------------------------------------------
(* The steps of the workers.                                                *)

\* A worker takes an op for session s, which has none on its way; r is what
\* the session becomes.
Begins(w, s, r, c, d, done) ==
  /\ wk[w].pc = "idle" /\ Home(s) = w
  /\ TakeOp(w, s, c, d, done)
  /\ sess' = [sess EXCEPT ![s] = r]
  /\ UNCHANGED <<ring, cnt, hw, c0, removals>>
  /\ r \in SessionType /\ c \in Opcode /\ d \in BOOLEAN
  /\ c = "KEY_GENERATION" => d
  /\ \A o \in Op : op[o].sess = s => ~Live(o)
  /\ ~Collecting(s)
  /\ r.pka_op = sess[s].pka_op /\ r.completed = sess[s].completed /\ r.pending = NoOp
  /\ done = IF r.completed THEN r.pka_op ELSE NoOp
  /\ r.completed => r.hs # "HELLO_REQUEST"
  /\ c = Expected(r.hs) /\ r.hs # "CERTIFICATE_VERIFY"
  /\ r.hs \in {"HELLO_REQUEST", "SERVER_HELLO"} => ~r.keyed /\ ~r.signed
  /\ r.hs = "CERTIFICATE" => ~r.signed

LEMMA BeginsStep ==
  ASSUME IInv, NEW w \in Worker, NEW s \in Session, NEW r, NEW c, NEW d, NEW done,
         Begins(w, s, r, c, d, done)
  PROVE  IInv'
<1>0. Types /\ Places /\ Cores /\ SessionOf(s) /\ s # NoSess /\ Home(s) = w
  BY PkaAssumption DEF IInv, Begins
<1>1. pool[w] # <<>> BY PoolHasOps DEF Begins
<1> PICK o : o = Head(pool[w]) OBVIOUS
<1> DEFINE k == [pc |-> "enqueue", s |-> s, op |-> o, done |-> done]
           e == [op[o] EXCEPT !.sess = s, !.opcode = c, !.data = d]
<1>2. /\ op' = [op EXCEPT ![o] = e] /\ pool' = [pool EXCEPT ![w] = Tail(pool[w])]
      /\ wk' = [wk EXCEPT ![w] = k] /\ sess' = [sess EXCEPT ![s] = r]
      /\ UNCHANGED <<dead, ring, cnt, hw, c0, removals>>
  BY <1>1 DEF Begins, TakeOp
<1>3. /\ o \in Op /\ Tail(pool[w]) \in Seq(Op) /\ In(pool[w], o) /\ Once(Tail(pool[w]))
      /\ \A x : In(Tail(pool[w]), x) <=> In(pool[w], x) /\ x # o
  <2>1. pool[w] \in Seq(Op) /\ Once(pool[w]) BY <1>0 DEF Types, Places
  <2> QED BY <1>1, <2>1, QueueTake
<1>4. Home(o) = w /\ op[o].sess = NoSess /\ ~Live(o) /\ op[o] \in OpType
  BY <1>0, <1>3 DEF Places, Types
<1>5. /\ e \in OpType /\ e.sess = s /\ e.opcode = c /\ e.data = d
  BY <1>4, Zenon DEF Begins, OpType
<1>6. done \in Op \cup {NoOp} /\ k \in CallType BY <1>3 DEF Begins, SessionType, CallType
<1>7. /\ k.pc = "enqueue" /\ k.s = s /\ k.op = o /\ k.done = done OBVIOUS
<1> HIDE DEF e, k
<1>8. /\ op'[o] = e /\ \A x \in Op : x # o => op'[x] = op[x]
      /\ wk'[w] = k /\ \A v \in Worker : v # w => wk'[v] = wk[v]
      /\ sess'[s] = r /\ \A t \in Session : t # s => sess'[t] = sess[t]
      /\ pool'[w] = Tail(pool[w]) /\ \A v \in Worker : v # w => pool'[v] = pool[v]
  BY <1>0, <1>2, <1>3 DEF Types
<1>9. \A x \in Op : Home(x) \in Worker BY PkaAssumption
<1>10. \A x \in Op : /\ Taken(x)' <=> Taken(x) \/ x = o
                     /\ Home(x) = w => ~Taken(x)
                     /\ (Queued(x)' <=> Queued(x)) /\ (Inside(x)' <=> Inside(x))
                     /\ (Ready(x)' <=> Ready(x))
                     /\ Live(x)' <=> Live(x) \/ x = o
  <2>1. \A x \in Op : Home(x) = w => ~Taken(x) BY DEF Begins, Taken
  <2>2. \A x \in Op : Home(x) = w => (Taken(x)' <=> x = o) BY <1>7, <1>8 DEF Taken
  <2>3. \A x \in Op : Home(x) # w => (Taken(x)' <=> Taken(x)) BY <1>8, <1>9 DEF Taken
  <2>4. \A x \in Op : /\ (Queued(x)' <=> Queued(x)) /\ (Inside(x)' <=> Inside(x))
                      /\ (Ready(x)' <=> Ready(x))
    BY <1>2 DEF Queued, Inside, Ready
  <2>5. \A x \in Op : Taken(x)' <=> Taken(x) \/ x = o BY <1>4, <2>1, <2>2, <2>3
  <2> QED BY <2>1, <2>4, <2>5 DEF Live
<1>11. Types' BY <1>0, <1>2, <1>3, <1>5, <1>6 DEF Types, Begins
<1>12. Places'
  <2>1. ASSUME NEW v \in Worker
        PROVE  /\ Once(pool'[v]) /\ Once(ring'[v])
               /\ \A x \in Op : In(pool'[v], x) \/ In(ring'[v], x) => Home(x) = v
    BY <1>0, <1>2, <1>3, <1>8 DEF Places
  <2>2. \A x \in Op : In(pool'[Home(x)], x) <=> op'[x].sess = NoSess
    <3>1. op'[o].sess # NoSess /\ ~In(pool'[Home(o)], o) BY <1>0, <1>3, <1>4, <1>5, <1>8
    <3>2. ASSUME NEW x \in Op, x # o PROVE In(pool'[Home(x)], x) <=> op'[x].sess = NoSess
      BY <1>0, <1>3, <1>8, <1>9, <3>2 DEF Places
    <3> QED BY <3>1, <3>2
  <2>3. \A x \in Op : Live(x)' => op'[x].sess # NoSess BY <1>0, <1>5, <1>8, <1>10 DEF Places
  <2>4. \A x \in Op : ~(Taken(x) /\ Queued(x))' /\ ~(Taken(x) /\ Inside(x))' /\ ~(Queued(x) /\ Inside(x))'
    BY <1>0, <1>4, <1>10 DEF Places, Live
  <2> QED BY <1>0, <1>2, <2>1, <2>2, <2>3, <2>4 DEF Places
<1>13. Cores'
  <2>1. \A v \in Worker : IF wk'[v].pc = "idle" THEN wk'[v] = Idle
                          ELSE wk'[v].s \in Session /\ Home(wk'[v].s) = v
    BY <1>0, <1>7, <1>8 DEF Cores
  <2>2. Agrees(hw, op')
    <3>1. \A i \in DOMAIN hw : hw[i].op \in Op /\ hw[i].op # o
      <4>1. \A i \in DOMAIN hw : hw[i] \in Request BY <1>0, ElementOfSeq, LenProperties DEF Types
      <4> QED BY <1>4, <4>1 DEF Request, Live, Inside, Runs
    <3> QED BY <1>0, <1>8, <3>1 DEF Cores, Agrees
  <2>3. (c0.pc = "mark" => c0.op \in Op /\ Inside(c0.op))' BY <1>0, <1>2 DEF Cores, Inside
  <2> QED BY <1>0, <1>2, <2>1, <2>2, <2>3 DEF Cores
<1>14. SessionOf(s)'
  <2>1. /\ Held(s)' /\ ~Collecting(s)' /\ (Done(s)' <=> r.completed) /\ (Done(s) <=> r.completed)
        /\ Waits(s)'
    BY <1>0, <1>2, <1>7, <1>8 DEF Begins, Held, Collecting, Done, Waits
  <2>2. ~Ready(o)'
    <3>1. ~Ready(o) BY <1>4 DEF Live, Inside, Ready, Runs, RunsReady
    <3> QED BY <1>3, <1>10, <3>1
  <2>3. OpOf(s, o)'
    <3>1. /\ op'[o].opcode = c /\ c \in Opcode /\ op'[o].data = d /\ c = Expected(sess'[s].hs)
          /\ c = "KEY_GENERATION" => d
      BY <1>5, <1>8 DEF Begins
    <3>2. Live(o)' BY <1>3, <1>10
    <3>3. wk'[Home(s)].op = o /\ wk'[Home(s)].pc # "clear" BY <1>0, <1>7, <1>8
    <3> QED BY <1>0, <1>4, <2>1, <2>2, <3>1, <3>2, <3>3 DEF OpOf
  <2>4. ASSUME NEW x \in Op, x # o, op'[x].sess = s
        PROVE  /\ OpOf(s, x)' /\ ~Live(x)'
    <3>1. op'[x] = op[x] /\ OpOf(s, x) /\ ~Live(x) BY <1>0, <1>8, <2>4 DEF SessionOf, Begins
    <3>2. Done(s) /\ sess[s].pka_op = x BY <3>1 DEF OpOf
    <3>3. sess'[s].pka_op = x BY <1>8, <3>2, Zenon DEF Begins
    <3>4. ~Live(x)' BY <1>10, <2>4, <3>1, Zenon
    <3> QED BY <2>1, <3>1, <3>2, <3>3, <3>4, Zenon DEF OpOf
  <2>5. Done(s)' => sess'[s].pka_op \in Op /\ op'[sess'[s].pka_op].sess = s /\ ~Live(sess[s].pka_op)'
    <3> SUFFICES ASSUME Done(s) PROVE sess'[s].pka_op \in Op /\ op'[sess'[s].pka_op].sess = s
                                      /\ ~Live(sess[s].pka_op)'
      BY <2>1
    <3> DEFINE x == sess[s].pka_op
    <3>1. x \in Op /\ op[x].sess = s BY <1>0 DEF SessionOf
    <3>2. x # o /\ sess'[s].pka_op = x BY <1>0, <1>4, <1>8, <3>1 DEF Begins
    <3> HIDE DEF x
    <3>3. op'[x].sess = s BY <1>8, <3>1, <3>2
    <3>4. \A y \in {x} : ~Live(y)' BY <2>4, <3>1, <3>2, <3>3
    <3> QED BY <3>1, <3>2, <3>3, <3>4
  <2>6. CallOf(s)'
    <3>1. wk'[Home(s)].pc = "enqueue" /\ wk'[Home(s)].op = o /\ wk'[Home(s)].done = done
      BY <1>0, <1>7, <1>8
    <3>2. \A y \in {o} : Live(y)' BY <1>3, <1>10
    <3>3. op'[o].sess = s BY <1>5, <1>8
    <3>4. /\ done # NoOp => /\ sess'[s].completed /\ sess'[s].hs # "HELLO_REQUEST"
                            /\ done = sess'[s].pka_op /\ done # sess'[s].pending
      BY <1>8 DEF Begins
    <3>5. done = NoOp => ~sess'[s].completed
      BY <1>0, <1>8, <2>1, PkaAssumption, Zenon DEF Begins, SessionOf
    <3> QED BY <1>3, <2>1, <3>1, <3>2, <3>3, <3>4, <3>5 DEF CallOf
  <2>7. \A x, y \in Op : op'[x].sess = s /\ op'[y].sess = s /\ Live(x)' /\ Live(y)' => x = y
    BY <2>4
  <2>8. \A x \in Op : op'[x].sess = s => OpOf(s, x)' BY <2>3, <2>4
  <2>9. /\ sess'[s].pending = NoOp /\ (sess'[s].hs = "HELLO_REQUEST" => ~sess'[s].keyed)
        /\ (sess'[s].hs \in {"HELLO_REQUEST", "SERVER_HELLO"} => ~sess'[s].signed)
    BY <1>8 DEF Begins
  <2> QED BY <2>1, <2>5, <2>6, <2>7, <2>8, <2>9, Zenon DEF SessionOf
<1>15. ASSUME NEW t \in Session, t # s PROVE SessionOf(t)'
  <2>1. WorkerStep(w, s)
    <3>1. \A x \in Op : op'[x] = op[x] \/ (op[x].sess \in {s, NoSess} /\ op'[x].sess \in {s, NoSess})
      BY <1>4, <1>5, <1>8
    <3>2. wk[w].pc = "idle" BY DEF Begins
    <3>3. wk'[w].s = s /\ op'[wk'[w].op].sess = s BY <1>5, <1>7, <1>8
    <3> QED BY <1>2, <1>8, <1>10, <3>1, <3>2, <3>3, Zenon DEF WorkerStep
  <2> QED BY <1>0, <1>15, <2>1, OtherSessions
<1> QED BY <1>11, <1>12, <1>13, <1>14, <1>15 DEF IInv

\* A worker that is in a call is in it for one of its sessions.
LEMMA CallFacts ==
  ASSUME IInv, NEW w \in Worker, wk[w].pc # "idle"
  PROVE  /\ Types /\ Places /\ Cores
         /\ wk[w].s \in Session /\ wk[w].s # NoSess /\ Home(wk[w].s) = w /\ Held(wk[w].s)
         /\ SessionOf(wk[w].s) /\ CallOf(wk[w].s)
<1>1. wk[w].s \in Session /\ Home(wk[w].s) = w BY DEF IInv, Cores
<1>2. Held(wk[w].s) BY <1>1 DEF Held
<1>3. SessionOf(wk[w].s) BY <1>1 DEF IInv
<1> QED BY <1>1, <1>2, <1>3, PkaAssumption, Zenon DEF IInv, SessionOf

\* delete_op: op x goes back into the pool of its worker.
Frees(w, x) ==
  /\ op' = [op EXCEPT ![x] = ZeroedOp] /\ pool' = [pool EXCEPT ![w] = Append(@, x)]
  /\ UNCHANGED <<ring, hw>>
  /\ ~Queued(x) /\ ~Inside(x) /\ ~Taken(x)'
  /\ \A y \in Op : Taken(y)' => Taken(y)

LEMMA FreedPlaces ==
  ASSUME Types, Places, Cores, NEW w \in Worker, NEW x \in Op, Home(x) = w, op[x].sess # NoSess,
         Frees(w, x)
  PROVE  /\ op' \in [Op -> OpType] /\ pool' \in [Worker -> Seq(Op)]
         /\ Places' /\ Agrees(hw', op')
         /\ op'[x].sess = NoSess /\ \A y \in Op : y # x => op'[y] = op[y]
<1>1. ZeroedOp \in OpType /\ ZeroedOp.sess = NoSess BY DEF ZeroedOp, OpType
<1>2. /\ op'[x] = ZeroedOp /\ \A y \in Op : y # x => op'[y] = op[y]
      /\ pool'[w] = Append(pool[w], x) /\ \A v \in Worker : v # w => pool'[v] = pool[v]
      /\ UNCHANGED <<ring, hw>>
  BY DEF Types, Frees
<1>3. pool[w] \in Seq(Op) /\ Once(pool[w]) /\ ~In(pool[w], x) BY DEF Types, Places
<1>4. /\ pool'[w] \in Seq(Op) /\ Once(pool'[w])
      /\ \A y : In(pool'[w], y) <=> In(pool[w], y) \/ y = x
  BY <1>2, <1>3, QueueAdd
<1>5. op' \in [Op -> OpType] BY <1>1 DEF Types, Frees
<1>6. pool' \in [Worker -> Seq(Op)] BY <1>2, <1>4 DEF Types, Frees
<1>7. \A y \in Op : Home(y) \in Worker BY PkaAssumption
<1>8. Places'
  <2>1. ASSUME NEW v \in Worker
        PROVE  /\ Once(pool'[v]) /\ Once(ring'[v])
               /\ \A y \in Op : In(pool'[v], y) \/ In(ring'[v], y) => Home(y) = v
    BY <1>2, <1>4, Zenon DEF Places
  <2>2. \A y \in Op : In(pool'[Home(y)], y) <=> op'[y].sess = NoSess
    <3>1. ASSUME NEW y \in Op, y # x PROVE In(pool'[Home(y)], y) <=> op'[y].sess = NoSess
      BY <1>2, <1>4, <1>7, <3>1, Zenon DEF Places
    <3> QED BY <1>1, <1>2, <1>4, <3>1, Zenon
  <2>3. \A y \in Op : (Queued(y)' <=> Queued(y)) /\ (Inside(y)' <=> Inside(y)) /\ (Taken(y)' => Taken(y))
    BY <1>2 DEF Frees, Queued, Inside
  <2>4. ~Queued(x)' /\ ~Inside(x)' /\ ~Taken(x)' BY <2>3 DEF Frees
  <2>5. \A y \in Op : Live(y)' => Live(y) /\ y # x BY <2>3, <2>4 DEF Live
  <2>6. \A y \in Op : Live(y)' => op'[y].sess # NoSess BY <1>2, <2>5 DEF Places
  <2>7. \A y \in Op : ~(Taken(y) /\ Queued(y))' /\ ~(Taken(y) /\ Inside(y))' /\ ~(Queued(y) /\ Inside(y))'
    BY <2>3 DEF Places
  <2> QED BY <1>2, <2>1, <2>2, <2>6, <2>7 DEF Places
<1>9. Agrees(hw', op')
  <2>1. \A i \in DOMAIN hw : hw[i] \in Request BY ElementOfSeq, LenProperties DEF Types
  <2>2. \A i \in DOMAIN hw : hw[i].op \in Op /\ hw[i].op # x BY <2>1 DEF Request, Frees, Inside, Runs
  <2> QED BY <1>2, <2>2 DEF Cores, Agrees
<1> QED BY <1>1, <1>2, <1>5, <1>6, <1>8, <1>9

\* submit_pka_request, when the ring has room.
LEMMA EnqueueStep ==
  ASSUME IInv, NEW w \in Worker, Enqueue(w), Len(ring[w]) < RingCnt(w) - 1
  PROVE  IInv'
<1>0. wk[w].pc = "enqueue" /\ wk[w].pc # "idle" BY DEF Enqueue
<1> PICK s : s = wk[w].s OBVIOUS
<1> PICK x : x = wk[w].op OBVIOUS
<1>1. /\ Types /\ Places /\ Cores /\ s \in Session /\ s # NoSess /\ Home(s) = w /\ Held(s)
      /\ SessionOf(s) /\ CallOf(s)
  BY <1>0, CallFacts
<1>2. /\ ring' = [ring EXCEPT ![w] = Append(ring[w], x)] /\ wk' = [wk EXCEPT ![w].pc = "mark"]
      /\ UNCHANGED <<op, pool, sess, cnt, hw, c0, removals, dead>>
  BY DEF Enqueue
<1>3. /\ wk'[w].pc = "mark" /\ wk'[w].s = s /\ wk'[w].op = x /\ wk'[w].done = wk[w].done
      /\ wk' \in [Worker -> CallType]
      /\ \A v \in Worker : v # w => wk'[v] = wk[v]
  BY <1>1, <1>2, Zenon DEF Types, CallType
<1>4. x \in Op /\ op[x].sess = s /\ Home(x) = w
  <2>1. x \in Op /\ op[x].sess = s BY <1>0, <1>1 DEF CallOf
  <2> QED BY <1>1, <2>1, Zenon DEF SessionOf, OpOf
<1>5. Taken(x) /\ ~Queued(x) /\ ~Inside(x)
  <2>1. Taken(x) BY <1>0, <1>4 DEF Taken
  <2> QED BY <1>1, <1>4, <2>1 DEF Places
<1>6. /\ ring' \in [Worker -> Seq(Op)] /\ Once(ring'[w])
      /\ \A y : In(ring'[w], y) <=> In(ring[w], y) \/ y = x
      /\ \A v \in Worker : v # w => ring'[v] = ring[v]
  <2>1. ring[w] \in Seq(Op) /\ Once(ring[w]) /\ ~In(ring[w], x)
    BY <1>1, <1>4, <1>5 DEF Types, Places, Queued
  <2>2. ring'[w] = Append(ring[w], x) /\ \A v \in Worker : v # w => ring'[v] = ring[v]
    BY <1>1, <1>2 DEF Types
  <2>3. /\ Append(ring[w], x) \in Seq(Op) /\ Once(Append(ring[w], x))
        /\ \A y : In(Append(ring[w], x), y) <=> In(ring[w], y) \/ y = x
    <3>1. ring[w] \in Seq(Op) /\ x \in Op BY <1>4, <2>1
    <3>2. /\ Append(ring[w], x) \in Seq(Op)
          /\ \A o : In(Append(ring[w], x), o) <=> In(ring[w], o) \/ o = x
          /\ Once(ring[w]) /\ ~In(ring[w], x) => Once(Append(ring[w], x))
      BY <3>1, QueueAdd, Zenon
    <3> QED BY <2>1, <3>2, Zenon
  <2>4. ring' \in [Worker -> Seq(Op)] BY <1>1, <1>2, <2>3 DEF Types
  <2> QED BY <2>2, <2>3, <2>4
<1>7. \A y \in Op : Home(y) \in Worker BY PkaAssumption
<1>8. \A y \in Op : /\ Queued(y)' <=> Queued(y) \/ y = x
                    /\ Taken(y)' <=> Taken(y) /\ y # x
                    /\ (Inside(y)' <=> Inside(y)) /\ (Ready(y)' <=> Ready(y))
                    /\ Live(y)' <=> Live(y)
  <2>1. \A y \in Op : Queued(y)' <=> Queued(y) \/ y = x BY <1>4, <1>6, <1>7 DEF Queued
  <2>2. \A y \in Op : Taken(y)' <=> Taken(y) /\ y # x
    <3>1. \A y \in Op : Home(y) = w => ~Taken(y)' /\ (Taken(y) => y = x) BY <1>3 DEF Taken
    <3>2. \A y \in Op : Home(y) # w => (Taken(y)' <=> Taken(y)) /\ y # x BY <1>3, <1>4, <1>7 DEF Taken
    <3> QED BY <3>1, <3>2
  <2>3. \A y \in Op : (Inside(y)' <=> Inside(y)) /\ (Ready(y)' <=> Ready(y)) BY <1>2 DEF Inside, Ready
  <2> QED BY <1>5, <2>1, <2>2, <2>3 DEF Live
<1>9. Types' BY <1>1, <1>2, <1>3, <1>6 DEF Types
<1>10. Places'
  <2>1. ASSUME NEW v \in Worker
        PROVE  /\ Once(pool'[v]) /\ Once(ring'[v])
               /\ \A y \in Op : In(pool'[v], y) \/ In(ring'[v], y) => Home(y) = v
    BY <1>1, <1>2, <1>4, <1>6 DEF Places
  <2>2. \A y \in Op : /\ In(pool'[Home(y)], y) <=> op'[y].sess = NoSess
                      /\ Live(y)' => op'[y].sess # NoSess
    BY <1>1, <1>2, <1>8 DEF Places
  <2>3. \A y \in Op : ~(Taken(y) /\ Queued(y))' /\ ~(Taken(y) /\ Inside(y))' /\ ~(Queued(y) /\ Inside(y))'
    BY <1>1, <1>5, <1>8, Zenon DEF Places
  <2> QED BY <1>1, <1>2, <2>1, <2>2, <2>3 DEF Places
<1>11. Cores'
  <2>1. \A v \in Worker : IF wk'[v].pc = "idle" THEN wk'[v] = Idle
                          ELSE wk'[v].s \in Session /\ Home(wk'[v].s) = v
    BY <1>1, <1>3 DEF Cores
  <2> QED BY <1>1, <1>2, <2>1 DEF Cores, Inside
<1>12. SessionOf(s)'
  <2>1. Held(s)' /\ (Collecting(s)' <=> Collecting(s)) /\ (Done(s)' <=> Done(s)) /\ (Waits(s)' <=> Waits(s))
    BY <1>1, <1>2, <1>3 DEF Held, Collecting, Done, Waits
  <2>2. \A y \in Op : op'[y].sess = s => OpOf(s, y)'
    <3> SUFFICES ASSUME NEW y \in Op, op[y].sess = s PROVE OpOf(s, y)' BY <1>2
    <3>1. OpOf(s, y) /\ (Live(y)' <=> Live(y)) /\ (Ready(y)' <=> Ready(y)) BY <1>1, <1>8, Zenon DEF SessionOf
    <3> QED BY <1>1, <1>2, <1>3, <2>1, <3>1 DEF OpOf
  <2>3. \A y, z \in Op : op'[y].sess = s /\ op'[z].sess = s /\ Live(y)' /\ Live(z)' => y = z
    BY <1>1, <1>2, <1>8, Zenon DEF SessionOf
  <2>4. (Done(s) => sess[s].pka_op \in Op /\ op[sess[s].pka_op].sess = s /\ ~Live(sess[s].pka_op))'
    <3>1. Done(s) => /\ sess[s].pka_op \in Op /\ op[sess[s].pka_op].sess = s
                     /\ ~Live(sess[s].pka_op)
      BY <1>1, Zenon DEF SessionOf
    <3>2. sess[s].pka_op \in Op => \A y \in {sess[s].pka_op} : Live(y)' <=> Live(y) BY <1>8, Zenon
    <3> QED BY <1>2, <2>1, <3>1, <3>2, Zenon
  <2>5. (sess[s].pending # NoOp => op[sess[s].pending].sess = s /\ ~Taken(sess[s].pending))'
    <3>1. sess[s].pending # NoOp => /\ sess[s].pending \in Op /\ op[sess[s].pending].sess = s
                                    /\ ~Taken(sess[s].pending)
      BY <1>1, Zenon DEF SessionOf, Types, SessionType
    <3>2. sess[s].pending \in Op => \A y \in {sess[s].pending} : Taken(y)' => Taken(y) BY <1>8
    <3> QED BY <1>2, <3>1, <3>2, Zenon
  <2>6. CallOf(s)'
    <3>1. \A y \in {x} : Live(y)' /\ ~Taken(y)' BY <1>4, <1>5, <1>8 DEF Live
    <3> QED BY <1>0, <1>1, <1>2, <1>3, <1>4, <2>1, <3>1 DEF CallOf
  <2> QED BY <1>1, <1>2, <2>1, <2>2, <2>3, <2>4, <2>5, <2>6, Zenon DEF SessionOf
<1>13. ASSUME NEW t \in Session, t # s PROVE SessionOf(t)'
  <2>1. WorkerStep(w, s) BY <1>2, <1>3, <1>4, <1>8 DEF WorkerStep
  <2> QED BY <1>1, <1>13, <2>1, OtherSessions
<1> QED BY <1>9, <1>10, <1>11, <1>12, <1>13 DEF IInv

\* submit_pka_request, when the ring is full: the op is freed again.
LEMMA RefuseStep ==
  ASSUME IInv, NEW w \in Worker, Enqueue(w), ~(Len(ring[w]) < RingCnt(w) - 1)
  PROVE  IInv'
<1>0. wk[w].pc = "enqueue" /\ wk[w].pc # "idle" BY DEF Enqueue
<1> PICK s : s = wk[w].s OBVIOUS
<1> PICK x : x = wk[w].op OBVIOUS
<1> PICK d : d = wk[w].done OBVIOUS
<1>1. /\ Types /\ Places /\ Cores /\ s \in Session /\ s # NoSess /\ Home(s) = w /\ Held(s)
      /\ SessionOf(s) /\ CallOf(s)
  BY <1>0, CallFacts
<1>2. /\ op' = [op EXCEPT ![x] = ZeroedOp] /\ pool' = [pool EXCEPT ![w] = Append(@, x)]
      /\ wk' = [wk EXCEPT ![w] = AfterSubmit(w)]
      /\ UNCHANGED <<ring, sess, cnt, hw, c0, removals, dead>>
  BY DEF Enqueue
<1>3. x \in Op /\ op[x].sess = s /\ Home(x) = w
  <2>1. x \in Op /\ op[x].sess = s BY <1>0, <1>1 DEF CallOf
  <2> QED BY <1>1, <2>1, Zenon DEF SessionOf, OpOf
<1>4. Taken(x) /\ ~Queued(x) /\ ~Inside(x)
  <2>1. Taken(x) BY <1>0, <1>3 DEF Taken
  <2> QED BY <1>1, <1>3, <2>1 DEF Places
<1>5. /\ d = NoOp => wk'[w] = Idle
      /\ d # NoOp => wk'[w].pc = "clear" /\ wk'[w].s = s /\ wk'[w].op = x /\ wk'[w].done = d
      /\ wk' \in [Worker -> CallType]
      /\ \A v \in Worker : v # w => wk'[v] = wk[v]
  <2>1. Idle \in CallType BY DEF Idle, CallType
  <2>2. AfterSubmit(w) \in CallType BY <1>1, <2>1, Zenon DEF AfterSubmit, CallType, Types
  <2> QED BY <1>1, <1>2, <2>2 DEF AfterSubmit, Types, CallType
<1>6. Idle.pc = "idle" BY DEF Idle
<1>7. \A y \in Op : Home(y) \in Worker BY PkaAssumption
<1>8. \A y \in Op : /\ (Queued(y)' <=> Queued(y)) /\ (Inside(y)' <=> Inside(y))
                    /\ (Ready(y)' <=> Ready(y)) /\ (Taken(y)' <=> Taken(y) /\ y # x)
                    /\ Live(y)' <=> Live(y) /\ y # x
  <2>1. \A y \in Op : Home(y) = w => ~Taken(y)' /\ (Taken(y) => y = x) BY <1>5, <1>6 DEF Taken
  <2>2. \A y \in Op : Home(y) # w => (Taken(y)' <=> Taken(y)) /\ y # x BY <1>3, <1>5, <1>7 DEF Taken
  <2>3. \A y \in Op : Taken(y)' <=> Taken(y) /\ y # x BY <2>1, <2>2
  <2>4. \A y \in Op : /\ (Queued(y)' <=> Queued(y)) /\ (Inside(y)' <=> Inside(y))
                      /\ (Ready(y)' <=> Ready(y))
    BY <1>2 DEF Queued, Inside, Ready
  <2> QED BY <1>4, <2>3, <2>4 DEF Live
<1>9. /\ op' \in [Op -> OpType] /\ pool' \in [Worker -> Seq(Op)]
      /\ Places' /\ Agrees(hw', op')
      /\ op'[x].sess = NoSess /\ \A y \in Op : y # x => op'[y] = op[y]
  <2>1. Frees(w, x) BY <1>2, <1>3, <1>4, <1>8 DEF Frees
  <2> QED BY <1>1, <1>3, <2>1, FreedPlaces
<1>10. Types' BY <1>1, <1>2, <1>5, <1>9 DEF Types
<1>11. Cores'
  <2>1. \A v \in Worker : IF wk'[v].pc = "idle" THEN wk'[v] = Idle
                          ELSE wk'[v].s \in Session /\ Home(wk'[v].s) = v
    BY <1>1, <1>5, <1>6 DEF Cores
  <2> QED BY <1>1, <1>2, <1>9, <2>1 DEF Cores, Inside
<1>12. /\ d # NoOp => /\ sess[s].completed /\ sess[s].hs # "HELLO_REQUEST"
                      /\ d = sess[s].pka_op /\ d # sess[s].pending
       /\ d = NoOp => ~sess[s].completed
       /\ ~Collecting(s)
  BY <1>0, <1>1, Zenon DEF CallOf
<1>13. /\ Collecting(s)' <=> Collecting(s)
       /\ Done(s)' <=> Done(s)
       /\ Held(s)' <=> d # NoOp
  BY <1>1, <1>2, <1>5, <1>6 DEF Held, Collecting, Done
<1>14. ASSUME NEW y \in Op, op'[y].sess = s
       PROVE  y # x /\ op'[y] = op[y] /\ ~Live(y)' /\ Done(s) /\ sess[s].pka_op = y
  <2>1. y # x /\ op'[y] = op[y] /\ op[y].sess = s BY <1>1, <1>9, <1>14
  <2>2. ~Live(y) BY <1>1, <1>3, <1>4, <2>1, Zenon DEF SessionOf, Live
  <2>3. OpOf(s, y) BY <1>1, <2>1, Zenon DEF SessionOf
  <2> QED BY <1>8, <2>1, <2>2, <2>3 DEF OpOf
<1>15. SessionOf(s)'
  <2>1. \A y \in Op : op'[y].sess = s => OpOf(s, y)'
    <3> SUFFICES ASSUME NEW y \in Op, op'[y].sess = s PROVE OpOf(s, y)' OBVIOUS
    <3>1. op'[y] = op[y] /\ ~Live(y)' /\ Done(s)' /\ sess'[s].pka_op = y /\ Held(s)'
      BY <1>2, <1>12, <1>13, <1>14, Zenon DEF Done
    <3>2. OpOf(s, y) BY <1>1, <3>1, Zenon DEF SessionOf
    <3> QED BY <3>1, <3>2, Zenon DEF OpOf
  <2>2. (Done(s) => sess[s].pka_op \in Op /\ op[sess[s].pka_op].sess = s /\ ~Live(sess[s].pka_op))'
    <3>1. Done(s) => /\ sess[s].pka_op \in Op /\ op[sess[s].pka_op].sess = s
                     /\ ~Live(sess[s].pka_op)
      BY <1>1, Zenon DEF SessionOf
    <3>2. sess[s].pka_op \in Op => \A y \in {sess[s].pka_op} : Live(y)' => Live(y) /\ y # x BY <1>8
    <3>3. Done(s) => sess[s].pka_op # x BY <1>4, <3>1, Zenon DEF Live
    <3> QED BY <1>2, <1>9, <1>13, <3>1, <3>2, <3>3, Zenon
  <2>3. (sess[s].pending # NoOp => op[sess[s].pending].sess = s /\ ~Taken(sess[s].pending))'
    <3>1. sess[s].pending # NoOp => /\ sess[s].pending \in Op /\ op[sess[s].pending].sess = s
                                    /\ ~Taken(sess[s].pending)
      BY <1>1, Zenon DEF SessionOf, Types, SessionType
    <3>2. sess[s].pending \in Op => \A y \in {sess[s].pending} : Taken(y)' => Taken(y) BY <1>8
    <3>3. sess[s].pending # NoOp => sess[s].pending # x BY <1>4, <3>1, Zenon
    <3> QED BY <1>2, <1>9, <3>1, <3>2, <3>3, Zenon
  <2>4. Held(s)' => CallOf(s)'
    BY <1>1, <1>2, <1>5, <1>12, <1>13, Zenon DEF CallOf
  <2>5. ~Held(s)' => ~Done(s)' /\ \A y \in Op : op'[y].sess # s
    BY <1>12, <1>13, <1>14 DEF Done
  <2> QED BY <1>1, <1>2, <1>12, <1>13, <1>14, <2>1, <2>2, <2>3, <2>4, <2>5, Zenon DEF SessionOf
<1>16. ASSUME NEW t \in Session, t # s PROVE SessionOf(t)'
  <2>1. \A y \in Op : op'[y] = op[y] \/ (op[y].sess \in {s, NoSess} /\ op'[y].sess \in {s, NoSess})
    BY <1>3, <1>9, Zenon
  <2>2. (wk'[w].pc = "idle" \/ wk'[w].s = s) /\ wk'[w].pc # "enqueue" BY <1>5, <1>6
  <2>3. WorkerStep(w, s) BY <1>2, <1>5, <1>8, <2>1, <2>2, Zenon DEF WorkerStep
  <2> QED BY <1>1, <1>16, <2>3, OtherSessions
<1> QED BY <1>9, <1>10, <1>11, <1>15, <1>16 DEF IInv

\* op->pka_flag is set: the ops stay where they are.
LEMMA FlagPlaces ==
  ASSUME Types, Places, Cores, NEW x \in Op, op' = [op EXCEPT ![x].pka_flag = TRUE],
         UNCHANGED <<pool, ring, hw>>, \A y \in Op : Taken(y)' <=> Taken(y)
  PROVE  /\ op' \in [Op -> OpType] /\ Places' /\ Agrees(hw', op')
         /\ \A y \in Op : /\ op'[y].sess = op[y].sess /\ op'[y].opcode = op[y].opcode
                          /\ op'[y].data = op[y].data /\ (op[y].pka_flag \/ y = x => op'[y].pka_flag)
                          /\ y # x => op'[y] = op[y]
         /\ \A y \in Op : /\ (Queued(y)' <=> Queued(y)) /\ (Inside(y)' <=> Inside(y))
                          /\ (Ready(y)' <=> Ready(y)) /\ (Live(y)' <=> Live(y))
<1>1. op' \in [Op -> OpType] BY Zenon DEF Types, OpType
<1>2. \A y \in Op : /\ op'[y].sess = op[y].sess /\ op'[y].opcode = op[y].opcode
                    /\ op'[y].data = op[y].data /\ (op[y].pka_flag \/ y = x => op'[y].pka_flag)
                    /\ y # x => op'[y] = op[y]
  BY DEF Types, OpType
<1>3. \A y \in Op : /\ (Queued(y)' <=> Queued(y)) /\ (Inside(y)' <=> Inside(y))
                    /\ (Ready(y)' <=> Ready(y)) /\ (Live(y)' <=> Live(y))
  BY DEF Queued, Inside, Ready, Live
<1>4. Places' BY <1>2, <1>3 DEF Places
<1>5. Agrees(hw', op')
  <2>1. \A i \in DOMAIN hw : hw[i] \in Request BY ElementOfSeq, LenProperties DEF Types
  <2>2. \A i \in DOMAIN hw : hw[i].op \in Op BY <2>1 DEF Request
  <2> QED BY <1>2, <2>2 DEF Cores, Agrees
<1> QED BY <1>1, <1>2, <1>3, <1>4, <1>5

\* The stores that follow submit_pka_request.
LEMMA MarkStep ==
  ASSUME IInv, NEW w \in Worker, MarkSubmitted(w)
  PROVE  IInv'
<1>0. wk[w].pc = "mark" /\ wk[w].pc # "idle" BY DEF MarkSubmitted
<1> PICK s : s = wk[w].s OBVIOUS
<1> PICK x : x = wk[w].op OBVIOUS
<1> PICK d : d = wk[w].done OBVIOUS
<1>1. /\ Types /\ Places /\ Cores /\ s \in Session /\ s # NoSess /\ Home(s) = w /\ Held(s)
      /\ SessionOf(s) /\ CallOf(s)
  BY <1>0, CallFacts
<1>2. /\ sess' = [sess EXCEPT ![s] = [@ EXCEPT !.waiting = TRUE, !.pending = x]]
      /\ op' = [op EXCEPT ![x].pka_flag = TRUE]
      /\ wk' = [wk EXCEPT ![w] = AfterSubmit(w)]
      /\ UNCHANGED <<pool, ring, cnt, hw, c0, removals, dead>>
  BY DEF MarkSubmitted
<1>3. x \in Op /\ op[x].sess = s /\ Live(x) /\ ~Taken(x) BY <1>0, <1>1, Zenon DEF CallOf
<1>4. /\ sess' \in [Session -> SessionType]
      /\ sess'[s].hs = sess[s].hs /\ sess'[s].waiting /\ sess'[s].completed = sess[s].completed
      /\ sess'[s].pending = x /\ sess'[s].pka_op = sess[s].pka_op
      /\ sess'[s].result = sess[s].result /\ sess'[s].keyed = sess[s].keyed
      /\ sess'[s].signed = sess[s].signed
      /\ \A t \in Session : t # s => sess'[t] = sess[t]
  BY <1>1, <1>2, <1>3, Zenon DEF Types, SessionType
<1>5. /\ d = NoOp => wk'[w] = Idle
      /\ d # NoOp => wk'[w].pc = "clear" /\ wk'[w].s = s /\ wk'[w].op = x /\ wk'[w].done = d
      /\ wk' \in [Worker -> CallType]
      /\ \A v \in Worker : v # w => wk'[v] = wk[v]
  <2>1. Idle \in CallType BY DEF Idle, CallType
  <2>2. AfterSubmit(w) \in CallType BY <1>1, <2>1, Zenon DEF AfterSubmit, CallType, Types
  <2> QED BY <1>1, <1>2, <2>2 DEF AfterSubmit, Types, CallType
<1>6. Idle.pc = "idle" BY DEF Idle
<1>7. \A y \in Op : Home(y) \in Worker BY PkaAssumption
<1>8. \A y \in Op : Taken(y)' <=> Taken(y)
  <2>1. \A y \in Op : Home(y) = w => ~Taken(y)' /\ ~Taken(y) BY <1>0, <1>5, <1>6 DEF Taken
  <2>2. \A y \in Op : Home(y) # w => (Taken(y)' <=> Taken(y)) BY <1>5, <1>7 DEF Taken
  <2> QED BY <2>1, <2>2
<1>9. /\ op' \in [Op -> OpType] /\ Places' /\ Agrees(hw', op')
      /\ \A y \in Op : /\ op'[y].sess = op[y].sess /\ op'[y].opcode = op[y].opcode
                       /\ op'[y].data = op[y].data /\ (op[y].pka_flag \/ y = x => op'[y].pka_flag)
                       /\ y # x => op'[y] = op[y]
      /\ \A y \in Op : /\ (Queued(y)' <=> Queued(y)) /\ (Inside(y)' <=> Inside(y))
                       /\ (Ready(y)' <=> Ready(y)) /\ (Live(y)' <=> Live(y))
  BY <1>1, <1>2, <1>3, <1>8, FlagPlaces, Zenon
<1>10. Types' BY <1>1, <1>2, <1>4, <1>5, <1>9, Zenon DEF Types
<1>11. Cores'
  <2>1. \A v \in Worker : IF wk'[v].pc = "idle" THEN wk'[v] = Idle
                          ELSE wk'[v].s \in Session /\ Home(wk'[v].s) = v
    BY <1>1, <1>5, <1>6 DEF Cores
  <2> QED BY <1>1, <1>2, <1>9, <2>1, Zenon DEF Cores, Inside
<1>12. /\ d # NoOp => sess[s].completed /\ sess[s].hs # "HELLO_REQUEST" /\ d = sess[s].pka_op
       /\ d = NoOp => ~sess[s].completed
       /\ ~Collecting(s)
  BY <1>0, <1>1, Zenon DEF CallOf
<1>13. /\ Collecting(s)' <=> Collecting(s)
       /\ Done(s)' <=> Done(s)
       /\ Waits(s)' <=> Waits(s)
       /\ Held(s)' <=> d # NoOp
  BY <1>1, <1>2, <1>4, <1>5, <1>6 DEF Held, Collecting, Done, Waits
<1>14. Done(s) <=> d # NoOp BY <1>12, Zenon DEF Done
<1>15. Done(s) => sess[s].pka_op \in Op /\ op[sess[s].pka_op].sess = s /\ ~Live(sess[s].pka_op)
  BY <1>1, Zenon DEF SessionOf
<1>16. SessionOf(s)'
  <2>1. ASSUME NEW y \in Op, op'[y].sess = s PROVE OpOf(s, y)'
    <3>1. op[y].sess = s /\ OpOf(s, y) BY <1>1, <1>9, <2>1, Zenon DEF SessionOf
    <3>2. CASE Live(y)
      <4>1. y = x BY <1>1, <1>3, <3>1, <3>2, Zenon DEF SessionOf
      <4> QED BY <1>1, <1>4, <1>5, <1>9, <1>13, <1>14, <3>1, <3>2, <4>1, Zenon DEF OpOf
    <3>3. CASE ~Live(y)
      <4>1. Done(s) /\ sess[s].pka_op = y BY <3>1, <3>3, Zenon DEF OpOf
      <4> QED BY <1>4, <1>9, <1>13, <1>14, <3>1, <3>3, <4>1, Zenon DEF OpOf
    <3> QED BY <3>2, <3>3
  <2>2. (Done(s) => sess[s].pka_op \in Op /\ op[sess[s].pka_op].sess = s /\ ~Live(sess[s].pka_op))'
    <3>1. sess[s].pka_op \in Op => \A y \in {sess[s].pka_op} : Live(y)' => Live(y) BY <1>9, Zenon
    <3> QED BY <1>4, <1>9, <1>13, <1>15, <3>1, Zenon
  <2>3. (sess[s].pending # NoOp => op[sess[s].pending].sess = s /\ ~Taken(sess[s].pending))'
    <3>1. \A y \in {x} : ~Taken(y)' BY <1>3, <1>8
    <3> QED BY <1>3, <1>4, <1>9, <3>1, Zenon
  <2>4. Held(s)' => CallOf(s)'
    <3>1. d # NoOp => d # x BY <1>3, <1>12, <1>14, <1>15
    <3> QED BY <1>1, <1>4, <1>5, <1>12, <1>13, <3>1, Zenon DEF CallOf
  <2>5. ~Held(s)' => ~Done(s)' BY <1>13, <1>14
  <2>6. \A y, z \in Op : op'[y].sess = s /\ op'[z].sess = s /\ Live(y)' /\ Live(z)' => y = z
    BY <1>1, <1>9, Zenon DEF SessionOf
  <2>7. \A y \in Op : op'[y].sess = s => OpOf(s, y)' BY <2>1
  <2>8. /\ ~(sess'[s].completed /\ Collecting(s)')
        /\ sess'[s].hs = "HELLO_REQUEST" => ~sess'[s].keyed
        /\ sess'[s].hs \in {"HELLO_REQUEST", "SERVER_HELLO"} => ~sess'[s].signed
    BY <1>1, <1>4, <1>12, <1>13, Zenon DEF SessionOf
  <2> QED BY <1>4, <2>2, <2>3, <2>4, <2>5, <2>6, <2>7, <2>8, Zenon DEF SessionOf
<1>17. ASSUME NEW t \in Session, t # s PROVE SessionOf(t)'
  <2>1. \A y \in Op : op'[y] = op[y] \/ (op[y].sess \in {s, NoSess} /\ op'[y].sess \in {s, NoSess})
    BY <1>3, <1>9, Zenon
  <2>2. (wk'[w].pc = "idle" \/ wk'[w].s = s) /\ wk'[w].pc # "enqueue" BY <1>5, <1>6
  <2>3. WorkerStep(w, s) BY <1>2, <1>4, <1>5, <1>9, <2>1, <2>2, Zenon DEF WorkerStep
  <2> QED BY <1>1, <1>17, <2>3, OtherSessions
<1> QED BY <1>9, <1>10, <1>11, <1>16, <1>17 DEF IInv

\* The end of get_processed_crypto.
LEMMA ClearStep ==
  ASSUME IInv, NEW w \in Worker, ClearFlags(w)
  PROVE  IInv'
<1>0. wk[w].pc = "clear" /\ wk[w].pc # "idle" BY DEF ClearFlags
<1> PICK s : s = wk[w].s OBVIOUS
<1> PICK x : x = wk[w].done OBVIOUS
<1>1. /\ Types /\ Places /\ Cores /\ s \in Session /\ s # NoSess /\ Home(s) = w /\ Held(s)
      /\ SessionOf(s) /\ CallOf(s)
  BY <1>0, CallFacts
<1>2. /\ sess' = [sess EXCEPT ![s] = [@ EXCEPT !.waiting = FALSE, !.completed = FALSE]]
      /\ op' = [op EXCEPT ![x] = ZeroedOp] /\ pool' = [pool EXCEPT ![w] = Append(@, x)]
      /\ wk' = [wk EXCEPT ![w] = Idle]
      /\ UNCHANGED <<ring, cnt, hw, c0, removals, dead>>
  BY DEF ClearFlags
<1>3. /\ x # NoOp /\ sess[s].completed /\ sess[s].hs # "HELLO_REQUEST"
      /\ x = sess[s].pka_op /\ x # sess[s].pending /\ ~Collecting(s)
  BY <1>0, <1>1 DEF CallOf
<1>4. x \in Op /\ op[x].sess = s /\ ~Live(x) /\ Home(x) = w
  <2>1. x \in Op /\ op[x].sess = s /\ ~Live(x) BY <1>1, <1>3, Zenon DEF SessionOf, Done
  <2> QED BY <1>1, <2>1, Zenon DEF SessionOf, OpOf
<1>5. /\ sess' \in [Session -> SessionType]
      /\ sess'[s].hs = sess[s].hs /\ ~sess'[s].completed
      /\ sess'[s].pending = sess[s].pending /\ sess'[s].pka_op = sess[s].pka_op
      /\ sess'[s].result = sess[s].result /\ sess'[s].keyed = sess[s].keyed
      /\ sess'[s].signed = sess[s].signed
      /\ \A t \in Session : t # s => sess'[t] = sess[t]
  <2> DEFINE r == [sess[s] EXCEPT !.waiting = FALSE, !.completed = FALSE]
  <2>1. sess \in [Session -> SessionType] BY <1>1 DEF Types
  <2>2. sess[s] \in SessionType BY <1>1, <2>1
  <2>3. /\ r \in SessionType /\ r.hs = sess[s].hs /\ ~r.completed
        /\ r.pending = sess[s].pending /\ r.pka_op = sess[s].pka_op
        /\ r.result = sess[s].result /\ r.keyed = sess[s].keyed /\ r.signed = sess[s].signed
    BY <2>2, Zenon DEF SessionType
  <2>4. sess' = [sess EXCEPT ![s] = r] BY <1>2
  <2> HIDE DEF r
  <2> QED BY <1>1, <2>1, <2>3, <2>4, Zenon
<1>6. /\ wk'[w] = Idle /\ wk' \in [Worker -> CallType] /\ Idle.pc = "idle"
      /\ \A v \in Worker : v # w => wk'[v] = wk[v]
  <2>1. Idle \in CallType BY DEF Idle, CallType
  <2>2. Idle.pc = "idle" BY DEF Idle
  <2>3. wk \in [Worker -> CallType] BY <1>1 DEF Types
  <2> QED BY <1>2, <2>1, <2>2, <2>3
<1>7. \A y \in Op : Home(y) \in Worker BY PkaAssumption
<1>8. \A y \in Op : /\ (Queued(y)' <=> Queued(y)) /\ (Inside(y)' <=> Inside(y))
                    /\ (Ready(y)' <=> Ready(y)) /\ (Taken(y)' <=> Taken(y))
                    /\ Live(y)' <=> Live(y)
  <2>1. \A y \in Op : Home(y) = w => ~Taken(y)' /\ ~Taken(y) BY <1>0, <1>6 DEF Taken
  <2>2. \A y \in Op : Home(y) # w => (Taken(y)' <=> Taken(y)) BY <1>6, <1>7 DEF Taken
  <2>3. \A y \in Op : /\ (Queued(y)' <=> Queued(y)) /\ (Inside(y)' <=> Inside(y))
                      /\ (Ready(y)' <=> Ready(y))
    BY <1>2 DEF Queued, Inside, Ready
  <2> QED BY <2>1, <2>2, <2>3 DEF Live
<1>9. /\ op' \in [Op -> OpType] /\ pool' \in [Worker -> Seq(Op)]
      /\ Places' /\ Agrees(hw', op')
      /\ op'[x].sess = NoSess /\ \A y \in Op : y # x => op'[y] = op[y]
  <2>1. ~Queued(x) /\ ~Inside(x) /\ ~Taken(x) BY <1>4 DEF Live
  <2>2. Frees(w, x) BY <1>2, <1>4, <1>8, <2>1 DEF Frees
  <2> QED BY <1>1, <1>4, <2>2, FreedPlaces
<1>10. Types' BY <1>1, <1>2, <1>5, <1>6, <1>9 DEF Types
<1>11. Cores'
  <2>1. \A v \in Worker : IF wk'[v].pc = "idle" THEN wk'[v] = Idle
                          ELSE wk'[v].s \in Session /\ Home(wk'[v].s) = v
    BY <1>1, <1>6 DEF Cores
  <2> QED BY <1>1, <1>2, <1>9, <2>1 DEF Cores, Inside
<1>12. ~Collecting(s)' /\ ~Done(s)' /\ ~Held(s)' /\ (Waits(s)' <=> Waits(s))
  BY <1>1, <1>2, <1>3, <1>5, <1>6 DEF Held, Collecting, Done, Waits
<1>13. SessionOf(s)'
  <2>1. ASSUME NEW y \in Op, op'[y].sess = s PROVE OpOf(s, y)'
    <3>1. y # x /\ op'[y] = op[y] /\ op[y].sess = s BY <1>1, <1>9, <2>1
    <3>2. OpOf(s, y) BY <1>1, <3>1, Zenon DEF SessionOf
    <3>3. Live(y) BY <1>3, <3>1, <3>2, Zenon DEF OpOf
    <3>4. Live(y)' BY <1>8, <3>3
    <3>5. Waits(s) /\ op[y].opcode = Expected(sess[s].hs) /\ op[y].pka_flag
      BY <1>0, <1>1, <3>2, <3>3, Zenon DEF OpOf
    <3> QED BY <1>5, <1>12, <3>1, <3>2, <3>4, <3>5, Zenon DEF OpOf
  <2>2. (sess[s].pending # NoOp => op[sess[s].pending].sess = s /\ ~Taken(sess[s].pending))'
    <3>1. sess[s].pending # NoOp => /\ sess[s].pending \in Op /\ op[sess[s].pending].sess = s
                                    /\ ~Taken(sess[s].pending)
      BY <1>1, Zenon DEF SessionOf, Types, SessionType
    <3>2. sess[s].pending \in Op => \A y \in {sess[s].pending} : Taken(y)' => Taken(y) BY <1>8, Zenon
    <3> QED BY <1>3, <1>5, <1>9, <3>1, <3>2, Zenon
  <2>3. \A y, z \in Op : op'[y].sess = s /\ op'[z].sess = s /\ Live(y)' /\ Live(z)' => y = z
    BY <1>1, <1>8, <1>9, Zenon DEF SessionOf
  <2>4. /\ sess'[s].hs # "HELLO_REQUEST"
        /\ sess'[s].hs \in {"HELLO_REQUEST", "SERVER_HELLO"} => ~sess'[s].signed
    BY <1>1, <1>3, <1>5, Zenon DEF SessionOf
  <2>5. \A y \in Op : op'[y].sess = s => OpOf(s, y)' BY <2>1, Zenon
  <2> QED BY <1>5, <1>12, <2>2, <2>3, <2>4, <2>5, Zenon DEF SessionOf
<1>14. ASSUME NEW t \in Session, t # s PROVE SessionOf(t)'
  <2>1. \A y \in Op : op'[y] = op[y] \/ (op[y].sess \in {s, NoSess} /\ op'[y].sess \in {s, NoSess})
    BY <1>4, <1>9
  <2>2. wk'[w].pc = "idle" BY <1>6
  <2>3. WorkerStep(w, s) BY <1>2, <1>5, <1>6, <1>8, <2>1, <2>2 DEF WorkerStep
  <2> QED BY <1>1, <1>14, <2>3, OtherSessions
<1> QED BY <1>9, <1>10, <1>11, <1>13, <1>14 DEF IInv

\* A step of an idle worker that leaves the ops alone: session s becomes r,
\* and the worker stays idle or goes on to free the op of s.
Turns(w, s, r, k) ==
  /\ wk[w].pc = "idle" /\ Home(s) = w
  /\ sess' = [sess EXCEPT ![s] = r] /\ wk' = [wk EXCEPT ![w] = k]
  /\ UNCHANGED <<op, pool, ring, cnt, hw, c0, dead>> /\ removals' \in 0 .. MaxRemovals
  /\ r \in SessionType /\ k \in CallType
  /\ r.pending = NoOp /\ r.pka_op = sess[s].pka_op /\ r.completed = sess[s].completed
  /\ r.hs = "HELLO_REQUEST" => ~r.keyed
  /\ r.hs \in {"HELLO_REQUEST", "SERVER_HELLO"} => ~r.signed
  /\ \/ k = Idle /\ ~Done(s) /\ \A o \in Op : op[o].sess # s
     \/ /\ k.pc = "clear" /\ k.s = s /\ k.done = sess[s].pka_op /\ k.op = NoOp
        /\ sess[s].completed /\ r.hs # "HELLO_REQUEST"

LEMMA TurnsStep ==
  ASSUME IInv, NEW w \in Worker, NEW s \in Session, NEW r, NEW k, Turns(w, s, r, k)
  PROVE  IInv'
<1>1. /\ Types /\ Places /\ Cores /\ s # NoSess /\ Home(s) = w /\ SessionOf(s) /\ ~Held(s)
  BY PkaAssumption DEF IInv, Turns, Held
<1>2. /\ sess'[s] = r /\ sess' \in [Session -> SessionType]
      /\ \A t \in Session : t # s => sess'[t] = sess[t]
      /\ wk'[w] = k /\ wk' \in [Worker -> CallType]
      /\ \A v \in Worker : v # w => wk'[v] = wk[v]
      /\ UNCHANGED <<op, pool, ring, cnt, hw, c0, dead>> /\ removals' \in 0 .. MaxRemovals
  BY <1>1, Zenon DEF Types, Turns
<1>3. k.pc # "enqueue" /\ (k.pc = "idle" => k = Idle) /\ (k.pc = "idle" \/ k.s = s)
  BY DEF Turns, Idle
<1>4. \A y \in Op : Home(y) \in Worker BY PkaAssumption
<1>5. \A y \in Op : /\ (Queued(y)' <=> Queued(y)) /\ (Inside(y)' <=> Inside(y))
                    /\ (Ready(y)' <=> Ready(y)) /\ (Taken(y)' <=> Taken(y))
                    /\ Live(y)' <=> Live(y)
  <2>1. \A y \in Op : Home(y) = w => ~Taken(y)' /\ ~Taken(y) BY <1>2, <1>3 DEF Taken, Turns
  <2>2. \A y \in Op : Home(y) # w => (Taken(y)' <=> Taken(y)) BY <1>2, <1>4 DEF Taken
  <2>3. \A y \in Op : /\ (Queued(y)' <=> Queued(y)) /\ (Inside(y)' <=> Inside(y))
                      /\ (Ready(y)' <=> Ready(y))
    BY <1>2 DEF Queued, Inside, Ready
  <2> QED BY <2>1, <2>2, <2>3 DEF Live
<1>6. Types' BY <1>1, <1>2 DEF Types
<1>7. Places' BY <1>1, <1>2, <1>5, Zenon DEF Places
<1>8. Cores'
  <2>1. \A v \in Worker : IF wk'[v].pc = "idle" THEN wk'[v] = Idle
                          ELSE wk'[v].s \in Session /\ Home(wk'[v].s) = v
    BY <1>1, <1>2, <1>3 DEF Cores
  <2> QED BY <1>1, <1>2, <2>1, Zenon DEF Cores, Inside
<1>9. /\ (Collecting(s)' <=> Collecting(s)) /\ (Done(s)' <=> Done(s))
      /\ Held(s)' <=> k.pc = "clear"
      /\ sess'[s].completed = sess[s].completed /\ sess'[s].pka_op = sess[s].pka_op
  <2>1. sess'[s].completed = sess[s].completed /\ sess'[s].pka_op = sess[s].pka_op
    BY <1>2 DEF Turns
  <2>2. Collecting(s)' <=> Collecting(s) BY <1>2 DEF Collecting
  <2>3. Held(s)' <=> k.pc = "clear" BY <1>1, <1>2, <1>3 DEF Held, Turns, Idle
  <2> QED BY <2>1, <2>2, <2>3 DEF Done
<1>10. /\ sess'[s].pending = NoOp
       /\ sess'[s].hs = "HELLO_REQUEST" => ~sess'[s].keyed
       /\ sess'[s].hs \in {"HELLO_REQUEST", "SERVER_HELLO"} => ~sess'[s].signed
  BY <1>2 DEF Turns
<1>11. SessionOf(s)'
  <2>1. CASE k = Idle
    <3>1. ~Done(s)' /\ ~Held(s)' /\ \A o \in Op : op'[o].sess # s
      <4>1. k.pc # "clear" BY <2>1 DEF Idle
      <4>2. ~Done(s) /\ \A o \in Op : op[o].sess # s BY <4>1, Zenon DEF Turns
      <4> QED BY <1>2, <1>9, <4>1, <4>2, Zenon
    <3> QED BY <1>9, <1>10, <3>1, Zenon DEF SessionOf, Done
  <2>2. CASE k # Idle
    <3>1. /\ k.pc = "clear" /\ k.s = s /\ k.done = sess[s].pka_op /\ k.op = NoOp
          /\ sess[s].completed /\ r.hs # "HELLO_REQUEST"
      BY <2>2, Zenon DEF Turns
    <3>2. Done(s) /\ ~Collecting(s) BY <1>1, <3>1, Zenon DEF Done, SessionOf
    <3>3. sess[s].pka_op \in Op /\ op[sess[s].pka_op].sess = s /\ ~Live(sess[s].pka_op)
      BY <1>1, <3>2, Zenon DEF SessionOf
    <3>4. ASSUME NEW y \in Op, op'[y].sess = s PROVE OpOf(s, y)' /\ ~Live(y)'
      <4>1. op[y].sess = s /\ OpOf(s, y) BY <1>1, <1>2, <3>4, Zenon DEF SessionOf
      <4>2. ~Live(y) /\ sess[s].pka_op = y BY <1>1, <3>2, <4>1, Zenon DEF OpOf
      <4>3. ~Live(y)' /\ Held(s)' BY <1>5, <1>9, <3>1, <4>2, Zenon
      <4> QED BY <1>2, <1>9, <3>2, <4>1, <4>2, <4>3, Zenon DEF OpOf
    <3>5. (Done(s) => sess[s].pka_op \in Op /\ op[sess[s].pka_op].sess = s /\ ~Live(sess[s].pka_op))'
      <4>1. \A y \in {sess[s].pka_op} : ~Live(y)' BY <1>5, <3>3, Zenon
      <4> QED BY <1>2, <1>9, <3>3, <4>1, Zenon
    <3>6. CallOf(s)'
      <4>1. sess[s].pka_op # NoOp BY <3>3, PkaAssumption, Zenon
      <4> QED BY <1>1, <1>2, <1>9, <1>10, <3>1, <3>2, <4>1, Zenon DEF CallOf
    <3>7. \A y \in Op : op'[y].sess = s => OpOf(s, y)' /\ ~Live(y)' BY <3>4
    <3> QED BY <1>9, <1>10, <3>1, <3>2, <3>5, <3>6, <3>7, Zenon DEF SessionOf
  <2> QED BY <2>1, <2>2
<1>12. ASSUME NEW t \in Session, t # s PROVE SessionOf(t)'
  <2>1. WorkerStep(w, s) BY <1>2, <1>3, <1>5, Zenon DEF WorkerStep, Turns
  <2> QED BY <1>1, <1>12, <2>1, OtherSessions
<1> QED BY <1>6, <1>7, <1>8, <1>11, <1>12 DEF IInv

\* A session that has not asked for anything, or has all it asked for, has no
\* op.
LEMMA NothingOwed ==
  ASSUME Types, NEW s \in Session, SessionOf(s), ~Held(s),
         ~Waits(s) \/ (sess[s].hs = "HELLO_REQUEST" /\ ~sess[s].waiting)
  PROVE  /\ ~Done(s) /\ ~sess[s].completed /\ ~Collecting(s) /\ sess[s].pending = NoOp
         /\ \A o \in Op : op[o].sess # s
<1>1. ASSUME NEW o \in Op, op[o].sess = s PROVE FALSE
  <2>1. OpOf(s, o) BY <1>1, Zenon DEF SessionOf
  <2>2. CASE sess[s].hs = "HELLO_REQUEST" /\ ~sess[s].waiting BY <1>1, <2>2, Zenon DEF SessionOf
  <2>3. CASE ~Waits(s)
    <3>1. ~Done(s) BY <2>3 DEF SessionOf
    <3> QED BY <2>1, <2>3, <3>1, Zenon DEF OpOf
  <2> QED BY <2>2, <2>3
<1>2. ~Done(s) BY <1>1 DEF SessionOf
<1>3. sess[s].pending \in Op \cup {NoOp} BY DEF Types, SessionType
<1>4. sess[s].pending = NoOp BY <1>1, <1>3, Zenon DEF SessionOf
<1> QED BY <1>1, <1>2, <1>4 DEF Done

\* A Client Hello.
LEMMA HelloStep ==
  ASSUME IInv, NEW w \in Worker, NEW s \in Session, ClientHello(w, s)
  PROVE  IInv'
<1>1. Types /\ SessionOf(s) BY DEF IInv
<1>2. ~Held(s) BY DEF ClientHello, Held
<1>3. /\ ~Done(s) /\ ~sess[s].completed /\ ~Collecting(s) /\ sess[s].pending = NoOp
      /\ \A o \in Op : op[o].sess # s
  BY <1>1, <1>2, NothingOwed DEF ClientHello
<1>4. sess[s] \in SessionType /\ sess' = [sess EXCEPT ![s] = sess[s]]
  BY <1>1 DEF Types, ClientHello
<1>5. /\ sess[s].hs = "HELLO_REQUEST" /\ ~sess[s].keyed /\ ~sess[s].signed
      /\ "KEY_GENERATION" = Expected(sess[s].hs)
  BY <1>1 DEF ClientHello, SessionOf, Expected
<1>6. Begins(w, s, sess[s], "KEY_GENERATION", TRUE, NoOp)
  BY <1>3, <1>4, <1>5, Zenon DEF Begins, ClientHello, Opcode
<1> QED BY <1>6, BeginsStep, Zenon

\* The handshake keys are there and the certificate is to be signed.
LEMMA SignatureStep ==
  ASSUME IInv, NEW w \in Worker, NEW s \in Session, SubmitSignature(w, s)
  PROVE  IInv'
<1>1. Types /\ SessionOf(s) BY DEF IInv
<1>2. ~Held(s) /\ ~Waits(s) BY DEF SubmitSignature, Held, Waits
<1>3. /\ ~Done(s) /\ ~sess[s].completed /\ ~Collecting(s) /\ sess[s].pending = NoOp
      /\ \A o \in Op : op[o].sess # s
  BY <1>1, <1>2, NothingOwed
<1> DEFINE r == [sess[s] EXCEPT !.hs = "CERTIFICATE"]
<1>4. sess[s] \in SessionType BY <1>1 DEF Types
<1>5. /\ r \in SessionType /\ r.hs = "CERTIFICATE" /\ r.pending = sess[s].pending
      /\ r.pka_op = sess[s].pka_op /\ r.completed = sess[s].completed /\ r.signed = sess[s].signed
  BY <1>4 DEF SessionType
<1>6. sess' = [sess EXCEPT ![s] = r] BY DEF SubmitSignature
<1>7. ~sess[s].signed BY <1>1 DEF SubmitSignature, SessionOf
<1> HIDE DEF r
<1>8. "SIGNATURE" = Expected(r.hs) BY <1>5 DEF Expected
<1>9. Begins(w, s, r, "SIGNATURE", FALSE, NoOp)
  BY <1>3, <1>5, <1>6, <1>7, <1>8, Zenon DEF Begins, SubmitSignature, Opcode
<1> QED BY <1>9, BeginsStep, Zenon

\* The signature is there.
LEMMA KeyMetaStep ==
  ASSUME IInv, NEW w \in Worker, NEW s \in Session, SendKeyMeta(w, s)
  PROVE  IInv'
<1>1. Types /\ Cores /\ SessionOf(s) BY DEF IInv
<1>2. ~Held(s) /\ ~Waits(s) BY DEF SendKeyMeta, Held, Waits
<1>3. /\ ~Done(s) /\ ~sess[s].completed /\ ~Collecting(s) /\ sess[s].pending = NoOp
      /\ \A o \in Op : op[o].sess # s
  BY <1>1, <1>2, NothingOwed
<1> DEFINE r == [sess[s] EXCEPT !.hs = "CERTIFICATE_VERIFY"]
<1>4. sess[s] \in SessionType BY <1>1 DEF Types
<1>5. /\ r \in SessionType /\ r.hs = "CERTIFICATE_VERIFY" /\ r.pending = sess[s].pending
      /\ r.pka_op = sess[s].pka_op /\ r.completed = sess[s].completed
  BY <1>4 DEF SessionType
<1>6. sess' = [sess EXCEPT ![s] = r] BY DEF SendKeyMeta
<1> HIDE DEF r
<1>7. wk[w] = Idle /\ Idle \in CallType /\ wk' = [wk EXCEPT ![w] = Idle]
  BY <1>1 DEF SendKeyMeta, Cores, Types, Idle, CallType
<1>8. removals' \in 0 .. MaxRemovals BY <1>1 DEF SendKeyMeta, Types
<1>9. Turns(w, s, r, Idle)
  BY <1>3, <1>5, <1>6, <1>7, <1>8, Zenon DEF Turns, SendKeyMeta
<1> QED BY <1>9, TurnsStep

\* A session is removed when the host has closed it.
LEMMA RemoveStep ==
  ASSUME IInv, ~RemoveEarly, NEW w \in Worker, NEW s \in Session, RemoveSession(w, s)
  PROVE  IInv' /\ UNCHANGED cnt
<1>1. Types /\ Cores /\ SessionOf(s) BY DEF IInv
<1>2. ~Held(s) /\ ~Waits(s) BY DEF RemoveSession, Held, Waits
<1>3. /\ ~Done(s) /\ ~sess[s].completed /\ ~Collecting(s) /\ sess[s].pending = NoOp
      /\ \A o \in Op : op[o].sess # s
  BY <1>1, <1>2, NothingOwed
<1> DEFINE r == [FreshSession EXCEPT !.pka_op = sess[s].pka_op]
<1>4. sess[s] \in SessionType BY <1>1 DEF Types
<1>5. /\ r \in SessionType /\ r.hs = "HELLO_REQUEST" /\ r.pending = NoOp
      /\ r.pka_op = sess[s].pka_op /\ r.completed = FALSE /\ ~r.keyed /\ ~r.signed
  BY <1>4, Zenon DEF SessionType, FreshSession, Opcode
<1>6. sess' = [sess EXCEPT ![s] = r] /\ UNCHANGED <<op, pool, cnt, ring, hw, wk, c0, dead>>
  BY <1>3 DEF RemoveSession
<1> HIDE DEF r
<1>7. wk[w] = Idle /\ Idle \in CallType /\ wk' = [wk EXCEPT ![w] = Idle]
  BY <1>1, <1>6 DEF RemoveSession, Cores, Types, Idle, CallType
<1>8. removals' \in 0 .. MaxRemovals
  <2>1. removals \in 0 .. MaxRemovals /\ MaxRemovals \in Nat BY <1>1, PkaAssumption DEF Types
  <2> QED BY <2>1 DEF RemoveSession
<1>9. sess[s].completed = FALSE BY <1>3, <1>4 DEF SessionType
<1>10. Turns(w, s, r, Idle)
  BY <1>3, <1>5, <1>6, <1>7, <1>8, <1>9, Zenon DEF Turns, RemoveSession
<1> QED BY <1>6, <1>10, TurnsStep

\* A finished op is picked up.
LEMMA ProcessedStep ==
  ASSUME IInv, NEW w \in Worker, NEW s \in Session, GetProcessedCrypto(w, s)
  PROVE  IInv'
<1>1. Types /\ Cores /\ SessionOf(s) BY Zenon DEF IInv
<1>2. ~Held(s) /\ sess[s].completed /\ Done(s) BY Zenon DEF GetProcessedCrypto, Held, Done
<1>3. /\ Waits(s) /\ ~Collecting(s) /\ sess[s].pka_op \in Op
      /\ \A o \in Op : op[o].sess = s => ~Live(o)
  BY <1>1, <1>2, Zenon DEF SessionOf, OpOf
<1>4. sess[s] \in SessionType BY <1>1 DEF Types
<1>5. removals' \in 0 .. MaxRemovals BY <1>1, Zenon DEF GetProcessedCrypto, Types
<1>6. CASE sess[s].hs = "HELLO_REQUEST"
  <2> DEFINE r == [sess[s] EXCEPT !.pending = NoOp, !.hs = "SERVER_HELLO"]
  <2>1. /\ r \in SessionType /\ r.hs = "SERVER_HELLO" /\ r.pending = NoOp
        /\ r.pka_op = sess[s].pka_op /\ r.completed = sess[s].completed
        /\ r.keyed = sess[s].keyed /\ r.signed = sess[s].signed
    BY <1>4, Zenon DEF SessionType
  <2>2. sess' = [sess EXCEPT ![s] = r] /\ TakeOp(w, s, "SHARED_SECRET_CALC", FALSE, sess[s].pka_op)
    BY <1>6, Zenon DEF GetProcessedCrypto
  <2>3. ~sess[s].keyed /\ ~sess[s].signed BY <1>1, <1>6, Zenon DEF SessionOf
  <2> HIDE DEF r
  <2>4. "SHARED_SECRET_CALC" = Expected(r.hs) BY <2>1 DEF Expected
  <2>5. Begins(w, s, r, "SHARED_SECRET_CALC", FALSE, sess[s].pka_op)
    BY <1>2, <1>3, <2>1, <2>2, <2>3, <2>4, Zenon DEF Begins, GetProcessedCrypto, Opcode
  <2> QED BY <2>5, BeginsStep, Zenon
<1> DEFINE k == [pc |-> "clear", s |-> s, op |-> NoOp, done |-> sess[s].pka_op]
<1>7. k \in CallType BY <1>3, Zenon DEF CallType
<1>8. k.pc = "clear" /\ k.s = s /\ k.op = NoOp /\ k.done = sess[s].pka_op OBVIOUS
<1>9. CASE sess[s].hs = "SERVER_HELLO"
  <2> DEFINE r == [sess[s] EXCEPT !.pending = NoOp, !.keyed = TRUE]
  <2>1. /\ r \in SessionType /\ r.hs = "SERVER_HELLO" /\ r.pending = NoOp
        /\ r.pka_op = sess[s].pka_op /\ r.completed = sess[s].completed
        /\ r.signed = sess[s].signed
    BY <1>4, <1>9, Zenon DEF SessionType
  <2>2. /\ sess' = [sess EXCEPT ![s] = r] /\ wk' = [wk EXCEPT ![w] = k]
        /\ UNCHANGED <<op, pool, dead>>
    BY <1>9 DEF GetProcessedCrypto
  <2>3. ~sess[s].signed BY <1>1, <1>9, Zenon DEF SessionOf
  <2> HIDE DEF r, k
  <2>4. Turns(w, s, r, k)
    BY <1>2, <1>5, <1>7, <1>8, <2>1, <2>2, <2>3, Zenon DEF Turns, GetProcessedCrypto
  <2> QED BY <2>4, TurnsStep
<1>10. CASE sess[s].hs = "CERTIFICATE"
  <2> DEFINE r == [sess[s] EXCEPT !.pending = NoOp, !.signed = TRUE]
  <2>1. /\ r \in SessionType /\ r.hs = "CERTIFICATE" /\ r.pending = NoOp
        /\ r.pka_op = sess[s].pka_op /\ r.completed = sess[s].completed
    BY <1>4, <1>10, Zenon DEF SessionType
  <2>2. /\ sess' = [sess EXCEPT ![s] = r] /\ wk' = [wk EXCEPT ![w] = k]
        /\ UNCHANGED <<op, pool, dead>>
    BY <1>10 DEF GetProcessedCrypto
  <2> HIDE DEF r, k
  <2>3. Turns(w, s, r, k)
    BY <1>2, <1>5, <1>7, <1>8, <2>1, <2>2, Zenon DEF Turns, GetProcessedCrypto
  <2> QED BY <2>3, TurnsStep
<1>11. sess[s].hs \in {"HELLO_REQUEST", "SERVER_HELLO", "CERTIFICATE"}
  BY <1>3, <1>4 DEF SessionType, Waits
<1> QED BY <1>6, <1>9, <1>10, <1>11
=============================================================================
