------------------------- MODULE PkaPipelineProofs --------------------------
(***************************************************************************)
(* The crypto ops of the public-key pipeline, for any number of workers,   *)
(* sessions and outstanding requests, as long as no session is removed in  *)
(* mid-handshake and no result overtakes the call that asked for it; and   *)
(* the lock-free ring through which they reach core 0, for every size.     *)
(***************************************************************************)
EXTENDS PkaWorkerProofs, SjRing

-----------------------------------------------------------------------------
(* Core 0 and the engine.                                                   *)

\* Core 0 goes to another worker, or counts.
LEMMA QuietStep ==
  ASSUME IInv, UNCHANGED <<sess, op, pool, ring, hw, wk, removals, dead>>,
         cnt' \in [Worker -> 0 .. CntRange - 1], c0' \in CoreType, c0'.pc # "mark",
         c0'.pc \in {"uncount", "flag"} <=> c0.pc \in {"uncount", "flag"},
         c0'.pc \in {"uncount", "flag"} => c0'.s = c0.s
  PROVE  IInv'
<1>1. Types /\ Places /\ Cores BY DEF IInv
<1>2. \A y \in Op : /\ (Taken(y)' <=> Taken(y)) /\ (Queued(y)' <=> Queued(y))
                    /\ (Inside(y)' <=> Inside(y)) /\ (Ready(y)' <=> Ready(y))
                    /\ Live(y)' <=> Live(y)
  BY DEF Taken, Queued, Inside, Ready, Live
<1>3. Types' BY <1>1 DEF Types
<1>4. Places' BY <1>1, <1>2 DEF Places
<1>5. Cores' BY <1>1 DEF Cores
<1>6. ASSUME NEW t \in Session PROVE SessionOf(t)'
  <2>1. (Collecting(t)' <=> Collecting(t)) /\ (Held(t)' <=> Held(t)) BY DEF Collecting, Held
  <2>2. Untouched(t) BY <1>2, <2>1 DEF Untouched
  <2>3. SessionOf(t) BY DEF IInv
  <2> QED BY <1>1, <2>2, <2>3, Frame
<1> QED BY <1>3, <1>4, <1>5, <1>6 DEF IInv

\* A step of core 0 or of the engine that moves a request and leaves the
\* sessions and the ops alone.
LEMMA MoveStep ==
  ASSUME IInv, UNCHANGED <<sess, op, pool, cnt, wk, removals, dead>>,
         ring' \in [Worker -> Seq(Op)], hw' \in Seq(Request), c0' \in CoreType,
         Places', RunsOnce(hw'), Agrees(hw', op),
         c0'.pc = "mark" => c0'.op \in Op /\ Runs(hw', c0'.op),
         c0'.pc \in {"uncount", "flag"} <=> c0.pc \in {"uncount", "flag"},
         c0'.pc \in {"uncount", "flag"} => c0'.s = c0.s,
         \A y \in Op : Live(y)' <=> Live(y),
         \A t \in Session, y \in Op : op[y].sess = t /\ Held(t) /\ Live(y) => (Ready(y)' => Ready(y))
  PROVE  IInv'
<1>1. Types /\ Places /\ Cores BY DEF IInv
<1>2. Types' BY <1>1 DEF Types
<1>3. Cores' BY <1>1 DEF Cores, Inside
<1>4. ASSUME NEW t \in Session PROVE SessionOf(t)'
  <2>1. (Collecting(t)' <=> Collecting(t)) /\ (Held(t)' <=> Held(t)) BY DEF Collecting, Held
  <2>2. \A y \in Op : Taken(y)' <=> Taken(y) BY DEF Taken
  <2>3. Untouched(t) BY <2>1, <2>2 DEF Untouched
  <2>4. SessionOf(t) BY DEF IInv
  <2> QED BY <1>1, <2>3, <2>4, Frame
<1> QED BY <1>2, <1>3, <1>4 DEF IInv

\* Core 0 gives an op from a ring to the engine.
LEMMA SubmitStep ==
  ASSUME IInv, SubmitOp
  PROVE  /\ IInv'
         /\ hw' = Append(hw, [op |-> Head(ring[c0.w]), opcode |-> op[Head(ring[c0.w])].opcode,
                              ready |-> FALSE])
         /\ c0'.pc = "mark" /\ c0'.w = c0.w
         /\ Head(ring[c0.w]) \in Op /\ Home(Head(ring[c0.w])) = c0.w
         /\ [op |-> Head(ring[c0.w]), opcode |-> op[Head(ring[c0.w])].opcode,
             ready |-> FALSE] \in Request
         /\ ~Runs(hw, Head(ring[c0.w]))
<1> PICK w : w = c0.w OBVIOUS
<1> PICK x : x = Head(ring[w]) OBVIOUS
<1> PICK e : e = [op |-> x, opcode |-> op[x].opcode, ready |-> FALSE] BY Zenon
<1>1. Types /\ Places /\ Cores /\ c0 \in CoreType /\ hw \in Seq(Request) BY DEF IInv, Types
<1>2. w \in Worker /\ ring[w] \in Seq(Op) /\ ring[w] # <<>>
  BY <1>1, Zenon DEF Types, CoreType, SubmitOp, MaySubmit
<1>3. /\ x \in Op /\ Tail(ring[w]) \in Seq(Op) /\ In(ring[w], x)
      /\ Once(ring[w]) => /\ Once(Tail(ring[w]))
                          /\ \A o : In(Tail(ring[w]), o) <=> In(ring[w], o) /\ o # x
  BY <1>2, QueueTake
<1>4. Once(ring[w]) /\ Home(x) = w BY <1>1, <1>2, <1>3 DEF Places
<1>5. Queued(x) /\ Live(x) BY <1>3, <1>4, Zenon DEF Queued, Live
<1>6. ~Taken(x) /\ ~Inside(x) /\ op[x].sess # NoSess BY <1>1, <1>3, <1>5, Zenon DEF Places
<1>7. op[x].opcode \in Opcode
  <2>1. op[x].sess \in Session BY <1>1, <1>3, <1>6 DEF Types, OpType
  <2>2. SessionOf(op[x].sess) BY <2>1 DEF IInv
  <2>3. OpOf(op[x].sess, x) BY <1>3, <2>2, Zenon DEF SessionOf
  <2> QED BY <2>3, Zenon DEF OpOf
<1>8. /\ ring' = [ring EXCEPT ![w] = Tail(ring[w])] /\ hw' = Append(hw, e)
      /\ c0' = [c0 EXCEPT !.pc = "mark", !.op = x]
      /\ UNCHANGED <<sess, op, pool, cnt, wk, removals, dead>>
  BY <1>7, Zenon DEF SubmitOp
<1>9. e \in Request /\ e.op = x /\ e.opcode = op[x].opcode /\ ~e.ready BY <1>3, <1>7, Zenon DEF Request
<1>10. /\ Append(hw, e) \in Seq(Request)
       /\ \A o : Runs(Append(hw, e), o) <=> Runs(hw, o) \/ o = e.op
       /\ \A o : RunsReady(Append(hw, e), o) <=> RunsReady(hw, o) \/ (o = e.op /\ e.ready)
       /\ RunsOnce(hw) /\ ~Runs(hw, e.op) => RunsOnce(Append(hw, e))
       /\ \A f : Agrees(hw, f) /\ e.opcode = f[e.op].opcode => Agrees(Append(hw, e), f)
  <2>1. hw \in Seq(Request) /\ e \in Request BY <1>1, <1>9
  <2> QED BY <2>1, EngineAdd, Zenon
<1>11. /\ ring' \in [Worker -> Seq(Op)] /\ ring'[w] = Tail(ring[w])
       /\ \A v \in Worker : v # w => ring'[v] = ring[v]
  BY <1>1, <1>2, <1>3, <1>8 DEF Types
<1>12. \A y \in Op : Home(y) \in Worker BY PkaAssumption
<1>13. \A y \in Op : /\ (Taken(y)' <=> Taken(y))
                     /\ (Queued(y)' <=> Queued(y) /\ y # x)
                     /\ (Inside(y)' <=> Inside(y) \/ y = x)
                     /\ (Ready(y)' <=> Ready(y))
  <2>1. \A y \in Op : Queued(y)' <=> Queued(y) /\ y # x
    BY <1>3, <1>4, <1>11, <1>12, Zenon DEF Queued
  <2>2. \A y \in Op : (Inside(y)' <=> Inside(y) \/ y = x) /\ (Ready(y)' <=> Ready(y))
    BY <1>8, <1>9, <1>10, Zenon DEF Inside, Ready
  <2> QED BY <1>8, <2>1, <2>2 DEF Taken
<1>14. \A y \in Op : Live(y)' <=> Live(y) BY <1>5, <1>13 DEF Live
<1>15. RunsOnce(hw') /\ Agrees(hw', op)
  BY <1>1, <1>6, <1>8, <1>9, <1>10, Zenon DEF Places, Inside, Cores
<1>16. Places'
  <2>1. \A v \in Worker : /\ Once(pool'[v]) /\ Once(ring'[v])
                          /\ \A o \in Op : In(pool'[v], o) \/ In(ring'[v], o) => Home(o) = v
    BY <1>1, <1>3, <1>4, <1>8, <1>11 DEF Places
  <2>2. ASSUME NEW y \in Op
        PROVE  /\ In(pool'[Home(y)], y) <=> op'[y].sess = NoSess
               /\ Live(y)' => op'[y].sess # NoSess
               /\ ~(Taken(y)' /\ Queued(y)') /\ ~(Taken(y)' /\ Inside(y)')
               /\ ~(Queued(y)' /\ Inside(y)')
    BY <1>1, <1>6, <1>8, <1>13, <1>14, Zenon DEF Places
  <2> QED BY <1>15, <2>1, <2>2 DEF Places
<1>17. c0' \in CoreType /\ c0'.pc = "mark" /\ c0'.op = x /\ c0'.w = w BY <1>1, <1>3, <1>8, Zenon DEF CoreType
<1>18. c0.pc = "submit" /\ Runs(hw', c0'.op) BY <1>8, <1>9, <1>10, <1>17, Zenon DEF SubmitOp
<1>19. \A y \in Op : Ready(y)' => Ready(y) BY <1>13
<1>20. IInv'
  BY <1>3, <1>8, <1>10, <1>11, <1>14, <1>15, <1>16, <1>17, <1>18, <1>19, MoveStep, Zenon
<1>21. ~Runs(hw, x) BY <1>6 DEF Inside
<1> QED BY <1>3, <1>4, <1>8, <1>9, <1>17, <1>20, <1>21

\* The engine finishes a request, after the call that made it.
LEMMA FinishStep ==
  ASSUME IInv, PkaOutlastsCall, NEW i \in DOMAIN hw, PkaFinish(i)
  PROVE  IInv'
<1>1. Types /\ Places /\ Cores /\ hw \in Seq(Request) /\ c0 \in CoreType BY Zenon DEF IInv, Types
<1>2. /\ hw' = [hw EXCEPT ![i].ready = TRUE]
      /\ UNCHANGED <<sess, op, pool, ring, cnt, wk, c0, removals, dead>>
      /\ \A w \in Worker : wk[w].op # hw[i].op
  BY DEF PkaFinish
<1>3. /\ hw' \in Seq(Request) /\ (\A o : Runs(hw', o) <=> Runs(hw, o))
      /\ \A o : RunsReady(hw', o) <=> RunsReady(hw, o) \/ o = hw[i].op
      /\ RunsOnce(hw) => RunsOnce(hw')
      /\ Agrees(hw, op) => Agrees(hw', op)
  BY <1>1, <1>2, EngineFinish, Zenon
<1>4. \A y \in Op : /\ (Taken(y)' <=> Taken(y)) /\ (Queued(y)' <=> Queued(y))
                    /\ (Inside(y)' <=> Inside(y)) /\ (Live(y)' <=> Live(y))
  BY <1>2, <1>3, Zenon DEF Taken, Queued, Inside, Live
<1>5. RunsOnce(hw') /\ Agrees(hw', op) BY <1>1, <1>3 DEF Places, Cores
<1>6. Places'
  <2>1. \A v \in Worker : /\ Once(pool'[v]) /\ Once(ring'[v])
                          /\ \A o \in Op : In(pool'[v], o) \/ In(ring'[v], o) => Home(o) = v
    BY <1>1, <1>2 DEF Places
  <2>2. ASSUME NEW y \in Op
        PROVE  /\ In(pool'[Home(y)], y) <=> op'[y].sess = NoSess
               /\ Live(y)' => op'[y].sess # NoSess
               /\ ~(Taken(y)' /\ Queued(y)') /\ ~(Taken(y)' /\ Inside(y)')
               /\ ~(Queued(y)' /\ Inside(y)')
    BY <1>1, <1>2, <1>4 DEF Places
  <2> QED BY <1>5, <2>1, <2>2 DEF Places
<1>7. ASSUME NEW t \in Session, NEW y \in Op, op[y].sess = t, Held(t), Live(y)
      PROVE  Ready(y)' => Ready(y)
  <2>1. SessionOf(t) /\ Home(t) \in Worker BY PkaAssumption DEF IInv
  <2>2. wk[Home(t)].op = y BY <1>7, <2>1 DEF SessionOf, OpOf
  <2>3. y # hw[i].op BY <1>2, <2>1, <2>2
  <2> QED BY <1>3, <2>3 DEF Ready
<1>8. ring' \in [Worker -> Seq(Op)] /\ (c0'.pc = "mark" => c0'.op \in Op /\ Runs(hw', c0'.op))
  BY <1>1, <1>2, <1>3, Zenon DEF Types, Cores, Inside
<1>9. /\ UNCHANGED <<sess, op, pool, cnt, wk, removals, dead>>
      /\ hw' \in Seq(Request) /\ c0' \in CoreType
      /\ c0'.pc \in {"uncount", "flag"} <=> c0.pc \in {"uncount", "flag"}
      /\ c0'.pc \in {"uncount", "flag"} => c0'.s = c0.s
  BY <1>1, <1>2, <1>3
<1>10. \A y \in Op : Live(y)' <=> Live(y) BY <1>4
<1>11. \A t \in Session, y \in Op : op[y].sess = t /\ Held(t) /\ Live(y) => (Ready(y)' => Ready(y))
  BY <1>7
<1> QED BY <1>5, <1>6, <1>8, <1>9, <1>10, <1>11, MoveStep

\* Core 0 marks the op it gave to the engine.
LEMMA ExecutedStep ==
  ASSUME IInv, MarkExecuted
  PROVE  IInv' /\ c0'.pc = "count" /\ c0'.w = c0.w
<1> PICK x : x = c0.op OBVIOUS
<1> PICK s : s = op[x].sess OBVIOUS
<1>1. Types /\ Places /\ Cores /\ c0 \in CoreType /\ c0.pc = "mark" BY Zenon DEF IInv, Types, MarkExecuted
<1>2. x \in Op /\ Inside(x) /\ Live(x) BY <1>1 DEF Cores, Live
<1>3. s # NoSess /\ s \in Session /\ ~Taken(x) BY <1>1, <1>2 DEF Places, Types, OpType
<1>4. SessionOf(s) BY <1>3 DEF IInv
<1>5. /\ op' = [op EXCEPT ![x].pka_flag = TRUE] /\ sess' = [sess EXCEPT ![s].pending = x]
      /\ c0' = [c0 EXCEPT !.pc = "count", !.op = NoOp]
      /\ UNCHANGED <<pool, ring, cnt, hw, wk, removals, dead>>
  BY <1>3 DEF MarkExecuted
<1>6. \A y \in Op : Taken(y)' <=> Taken(y) BY <1>5 DEF Taken
<1>7. /\ op' \in [Op -> OpType] /\ Places' /\ Agrees(hw', op')
      /\ \A y \in Op : /\ op'[y].sess = op[y].sess /\ op'[y].opcode = op[y].opcode
                       /\ op'[y].data = op[y].data /\ (op[y].pka_flag \/ y = x => op'[y].pka_flag)
                       /\ y # x => op'[y] = op[y]
      /\ \A y \in Op : /\ (Queued(y)' <=> Queued(y)) /\ (Inside(y)' <=> Inside(y))
                       /\ (Ready(y)' <=> Ready(y)) /\ (Live(y)' <=> Live(y))
  BY <1>1, <1>2, <1>5, <1>6, FlagPlaces, Zenon
<1>8. /\ sess' \in [Session -> SessionType]
      /\ sess'[s].hs = sess[s].hs /\ sess'[s].waiting = sess[s].waiting
      /\ sess'[s].completed = sess[s].completed
      /\ sess'[s].pending = x /\ sess'[s].pka_op = sess[s].pka_op
      /\ sess'[s].result = sess[s].result /\ sess'[s].keyed = sess[s].keyed
      /\ sess'[s].signed = sess[s].signed
      /\ \A t \in Session : t # s => sess'[t] = sess[t]
  <2> DEFINE r == [sess[s] EXCEPT !.pending = x]
  <2>1. sess \in [Session -> SessionType] BY <1>1 DEF Types
  <2>2. sess[s] \in SessionType BY <1>3, <2>1
  <2>3. /\ r \in SessionType /\ r.hs = sess[s].hs /\ r.waiting = sess[s].waiting
        /\ r.completed = sess[s].completed /\ r.pending = x /\ r.pka_op = sess[s].pka_op
        /\ r.result = sess[s].result /\ r.keyed = sess[s].keyed /\ r.signed = sess[s].signed
    BY <1>2, <2>2 DEF SessionType
  <2>4. sess' = [sess EXCEPT ![s] = r] BY <1>5, Zenon
  <2> HIDE DEF r
  <2> QED BY <1>3, <2>1, <2>3, <2>4, Zenon
<1>9. c0' \in CoreType /\ c0'.pc = "count" /\ c0'.w = c0.w BY <1>1, <1>5, Zenon DEF CoreType
<1>10. Types' BY <1>1, <1>5, <1>7, <1>8, <1>9, Zenon DEF Types
<1>11. Cores' BY <1>1, <1>5, <1>7, <1>9 DEF Cores
<1>12. /\ \A t \in Session : ~Collecting(t)' /\ ~Collecting(t) /\ (Held(t)' <=> Held(t))
       /\ (Done(s)' <=> Done(s)) /\ (Waits(s)' <=> Waits(s)) /\ wk' = wk
  BY <1>1, <1>3, <1>5, <1>8, <1>9 DEF Collecting, Held, Done, Waits
<1>13. SessionOf(s)'
  <2>1. ASSUME NEW y \in Op, op'[y].sess = s PROVE OpOf(s, y)'
    <3>1. OpOf(s, y) BY <1>4, <1>7, <2>1 DEF SessionOf
    <3>2. /\ op'[y].opcode = op[y].opcode /\ op'[y].data = op[y].data
          /\ op[y].pka_flag => op'[y].pka_flag
          /\ (Ready(y)' <=> Ready(y)) /\ (Live(y)' <=> Live(y))
      BY <1>7
    <3>3. /\ (Held(s)' <=> Held(s)) /\ (Done(s)' <=> Done(s)) /\ (Waits(s)' <=> Waits(s))
          /\ sess'[s].hs = sess[s].hs /\ sess'[s].pka_op = sess[s].pka_op /\ wk' = wk
      BY <1>3, <1>8, <1>12
    <3> QED BY <3>1, <3>2, <3>3 DEF OpOf
  <2>2. \A y \in Op : op'[y].sess = s => OpOf(s, y)' BY <2>1
  <2>3. (sess[s].pending # NoOp => op[sess[s].pending].sess = s /\ ~Taken(sess[s].pending))'
    <3>1. ~(wk'[Home(x)].pc = "enqueue" /\ wk'[Home(x)].op = x) BY <1>3, <1>5 DEF Taken
    <3>2. op'[x].sess = s BY <1>2, <1>7
    <3>3. sess'[s].pending = x BY <1>8, Zenon
    <3> QED BY <3>1, <3>2, <3>3 DEF Taken
  <2>4. Done(s) => sess[s].pka_op \in Op /\ op[sess[s].pka_op].sess = s /\ ~Live(sess[s].pka_op)
    BY <1>4, Zenon DEF SessionOf
  <2>5. (Done(s) => sess[s].pka_op \in Op /\ op[sess[s].pka_op].sess = s /\ ~Live(sess[s].pka_op))'
    <3>1. Done(s) => \A y \in {sess[s].pka_op} : ~Live(y)' BY <1>7, <2>4, Zenon
    <3>2. sess'[s].pka_op \in {sess[s].pka_op} /\ (Done(s)' => Done(s)) BY <1>8, <1>12, Zenon
    <3>3. Done(s)' => sess'[s].pka_op \in Op /\ op'[sess'[s].pka_op].sess = s
      BY <1>7, <2>4, <3>2
    <3>4. Done(s)' => ~Live(sess[s].pka_op)' BY <3>1, <3>2
    <3> QED BY <3>3, <3>4, Zenon
  <2>6. Held(s)' => CallOf(s)'
    <3> SUFFICES ASSUME Held(s) PROVE CallOf(s)' BY <1>3, <1>12
    <3> PICK k : k = wk[Home(s)] OBVIOUS
    <3> PICK z : z = k.op OBVIOUS
    <3>1. CallOf(s) BY <1>4, Zenon DEF SessionOf
    <3>2. /\ k.pc \in {"enqueue", "mark"} => z \in Op /\ op[z].sess = s /\ Live(z)
          /\ k.pc = "mark" => ~Taken(z)
      BY <3>1, Zenon DEF CallOf
    <3>3. /\ k.pc = "clear" => k.done # NoOp
          /\ k.done # NoOp => /\ sess[s].completed /\ sess[s].hs # "HELLO_REQUEST"
                              /\ k.done = sess[s].pka_op
          /\ k.done = NoOp => ~sess[s].completed
      BY <3>1, Zenon DEF CallOf
    <3>4. k.done # NoOp => k.done # x
      <4>1. k.done # NoOp => Done(s) BY <3>3, Zenon DEF Done
      <4> QED BY <1>2, <2>4, <3>3, <4>1, Zenon
    <3>5. wk'[Home(s)] = k BY <1>5
    <3>6. /\ k.pc \in {"enqueue", "mark"} => z \in Op /\ op'[z].sess = s /\ Live(z)'
          /\ k.pc = "mark" => ~Taken(z)'
      BY <1>6, <1>7, <3>2, Zenon
    <3> QED BY <1>3, <1>8, <1>12, <3>3, <3>4, <3>5, <3>6, Zenon DEF CallOf
  <2>7. \A y, z \in Op : op'[y].sess = s /\ op'[z].sess = s /\ Live(y)' /\ Live(z)' => y = z
    BY <1>4, <1>7, Zenon DEF SessionOf
  <2>8. /\ ~Held(s) /\ Done(s) => sess[s].result = Expected(sess[s].hs) /\ Waits(s)
        /\ ~Held(s) /\ sess[s].hs = "HELLO_REQUEST" /\ ~sess[s].waiting =>
             \A o \in Op : op[o].sess # s
        /\ sess[s].hs = "HELLO_REQUEST" => ~sess[s].keyed
        /\ sess[s].hs \in {"HELLO_REQUEST", "SERVER_HELLO"} => ~sess[s].signed
    BY <1>4, Zenon DEF SessionOf
  <2>9. /\ ~Collecting(s)'
        /\ ~Held(s)' /\ Done(s)' => sess'[s].result = Expected(sess'[s].hs) /\ Waits(s)'
        /\ ~Held(s)' /\ sess'[s].hs = "HELLO_REQUEST" /\ ~sess'[s].waiting =>
             \A o \in Op : op'[o].sess # s
        /\ sess'[s].hs = "HELLO_REQUEST" => ~sess'[s].keyed
        /\ sess'[s].hs \in {"HELLO_REQUEST", "SERVER_HELLO"} => ~sess'[s].signed
    BY <1>3, <1>7, <1>8, <1>12, <2>8, ZenonT(40)
  <2> QED BY <2>2, <2>3, <2>5, <2>6, <2>7, <2>9, Zenon DEF SessionOf
<1>14. ASSUME NEW t \in Session, t # s PROVE SessionOf(t)'
  <2>1. \A o \in Op : op[o].sess = t \/ op'[o].sess = t => op'[o] = op[o]
    BY <1>7, <1>14
  <2>2. Untouched(t) BY <1>6, <1>7, <1>8, <1>12, <1>14, <2>1, Zenon DEF Untouched
  <2>3. SessionOf(t) BY DEF IInv
  <2> QED BY <1>1, <2>2, <2>3, Frame
<1> QED BY <1>7, <1>9, <1>10, <1>11, <1>13, <1>14 DEF IInv

\* Core 0 flags a session.
LEMMA FlagStep ==
  ASSUME IInv, FlagCompleted
  PROVE  IInv' /\ c0'.pc = "complete"
<1> PICK s : s = c0.s OBVIOUS
<1>1. Types /\ Places /\ Cores /\ c0 \in CoreType /\ c0.pc = "flag" BY DEF IInv, Types, FlagCompleted
<1>2. s \in Session /\ Collecting(s) /\ Done(s) BY <1>1 DEF Cores, Collecting, Done
<1>3. SessionOf(s) BY <1>2 DEF IInv
<1>4. ~Held(s) /\ ~sess[s].completed BY <1>2, <1>3 DEF SessionOf, CallOf
<1>5. /\ sess' = [sess EXCEPT ![s].completed = TRUE]
      /\ c0' = [c0 EXCEPT !.pc = "complete", !.s = NoSess]
      /\ UNCHANGED <<op, pool, ring, cnt, hw, wk, removals, dead>>
  BY DEF FlagCompleted
<1>6. /\ sess' \in [Session -> SessionType]
      /\ sess'[s].hs = sess[s].hs /\ sess'[s].waiting = sess[s].waiting /\ sess'[s].completed
      /\ sess'[s].pending = sess[s].pending /\ sess'[s].pka_op = sess[s].pka_op
      /\ sess'[s].result = sess[s].result /\ sess'[s].keyed = sess[s].keyed
      /\ sess'[s].signed = sess[s].signed
      /\ \A t \in Session : t # s => sess'[t] = sess[t]
  <2> DEFINE r == [sess[s] EXCEPT !.completed = TRUE]
  <2>1. sess \in [Session -> SessionType] BY <1>1 DEF Types
  <2>2. sess[s] \in SessionType BY <1>2, <2>1
  <2>3. /\ r \in SessionType /\ r.hs = sess[s].hs /\ r.waiting = sess[s].waiting
        /\ r.completed /\ r.pending = sess[s].pending /\ r.pka_op = sess[s].pka_op
        /\ r.result = sess[s].result /\ r.keyed = sess[s].keyed /\ r.signed = sess[s].signed
    BY <2>2, Zenon DEF SessionType
  <2>4. sess' = [sess EXCEPT ![s] = r] BY <1>5
  <2> HIDE DEF r
  <2> QED BY <1>2, <2>1, <2>3, <2>4, Zenon
<1>7. c0' \in CoreType /\ c0'.pc = "complete" BY <1>1, <1>5, Zenon DEF CoreType
<1>8. Types' BY <1>1, <1>5, <1>6, <1>7 DEF Types
<1>9. \A y \in Op : /\ (Taken(y)' <=> Taken(y)) /\ (Queued(y)' <=> Queued(y))
                    /\ (Inside(y)' <=> Inside(y)) /\ (Ready(y)' <=> Ready(y))
                    /\ (Live(y)' <=> Live(y)) /\ op'[y] = op[y]
  BY <1>5 DEF Taken, Queued, Inside, Ready, Live
<1>10. Places'
  <2>1. \A v \in Worker : /\ Once(pool'[v]) /\ Once(ring'[v])
                          /\ \A o \in Op : In(pool'[v], o) \/ In(ring'[v], o) => Home(o) = v
    BY <1>1, <1>5 DEF Places
  <2>2. ASSUME NEW y \in Op
        PROVE  /\ In(pool'[Home(y)], y) <=> op'[y].sess = NoSess
               /\ Live(y)' => op'[y].sess # NoSess
               /\ ~(Taken(y)' /\ Queued(y)') /\ ~(Taken(y)' /\ Inside(y)')
               /\ ~(Queued(y)' /\ Inside(y)')
    BY <1>1, <1>5, <1>9 DEF Places
  <2> QED BY <1>1, <1>5, <2>1, <2>2, Zenon DEF Places
<1>11. Cores' BY <1>1, <1>5, <1>7 DEF Cores
<1>12. /\ ~Collecting(s)' /\ Done(s)' /\ ~Held(s)' /\ (Waits(s)' <=> Waits(s))
  BY <1>4, <1>5, <1>6, <1>7 DEF Collecting, Done, Held, Waits
<1>13. SessionOf(s)'
  <2>1. ASSUME NEW y \in Op, op'[y].sess = s PROVE OpOf(s, y)'
    <3>1. OpOf(s, y) BY <1>3, <1>9, <2>1 DEF SessionOf
    <3> QED BY <1>2, <1>4, <1>6, <1>9, <1>12, <3>1 DEF OpOf
  <2>2. \A y \in Op : op'[y].sess = s => OpOf(s, y)' BY <2>1
  <2>3. (sess[s].pending # NoOp => op[sess[s].pending].sess = s /\ ~Taken(sess[s].pending))'
    <3>1. sess[s].pending # NoOp => op[sess[s].pending].sess = s /\ ~Taken(sess[s].pending)
      BY <1>3 DEF SessionOf
    <3> QED BY <1>5, <1>6, <3>1 DEF Taken
  <2>4. (Done(s) => sess[s].pka_op \in Op /\ op[sess[s].pka_op].sess = s /\ ~Live(sess[s].pka_op))'
    <3>1. sess[s].pka_op \in Op /\ op[sess[s].pka_op].sess = s /\ ~Live(sess[s].pka_op)
      BY <1>2, <1>3, Zenon DEF SessionOf
    <3>2. \A y \in {sess[s].pka_op} : ~Live(y)' BY <1>9, <3>1
    <3> QED BY <1>5, <1>6, <3>1, <3>2
  <2>5. \A y, z \in Op : op'[y].sess = s /\ op'[z].sess = s /\ Live(y)' /\ Live(z)' => y = z
    BY <1>3, <1>9 DEF SessionOf
  <2>6. /\ sess[s].result = Expected(sess[s].hs) /\ Waits(s)
        /\ sess[s].hs = "HELLO_REQUEST" /\ ~sess[s].waiting => \A o \in Op : op[o].sess # s
        /\ sess[s].hs = "HELLO_REQUEST" => ~sess[s].keyed
        /\ sess[s].hs \in {"HELLO_REQUEST", "SERVER_HELLO"} => ~sess[s].signed
    BY <1>2, <1>3, <1>4, Zenon DEF SessionOf
  <2>7. /\ sess'[s].result = Expected(sess'[s].hs) /\ Waits(s)'
        /\ sess'[s].hs = "HELLO_REQUEST" => ~sess'[s].keyed
        /\ sess'[s].hs \in {"HELLO_REQUEST", "SERVER_HELLO"} => ~sess'[s].signed
    BY <1>6, <1>12, <2>6, Zenon
  <2>8. sess'[s].hs = "HELLO_REQUEST" /\ ~sess'[s].waiting => \A o \in Op : op'[o].sess # s
    BY <1>5, <1>6, <2>6
  <2> QED BY <1>12, <2>2, <2>3, <2>4, <2>5, <2>7, <2>8 DEF SessionOf
<1>14. ASSUME NEW t \in Session, t # s PROVE SessionOf(t)'
  <2>1. (Collecting(t)' <=> Collecting(t)) /\ (Held(t)' <=> Held(t))
    BY <1>1, <1>5, <1>7, <1>14 DEF Collecting, Held
  <2>2. Untouched(t) BY <1>5, <1>6, <1>9, <1>14, <2>1 DEF Untouched
  <2>3. SessionOf(t) BY DEF IInv
  <2> QED BY <1>1, <2>2, <2>3, Frame
<1> QED BY <1>7, <1>8, <1>10, <1>11, <1>13, <1>14 DEF IInv

\* Core 0 takes a result from the engine.  Its op is marked, belongs to a
\* session whose worker is not in a call for it, and is the one the session
\* waits for.
LEMMA ResultStep ==
  ASSUME IInv, NEW i \in DOMAIN hw, TakeResult(i)
  PROVE  /\ IInv' /\ hw' = Without(hw, i) /\ c0'.pc = "uncount"
         /\ c0'.s \in Session /\ Home(c0'.s) = Home(hw[i].op)
<1> PICK x : x = hw[i].op OBVIOUS
<1> PICK s : s = op[x].sess OBVIOUS
<1>1. /\ Types /\ Places /\ Cores /\ c0 \in CoreType /\ c0.pc = "complete" /\ hw \in Seq(Request)
      /\ RunsOnce(hw) /\ Agrees(hw, op)
  BY Zenon DEF IInv, Types, TakeResult, Places, Cores
<1>2. x \in Op /\ hw[i].opcode \in Opcode
  <2>1. hw[i] \in Request BY <1>1
  <2> QED BY <2>1 DEF Request
<1>3. Inside(x) /\ Live(x) /\ Ready(x) BY Zenon DEF Inside, Live, Ready, Runs, RunsReady, TakeResult
<1>4. s # NoSess /\ s \in Session /\ ~Taken(x) /\ ~Queued(x)
  BY <1>1, <1>2, <1>3 DEF Places, Types, OpType
<1>5. SessionOf(s) /\ OpOf(s, x)
  <2>1. SessionOf(s) BY <1>4 DEF IInv
  <2> QED BY <1>2, <2>1, Zenon DEF SessionOf
<1>6. ~Held(s) BY <1>3, <1>5, Zenon DEF OpOf
<1>7. /\ Waits(s) /\ ~Done(s) /\ op[x].opcode = Expected(sess[s].hs) /\ op[x].pka_flag
      /\ Home(x) = Home(s) /\ ~sess[s].completed /\ ~Collecting(s)
  BY <1>3, <1>5, <1>6, Zenon DEF OpOf, Done
<1>8. sess[s].hs = "HELLO_REQUEST" => op[x].data BY <1>5, <1>7, Zenon DEF OpOf, Expected
<1>9. hw[i].opcode = Expected(sess[s].hs) BY <1>1, <1>7 DEF Agrees
<1>10. /\ hw' = Without(hw, i) /\ c0' = [c0 EXCEPT !.pc = "uncount", !.s = s]
       /\ sess' = [sess EXCEPT ![s] = [@ EXCEPT !.pka_op = x, !.result = hw[i].opcode]]
       /\ UNCHANGED <<op, pool, ring, cnt, wk, removals, dead>>
  BY <1>4, <1>7, <1>8, Zenon DEF TakeResult
<1>11. /\ sess' \in [Session -> SessionType]
       /\ sess'[s].hs = sess[s].hs /\ sess'[s].waiting = sess[s].waiting
       /\ ~sess'[s].completed
       /\ sess'[s].pending = sess[s].pending /\ sess'[s].pka_op = x
       /\ sess'[s].result = hw[i].opcode /\ sess'[s].keyed = sess[s].keyed
       /\ sess'[s].signed = sess[s].signed
       /\ \A t \in Session : t # s => sess'[t] = sess[t]
  <2> DEFINE r == [sess[s] EXCEPT !.pka_op = x, !.result = hw[i].opcode]
  <2>1. sess \in [Session -> SessionType] BY <1>1 DEF Types
  <2>2. sess[s] \in SessionType BY <1>4, <2>1
  <2>3. /\ r \in SessionType /\ r.hs = sess[s].hs /\ r.waiting = sess[s].waiting
        /\ r.completed = sess[s].completed /\ r.pending = sess[s].pending /\ r.pka_op = x
        /\ r.result = hw[i].opcode /\ r.keyed = sess[s].keyed /\ r.signed = sess[s].signed
    BY <1>2, <2>2, Zenon DEF SessionType
  <2>4. sess' = [sess EXCEPT ![s] = r] BY <1>10
  <2> HIDE DEF r
  <2> QED BY <1>4, <1>7, <2>1, <2>3, <2>4, Zenon
<1>12. c0' \in CoreType /\ c0'.pc = "uncount" /\ c0'.s = s BY <1>1, <1>4, <1>10, Zenon DEF CoreType
<1>13. /\ hw' \in Seq(Request) /\ RunsOnce(hw') /\ Agrees(hw', op)
       /\ \A o : Runs(hw', o) <=> Runs(hw, o) /\ o # x
       /\ \A o : RunsReady(hw', o) => RunsReady(hw, o)
  BY <1>1, <1>10, EngineTake
<1>14. Types' BY <1>1, <1>10, <1>11, <1>12, <1>13, Zenon DEF Types
<1>15. \A y \in Op : /\ (Taken(y)' <=> Taken(y)) /\ (Queued(y)' <=> Queued(y))
                     /\ (Inside(y)' <=> Inside(y) /\ y # x) /\ (Ready(y)' => Ready(y))
                     /\ op'[y] = op[y]
  BY <1>10, <1>13 DEF Taken, Queued, Inside, Ready
<1>16. \A y \in Op : Live(y)' <=> Live(y) /\ y # x BY <1>4, <1>15 DEF Live
<1>17. Places'
  <2>1. \A v \in Worker : /\ Once(pool'[v]) /\ Once(ring'[v])
                          /\ \A o \in Op : In(pool'[v], o) \/ In(ring'[v], o) => Home(o) = v
    BY <1>1, <1>10 DEF Places
  <2>2. ASSUME NEW y \in Op
        PROVE  /\ In(pool'[Home(y)], y) <=> op'[y].sess = NoSess
               /\ Live(y)' => op'[y].sess # NoSess
               /\ ~(Taken(y)' /\ Queued(y)') /\ ~(Taken(y)' /\ Inside(y)')
               /\ ~(Queued(y)' /\ Inside(y)')
    BY <1>1, <1>10, <1>15, <1>16 DEF Places
  <2> QED BY <1>13, <2>1, <2>2 DEF Places
<1>18. Cores'
  <2>1. c0'.pc # "mark" /\ c0'.s \in Session BY <1>4, <1>12
  <2>2. Agrees(hw', op') BY <1>10, <1>13
  <2> QED BY <1>1, <1>10, <2>1, <2>2 DEF Cores
<1>19. Collecting(s)' /\ Done(s)' /\ ~Held(s)' /\ (Waits(s)' <=> Waits(s))
  BY <1>6, <1>10, <1>11, <1>12 DEF Collecting, Done, Held, Waits
<1>20. SessionOf(s)'
  <2>1. ASSUME NEW y \in Op, op'[y].sess = s PROVE OpOf(s, y)' /\ ~Live(y)'
    <3>1. op[y].sess = s BY <1>15, <2>1
    <3>2. y = x BY <1>2, <1>4, <1>6, <3>1, OneOpEach
    <3>3. ~Live(y)' BY <1>16, <3>2
    <3> QED BY <1>5, <1>7, <1>11, <1>15, <1>19, <3>2, <3>3, Zenon DEF OpOf
  <2>2. \A y \in Op : op'[y].sess = s => OpOf(s, y)' /\ ~Live(y)' BY <2>1
  <2>3. (sess[s].pending # NoOp => op[sess[s].pending].sess = s /\ ~Taken(sess[s].pending))'
    <3>1. sess[s].pending # NoOp => op[sess[s].pending].sess = s /\ ~Taken(sess[s].pending)
      BY <1>5, Zenon DEF SessionOf
    <3> QED BY <1>10, <1>11, <3>1, Zenon DEF Taken
  <2>4. (Done(s) => sess[s].pka_op \in Op /\ op[sess[s].pka_op].sess = s /\ ~Live(sess[s].pka_op))'
    <3>1. \A y \in {x} : ~Live(y)' BY <1>2, <1>16
    <3> QED BY <1>2, <1>11, <1>15, <3>1
  <2>5. /\ sess'[s].result = Expected(sess'[s].hs) /\ Waits(s)' BY <1>7, <1>9, <1>11, <1>19, Zenon
  <2>6. /\ sess[s].hs = "HELLO_REQUEST" /\ ~sess[s].waiting => \A o \in Op : op[o].sess # s
        /\ sess[s].hs = "HELLO_REQUEST" => ~sess[s].keyed
        /\ sess[s].hs \in {"HELLO_REQUEST", "SERVER_HELLO"} => ~sess[s].signed
    BY <1>5, <1>6, Zenon DEF SessionOf
  <2> QED BY <1>11, <1>15, <1>19, <2>2, <2>3, <2>4, <2>5, <2>6, Zenon DEF SessionOf
<1>21. ASSUME NEW t \in Session, t # s PROVE SessionOf(t)'
  <2>1. (Collecting(t)' <=> Collecting(t)) /\ (Held(t)' <=> Held(t))
    BY <1>1, <1>10, <1>12, <1>21 DEF Collecting, Held
  <2>2. \A y \in Op : op[y].sess = t \/ op'[y].sess = t => y # x BY <1>15, <1>21
  <2>3. Untouched(t) BY <1>10, <1>11, <1>15, <1>16, <1>21, <2>1, <2>2, Zenon DEF Untouched
  <2>4. SessionOf(t) BY DEF IInv
  <2> QED BY <1>1, <2>3, <2>4, Frame
<1>22. IInv' BY <1>14, <1>17, <1>18, <1>20, <1>21 DEF IInv
<1> QED BY <1>4, <1>7, <1>10, <1>12, <1>22
-----------------------------------------------------------------------------
(* The counter of outstanding requests.                                     *)

\* The requests of worker w inside the engine, and their ops.
Load(q, w) == Cardinality({i \in DOMAIN q : Home(q[i].op) = w})
LoadedOps(q, w) == {o \in Op : Runs(q, o) /\ Home(o) = w}

\* No op is inside the engine twice, so that the ops can be counted instead.
LEMMA LoadCount ==
  ASSUME NEW q \in Seq(Request), RunsOnce(q), NEW w
  PROVE  /\ IsFiniteSet(LoadedOps(q, w))
         /\ Load(q, w) \in Nat /\ Load(q, w) = Cardinality(LoadedOps(q, w))
<1> DEFINE S == {i \in DOMAIN q : Home(q[i].op) = w}
           T == LoadedOps(q, w)
           f == [i \in S |-> q[i].op]
<1>1. Len(q) \in Nat /\ DOMAIN q = 1 .. Len(q) BY LenProperties
<1>2. \A k \in DOMAIN q : q[k].op \in Op
  <2>1. \A k \in DOMAIN q : q[k] \in Request BY <1>1, ElementOfSeq
  <2> QED BY <2>1 DEF Request
<1>3. IsFiniteSet(S)
  <2>1. IsFiniteSet(1 .. Len(q)) BY <1>1, FS_Interval
  <2>2. S \subseteq 1 .. Len(q) BY <1>1
  <2> QED BY <2>1, <2>2, FS_Subset
<1>4. f \in [S -> T] BY <1>2 DEF LoadedOps, Runs
<1>5. \A j, k \in S : f[j] = f[k] => j = k BY DEF RunsOnce
<1>6. \A o \in T : \E k \in S : f[k] = o BY DEF LoadedOps, Runs
<1> HIDE DEF f, S, T
<1>7. f \in Bijection(S, T) BY <1>4, <1>5, <1>6 DEF Bijection, Injection, Surjection, IsInjective
<1>8. IsFiniteSet(T) /\ Cardinality(T) = Cardinality(S)
  BY <1>3, <1>7, FS_Bijection DEF ExistsBijection
<1>9. Cardinality(S) \in Nat BY <1>3, FS_CardinalityType
<1> QED BY <1>8, <1>9 DEF S, T, Load

\* A request is given to the engine.
LEMMA LoadAdd ==
  ASSUME NEW q \in Seq(Request), RunsOnce(q), NEW e \in Request, ~Runs(q, e.op), NEW w
  PROVE  Load(Append(q, e), w) = Load(q, w) + (IF Home(e.op) = w THEN 1 ELSE 0)
<1> DEFINE r == Append(q, e)
           x == e.op
           S == LoadedOps(q, w)
           T == LoadedOps(r, w)
<1>1. r \in Seq(Request) /\ RunsOnce(r) /\ \A o : Runs(r, o) <=> Runs(q, o) \/ o = x
  BY EngineAdd
<1>2. x \in Op BY DEF Request
<1>3. IsFiniteSet(S) /\ Load(q, w) \in Nat /\ Load(q, w) = Cardinality(S) BY LoadCount
<1> HIDE DEF r
<1>4. Load(r, w) = Cardinality(T) BY <1>1, LoadCount
<1>5. x \notin S BY DEF LoadedOps
<1>6. CASE Home(x) = w
  <2>1. T = S \cup {x} BY <1>1, <1>2, <1>6 DEF LoadedOps
  <2>2. Cardinality(S \cup {x}) = Cardinality(S) + 1 BY <1>3, <1>5, FS_AddElement, Zenon
  <2> QED BY <1>3, <1>4, <1>6, <2>1, <2>2 DEF r
<1>7. CASE Home(x) # w
  <2>1. T = S BY <1>1, <1>2, <1>7 DEF LoadedOps
  <2> QED BY <1>3, <1>4, <1>7, <2>1 DEF r
<1> QED BY <1>6, <1>7

\* A request leaves the engine.
LEMMA LoadTake ==
  ASSUME NEW q \in Seq(Request), RunsOnce(q), NEW i \in DOMAIN q, NEW w
  PROVE  Load(Without(q, i), w) = Load(q, w) - (IF Home(q[i].op) = w THEN 1 ELSE 0)
<1> DEFINE r == Without(q, i)
           x == q[i].op
           S == LoadedOps(q, w)
           T == LoadedOps(r, w)
<1>1. r \in Seq(Request) /\ RunsOnce(r) /\ \A o : Runs(r, o) <=> Runs(q, o) /\ o # x
  BY EngineTake
<1>2. x \in Op /\ Runs(q, x)
  <2>1. q[i] \in Request OBVIOUS
  <2> QED BY <2>1 DEF Request, Runs
<1>3. IsFiniteSet(S) /\ Load(q, w) \in Nat /\ Load(q, w) = Cardinality(S) BY LoadCount
<1> HIDE DEF r
<1>4. Load(r, w) = Cardinality(T) BY <1>1, LoadCount
<1>5. CASE Home(x) = w
  <2>1. T = S \ {x} /\ x \in S BY <1>1, <1>2, <1>5 DEF LoadedOps
  <2>2. Cardinality(S \ {x}) = Cardinality(S) - 1 BY <1>3, <2>1, FS_RemoveElement, Zenon
  <2> QED BY <1>3, <1>4, <1>5, <2>1, <2>2 DEF r
<1>6. CASE Home(x) # w
  <2>1. T = S BY <1>1, <1>2, <1>6 DEF LoadedOps
  <2> QED BY <1>3, <1>4, <1>6, <2>1 DEF r
<1> QED BY <1>5, <1>6

\* What cur_crypto_cnt of worker w says, with room for the request that core 0
\* is about to count.
CountOf(w) ==
  /\ cnt[w] = Load(hw, w) - (IF c0.pc \in {"mark", "count"} /\ c0.w = w THEN 1 ELSE 0)
                          + (IF c0.pc = "uncount" /\ Home(c0.s) = w THEN 1 ELSE 0)
  /\ cnt[w] <= MaxOutstanding
  /\ c0.pc \in {"mark", "count"} /\ c0.w = w => cnt[w] < MaxOutstanding

Counted == \A w \in Worker : CountOf(w)

\* A step that neither counts nor moves a request.
LEMMA SameCount ==
  ASSUME Counted, UNCHANGED <<cnt, hw>>,
         c0' = c0 \/ \A pc \in {"mark", "count", "uncount"} : c0.pc # pc /\ c0'.pc # pc
  PROVE  Counted'
<1>1. CASE c0' = c0 BY <1>1 DEF Counted, CountOf, Load
<1>2. CASE \A pc \in {"mark", "count", "uncount"} : c0.pc # pc /\ c0'.pc # pc
  <2>1. c0.pc \notin {"mark", "count"} /\ c0'.pc \notin {"mark", "count"}
    BY <1>2
  <2>2. c0.pc # "uncount" /\ c0'.pc # "uncount" BY <1>2
  <2> SUFFICES ASSUME NEW w \in Worker PROVE CountOf(w)' BY DEF Counted
  <2>3. CountOf(w) /\ Load(hw', w) = Load(hw, w) BY DEF Counted
  <2> QED BY <2>1, <2>2, <2>3 DEF CountOf
<1> QED BY <1>1, <1>2

\* Core 0 goes to the next worker, of which it neither submits nor collects.
LEMMA NextWorkerStep ==
  ASSUME IInv, Counted, SubmitNextWorker \/ CollectNextWorker
  PROVE  IInv' /\ Counted'
<1>1. Types /\ c0 \in CoreType /\ cnt \in [Worker -> 0 .. CntRange - 1] BY DEF IInv, Types
<1>2. NumWorkers \in Nat \ {0} /\ 1 \in Worker BY PkaAssumption DEF Worker
<1>3. UNCHANGED <<sess, op, pool, ring, cnt, hw, wk, removals, dead>> /\ c0.pc \in {"submit", "complete"}
  BY DEF SubmitNextWorker, CollectNextWorker
<1>4. ASSUME NEW p \in {"submit", "complete"}
      PROVE  NextWorker(p) \in CoreType /\ NextWorker(p).pc \in {c0.pc, p}
  <2>1. CASE c0.w < NumWorkers
    <3>1. c0.w \in Worker BY <1>1 DEF CoreType
    <3>2. c0.w + 1 \in Worker BY <1>2, <2>1, <3>1 DEF Worker
    <3> QED BY <1>1, <2>1, <3>2 DEF NextWorker, CoreType
  <2>2. CASE ~(c0.w < NumWorkers) BY <1>1, <1>2, <2>2, Zenon DEF NextWorker, CoreType
  <2> QED BY <2>1, <2>2
<1>5. c0' \in CoreType /\ c0'.pc \in {"submit", "complete"}
  <2>1. CASE c0' = [c0 EXCEPT !.pc = "submit", !.w = 1] BY <1>1, <1>2, <2>1, Zenon DEF CoreType
  <2>2. CASE \E p \in {"submit", "complete"} : c0' = NextWorker(p) BY <1>3, <1>4, <2>2
  <2> QED BY <2>1, <2>2 DEF SubmitNextWorker, CollectNextWorker
<1>6. /\ c0'.pc \in {"uncount", "flag"} <=> c0.pc \in {"uncount", "flag"}
      /\ c0'.pc \notin {"uncount", "flag"} /\ c0'.pc # "mark"
      /\ \A pc \in {"mark", "count", "uncount"} : c0.pc # pc /\ c0'.pc # pc
  BY <1>3, <1>5
<1>7. IInv' BY <1>1, <1>3, <1>5, <1>6, QuietStep
<1>8. Counted' BY <1>3, <1>6, SameCount
<1> QED BY <1>7, <1>8

\* Core 0 counts the request it gave to the engine.  There is room for it.
LEMMA CountStep ==
  ASSUME IInv, Counted, CountExecuted
  PROVE  IInv' /\ Counted'
<1> PICK w : w = c0.w OBVIOUS
<1>1. /\ Types /\ c0 \in CoreType /\ c0.pc = "count" /\ cnt \in [Worker -> 0 .. CntRange - 1]
      /\ w \in Worker
  BY DEF IInv, Types, CountExecuted, CoreType
<1>2. /\ cnt' = [cnt EXCEPT ![w] = (cnt[w] + 1) % CntRange] /\ c0' = [c0 EXCEPT !.pc = "submit"]
      /\ UNCHANGED <<sess, op, pool, ring, hw, wk, removals, dead>>
  BY DEF CountExecuted
<1>3. MaxOutstanding \in Nat /\ CntRange \in Nat /\ CntRange > MaxOutstanding BY PkaAssumption
<1>4. cnt[w] < MaxOutstanding /\ cnt[w] \in Nat /\ CountOf(w) BY <1>1, <1>3 DEF Counted, CountOf
<1>5. (cnt[w] + 1) % CntRange = cnt[w] + 1 BY <1>3, <1>4
<1>6. /\ cnt' \in [Worker -> 0 .. CntRange - 1] /\ cnt'[w] = cnt[w] + 1
      /\ \A v \in Worker : v # w => cnt'[v] = cnt[v]
  BY <1>1, <1>2, <1>3, <1>4, <1>5
<1>7. c0' \in CoreType /\ c0'.pc = "submit" /\ c0'.w = w BY <1>1, <1>2 DEF CoreType
<1>8. IInv' BY <1>1, <1>2, <1>6, <1>7, QuietStep
<1>9. ASSUME NEW v \in Worker PROVE CountOf(v)'
  <2>1. CountOf(v) /\ Load(hw', v) = Load(hw, v) /\ cnt[v] \in Nat /\ cnt'[v] \in Nat
    BY <1>1, <1>2, <1>3, <1>6 DEF Counted
  <2>2. Load(hw, v) \in Nat BY LoadCount DEF IInv, Types, Places
  <2>3. cnt'[v] = Load(hw', v)
    <3>1. CASE v = w BY <1>1, <1>4, <1>6, <2>1, <2>2, <3>1 DEF CountOf
    <3>2. CASE v # w BY <1>1, <1>6, <2>1, <2>2, <3>2 DEF CountOf
    <3> QED BY <3>1, <3>2
  <2>4. cnt'[v] <= MaxOutstanding
    <3>1. CASE v = w BY <1>3, <1>4, <1>6, <3>1
    <3>2. CASE v # w BY <1>6, <2>1, <3>2 DEF CountOf
    <3> QED BY <3>1, <3>2
  <2>5. c0'.pc \notin {"mark", "count"} /\ c0'.pc # "uncount" BY <1>7
  <2> QED BY <2>1, <2>2, <2>3, <2>4, <2>5 DEF CountOf
<1> QED BY <1>8, <1>9 DEF Counted

\* Core 0 counts down for a result.  The counter is not zero.
LEMMA UncountStep ==
  ASSUME IInv, Counted, Uncount
  PROVE  IInv' /\ Counted'
<1> PICK w : w = Home(c0.s) OBVIOUS
<1>1. /\ Types /\ c0 \in CoreType /\ c0.pc = "uncount" /\ cnt \in [Worker -> 0 .. CntRange - 1]
      /\ c0.s \in Session
  BY DEF IInv, Types, Uncount, Cores
<1>2. w \in Worker BY <1>1, PkaAssumption
<1>3. /\ cnt' = [cnt EXCEPT ![w] = (cnt[w] - 1) % CntRange] /\ c0' = [c0 EXCEPT !.pc = "flag"]
      /\ UNCHANGED <<sess, op, pool, ring, hw, wk, removals, dead>>
  BY DEF Uncount
<1>4. MaxOutstanding \in Nat /\ CntRange \in Nat /\ CntRange > MaxOutstanding BY PkaAssumption
<1>5. \A v \in Worker : Load(hw, v) \in Nat BY LoadCount DEF IInv, Types, Places
<1>6. cnt[w] = Load(hw, w) + 1 /\ CountOf(w) BY <1>1, <1>2, <1>5 DEF Counted, CountOf
<1>7. cnt[w] \in Nat /\ cnt[w] < CntRange /\ cnt[w] - 1 \in Nat BY <1>1, <1>2, <1>4, <1>5, <1>6
<1>8. (cnt[w] - 1) % CntRange = cnt[w] - 1 BY <1>4, <1>7
<1>9. /\ cnt' \in [Worker -> 0 .. CntRange - 1] /\ cnt'[w] = cnt[w] - 1
      /\ \A v \in Worker : v # w => cnt'[v] = cnt[v]
  BY <1>1, <1>2, <1>3, <1>4, <1>7, <1>8
<1>10. c0' \in CoreType /\ c0'.pc = "flag" /\ c0'.s = c0.s BY <1>1, <1>3 DEF CoreType
<1>11. IInv' BY <1>1, <1>3, <1>9, <1>10, QuietStep
<1>12. ASSUME NEW v \in Worker PROVE CountOf(v)'
  <2>1. CountOf(v) /\ Load(hw', v) = Load(hw, v) BY <1>3 DEF Counted
  <2>2. cnt'[v] = Load(hw', v)
    <3>1. CASE v = w BY <1>5, <1>6, <1>9, <2>1, <3>1
    <3>2. CASE v # w BY <1>1, <1>5, <1>9, <2>1, <3>2 DEF CountOf
    <3> QED BY <3>1, <3>2
  <2>3. cnt'[v] <= MaxOutstanding
    <3>1. CASE v = w BY <1>4, <1>6, <1>7, <1>9, <3>1 DEF CountOf
    <3>2. CASE v # w BY <1>9, <2>1, <3>2 DEF CountOf
    <3> QED BY <3>1, <3>2
  <2>4. c0'.pc \notin {"mark", "count"} /\ c0'.pc # "uncount" BY <1>10
  <2>5. Load(hw', v) \in Nat BY <1>3, <1>5
  <2> QED BY <2>2, <2>3, <2>4, <2>5 DEF CountOf
<1> QED BY <1>11, <1>12 DEF Counted

\* A request goes into the engine, is marked, and comes out.
LEMMA TransferCount ==
  ASSUME IInv, Counted, SubmitOp \/ MarkExecuted \/ \E i \in DOMAIN hw : TakeResult(i)
  PROVE  IInv' /\ Counted'
<1>1. hw \in Seq(Request) /\ RunsOnce(hw) BY DEF IInv, Types, Places
<1>2. \A v \in Worker : Load(hw, v) \in Nat BY <1>1, LoadCount
<1>3. CASE SubmitOp
  <2> DEFINE x == Head(ring[c0.w])
             e == [op |-> x, opcode |-> op[x].opcode, ready |-> FALSE]
  <2>1. /\ IInv' /\ hw' = Append(hw, e) /\ c0'.pc = "mark" /\ c0'.w = c0.w /\ x \in Op
        /\ Home(x) = c0.w /\ e \in Request /\ ~Runs(hw, x)
    BY <1>3, SubmitStep
  <2>2. e.op = x OBVIOUS
  <2>3. c0.pc = "submit" /\ cnt' = cnt /\ cnt[c0.w] < MaxOutstanding BY <1>3, Zenon DEF SubmitOp, MaySubmit
  <2> HIDE DEF x, e
  <2>4. ASSUME NEW v \in Worker PROVE CountOf(v)'
    <3>1. CountOf(v) /\ Load(hw, v) \in Nat BY <1>2 DEF Counted
    <3>2. Load(hw', v) = Load(hw, v) + (IF c0.w = v THEN 1 ELSE 0)
      BY <1>1, <2>1, <2>2, LoadAdd
    <3>3. c0.pc \notin {"mark", "count"} /\ c0.pc # "uncount" /\ c0'.pc # "uncount" BY <2>1, <2>3
    <3> QED BY <2>1, <2>3, <3>1, <3>2, <3>3 DEF CountOf
  <2> QED BY <2>1, <2>4 DEF Counted
<1>4. CASE MarkExecuted
  <2>1. /\ IInv' /\ c0'.pc = "count" /\ c0'.w = c0.w /\ c0.pc = "mark" /\ hw' = hw /\ cnt' = cnt
    BY <1>4, ExecutedStep, Zenon DEF MarkExecuted
  <2>2. ASSUME NEW v \in Worker PROVE CountOf(v)'
    <3>1. CountOf(v) BY DEF Counted
    <3> QED BY <2>1, <3>1 DEF CountOf, Load
  <2> QED BY <2>1, <2>2 DEF Counted
<1>5. CASE \E i \in DOMAIN hw : TakeResult(i)
  <2>1. PICK i \in DOMAIN hw : TakeResult(i) BY <1>5
  <2>2. /\ IInv' /\ hw' = Without(hw, i) /\ c0'.pc = "uncount" /\ c0'.s \in Session
        /\ Home(c0'.s) = Home(hw[i].op)
    BY <2>1, ResultStep
  <2>3. c0.pc = "complete" /\ cnt' = cnt BY <2>1, Zenon DEF TakeResult
  <2>4. ASSUME NEW v \in Worker PROVE CountOf(v)'
    <3>1. CountOf(v) /\ Load(hw, v) \in Nat BY <1>2 DEF Counted
    <3>2. Load(hw', v) = Load(hw, v) - (IF Home(c0'.s) = v THEN 1 ELSE 0)
      BY <1>1, <2>2, LoadTake
    <3>3. c0.pc \notin {"mark", "count"} /\ c0.pc # "uncount" /\ c0'.pc \notin {"mark", "count"}
      BY <2>2, <2>3
    <3> QED BY <2>2, <2>3, <3>1, <3>2, <3>3 DEF CountOf
  <2> QED BY <2>2, <2>4 DEF Counted
<1> QED BY <1>3, <1>4, <1>5

\* The engine finishes a request.
LEMMA FinishCount ==
  ASSUME IInv, Counted, PkaOutlastsCall, NEW i \in DOMAIN hw, PkaFinish(i)
  PROVE  IInv' /\ Counted'
<1>1. hw \in Seq(Request) /\ RunsOnce(hw) BY DEF IInv, Types, Places
<1>2. IInv' BY FinishStep
<1>3. hw' \in Seq(Request) /\ RunsOnce(hw') BY <1>2 DEF IInv, Types, Places
<1>4. hw' = [hw EXCEPT ![i].ready = TRUE] /\ cnt' = cnt /\ c0' = c0 BY DEF PkaFinish
<1>5. \A o : Runs(hw', o) <=> Runs(hw, o) BY <1>1, <1>4, EngineFinish, Zenon
<1>6. ASSUME NEW v \in Worker PROVE CountOf(v)'
  <2>1. LoadedOps(hw', v) = LoadedOps(hw, v) BY <1>5 DEF LoadedOps
  <2>2. Load(hw', v) = Load(hw, v) BY <1>1, <1>3, <2>1, LoadCount
  <2> QED BY <1>4, <2>2 DEF Counted, CountOf
<1> QED BY <1>2, <1>6 DEF Counted
-----------------------------------------------------------------------------
(* Reachable states.                                                        *)

\* thread_local_init puts every op of a worker into its pool, once.
LEMMA InitialPoolFull ==
  ASSUME NEW w \in Worker
  PROVE  /\ InitialPool(w) \in Seq(Op) /\ Once(InitialPool(w))
         /\ \A o \in Op : In(InitialPool(w), o) <=> Home(o) = w
<1> DEFINE O == {o \in Op : Home(o) = w}
           n == Cardinality(O)
           q == InitialPool(w)
<1>1. IsFiniteSet(O) BY PkaAssumption, FS_Subset
<1>2. n \in Nat /\ ExistsBijection(1 .. n, O) BY <1>1, FS_CardinalityType
<1>3. PICK f : f \in [1 .. n -> O] /\ \A i, j \in DOMAIN f : f[i] = f[j] => i = j
  BY <1>2 DEF ExistsBijection, Bijection, Injection, IsInjective
<1>4. q \in [1 .. n -> O] /\ \A i, j \in DOMAIN q : q[i] = q[j] => i = j
  BY <1>3, Zenon DEF InitialPool
<1> HIDE DEF q, O, n
<1>5. O \subseteq Op /\ \A o \in Op : o \in O <=> Home(o) = w BY DEF O
<1>6. q \in Seq(Op) BY <1>2, <1>4, <1>5
<1>7. q \in Injection(1 .. n, O) BY <1>4 DEF Injection, IsInjective
<1>8. Cardinality(1 .. n) = n
  <2>1. Cardinality(1 .. n) = IF 1 > n THEN 0 ELSE n - 1 + 1 BY <1>2, FS_Interval
  <2> QED BY <1>2, <2>1
<1>9. q \in Surjection(1 .. n, O) BY <1>1, <1>7, <1>8, FS_Injection DEF n
<1>10. \A o \in Op : In(q, o) <=> o \in O
  <2>1. DOMAIN q = 1 .. n BY <1>4
  <2> QED BY <1>4, <1>9, <2>1 DEF In, Surjection
<1> QED BY <1>4, <1>5, <1>6, <1>10 DEF Once, q

LEMMA InitInv ==
  ASSUME Init
  PROVE  IInv /\ Counted
<1>1. /\ \A s \in Session : sess[s] = FreshSession
      /\ \A o \in Op : op[o] = ZeroedOp
      /\ \A w \in Worker : pool[w] = InitialPool(w) /\ ring[w] = <<>> /\ cnt[w] = 0 /\ wk[w] = Idle
      /\ hw = <<>> /\ c0 = [pc |-> "submit", w |-> 1, op |-> NoOp, s |-> NoSess]
  BY DEF Init
<1>2. /\ NumWorkers \in Nat \ {0} /\ 1 \in Worker /\ MaxOutstanding \in Nat
      /\ CntRange \in Nat /\ CntRange > 0 /\ MaxRemovals \in Nat
      /\ (\A x \in Session \cup Op : Home(x) \in Worker) /\ NoSess \notin Session
  BY PkaAssumption DEF Worker
<1>3. /\ FreshSession \in SessionType /\ ZeroedOp \in OpType /\ Idle \in CallType
      /\ c0 \in CoreType
  BY <1>1, <1>2 DEF FreshSession, SessionType, ZeroedOp, OpType, Idle, CallType, CoreType
<1>4. Types
  <2>1. sess \in [Session -> SessionType] /\ op \in [Op -> OpType] /\ wk \in [Worker -> CallType]
    BY <1>3 DEF Init
  <2>2. pool \in [Worker -> Seq(Op)] BY InitialPoolFull DEF Init
  <2>3. ring \in [Worker -> Seq(Op)] /\ hw \in Seq(Request) BY EmptySeq DEF Init
  <2>4. cnt \in [Worker -> 0 .. CntRange - 1] /\ removals \in 0 .. MaxRemovals BY <1>2 DEF Init
  <2>5. dead \in Deaths BY DEF Init, Deaths
  <2> QED BY <1>3, <2>1, <2>2, <2>3, <2>4, <2>5 DEF Types
<1>5. DOMAIN <<>> = {} BY EmptySeq
<1>6. ASSUME NEW o \in Op PROVE ~Taken(o) /\ ~Queued(o) /\ ~Inside(o) /\ ~Live(o)
  <2>1. wk[Home(o)].pc = "idle" /\ ring[Home(o)] = <<>> /\ hw = <<>> BY <1>1, <1>2 DEF Idle
  <2>2. ~Taken(o) BY <2>1 DEF Taken
  <2>3. ~Queued(o) BY <1>5, <2>1 DEF Queued, In
  <2>4. ~Inside(o) BY <1>5, <2>1 DEF Inside, Runs
  <2> QED BY <2>2, <2>3, <2>4 DEF Live
<1>7. Places
  <2>1. ASSUME NEW w \in Worker
        PROVE  /\ Once(pool[w]) /\ Once(ring[w])
               /\ \A o \in Op : In(pool[w], o) \/ In(ring[w], o) => Home(o) = w
    <3>1. pool[w] = InitialPool(w) /\ ring[w] = <<>> BY <1>1
    <3>2. Once(pool[w]) /\ \A o \in Op : In(pool[w], o) => Home(o) = w
      BY <3>1, InitialPoolFull
    <3>3. Once(ring[w]) BY <1>5, <3>1 DEF Once
    <3>4. \A o \in Op : ~In(ring[w], o) BY <1>5, <3>1 DEF In
    <3> QED BY <3>2, <3>3, <3>4
  <2>2. RunsOnce(hw) BY <1>1, <1>5 DEF RunsOnce
  <2>3. ASSUME NEW o \in Op PROVE In(pool[Home(o)], o) /\ op[o].sess = NoSess
    BY <1>1, <1>2, InitialPoolFull DEF ZeroedOp
  <2> QED BY <1>6, <2>1, <2>2, <2>3 DEF Places
<1>8. Cores
  <2>1. c0.pc = "submit" BY <1>1
  <2>2. \A w \in Worker : wk[w] = Idle /\ wk[w].pc = "idle" BY <1>1 DEF Idle
  <2>3. Agrees(hw, op) BY <1>1, <1>5 DEF Agrees
  <2> QED BY <2>1, <2>2, <2>3 DEF Cores
<1>9. ASSUME NEW s \in Session PROVE SessionOf(s)
  <2>1. \A o \in Op : op[o].sess # s BY <1>1, <1>2 DEF ZeroedOp
  <2>2. ~Held(s) /\ ~Collecting(s) BY <1>1, <1>2 DEF Held, Collecting, Idle
  <2>3. /\ ~sess[s].completed /\ sess[s].pending = NoOp /\ ~sess[s].keyed /\ ~sess[s].signed
    BY <1>1 DEF FreshSession
  <2> QED BY <2>1, <2>2, <2>3 DEF SessionOf, Done
<1>10. ASSUME NEW w \in Worker PROVE CountOf(w)
  <2>1. {i \in DOMAIN hw : Home(hw[i].op) = w} = {} BY <1>1, <1>5
  <2>2. Load(hw, w) = 0 BY <2>1, FS_EmptySet DEF Load
  <2>3. c0.pc = "submit" /\ cnt[w] = 0 BY <1>1
  <2>4. c0.pc \notin {"mark", "count"} /\ c0.pc # "uncount" BY <2>3
  <2>5. cnt[w] = Load(hw, w) - 0 + 0 /\ cnt[w] <= MaxOutstanding BY <1>2, <2>2, <2>3
  <2> QED BY <2>4, <2>5 DEF CountOf
<1> QED BY <1>4, <1>7, <1>8, <1>9, <1>10 DEF IInv, Counted

\* Every step keeps the invariant and the counter.
LEMMA StepInv ==
  ASSUME ~RemoveEarly, PkaOutlastsCall, IInv, Counted, [Next]_vars
  PROVE  IInv' /\ Counted'
<1>1. CASE UNCHANGED vars
  <2>1. UNCHANGED <<sess, op, pool, ring, cnt, hw, wk, c0, removals, dead>> BY <1>1 DEF vars
  <2>2. cnt \in [Worker -> 0 .. CntRange - 1] /\ c0 \in CoreType BY DEF IInv, Types
  <2>3. IInv'
    <3>1. Types' BY <2>1 DEF IInv, Types
    <3>2. Places' BY <2>1, Zenon DEF IInv, Places, Taken, Queued, Inside, Live
    <3>3. Cores' BY <2>1, Zenon DEF IInv, Cores, Inside
    <3>4. ASSUME NEW t \in Session PROVE SessionOf(t)'
      <4>1. Untouched(t)
        BY <2>1, Zenon DEF Untouched, Held, Collecting, Taken, Live, Queued, Inside, Ready
      <4> QED BY <4>1, Frame DEF IInv
    <3> QED BY <3>1, <3>2, <3>3, <3>4 DEF IInv
  <2>4. Counted' BY <2>1, SameCount
  <2> QED BY <2>3, <2>4
<1>2. ASSUME NEW w \in Worker, WorkerInCall(w) PROVE IInv' /\ Counted'
  <2>1. IInv' BY <1>2, EnqueueStep, RefuseStep, MarkStep, ClearStep DEF WorkerInCall
  <2>2. UNCHANGED <<cnt, hw, c0>>
    BY <1>2 DEF WorkerInCall, Enqueue, MarkSubmitted, ClearFlags
  <2> QED BY <2>1, <2>2, SameCount
<1>3. ASSUME NEW w \in Worker, NEW s \in Session,
             ClientHello(w, s) \/ WorkerLoop(w, s) \/ RemoveSession(w, s)
      PROVE  IInv' /\ Counted'
  <2>1. IInv'
    BY <1>3, HelloStep, ProcessedStep, SignatureStep, KeyMetaStep, RemoveStep DEF WorkerLoop
  <2>2. UNCHANGED <<cnt, hw, c0>>
    <3>1. CASE RemoveSession(w, s) BY <3>1, RemoveStep, Zenon DEF RemoveSession
    <3>2. CASE ClientHello(w, s) \/ WorkerLoop(w, s)
      BY <3>2, Zenon DEF ClientHello, WorkerLoop, GetProcessedCrypto, SubmitSignature, SendKeyMeta
    <3> QED BY <1>3, <3>1, <3>2
  <2> QED BY <2>1, <2>2, SameCount
<1>4. CASE Core0
  <2>1. CASE SubmitNextWorker \/ CollectNextWorker BY <2>1, NextWorkerStep
  <2>2. CASE SubmitOp \/ MarkExecuted \/ \E i \in DOMAIN hw : TakeResult(i) BY <2>2, TransferCount
  <2>3. CASE CountExecuted BY <2>3, CountStep
  <2>4. CASE Uncount BY <2>4, UncountStep
  <2>5. CASE FlagCompleted
    <3>1. IInv' /\ c0'.pc = "complete" BY <2>5, FlagStep
    <3>2. c0.pc = "flag" /\ UNCHANGED <<cnt, hw>> BY <2>5 DEF FlagCompleted
    <3>3. \A pc \in {"mark", "count", "uncount"} : c0.pc # pc /\ c0'.pc # pc BY <3>1, <3>2
    <3> QED BY <3>1, <3>2, <3>3, SameCount
  <2> QED BY <1>4, <2>1, <2>2, <2>3, <2>4, <2>5 DEF Core0, Collect
<1>5. ASSUME NEW i \in DOMAIN hw, PkaFinish(i) PROVE IInv' /\ Counted'
  BY <1>5, FinishCount
<1> QED BY <1>1, <1>2, <1>3, <1>4, <1>5 DEF Next

LEMMA AlwaysInv ==
  ASSUME ~RemoveEarly, PkaOutlastsCall
  PROVE  Spec => [](IInv /\ Counted)
<1>1. Init => IInv /\ Counted BY InitInv
<1>2. IInv /\ Counted /\ [Next]_vars => (IInv /\ Counted)' BY StepInv
<1> QED BY <1>1, <1>2, PTL DEF Spec
-----------------------------------------------------------------------------
\* As long as sessions are removed only when the host has closed them and no
\* result overtakes the call that asked for it, an op in a pool is free:
\* delete_op never frees an op that is in the submit ring, in the engine,
\* pending for a session or waiting to be processed, nor one op twice.
THEOREM OpsAreFree ==
  ASSUME ~RemoveEarly, PkaOutlastsCall
  PROVE  Spec => []FreeOpsAreFree
<1>1. ASSUME IInv PROVE FreeOpsAreFree
  <2> SUFFICES ASSUME NEW w \in Worker
               PROVE  /\ IsInjective(pool[w])
                      /\ \A o \in Range(pool[w]) :
                           /\ ~InFlight(o) /\ ~HeldByWorker(o)
                           /\ \A s \in Session : sess[s].pending # o
                           /\ \A s \in Session : Awaited(s) => sess[s].pka_op # o
    BY Zenon DEF FreeOpsAreFree
  <2>1. Types /\ Places /\ Cores /\ pool[w] \in Seq(Op) BY <1>1 DEF IInv, Types
  <2>2. IsInjective(pool[w]) BY <2>1, Zenon DEF Places, Once, IsInjective
  <2>3. ASSUME NEW o \in Range(pool[w])
        PROVE  /\ ~InFlight(o) /\ ~HeldByWorker(o)
               /\ \A s \in Session : sess[s].pending # o
               /\ \A s \in Session : Awaited(s) => sess[s].pka_op # o
    <3>1. o \in Op /\ In(pool[w], o) /\ o # NoOp
      <4>1. PICK k \in DOMAIN pool[w] : o = pool[w][k] BY <2>3 DEF Range
      <4>2. pool[w][k] \in Op BY <2>1, ElementOfSeq, LenProperties
      <4> QED BY <4>1, <4>2, PkaAssumption DEF In
    <3>2. op[o].sess = NoSess /\ ~Live(o) BY <2>1, <3>1 DEF Places
    <3>3. \A s \in Session : op[o].sess # s BY <3>2, PkaAssumption
    <3>4. ~InFlight(o)
      <4>1. ASSUME NEW v \in Worker, o \in Range(ring[v]) PROVE FALSE
        <5>1. ring[v] \in Seq(Op) BY <2>1 DEF Types
        <5>2. In(ring[v], o) BY <4>1, <5>1, LenProperties DEF Range, In
        <5>3. Home(o) = v BY <2>1, <3>1, <5>2 DEF Places
        <5> QED BY <3>2, <5>2, <5>3 DEF Live, Queued
      <4>2. ~\E i \in DOMAIN hw : hw[i].op = o BY <3>2 DEF Live, Inside, Runs
      <4> QED BY <4>1, <4>2 DEF InFlight
    <3>5. \A s \in Session : SessionOf(s) BY <1>1 DEF IInv
    <3>6. \A s \in Session : sess[s].completed => op[sess[s].pka_op].sess = s
      BY <3>5 DEF SessionOf, Done
    <3>7. ~HeldByWorker(o)
      <4>1. ASSUME NEW v \in Worker, o = wk[v].done \/ (wk[v].pc \in {"enqueue", "mark"} /\ o = wk[v].op)
            PROVE  FALSE
        <5>1. wk[v].pc # "idle" BY <2>1, <3>1, <4>1 DEF Cores, Idle
        <5>2. wk[v].s \in Session /\ CallOf(wk[v].s) /\ Home(wk[v].s) = v BY <1>1, <5>1, CallFacts
        <5>3. CASE o = wk[v].done
          <6>1. sess[wk[v].s].completed /\ o = sess[wk[v].s].pka_op BY <3>1, <5>2, <5>3, Zenon DEF CallOf
          <6> QED BY <3>3, <3>6, <5>2, <6>1, Zenon
        <5>4. CASE wk[v].pc \in {"enqueue", "mark"} /\ o = wk[v].op
          <6>1. op[wk[v].op].sess = wk[v].s BY <5>2, <5>4 DEF CallOf
          <6> QED BY <3>3, <5>2, <5>4, <6>1
        <5> QED BY <4>1, <5>3, <5>4
      <4> QED BY <4>1 DEF HeldByWorker
    <3>8. ASSUME NEW s \in Session PROVE sess[s].pending # o
      <4>1. sess[s].pending # NoOp => op[sess[s].pending].sess = s BY <3>5 DEF SessionOf
      <4>2. o # NoOp /\ op[o].sess # s BY <3>1, <3>3
      <4> QED BY <4>1, <4>2
    <3>9. \A s \in Session : Awaited(s) => sess[s].pka_op # o BY <3>3, <3>6 DEF Awaited
    <3> QED BY <3>4, <3>7, <3>8, <3>9
  <2> QED BY <2>2, <2>3, Zenon
<1>2. IInv /\ Counted => FreeOpsAreFree BY <1>1
<1> QED BY <1>2, AlwaysInv, PTL

\* get_processed_crypto chooses its continuation by handshake_state alone; in
\* the same circumstances the result it reads is that of the operation this
\* state stands for, and belongs to the op it will free.
THEOREM ResultsMatch ==
  ASSUME ~RemoveEarly, PkaOutlastsCall
  PROVE  Spec => []ResultMatchesState
<1>1. ASSUME IInv, NEW s \in Session, Awaited(s)
      PROVE  sess[s].result = Expected(sess[s].hs) /\ op[sess[s].pka_op].sess = s
  <2>1. Home(s) \in Worker BY PkaAssumption
  <2>2. ~Held(s) /\ Done(s) BY <1>1, <2>1 DEF Awaited, Held, Done
  <2> QED BY <1>1, <2>2 DEF IInv, SessionOf
<1>2. IInv /\ Counted => ResultMatchesState BY <1>1 DEF ResultMatchesState, Expected
<1> QED BY <1>2, AlwaysInv, PTL

\* In the same circumstances cur_crypto_cnt is the number of the worker's
\* requests inside the engine, up to the one core 0 is handling: it stays
\* within MAX_OUTSTANDING_PKA_REQ and the unsigned counter never wraps.
THEOREM CounterIsExact ==
  ASSUME ~RemoveEarly, PkaOutlastsCall
  PROVE  Spec => []CounterExact
<1>1. ASSUME IInv PROVE TypeOK
  BY <1>1, Zenon DEF IInv, Types, TypeOK, SessionType, OpType, Request, CallType, CoreType, Deaths
<1>2. ASSUME Counted
      PROVE  \A w \in Worker :
               /\ cnt[w] = Cardinality({i \in DOMAIN hw : Home(hw[i].op) = w})
                           - (IF c0.pc \in {"mark", "count"} /\ c0.w = w THEN 1 ELSE 0)
                           + (IF c0.pc = "uncount" /\ Home(c0.s) = w THEN 1 ELSE 0)
               /\ cnt[w] <= MaxOutstanding
  BY <1>2, Zenon DEF Counted, CountOf, Load
<1>3. IInv /\ Counted => CounterExact BY <1>1, <1>2, Zenon DEF CounterExact
<1> QED BY <1>3, AlwaysInv, PTL

\* Where some power of two exceeds the number of sessions, the one that main()
\* chooses does.
LEMMA RingLargeEnough ==
  ASSUME NEW w \in Worker, \E k \in 0 .. MaxConn(w) + 1 : 2^k > MaxConn(w)
  PROVE  RingCnt(w) \in Nat /\ RingCnt(w) > MaxConn(w)
<1> DEFINE N == {n \in PowersOfTwo(w) : n > MaxConn(w)}
<1>1. MaxConn(w) \in Nat
  <2>1. IsFiniteSet({s \in Session : Home(s) = w}) BY PkaAssumption, FS_Subset
  <2> QED BY <2>1, FS_CardinalityType DEF MaxConn
<1>2. \A k \in 0 .. MaxConn(w) + 1 : 2^k \in Int BY <1>1
<1>3. N \subseteq Nat /\ N # {} BY <1>1, <1>2 DEF PowersOfTwo
<1> HIDE DEF N
<1>4. PICK x \in N : \A y \in N : ~(<<y, x>> \in OpToRel(<, Nat))
  BY <1>3, NatLessThanWellFounded, WFMin, Zenon
<1>5. \A y \in N : ~(y < x) BY <1>3, <1>4, Zenon DEF OpToRel
<1>6. \A y \in N : x <= y BY <1>3, <1>5
<1>7. Least(N) \in N BY <1>6 DEF Least
<1> QED BY <1>3, <1>7 DEF RingCnt, N

\* In the same circumstances submit_pka_request never finds the ring full, for
\* main() made it larger than the number of its worker's sessions.  The callers
\* do not look at the answer.  (That 2^(m+1) exceeds m, which the provers cannot
\* find, is a hypothesis.)
THEOREM RequestsAccepted ==
  ASSUME ~RemoveEarly, PkaOutlastsCall,
         \A w \in Worker : \E k \in 0 .. MaxConn(w) + 1 : 2^k > MaxConn(w)
  PROVE  Spec => []NeverRefused
<1>1. ASSUME IInv, NEW w \in Worker, wk[w].pc = "enqueue" PROVE Len(ring[w]) < RingCnt(w) - 1
  <2>1. Len(ring[w]) < MaxConn(w) BY <1>1, RingHasRoom
  <2>2. ring[w] \in Seq(Op) BY <1>1 DEF IInv, Types
  <2>3. Len(ring[w]) \in Nat BY <2>2, LenProperties
  <2>4. MaxConn(w) \in Nat
    <3>1. IsFiniteSet({s \in Session : Home(s) = w}) BY PkaAssumption, FS_Subset
    <3> QED BY <3>1, FS_CardinalityType DEF MaxConn
  <2>5. RingCnt(w) \in Nat /\ RingCnt(w) > MaxConn(w) BY RingLargeEnough
  <2> QED BY <2>1, <2>3, <2>4, <2>5
<1>2. IInv /\ Counted => NeverRefused BY <1>1 DEF NeverRefused
<1> QED BY <1>2, AlwaysInv, PTL
-----------------------------------------------------------------------------
(* The submit ring, for every size and every set of objects: its invariant  *)
(* is inductive, the two threads never meet in a slot, and it implements    *)
(* the bounded queue that PkaPipeline has in its place.                     *)

LEMMA SizePositive == Size \in Nat /\ Size >= 1
BY SizeAssumption

\* Masking an index that is at most one lap ahead.
LEMMA ModValue ==
  ASSUME NEW x \in 0 .. 2 * Size - 1
  PROVE  x % Size = IF x < Size THEN x ELSE x - Size
BY SizePositive

\* The slot that is k - 1 places after h.
LEMMA ModSum ==
  ASSUME NEW h \in Slot, NEW k \in 1 .. Size
  PROVE  (h + k - 1) % Size = IF h + k - 1 < Size THEN h + k - 1 ELSE h + k - 1 - Size
BY SizePositive DEF Slot

\* The next index, without the mask.
LEMMA StepValue ==
  ASSUME NEW x \in Slot
  PROVE  /\ Step(x) = IF x = Size - 1 THEN 0 ELSE x + 1
         /\ Step(x) \in Slot
BY SizePositive DEF Step, Slot

\* How the number of occupied slots changes when an index moves.
LEMMA DistStep ==
  ASSUME NEW h \in Slot, NEW t \in Slot
  PROVE  /\ Dist(h, t) \in 0 .. Size - 1
         /\ Dist(h, t) = 0 <=> h = t
         /\ Dist(h, t) = Size - 1 <=> Step(t) = h
         /\ Step(t) # h => Dist(h, Step(t)) = Dist(h, t) + 1
         /\ h # t => Dist(Step(h), t) = Dist(h, t) - 1
BY SizePositive, StepValue DEF Dist, Slot

\* sj_ring_create establishes the invariant.
LEMMA RingInitInv == RingInit => RingInv
BY SizePositive DEF RingInit, RingInv, RingTypeOK, Slot, Dist, Full, Empty

\* The invariant is inductive: one step per load and store of ring.c.
LEMMA RingNextInv == RingInv /\ [RingNext]_ringVars => RingInv'
<1> SUFFICES ASSUME RingInv, [RingNext]_ringVars PROVE RingInv'
  OBVIOUS
<1> USE DEF RingInv, RingTypeOK, Full, Empty, prodVars, consVars
<1>1. ASSUME NEW o \in Obj, EnqLoadTail(o) PROVE RingInv'
  BY <1>1 DEF EnqLoadTail
<1>2. CASE EnqLoadHead
  BY <1>2 DEF EnqLoadHead
<1>3. CASE EnqRefuse
  BY <1>3 DEF EnqRefuse
<1>4. CASE EnqWriteSlot
  <2>1. et = tail /\ tail \in Slot /\ head \in Slot /\ eobj \in Obj
    BY <1>4 DEF EnqWriteSlot
  <2>2. deq \in {"read", "publish"} => head # tail
    OBVIOUS
  <2>3. \A i \in Slot : Dist(head, i) < Dist(head, tail) => i # tail
    BY <2>1, DistStep
  <2>4. \A i \in Slot : slots'[i] = IF i = tail THEN eobj ELSE slots[i]
    BY <1>4, <2>1 DEF EnqWriteSlot
  <2>5. \A i \in Slot : Dist(head, i)' = Dist(head, i) /\ Dist(head, tail)' = Dist(head, tail)
    BY <1>4 DEF EnqWriteSlot, Dist
  <2> QED BY <1>4, <2>1, <2>2, <2>3, <2>4, <2>5 DEF EnqWriteSlot
<1>5. CASE EnqStoreTail
  <2>1. et = tail /\ tail \in Slot /\ head \in Slot /\ Step(tail) # head
    BY <1>5 DEF EnqStoreTail
  <2>2. tail' = Step(tail) /\ tail' \in Slot /\ head' = head
    BY <1>5, <2>1, StepValue DEF EnqStoreTail
  <2>3. ASSUME NEW i \in Slot, Dist(head, i) < Dist(head, tail')
        PROVE  i = tail \/ Dist(head, i) < Dist(head, tail)
    <3>1. Dist(head, tail') = Dist(head, tail) + 1
      BY <2>1, <2>2, DistStep
    <3>2. Dist(head, i) = Dist(head, tail) => i = tail
      BY <2>1, SizePositive DEF Dist, Slot
    <3> QED BY <2>1, <2>3, <3>1, <3>2, DistStep
  <2>4. slots' = slots /\ slots[tail] \in Obj
    BY <1>5 DEF EnqStoreTail
  <2>5. \A i \in Slot : Dist(head', i) < Dist(head', tail') => slots'[i] \in Obj
    BY <2>2, <2>3, <2>4
  <2> QED BY <1>5, <2>1, <2>2, <2>5 DEF EnqStoreTail
<1>6. CASE DeqLoadHead
  BY <1>6 DEF DeqLoadHead
<1>7. CASE DeqLoadTail
  BY <1>7 DEF DeqLoadTail
<1>8. CASE DeqRefuse
  BY <1>8 DEF DeqRefuse
<1>9. CASE DeqReadSlot
  BY <1>9 DEF DeqReadSlot
<1>10. CASE DeqStoreHead
  <2>1. dh = head /\ tail \in Slot /\ head \in Slot /\ head # tail
    BY <1>10 DEF DeqStoreHead
  <2>2. head' = Step(head) /\ head' \in Slot /\ tail' = tail /\ slots' = slots
    BY <1>10, <2>1, StepValue DEF DeqStoreHead
  <2>3. Step(tail) # head'
    BY <2>1, <2>2, StepValue, SizePositive DEF Slot
  <2>4. ASSUME NEW i \in Slot, Dist(head', i) < Dist(head', tail)
        PROVE  Dist(head, i) < Dist(head, tail)
    <3>1. Dist(head', tail) = Dist(head, tail) - 1
      BY <2>1, <2>2, DistStep
    <3>2. i = head \/ Dist(head', i) = Dist(head, i) - 1
      BY <2>1, <2>2, DistStep
    <3>3. Dist(head, head) = 0 /\ Dist(head, tail) > 0
      BY <2>1, DistStep
    <3> QED BY <2>1, <2>2, <2>4, <3>1, <3>2, <3>3, DistStep, SizePositive
  <2>5. \A i \in Slot : Dist(head', i) < Dist(head', tail') => slots'[i] \in Obj
    BY <2>2, <2>4
  <2>6. dobj \in Obj
    BY <1>10, <2>1, DistStep, SizePositive DEF DeqStoreHead, Dist, Slot
  <2> QED BY <1>10, <2>1, <2>2, <2>3, <2>5, <2>6 DEF DeqStoreHead
<1>11. CASE UNCHANGED ringVars
  BY <1>11 DEF ringVars
<1> QED
  BY <1>1, <1>2, <1>3, <1>4, <1>5, <1>6, <1>7, <1>8, <1>9, <1>10, <1>11, Zenon
     DEF RingNext, Enqueuing, Dequeuing

\* The invariant of the ring holds for every size and every set of objects.
THEOREM RingInvariance == RingSpec => []RingInv
BY RingInitInv, RingNextInv, PTL DEF RingSpec

\* The indices and slots that sj_ring_enqueue and sj_ring_dequeue store stay
\* in range: the masks of ring.c are enough.
THEOREM RingTypeCorrect == RingSpec => []RingTypeOK
<1>1. RingInv => RingTypeOK
  BY DEF RingInv
<1> QED BY <1>1, RingInvariance, PTL

\* The producer's slot store and the consumer's slot load never meet.
THEOREM SlotRaceFreedom == RingSpec => []NoSlotRace
<1>1. RingInv => NoSlotRace
  BY DEF RingInv, NoSlotRace, Empty
<1> QED BY <1>1, RingInvariance, PTL

\* sj_ring_dequeue only returns objects that sj_ring_enqueue stored.
THEOREM OnlyEnqueuedReturned == RingSpec => []NoZeroedObject
<1>1. RingInv => NoZeroedObject
  BY DistStep, SizePositive DEF RingInv, RingTypeOK, NoZeroedObject, Empty, Dist, Slot
<1> QED BY <1>1, RingInvariance, PTL
-----------------------------------------------------------------------------
\* The slot of the i-th object in the ring, without the mask.
LEMMA ContentIndex ==
  ASSUME NEW h \in Slot, NEW t \in Slot, NEW i \in 1 .. Dist(h, t)
  PROVE  /\ (h + i - 1) % Size \in Slot
         /\ (h + i - 1) % Size = IF h + i - 1 < Size THEN h + i - 1 ELSE h + i - 1 - Size
         /\ Dist(h, (h + i - 1) % Size) = i - 1
<1>1. Dist(h, t) \in 0 .. Size - 1
  BY DistStep
<1>2. (h + i - 1) % Size = IF h + i - 1 < Size THEN h + i - 1 ELSE h + i - 1 - Size
  BY <1>1, ModSum, SizePositive
<1> QED BY <1>1, <1>2, SizePositive DEF Slot, Dist

\* What the ring holds is a sequence of objects.
LEMMA ContentType ==
  ASSUME RingInv
  PROVE  /\ Content \in Seq(Obj) /\ Len(Content) = Dist(head, tail)
         /\ \A i \in 1 .. Dist(head, tail) : Content[i] = slots[(head + i - 1) % Size]
<1>1. head \in Slot /\ tail \in Slot
  BY DEF RingInv, RingTypeOK
<1>2. Dist(head, tail) \in Nat
  BY <1>1, DistStep, SizePositive
<1>3. \A i \in 1 .. Dist(head, tail) : slots[(head + i - 1) % Size] \in Obj
  <2> SUFFICES ASSUME NEW i \in 1 .. Dist(head, tail)
               PROVE  slots[(head + i - 1) % Size] \in Obj
    OBVIOUS
  <2>1. (head + i - 1) % Size \in Slot /\ Dist(head, (head + i - 1) % Size) = i - 1
    BY <1>1, ContentIndex
  <2> QED BY <1>2, <2>1 DEF RingInv
<1> QED BY <1>2, <1>3 DEF Content

\* Storing tail appends the object to what the ring holds.
LEMMA ContentAppend ==
  ASSUME RingInv, RingInv', EnqStoreTail
  PROVE  Content' = Append(Content, eobj) /\ Len(Content) < Size - 1
<1>1. /\ head \in Slot /\ tail \in Slot /\ tail' = Step(tail) /\ head' = head
      /\ slots' = slots /\ Step(tail) # head /\ slots[tail] = eobj
  BY DEF EnqStoreTail, RingInv, RingTypeOK, Full
<1>2. /\ Dist(head, tail) \in 0 .. Size - 2
      /\ Dist(head, tail') = Dist(head, tail) + 1
  BY <1>1, DistStep, StepValue, SizePositive
<1>3. (head + (Dist(head, tail) + 1) - 1) % Size = tail
  <2>1. tail' \in Slot /\ Dist(head, tail) + 1 \in 1 .. Dist(head, tail')
    BY <1>1, <1>2, StepValue
  <2>2. (head + (Dist(head, tail) + 1) - 1) % Size =
          IF head + (Dist(head, tail) + 1) - 1 < Size
            THEN head + (Dist(head, tail) + 1) - 1
            ELSE head + (Dist(head, tail) + 1) - 1 - Size
    BY <1>1, <2>1, ContentIndex
  <2> QED BY <1>1, <2>2, SizePositive DEF Slot, Dist
<1>4. /\ Content \in Seq(Obj) /\ Len(Content) = Dist(head, tail)
      /\ \A i \in 1 .. Dist(head, tail) : Content[i] = slots[(head + i - 1) % Size]
  BY ContentType
<1>5. Content' = [i \in 1 .. Dist(head, tail) + 1 |-> slots[(head + i - 1) % Size]]
  BY <1>1, <1>2 DEF Content, Dist
<1>6. /\ Append(Content, eobj) \in Seq(Obj)
      /\ Len(Append(Content, eobj)) = Dist(head, tail) + 1
      /\ \A i \in 1 .. Dist(head, tail) + 1 :
           Append(Content, eobj)[i] = IF i <= Dist(head, tail) THEN Content[i] ELSE eobj
  BY <1>2, <1>4, AppendProperties DEF EnqStoreTail, RingInv
<1>7. ASSUME NEW i \in 1 .. Dist(head, tail) + 1
      PROVE  slots[(head + i - 1) % Size] = Append(Content, eobj)[i]
  <2>1. CASE i <= Dist(head, tail)
    BY <1>2, <1>4, <1>6, <2>1
  <2>2. CASE i = Dist(head, tail) + 1
    BY <1>1, <1>2, <1>3, <1>6, <2>2
  <2>3. i <= Dist(head, tail) \/ i = Dist(head, tail) + 1
    BY <1>2
  <2> QED BY <2>1, <2>2, <2>3, Zenon
<1>8. Content' = Append(Content, eobj)
  <2>1. Append(Content, eobj) = [i \in 1 .. Dist(head, tail) + 1 |-> Append(Content, eobj)[i]]
    BY <1>6, LenProperties, Zenon
  <2> QED BY <1>5, <1>7, <2>1, Zenon
<1> QED BY <1>2, <1>4, <1>8, SizePositive

\* Storing head drops the oldest object, which is the one returned.
LEMMA ContentTail ==
  ASSUME RingInv, RingInv', DeqStoreHead
  PROVE  Content # <<>> /\ Content' = Tail(Content) /\ dobj = Head(Content)
<1>1. /\ head \in Slot /\ tail \in Slot /\ head' = Step(head) /\ tail' = tail
      /\ slots' = slots /\ head # tail /\ slots[head] = dobj
  BY DEF DeqStoreHead, RingInv, RingTypeOK, Empty
<1>2. /\ Dist(head, tail) \in 1 .. Size - 1 /\ head' \in Slot
      /\ Dist(head', tail) = Dist(head, tail) - 1
  BY <1>1, DistStep, StepValue, SizePositive
<1>3. /\ Content \in Seq(Obj) /\ Len(Content) = Dist(head, tail)
      /\ \A i \in 1 .. Dist(head, tail) : Content[i] = slots[(head + i - 1) % Size]
  BY ContentType
<1>4. Content' = [i \in 1 .. Dist(head, tail) - 1 |-> slots[(head' + i - 1) % Size]]
  BY <1>1, <1>2 DEF Content, Dist
<1>5. /\ Content # <<>> /\ Tail(Content) \in Seq(Obj)
      /\ Len(Tail(Content)) = Dist(head, tail) - 1
      /\ \A i \in 1 .. Dist(head, tail) - 1 : Tail(Content)[i] = Content[i + 1]
  BY <1>2, <1>3, HeadTailProperties, EmptySeq
<1>6. ASSUME NEW i \in 1 .. Dist(head, tail) - 1
      PROVE  slots[(head' + i - 1) % Size] = Content[i + 1]
  <2>1. i + 1 \in 1 .. Dist(head, tail) /\ i \in 1 .. Dist(head', tail)
    BY <1>2
  <2>2. (head + (i + 1) - 1) % Size =
          IF head + (i + 1) - 1 < Size THEN head + (i + 1) - 1 ELSE head + (i + 1) - 1 - Size
    BY <1>1, <2>1, ContentIndex
  <2>3. (head' + i - 1) % Size =
          IF head' + i - 1 < Size THEN head' + i - 1 ELSE head' + i - 1 - Size
    BY <1>1, <1>2, <2>1, ContentIndex
  <2>4. (head + (i + 1) - 1) % Size = (head' + i - 1) % Size
    BY <1>1, <1>2, <2>2, <2>3, StepValue, SizePositive DEF Slot
  <2> QED BY <1>3, <2>1, <2>4
<1>7. Content' = Tail(Content)
  <2>1. Tail(Content) = [i \in 1 .. Dist(head, tail) - 1 |-> Tail(Content)[i]]
    BY <1>5, LenProperties, Zenon
  <2> QED BY <1>4, <1>5, <1>6, <2>1
<1>8. Content[1] = dobj
  <2>1. (head + 1 - 1) % Size = head
    BY <1>1, ModValue, SizePositive DEF Slot
  <2> QED BY <1>1, <1>2, <1>3, <2>1
<1> QED BY <1>2, <1>3, <1>5, <1>7, <1>8
\* An empty ring is an empty queue.
LEMMA InitRefines == RingInit => Fifo!FifoInit
BY SizePositive DEF RingInit, Fifo!FifoInit, Content, Dist

\* Each load and store of ring.c is a step of the queue or leaves it alone.
LEMMA NextRefines ==
  RingInv /\ RingInv' /\ [RingNext]_ringVars => [Fifo!FifoNext]_(Fifo!fifoVars)
<1> SUFFICES ASSUME RingInv, RingInv', [RingNext]_ringVars
             PROVE  [Fifo!FifoNext]_(Fifo!fifoVars)
  OBVIOUS
<1> USE DEF prodVars, consVars, Fifo!FifoNext, Fifo!fifoVars
<1>0. /\ Content \in Seq(Obj) /\ Len(Content) = Dist(head, tail)
      /\ head \in Slot /\ tail \in Slot
  BY ContentType DEF RingInv, RingTypeOK
<1>a. head' = head /\ tail' = tail /\ slots' = slots => Content' = Content
  BY DEF Content, Dist
<1>1. ASSUME NEW o \in Obj, EnqLoadTail(o) PROVE UNCHANGED Fifo!fifoVars
  BY <1>1, <1>a DEF EnqLoadTail
<1>2. CASE EnqLoadHead
  <2>1. CASE Full(et, head)
    <3>1. Len(Content) = Size - 1
      BY <1>0, <1>2, <2>1, DistStep DEF EnqLoadHead, RingInv, Full
    <3>2. Fifo!PutRefused
      BY <1>2, <1>a, <2>1, <3>1 DEF EnqLoadHead, Fifo!PutRefused
    <3> QED BY <3>2
  <2>2. CASE ~Full(et, head)
    BY <1>2, <1>a, <2>2 DEF EnqLoadHead
  <2> QED BY <2>1, <2>2
<1>3. CASE EnqRefuse
  BY <1>3, <1>a DEF EnqRefuse
<1>4. CASE EnqWriteSlot
  <2>1. \A i \in 1 .. Dist(head, tail) : slots'[(head + i - 1) % Size] = slots[(head + i - 1) % Size]
    <3> SUFFICES ASSUME NEW i \in 1 .. Dist(head, tail)
                 PROVE  slots'[(head + i - 1) % Size] = slots[(head + i - 1) % Size]
      OBVIOUS
    <3>1. /\ (head + i - 1) % Size \in Slot
          /\ Dist(head, (head + i - 1) % Size) = i - 1
      BY <1>0, ContentIndex
    <3>2. (head + i - 1) % Size # tail
      BY <1>0, <3>1, DistStep, SizePositive
    <3> QED BY <1>4, <3>1, <3>2 DEF EnqWriteSlot, RingInv, RingTypeOK
  <2>2. Content' = Content
    BY <1>4, <2>1 DEF EnqWriteSlot, Content, Dist
  <2> QED BY <1>4, <2>2 DEF EnqWriteSlot
<1>5. CASE EnqStoreTail
  <2>1. Content' = Append(Content, eobj) /\ Len(Content) < Size - 1 /\ eobj \in Obj
    BY <1>5, ContentAppend DEF EnqStoreTail, RingInv
  <2>2. Fifo!Put(eobj)
    BY <1>5, <2>1 DEF EnqStoreTail, Fifo!Put
  <2> QED BY <2>1, <2>2
<1>6. CASE DeqLoadHead
  BY <1>6, <1>a DEF DeqLoadHead
<1>7. CASE DeqLoadTail
  <2>1. CASE Empty(dh, tail)
    <3>1. Content = <<>>
      BY <1>0, <1>7, <2>1, DistStep, EmptySeq DEF DeqLoadTail, RingInv, Empty
    <3>2. Fifo!GetRefused
      BY <1>7, <1>a, <2>1, <3>1 DEF DeqLoadTail, Fifo!GetRefused
    <3> QED BY <3>2
  <2>2. CASE ~Empty(dh, tail)
    BY <1>7, <1>a, <2>2 DEF DeqLoadTail
  <2> QED BY <2>1, <2>2
<1>8. CASE DeqRefuse
  BY <1>8, <1>a DEF DeqRefuse
<1>9. CASE DeqReadSlot
  BY <1>9, <1>a DEF DeqReadSlot
<1>10. CASE DeqStoreHead
  <2>1. Content # <<>> /\ Content' = Tail(Content) /\ dobj = Head(Content)
    BY <1>10, ContentTail
  <2>2. Fifo!Get
    BY <1>10, <2>1 DEF DeqStoreHead, Fifo!Get
  <2> QED BY <2>2
<1>11. CASE UNCHANGED ringVars
  BY <1>11, <1>a DEF ringVars
<1> QED
  BY <1>1, <1>2, <1>3, <1>4, <1>5, <1>6, <1>7, <1>8, <1>9, <1>10, <1>11
     DEF RingNext, Enqueuing, Dequeuing

\* The lock-free ring is a bounded first-in first-out queue whose operations
\* are instantaneous, for every size: what PkaPipeline assumes of it.
THEOREM RingRefinement == RingSpec => RefinesFifo
BY InitRefines, NextRefines, RingInvariance, PTL DEF RingSpec, RefinesFifo, Fifo!FifoSpec
=============================================================================
