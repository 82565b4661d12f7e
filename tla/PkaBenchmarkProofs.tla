------------------------- MODULE PkaBenchmarkProofs -------------------------
(***************************************************************************)
(* Proofs about PkaBenchmark for any number of threads, any window and any *)
(* number of commands, in every mode and for any order of the answers.     *)
(***************************************************************************)
EXTENDS PkaBenchmark, FiniteSetTheorems, SequenceTheorems, TLAPS

\* Modes whose workers meet twice and share the keys of worker 0.
Keyed == {"P256", "X25519", "ECDSA_SIG_GEN", "TLS13_ASYM", "TLS13_ASYM_HKDF"}

\* Modes that compare results through the tag of a slot.
Tagged == {"P256", "X25519", "ECDSA_SIG_GEN"}

\* Commands as a worker of a mode builds them.
Good(mode) ==
  {c \in CommandType :
     /\ c.op \notin {"encrypt", "decrypt"} => c.ready
     /\ mode \in Tls => c.op \in {"ecdsa", "mont_ecdh_mult"}
     /\ mode \in Tagged => c.slot = c.idx /\ c.ready}

Answer(mode) == [cmd : Good(mode), status : {"ok", "error"}]

\* Types, with what a command must be as the type of a command.
TInv ==
  /\ operation_mode \in Modes /\ thread_num \in ThreadNums /\ wid \in Thread
  /\ exited \in {"no", "refused", "mismatch", "bad free", "end"}
  /\ pc \in [Thread -> Place]
  /\ waiting \in SUBSET Thread
  /\ keys \in BOOLEAN
  /\ rsa_ciphertext \in {"null", "empty", "ciphertext", "garbage"}
  /\ cnt \in [Thread -> Nat] /\ cur \in [Thread -> Nat]
  /\ user_data \in [Thread -> [Index -> Int]]
  /\ busy \in [Thread -> SUBSET Good(operation_mode)]
  /\ out \in [Thread -> Seq(Answer(operation_mode))]
  /\ cmd_cnt \in [Thread -> Nat] /\ failed \in [Thread -> Nat]
  /\ ecdsa_done \in [Thread -> Nat] /\ ecdh_done \in [Thread -> Nat]
  /\ ring \in Seq({"first", "later"}) /\ ptr \in {"own", "first", "later"}
  /\ errors \in 0 .. MaxErrors /\ joined \in Nat

Before == {"none", "start", "barrier1", "encrypt", "keys", "barrier2"}
Loop == {"submit", "collect", "print"}

Pending(w) == Cardinality(busy[w]) + Len(out[w])

\* The commands on the handle of a worker, by the place of the worker.
HandleInv(w) ==
  /\ IsFiniteSet(busy[w])
  /\ pc[w] \in Before \cup {"returned"} => Pending(w) = 0 /\ cur[w] = 0
  /\ pc[w] \in {"malloc", "copy"} => Pending(w) = 1 /\ cur[w] = 0
  /\ pc[w] = "copy" => out[w] # <<>>
  /\ pc[w] \in Loop =>
       IF operation_mode = "RAND" THEN Pending(w) = 0
       ELSE /\ Pending(w) = cur[w] /\ cur[w] <= outstanding_cmd_num
            /\ \A c \in busy[w] : c.n < cnt[w]

Counts(w) ==
  /\ operation_mode \in Simple => cnt[w] = cmd_cnt[w] + cur[w]
  /\ operation_mode = "RAND" => cnt[w] = cmd_cnt[w] /\ cnt[w] = cur[w]
  /\ operation_mode = "SPSC" /\ w = 0 => cur[w] = 0
  /\ operation_mode \in Tls /\ ~(operation_mode = "SPSC" /\ w = 0) =>
       cnt[w] = ecdsa_done[Id(w)] + ecdh_done[Id(w)] + failed[w] + cur[w]

P1 == {"start", "barrier1"}
P2 == {"keys", "barrier2"}
P3 == Loop \cup {"returned", "gave up"}

\* Who is inside the barrier, where the workers are between its two uses,
\* and whether the keys are there.
KeysInv ==
  /\ waiting = {v \in Thread : pc[v] \in {"barrier1", "barrier2"}}
  /\ \A v \in Thread : pc[v] = "none" <=> v \notin Started
  /\ \A v \in Thread : pc[v] \in {"encrypt", "malloc", "copy"} => operation_mode = "RSA_DECRYPTION"
  /\ operation_mode \in Keyed =>
       /\ \/ \A v \in Started : pc[v] \in P1
          \/ \A v \in Started : pc[v] \in P2
          \/ keys /\ \A v \in Started : pc[v] \in P3
       /\ pc[0] = "barrier2" => keys
  /\ operation_mode = "SPSC" => (pc[1] \in P3 \cup {"barrier2"} => keys)

TagsInv ==
  operation_mode \in Tagged =>
    \A w \in Thread : pc[w] \notin {"none", "start"} => \A i \in Index : user_data[w][i] = i

IInv ==
  /\ TInv
  /\ Running => \A w \in Thread : HandleInv(w)
  /\ \A w \in Started : Counts(w)
  /\ KeysInv
  /\ TagsInv
  /\ ChecksPass

-----------------------------------------------------------------------------
(* Facts about the constants, the handle and the window.                   *)

\* main starts at least one thread, and no more than the arrays hold.
LEMMA StartedThreads ==
  ASSUME TInv
  PROVE  /\ Started \subseteq Thread /\ 0 \in Started /\ 0 \in Thread /\ 1 \in Thread
         /\ thread_num \in Nat \ {0}
<1>1. MAX_THREAD_NUM \in Nat /\ MAX_THREAD_NUM >= 2 /\ thread_num \in 1 .. MAX_THREAD_NUM
  BY BenchmarkAssumption, Zenon DEF TInv
<1> QED BY <1>1 DEF Started, Thread

\* cnt % outstanding_cmd_num is an index of the operands.
LEMMA ModIndex ==
  ASSUME NEW n \in Nat
  PROVE  n % outstanding_cmd_num \in Index /\ 0 \in Index
BY BenchmarkAssumption DEF Index

\* How many commands a handle holds, in the engine and as answers.
LEMMA PendingType ==
  ASSUME TInv, NEW w \in Thread, IsFiniteSet(busy[w])
  PROVE  /\ Cardinality(busy[w]) \in Nat /\ Len(out[w]) \in Nat /\ Pending(w) \in Nat
         /\ out[w] \in Seq(Answer(operation_mode)) /\ busy[w] \subseteq Good(operation_mode)
         /\ Pending(w) = 0 => busy[w] = {} /\ out[w] = <<>>
<1>1. Cardinality(busy[w]) \in Nat BY FS_CardinalityType
<1>2. out[w] \in Seq(Answer(operation_mode)) /\ busy[w] \subseteq Good(operation_mode)
  BY Zenon DEF TInv
<1>3. Len(out[w]) \in Nat /\ (Len(out[w]) = 0 => out[w] = <<>>) BY <1>2, LenProperties, EmptySeq
<1>4. Cardinality(busy[w]) = 0 => busy[w] = {} BY FS_EmptySet
<1> QED BY <1>1, <1>2, <1>3, <1>4 DEF Pending

\* Producer and Consumer are two threads.
LEMMA ConsumerNotProducer == 1 # 0
OBVIOUS

\* The arithmetic of a window that grows by one command.
LEMMA GrowByOne ==
  ASSUME NEW a \in Nat, NEW b \in Nat
  PROVE  a < b => a + 1 <= b
OBVIOUS

\* A sum that grows by one with its last part.
LEMMA GrowBoth ==
  ASSUME NEW a \in Nat, NEW b \in Nat, NEW m \in Nat
  PROVE  a = m + b => a + 1 = m + (b + 1)
OBVIOUS

\* The sum of three counters.
LEMMA SumOfThree ==
  ASSUME NEW a \in Nat, NEW b \in Nat, NEW m \in Nat
  PROVE  a + b + m \in Nat
OBVIOUS

\* The arithmetic of a window that shrinks by one answer, and of a command
\* that moves from the engine to the answers.
LEMMA ShrinkByOne ==
  ASSUME NEW b \in Nat, NEW l \in Nat
  PROVE  /\ b + (l - 1) = (b + l) - 1
         /\ (b - 1) + (l + 1) = b + l
         /\ b + l = 1 /\ l # 0 => b = 0 /\ l - 1 = 0
OBVIOUS

\* A worker whose own state does not change keeps its part of the invariant.
LEMMA HandleFrame ==
  ASSUME NEW v \in Thread, HandleInv(v),
         UNCHANGED <<operation_mode, pc[v], cnt[v], cur[v], busy[v], out[v]>>
  PROVE  HandleInv(v)'
BY DEF HandleInv, Pending

\* A new command on a handle, under a number that no other has.
LEMMA AddCommand ==
  ASSUME TInv, NEW w \in Thread, IsFiniteSet(busy[w]), NEW c,
         \A d \in busy[w] : d.n < cnt[w], c.n = cnt[w],
         busy' = [busy EXCEPT ![w] = @ \cup {c}], out'[w] = out[w]
  PROVE  IsFiniteSet(busy'[w]) /\ Pending(w)' = Pending(w) + 1
<1>1. cnt[w] \in Nat /\ busy'[w] = busy[w] \cup {c} BY Zenon DEF TInv
<1>2. c \notin busy[w] BY <1>1
<1>3. /\ IsFiniteSet(busy[w] \cup {c})
      /\ Cardinality(busy[w] \cup {c}) = Cardinality(busy[w]) + 1
  BY <1>2, FS_AddElement, Zenon
<1>4. Cardinality(busy[w]) \in Nat /\ Len(out[w]) \in Nat BY PendingType
<1>5. Cardinality(busy'[w]) = Cardinality(busy[w]) + 1 /\ IsFiniteSet(busy'[w]) BY <1>1, <1>3, Zenon
<1>6. Pending(w)' = Cardinality(busy'[w]) + Len(out'[w]) BY DEF Pending
<1>7. Pending(w) = Cardinality(busy[w]) + Len(out[w]) BY DEF Pending
<1>8. Len(out'[w]) = Len(out[w]) OBVIOUS
<1> QED BY <1>4, <1>5, <1>6, <1>7, <1>8
-----------------------------------------------------------------------------
(* The barrier.                                                            *)

Barrier == {"barrier1", "barrier2"}

\* Only when all the workers of a mode in Keyed are inside does it open.
LEMMA BarrierFull ==
  ASSUME TInv, KeysInv, NEW w \in Started, operation_mode \in Keyed,
         Cardinality(waiting \cup {w}) = thread_num
  PROVE  waiting \cup {w} = Started
<1>1. operation_mode # "SPSC" BY DEF Keyed
<1>2. thread_num \in Nat \ {0} BY StartedThreads
<1>3. Started = 0 .. thread_num - 1 BY <1>1 DEF Started
<1>4. IsFiniteSet(0 .. thread_num - 1) /\ Cardinality(0 .. thread_num - 1) = thread_num
  <2>1. 0 \in Int /\ thread_num - 1 \in Int /\ ~(0 > thread_num - 1)
        /\ (thread_num - 1) - 0 + 1 = thread_num
    BY <1>2
  <2> QED BY <2>1, FS_Interval
<1>5. waiting \subseteq Started BY Zenon DEF KeysInv, TInv
<1>6. waiting \cup {w} \subseteq Started BY <1>5
<1> QED BY <1>3, <1>4, <1>6, FS_Subset, Zenon

\* Either the worker waits, or everybody who waits goes on.
LEMMA BarrierMoves ==
  ASSUME TInv, KeysInv, NEW w \in Thread, NEW place \in Barrier, BarrierWait(w, place),
         pc[w] \notin Barrier, UNCHANGED operation_mode
  PROVE  /\ pc' \in [Thread -> Place] /\ waiting' \in SUBSET Thread
         /\ waiting' = {v \in Thread : pc'[v] \in Barrier}
         /\ \/ /\ Cardinality(waiting \cup {w}) = thread_num
               /\ pc'[w] = AfterBarrier(place)
               /\ \A v \in Thread \ {w} :
                    pc'[v] = IF pc[v] \in Barrier THEN AfterBarrier(pc[v]) ELSE pc[v]
            \/ /\ pc'[w] = place
               /\ \A v \in Thread \ {w} : pc'[v] = pc[v]
<1>1. pc \in [Thread -> Place] /\ waiting \subseteq Thread BY Zenon DEF TInv
<1>2. waiting = {v \in Thread : pc[v] \in Barrier} BY DEF KeysInv, Barrier
<1>3. \A b \in Barrier : AfterBarrier(b) \in Place \ Barrier
  BY DEF AfterBarrier, Place, Barrier
<1>4. CASE Cardinality(waiting \cup {w}) = thread_num
  <2>1. waiting' = {} /\ pc' = [v \in Thread |-> CASE v = w -> AfterBarrier(place)
                                              [] v \in waiting -> AfterBarrier(pc[v])
                                              [] OTHER -> pc[v]]
    BY <1>4 DEF BarrierWait
  <2>2. pc'[w] = AfterBarrier(place) BY <2>1, <1>2
  <2>3. ASSUME NEW v \in Thread \ {w}
        PROVE  pc'[v] = IF pc[v] \in Barrier THEN AfterBarrier(pc[v]) ELSE pc[v]
    <3>1. CASE v \in waiting BY <2>1, <3>1, <1>2
    <3>2. CASE v \notin waiting BY <2>1, <3>2, <1>2
    <3> QED BY <3>1, <3>2
  <2>4. \A v \in Thread : pc'[v] \in Place \ Barrier BY <1>1, <1>3, <2>2, <2>3
  <2>5. pc' \in [Thread -> Place] BY <2>1, <2>4
  <2> QED BY <1>4, <2>1, <2>2, <2>3, <2>4, <2>5
<1>5. CASE Cardinality(waiting \cup {w}) # thread_num
  <2>1. waiting' = waiting \cup {w} /\ pc' = [pc EXCEPT ![w] = place]
    BY <1>5 DEF BarrierWait, Goto
  <2>2. place \in Place BY Zenon DEF Place, Barrier
  <2> QED BY <2>1, <2>2, <1>1, <1>2
<1> QED BY <1>4, <1>5

\* A worker arrives at the barrier, having made what it must make before.
LEMMA BarrierStep ==
  ASSUME IInv, Running, NEW w \in Thread, NEW place \in Barrier, BarrierWait(w, place),
         \/ pc[w] = "start" /\ place = "barrier1"
         \/ pc[w] = "keys" /\ place = "barrier2",
         keys' \in BOOLEAN, keys => keys',
         operation_mode \in Keyed /\ w = 0 /\ place = "barrier2" => keys',
         operation_mode = "SPSC" /\ w = 1 /\ place = "barrier2" => keys',
         user_data' \in [Thread -> [Index -> Int]],
         \A v \in Thread \ {w} : user_data'[v] = user_data[v],
         operation_mode \in Tagged /\ place = "barrier2" => user_data'[w] = user_data[w],
         operation_mode \in Tagged /\ place = "barrier1" =>
           \A i \in Index : user_data'[w][i] = i,
         ring' \in Seq({"first", "later"}),
         UNCHANGED <<control, exited, rsa_ciphertext, cnt, cur, busy, out, errors, counts,
                     ptr, joined>>
  PROVE  IInv'
<1>0. TInv /\ KeysInv /\ TagsInv /\ (\A v \in Thread : HandleInv(v)) BY DEF IInv
<1> USE DEF control
<1>1. pc[w] \notin Barrier BY DEF Barrier
<1>2. /\ pc' \in [Thread -> Place] /\ waiting' \in SUBSET Thread
      /\ waiting' = {v \in Thread : pc'[v] \in Barrier}
  BY <1>0, <1>1, BarrierMoves, Zenon
<1>3. \/ /\ Cardinality(waiting \cup {w}) = thread_num
         /\ pc'[w] = AfterBarrier(place)
         /\ \A v \in Thread \ {w} :
              pc'[v] = IF pc[v] \in Barrier THEN AfterBarrier(pc[v]) ELSE pc[v]
      \/ /\ pc'[w] = place
         /\ \A v \in Thread \ {w} : pc'[v] = pc[v]
  BY <1>0, <1>1, BarrierMoves, Zenon
<1>4. /\ AfterBarrier("barrier2") = "submit"
      /\ operation_mode = "RSA_DECRYPTION" => AfterBarrier("barrier1") = "encrypt"
      /\ operation_mode # "RSA_DECRYPTION" => AfterBarrier("barrier1") = "keys"
  BY DEF AfterBarrier
<1>5. TInv' BY <1>0, <1>2, Zenon DEF TInv, counts
<1>6. ASSUME NEW v \in Thread PROVE HandleInv(v)'
  <2>1. CASE pc'[v] = pc[v] BY <1>0, <2>1, HandleFrame
  <2>2. CASE pc'[v] # pc[v]
    <3>1. pc[v] \in Before /\ pc'[v] \in Before \cup {"submit"}
      BY <1>1, <1>3, <1>4, <2>2 DEF Before, Barrier
    <3>2. IsFiniteSet(busy[v]) /\ Pending(v) = 0 /\ cur[v] = 0 BY <1>0, <3>1 DEF HandleInv
    <3>3. busy[v] = {} /\ Pending(v)' = 0 BY <1>0, <3>2, PendingType, Zenon DEF Pending
    <3>4. outstanding_cmd_num \in Nat BY BenchmarkAssumption
    <3> QED BY <3>1, <3>2, <3>3, <3>4 DEF HandleInv, Before, Loop
  <2> QED BY <2>1, <2>2
<1>7. ASSUME NEW v \in Started' PROVE Counts(v)'
  BY <1>7 DEF IInv, Started, Counts, Id, counts
<1>8. KeysInv'
  <2>1. waiting' = {v \in Thread : pc'[v] \in {"barrier1", "barrier2"}} BY <1>2 DEF Barrier
  <2>2. Started' = Started BY DEF Started
  <2>3. ASSUME NEW v \in Thread PROVE pc'[v] = "none" <=> v \notin Started
    BY <1>0, <1>1, <1>3, <1>4, Zenon DEF KeysInv, Barrier
  <2>4. ASSUME NEW v \in Thread, pc'[v] \in {"encrypt", "malloc", "copy"}
        PROVE operation_mode = "RSA_DECRYPTION"
    BY <1>0, <1>1, <1>3, <1>4, <2>4, Zenon DEF KeysInv, Barrier
  <2>5. ASSUME operation_mode = "SPSC", pc'[1] \in P3 \cup {"barrier2"} PROVE keys'
    <3>1. 1 \in Thread BY <1>0, StartedThreads
    <3>2. pc[1] \in P3 \cup {"barrier2"} \/ (w = 1 /\ place = "barrier2")
      BY <1>0, <1>1, <1>3, <1>4, <2>5, <3>1, Zenon DEF Barrier, P3, Loop
    <3> QED BY <1>0, <2>5, <3>2 DEF KeysInv
  <2>6. ASSUME operation_mode \in Keyed
        PROVE  /\ \/ \A v \in Started : pc'[v] \in P1
                  \/ \A v \in Started : pc'[v] \in P2
                  \/ keys' /\ \A v \in Started : pc'[v] \in P3
               /\ pc'[0] = "barrier2" => keys'
    <3>1. operation_mode # "RSA_DECRYPTION" BY <2>6 DEF Keyed
    <3>2. Started \subseteq Thread /\ 0 \in Started /\ 0 \in Thread BY <1>0, StartedThreads
    <3>3. w \in Started BY <1>0 DEF KeysInv
    <3>4. CASE /\ pc'[w] = place
               /\ \A v \in Thread \ {w} : pc'[v] = pc[v]
      <4>1. pc[0] = "barrier2" => keys BY <1>0, <2>6 DEF KeysInv
      <4>2. pc'[0] = "barrier2" => keys' BY <3>4, <3>2, <2>6, <4>1
      <4>3. (\A v \in Started : pc[v] \in P1) \/ (\A v \in Started : pc[v] \in P2)
        BY <1>0, <2>6, <3>3, Zenon DEF KeysInv, P3, Loop
      <4> QED BY <3>2, <3>3, <3>4, <4>2, <4>3, Zenon DEF P1, P2
    <3>5. CASE /\ Cardinality(waiting \cup {w}) = thread_num
               /\ pc'[w] = AfterBarrier(place)
               /\ \A v \in Thread \ {w} :
                    pc'[v] = IF pc[v] \in Barrier THEN AfterBarrier(pc[v]) ELSE pc[v]
      <4>1. waiting \cup {w} = Started BY <1>0, <2>6, <3>3, <3>5, BarrierFull, Zenon
      <4>2. \A v \in Started \ {w} : pc[v] \in Barrier BY <4>1, <1>0 DEF KeysInv, Barrier
      <4>3. CASE place = "barrier1"
        <5>1. \A v \in Started : pc[v] \in P1
          BY <1>0, <2>6, <3>3, <4>3, Zenon DEF KeysInv, P1, P2, P3, Loop
        <5>2. \A v \in Started : pc'[v] = "keys"
          BY <3>1, <3>2, <3>5, <4>2, <4>3, <5>1, <1>4, Zenon DEF P1, Barrier
        <5> QED BY <5>2, <3>2 DEF P2
      <4>4. CASE place = "barrier2"
        <5>1. \A v \in Started : pc[v] \in P2
          BY <1>0, <2>6, <3>3, <4>4, Zenon DEF KeysInv, P1, P2, P3, Loop
        <5>2. \A v \in Started : pc'[v] = "submit"
          BY <3>2, <3>5, <4>2, <4>4, <5>1, <1>4, Zenon DEF P2, Barrier
        <5>3. keys' BY <1>0, <2>6, <3>2, <4>2, <4>4, <5>1 DEF KeysInv, P2, Barrier
        <5> QED BY <5>2, <5>3, <3>2, Zenon DEF P3, Loop
      <4> QED BY <4>3, <4>4 DEF Barrier
    <3> QED BY <1>3, <3>4, <3>5
  <2> QED BY <2>1, <2>2, <2>3, <2>4, <2>5, <2>6 DEF KeysInv
<1>9. TagsInv'
  <2> SUFFICES ASSUME operation_mode \in Tagged, NEW v \in Thread, pc'[v] \notin {"none", "start"},
                      NEW i \in Index
               PROVE  user_data'[v][i] = i
    BY DEF TagsInv
  <2>1. CASE v = w BY <2>1, <1>0, Zenon DEF TagsInv, Barrier
  <2>2. CASE v # w
    <3>1. pc[v] \notin {"none", "start"} BY <1>3, <1>4, <2>2, Zenon DEF Barrier
    <3> QED BY <1>0, <2>2, <3>1, Zenon DEF TagsInv
  <2> QED BY <2>1, <2>2
<1>10. ChecksPass' BY DEF IInv, ChecksPass
<1> QED BY <1>5, <1>6, <1>7, <1>8, <1>9, <1>10 DEF IInv
-----------------------------------------------------------------------------
(* Steps of one worker that leave the barrier alone.                       *)

\* A worker that moves past the barriers does not disturb their order.
LEMMA KeysFrame ==
  ASSUME TInv, KeysInv, NEW w \in Thread, NEW p \in P3 \cup {"malloc", "copy"},
         pc' = [pc EXCEPT ![w] = p], UNCHANGED <<control, waiting, keys>>,
         \/ pc[w] \in P3 /\ p \in P3
         \/ pc[w] \in {"encrypt", "malloc", "copy"}
  PROVE  KeysInv'
<1> USE DEF control
<1>1. /\ pc \in [Thread -> Place] /\ Started' = Started
      /\ Started \subseteq Thread /\ 0 \in Thread /\ 1 \in Thread
  BY StartedThreads, Zenon DEF TInv, Started
<1>2. \A v \in Thread : pc'[v] = IF v = w THEN p ELSE pc[v] BY <1>1
<1>3. pc[w] \notin Barrier \cup {"none"} /\ p \notin Barrier \cup {"none"}
  BY Zenon DEF P3, Loop, Barrier
<1>4. waiting' = {v \in Thread : pc'[v] \in {"barrier1", "barrier2"}}
  BY <1>2, <1>3 DEF KeysInv, Barrier
<1>5. \A v \in Thread : pc'[v] = "none" <=> v \notin Started BY <1>2, <1>3 DEF KeysInv
<1>6. CASE operation_mode = "RSA_DECRYPTION"
  BY <1>1, <1>4, <1>5, <1>6 DEF KeysInv, Keyed
<1>7. CASE operation_mode # "RSA_DECRYPTION"
  <2>1. pc[w] \in P3 /\ p \in P3 BY <1>7 DEF KeysInv
  <2>2. \A v \in Thread : pc'[v] \notin {"encrypt", "malloc", "copy"}
    BY <1>2, <1>7, <2>1, Zenon DEF KeysInv, P3, Loop
  <2>3. operation_mode = "SPSC" => (pc'[1] \in P3 \cup {"barrier2"} => keys)
    BY <1>1, <1>2, <2>1 DEF KeysInv
  <2>4. ASSUME operation_mode \in Keyed
        PROVE  /\ keys /\ \A v \in Started : pc'[v] \in P3
               /\ pc'[0] = "barrier2" => keys
    <3>1. w \in Started BY <1>3 DEF KeysInv
    <3>2. keys /\ \A v \in Started : pc[v] \in P3
      BY <2>1, <2>4, <3>1, Zenon DEF KeysInv, P1, P2, P3, Loop
    <3> QED BY <1>1, <1>2, <2>1, <3>2
  <2> QED BY <1>1, <1>4, <1>5, <2>2, <2>3, <2>4 DEF KeysInv
<1> QED BY <1>6, <1>7

\* A step that moves no worker does not disturb it either.
LEMMA KeysSame ==
  ASSUME KeysInv, UNCHANGED <<pc, control, waiting, keys>>
  PROVE  KeysInv'
BY DEF KeysInv, control, Started

\* A worker that moves after its entry keeps its tags.
LEMMA TagsFrame ==
  ASSUME TInv, TagsInv, NEW w \in Thread, NEW p, pc[w] \notin {"none", "start"},
         pc' = [pc EXCEPT ![w] = p], UNCHANGED <<control, user_data>>
  PROVE  TagsInv'
<1>1. pc \in [Thread -> Place] BY Zenon DEF TInv
<1>2. \A v \in Thread : pc'[v] \notin {"none", "start"} => pc[v] \notin {"none", "start"}
  BY <1>1
<1> QED BY <1>2 DEF TagsInv, control

\* Only the place of a worker changes.
LEMMA MoveStep ==
  ASSUME IInv, Running, NEW w \in Thread, NEW p \in P3 \cup {"copy"},
         pc' = [pc EXCEPT ![w] = p],
         \/ pc[w] \in Loop /\ p \in Loop
         \/ pc[w] \in Loop /\ p = "returned" /\ cur[w] = 0
         \/ pc[w] = "malloc" /\ p = "copy" /\ out[w] # <<>>,
         rsa_ciphertext' \in {"null", "empty", "ciphertext", "garbage"},
         UNCHANGED <<control, exited, waiting, keys, work, counts, spsc, joined>>
  PROVE  IInv'
<1>0. TInv /\ KeysInv /\ TagsInv /\ (\A v \in Thread : HandleInv(v)) BY DEF IInv
<1> USE DEF control, work, counts, spsc
<1>1. pc \in [Thread -> Place] /\ p \in Place BY <1>0, Zenon DEF TInv, P3, Loop, Place
<1>2. TInv'
  <2>1. pc' \in [Thread -> Place] BY <1>1
  <2> QED BY <1>0, <2>1, Zenon DEF TInv
<1>3. ASSUME NEW v \in Thread PROVE HandleInv(v)'
  <2>1. CASE v # w
    <3>1. pc'[v] = pc[v] BY <1>1, <2>1
    <3> QED BY <1>0, <3>1, HandleFrame
  <2>2. CASE v = w
    <3>1. pc'[v] = p BY <1>1, <2>2
    <3>2. HandleInv(v) BY <1>0
    <3>3. p = "returned" => operation_mode = "RAND" \/ Pending(v) = 0
      BY <2>2, <3>2 DEF HandleInv, Loop
    <3>4. operation_mode = "RAND" /\ pc[v] \in Loop => Pending(v) = 0 BY <3>2 DEF HandleInv
    <3> QED BY <2>2, <3>1, <3>2, <3>3, <3>4, Zenon DEF HandleInv, Pending, Before, Loop, P3
  <2> QED BY <2>1, <2>2
<1>4. ASSUME NEW v \in Started' PROVE Counts(v)'
  BY <1>4 DEF IInv, Started, Counts, Id
<1>5. KeysInv' BY <1>0, KeysFrame, Zenon DEF P3
<1>6. TagsInv' BY <1>0, TagsFrame, Zenon DEF Loop
<1>7. ChecksPass' BY DEF IInv, ChecksPass
<1> QED BY <1>2, <1>3, <1>4, <1>5, <1>6, <1>7 DEF IInv

\* The process ends.
LEMMA ExitStep ==
  ASSUME IInv, exited' \in {"refused", "mismatch", "bad free", "end"},
         exited' = "mismatch" => operation_mode = "RSA_DECRYPTION",
         user_data' \in [Thread -> [Index -> Int]],
         operation_mode \in Tagged => user_data' = user_data,
         out' \in [Thread -> Seq(Answer(operation_mode))],
         ring' \in Seq({"first", "later"}), ptr' \in {"own", "first", "later"}, joined' \in Nat,
         UNCHANGED <<control, pc, waiting, keys, rsa_ciphertext, cnt, cur, busy, errors, counts>>
  PROVE  IInv'
<1> USE DEF control, counts
<1>1. TInv' BY Zenon DEF IInv, TInv
<1>2. ASSUME NEW v \in Started' PROVE Counts(v)'
  BY <1>2, Zenon DEF IInv, Started, Counts, Id
<1>3. KeysInv' BY KeysSame, Zenon DEF IInv
<1>4. TagsInv' BY Zenon DEF IInv, TagsInv
<1>5. ChecksPass' BY DEF ChecksPass
<1>6. ~Running' BY Zenon DEF Running
<1> QED BY <1>1, <1>2, <1>3, <1>4, <1>5, <1>6, Zenon DEF IInv
-----------------------------------------------------------------------------
(* The window.                                                             *)

\* A command built from ready operands, with the tag of its index.
LEMMA CommandGood ==
  ASSUME TInv, NEW w \in Thread, NEW slot \in Index, NEW ready \in BOOLEAN,
         NEW op \in {"encrypt", "decrypt", "ecc_pt_mult", "mont_ecdh_mult", "ecdsa"},
         op \notin {"encrypt", "decrypt"} => ready,
         operation_mode \in Tls => op \in {"ecdsa", "mont_ecdh_mult"},
         operation_mode \in Tagged => slot = cnt[w] % outstanding_cmd_num /\ ready
  PROVE  /\ Command(w, op, slot, ready) \in Good(operation_mode)
         /\ Command(w, op, slot, ready).n = cnt[w]
<1>1. cnt[w] \in Nat BY Zenon DEF TInv
<1>2. cnt[w] % outstanding_cmd_num \in Index BY <1>1, ModIndex
<1> QED BY <1>1, <1>2 DEF Command, Good, CommandType

\* A command is accepted: it enters the engine and the window.
LEMMA AcceptStep ==
  ASSUME IInv, Running, NEW w \in Thread, NEW c \in Good(operation_mode), c.n = cnt[w],
         operation_mode # "RAND", ~(operation_mode = "SPSC" /\ w = 0),
         pc[w] = "submit", MaySubmit(w), Accepted(w, c),
         user_data' \in [Thread -> [Index -> Int]],
         operation_mode \in Tagged => user_data' = user_data,
         ring' \in Seq({"first", "later"}), ptr' \in {"own", "first", "later"},
         UNCHANGED <<control, waiting, keys, rsa_ciphertext, out, counts, errors, joined>>
  PROVE  IInv'
<1>0. TInv /\ KeysInv /\ TagsInv /\ (\A v \in Thread : HandleInv(v)) BY DEF IInv
<1> USE DEF control, counts
<1>1. /\ busy \in [Thread -> SUBSET Good(operation_mode)]
      /\ cnt \in [Thread -> Nat] /\ cur \in [Thread -> Nat]
      /\ outstanding_cmd_num \in Nat
  BY <1>0, BenchmarkAssumption, Zenon DEF TInv
<1>2. /\ busy' = [busy EXCEPT ![w] = @ \cup {c}]
      /\ cnt' = [cnt EXCEPT ![w] = @ + 1] /\ cur' = [cur EXCEPT ![w] = @ + 1]
      /\ UNCHANGED <<pc, exited>>
  BY DEF Accepted
<1>3. TInv'
  <2>1. /\ busy' \in [Thread -> SUBSET Good(operation_mode)]
        /\ cnt' \in [Thread -> Nat] /\ cur' \in [Thread -> Nat]
    BY <1>1, <1>2
  <2> QED BY <1>0, <1>2, <2>1, Zenon DEF TInv
<1>4. ASSUME NEW v \in Thread PROVE HandleInv(v)'
  <2>1. CASE v # w
    <3>1. cnt'[v] = cnt[v] /\ cur'[v] = cur[v] /\ busy'[v] = busy[v] BY <1>1, <1>2, <2>1
    <3> QED BY <1>0, <1>2, <3>1, HandleFrame, Zenon
  <2>2. CASE v = w
    <3>1. /\ IsFiniteSet(busy[w]) /\ Pending(w) = cur[w]
          /\ \A d \in busy[w] : d.n < cnt[w]
      BY <1>0 DEF HandleInv, Loop
    <3>2. IsFiniteSet(busy'[w]) /\ Pending(w)' = Pending(w) + 1
      BY <1>0, <1>2, <3>1, AddCommand, Zenon
    <3>3. cnt'[w] = cnt[w] + 1 /\ cur'[w] = cur[w] + 1 /\ busy'[w] = busy[w] \cup {c}
      BY <1>1, <1>2
    <3>4. cur'[w] <= outstanding_cmd_num
      <4>1. cur[w] \in Nat /\ cur[w] < outstanding_cmd_num BY <1>1 DEF MaySubmit
      <4>2. cur[w] + 1 <= outstanding_cmd_num BY <1>1, <4>1, GrowByOne
      <4> QED BY <3>3, <4>2, Zenon
    <3>5. \A d \in busy'[w] : d.n < cnt'[w]
      <4> SUFFICES ASSUME NEW d \in busy'[w] PROVE d.n < cnt'[w] OBVIOUS
      <4>1. CASE d = c BY <1>1, <3>3, <4>1
      <4>2. CASE d \in busy[w]
        <5>1. d.n \in Nat BY <1>1, <4>2 DEF Good, CommandType
        <5> QED BY <1>1, <3>1, <3>3, <4>2, <5>1
      <4> QED BY <3>3, <4>1, <4>2
    <3> QED BY <1>2, <2>2, <3>1, <3>2, <3>3, <3>4, <3>5 DEF HandleInv, Before, Loop
  <2> QED BY <2>1, <2>2, Zenon
<1>5. ASSUME NEW v \in Started' PROVE Counts(v)'
  <2>1. v \in Started /\ Counts(v) /\ v \in Thread
    BY <1>0, <1>5, StartedThreads, Zenon DEF IInv, Started
  <2>2. Id(v)' = Id(v) /\ Id(v) \in Thread BY <1>0, <2>1, Zenon DEF Id, TInv
  <2>3. /\ cnt[v] \in Nat /\ cur[v] \in Nat /\ cmd_cnt[v] \in Nat /\ failed[v] \in Nat
        /\ ecdsa_done[Id(v)] \in Nat /\ ecdh_done[Id(v)] \in Nat
    BY <1>0, <2>1, <2>2, Zenon DEF TInv
  <2>4. CASE v # w
    <3>1. cnt'[v] = cnt[v] /\ cur'[v] = cur[v] BY <1>1, <1>2, <2>1, <2>4
    <3> QED BY <2>1, <2>2, <3>1 DEF Counts
  <2>5. CASE v = w
    <3>1. cnt'[v] = cnt[v] + 1 /\ cur'[v] = cur[v] + 1 BY <1>1, <1>2, <2>1, <2>5
    <3>2. operation_mode \in Simple => cnt'[v] = cmd_cnt[v] + cur'[v]
      <4>1. operation_mode \in Simple => cnt[v] = cmd_cnt[v] + cur[v] BY <2>1 DEF Counts
      <4>2. cnt[v] = cmd_cnt[v] + cur[v] => cnt[v] + 1 = cmd_cnt[v] + (cur[v] + 1)
        BY <2>3, GrowBoth, Zenon
      <4> QED BY <3>1, <4>1, <4>2
    <3>3. operation_mode \in Tls =>
            cnt'[v] = ecdsa_done[Id(v)] + ecdh_done[Id(v)] + failed[v] + cur'[v]
      <4> DEFINE m == ecdsa_done[Id(v)] + ecdh_done[Id(v)] + failed[v]
      <4>1. operation_mode \in Tls => cnt[v] = m + cur[v] BY <2>1, <2>5 DEF Counts
      <4>2. m \in Nat BY <2>3, SumOfThree, Zenon
      <4> HIDE DEF m
      <4>3. cnt[v] = m + cur[v] => cnt[v] + 1 = m + (cur[v] + 1)
        BY <2>3, <4>2, GrowBoth, Zenon
      <4>4. operation_mode \in Tls => cnt'[v] = m + cur'[v] BY <3>1, <4>1, <4>3, Zenon
      <4> QED BY <4>4 DEF m
    <3> QED BY <2>2, <2>5, <3>2, <3>3 DEF Counts
  <2> QED BY <2>4, <2>5
<1>6. KeysInv' BY <1>0, <1>2, KeysSame
<1>7. TagsInv' BY <1>0, <1>2 DEF TagsInv
<1>8. ChecksPass' BY <1>2 DEF IInv, ChecksPass
<1> QED BY <1>3, <1>4, <1>5, <1>6, <1>7, <1>8 DEF IInv

\* An answer is taken from the handle and out of the window; the counters
\* change so that Counts is kept.
LEMMA CollectStep ==
  ASSUME IInv, Running, NEW w \in Thread, NEW p \in Loop,
         operation_mode # "RAND", pc[w] = "collect", out[w] # <<>>,
         pc' = [pc EXCEPT ![w] = p],
         out' = [out EXCEPT ![w] = Tail(@)], cur' = [cur EXCEPT ![w] = @ - 1],
         cmd_cnt' \in [Thread -> Nat], failed' \in [Thread -> Nat],
         ecdsa_done' \in [Thread -> Nat], ecdh_done' \in [Thread -> Nat],
         \A v \in Started : Counts(v)',
         UNCHANGED <<control, exited, waiting, keys, rsa_ciphertext, cnt, user_data, busy, spsc,
                     errors, joined>>
  PROVE  IInv'
<1>0. TInv /\ KeysInv /\ TagsInv /\ (\A v \in Thread : HandleInv(v)) BY DEF IInv
<1> USE DEF control, spsc
<1>1. /\ pc \in [Thread -> Place] /\ cur \in [Thread -> Nat]
      /\ out \in [Thread -> Seq(Answer(operation_mode))] /\ outstanding_cmd_num \in Nat
  BY <1>0, BenchmarkAssumption, Zenon DEF TInv
<1>2. p \in Place BY Zenon DEF Loop, Place
<1>3. /\ IsFiniteSet(busy[w]) /\ Pending(w) = cur[w] /\ cur[w] <= outstanding_cmd_num
      /\ \A d \in busy[w] : d.n < cnt[w]
  BY <1>0 DEF HandleInv, Loop
<1>4. Cardinality(busy[w]) \in Nat /\ Len(out[w]) \in Nat /\ out[w] \in Seq(Answer(operation_mode))
  BY <1>0, <1>3, PendingType
<1>5. Tail(out[w]) \in Seq(Answer(operation_mode)) /\ Len(Tail(out[w])) = Len(out[w]) - 1
      /\ Len(out[w]) # 0
  BY <1>4, HeadTailProperties, EmptySeq
<1>6. /\ pc'[w] = p /\ cur'[w] = cur[w] - 1 /\ out'[w] = Tail(out[w])
      /\ \A v \in Thread \ {w} : pc'[v] = pc[v] /\ cur'[v] = cur[v] /\ out'[v] = out[v]
  BY <1>1
<1>7. cur[w] \in Nat /\ cur[w] # 0 BY <1>1, <1>3, <1>4, <1>5 DEF Pending
<1>8. TInv'
  <2>1. /\ pc' \in [Thread -> Place] /\ cur' \in [Thread -> Nat]
        /\ out' \in [Thread -> Seq(Answer(operation_mode))]
    BY <1>1, <1>2, <1>5, <1>7
  <2> QED BY <1>0, <2>1, Zenon DEF TInv
<1>9. ASSUME NEW v \in Thread PROVE HandleInv(v)'
  <2>1. CASE v # w BY <1>0, <1>6, <2>1, HandleFrame
  <2>2. CASE v = w
    <3>0. /\ Pending(w)' = Cardinality(busy[w]) + Len(Tail(out[w]))
          /\ Pending(w) = Cardinality(busy[w]) + Len(out[w])
      BY <1>6, Zenon DEF Pending
    <3>1. Pending(w)' = cur'[w]
      <4>1. Cardinality(busy[w]) + (Len(out[w]) - 1) = (Cardinality(busy[w]) + Len(out[w])) - 1
        BY <1>4, ShrinkByOne, Zenon
      <4>2. Pending(w)' = Pending(w) - 1 BY <1>5, <3>0, <4>1
      <4> QED BY <1>3, <1>6, <4>2
    <3>2. cur'[w] <= outstanding_cmd_num BY <1>1, <1>3, <1>6, <1>7
    <3> QED BY <1>3, <1>6, <2>2, <3>1, <3>2 DEF HandleInv, Before, Loop
  <2> QED BY <2>1, <2>2
<1>10. Started' = Started BY DEF Started
<1>11. KeysInv' BY <1>0, KeysFrame, Zenon DEF P3, Loop
<1>12. TagsInv' BY <1>0, TagsFrame, Zenon
<1>13. ChecksPass' BY DEF IInv, ChecksPass
<1> QED BY <1>8, <1>9, <1>10, <1>11, <1>12, <1>13 DEF IInv

\* The engine answers: the command moves from one side of the handle to the
\* other.
LEMMA AnswerStep ==
  ASSUME IInv, NEW w \in Thread, HwAnswer(w)
  PROVE  IInv'
<1>0. TInv /\ KeysInv /\ TagsInv /\ Running /\ (\A v \in Thread : HandleInv(v))
  BY DEF IInv, HwAnswer
<1> USE DEF control, counts, spsc
<1>1. PICK c \in busy[w], s \in {"ok", "error"} :
        /\ s = "error" => errors < MaxErrors
        /\ errors' = IF s = "error" THEN errors + 1 ELSE errors
        /\ busy' = [busy EXCEPT ![w] = @ \ {c}]
        /\ out' = [out EXCEPT ![w] = Append(@, [cmd |-> c, status |-> s])]
  BY Zenon DEF HwAnswer
<1>2. UNCHANGED <<control, exited, pc, waiting, keys, rsa_ciphertext, cnt, cur, user_data,
                  counts, spsc, joined>>
  BY DEF HwAnswer
<1>3. IsFiniteSet(busy[w]) BY <1>0 DEF HandleInv
<1>4. /\ Cardinality(busy[w]) \in Nat /\ Len(out[w]) \in Nat
      /\ out[w] \in Seq(Answer(operation_mode)) /\ busy[w] \subseteq Good(operation_mode)
  BY <1>0, <1>3, PendingType
<1>5. [cmd |-> c, status |-> s] \in Answer(operation_mode) BY <1>1, <1>4 DEF Answer
<1>6. LET q == Append(out[w], [cmd |-> c, status |-> s])
      IN  q \in Seq(Answer(operation_mode)) /\ Len(q) = Len(out[w]) + 1 /\ q # <<>>
  BY <1>4, <1>5, AppendProperties
<1>7. /\ IsFiniteSet(busy[w] \ {c})
      /\ Cardinality(busy[w] \ {c}) = Cardinality(busy[w]) - 1
  BY <1>1, <1>3, FS_RemoveElement
<1>8. /\ busy \in [Thread -> SUBSET Good(operation_mode)]
      /\ out \in [Thread -> Seq(Answer(operation_mode))]
      /\ errors \in 0 .. MaxErrors /\ MaxErrors \in Nat
  BY <1>0, BenchmarkAssumption, Zenon DEF TInv
<1>9. /\ busy'[w] = busy[w] \ {c}
      /\ out'[w] = Append(out[w], [cmd |-> c, status |-> s])
      /\ \A v \in Thread \ {w} : busy'[v] = busy[v] /\ out'[v] = out[v]
  BY <1>1, <1>8
<1>10. TInv'
  <2>1. /\ busy' \in [Thread -> SUBSET Good(operation_mode)]
        /\ out' \in [Thread -> Seq(Answer(operation_mode))]
    BY <1>1, <1>6, <1>8
  <2>2. errors' \in 0 .. MaxErrors BY <1>1, <1>8
  <2> QED BY <1>0, <1>2, <2>1, <2>2, Zenon DEF TInv
<1>11. ASSUME NEW v \in Thread PROVE HandleInv(v)'
  <2>1. CASE v # w BY <1>0, <1>2, <1>9, <2>1, HandleFrame
  <2>2. CASE v = w
    <3>1. /\ Pending(w)' = Cardinality(busy[w] \ {c}) + Len(out'[w])
          /\ Pending(w) = Cardinality(busy[w]) + Len(out[w])
      BY <1>9 DEF Pending
    <3>2. Pending(w)' = Pending(w)
      <4>1. (Cardinality(busy[w]) - 1) + (Len(out[w]) + 1) = Cardinality(busy[w]) + Len(out[w])
        BY <1>4, ShrinkByOne
      <4>2. Len(out'[w]) = Len(out[w]) + 1 BY <1>6, <1>9
      <4> QED BY <1>7, <3>1, <4>1, <4>2
    <3>3. HandleInv(w) BY <1>0
    <3> QED BY <1>2, <1>6, <1>7, <1>9, <2>2, <3>2, <3>3, Zenon DEF HandleInv
  <2> QED BY <2>1, <2>2
<1>12. ASSUME NEW v \in Started' PROVE Counts(v)'
  BY <1>2, <1>12 DEF IInv, Started, Counts, Id
<1>13. KeysInv' BY <1>0, <1>2, KeysSame
<1>14. TagsInv' BY <1>0, <1>2 DEF TagsInv
<1>15. ChecksPass' BY <1>2 DEF IInv, ChecksPass
<1> QED BY <1>10, <1>11, <1>12, <1>13, <1>14, <1>15 DEF IInv

\* A key derivation fails: the command is in the engine, and the worker gone.
LEMMA GiveUpStep ==
  ASSUME IInv, Running, NEW w \in Thread, NEW c \in Good(operation_mode),
         pc[w] = "submit", busy' = [busy EXCEPT ![w] = @ \cup {c}],
         pc' = [pc EXCEPT ![w] = "gave up"],
         UNCHANGED <<control, exited, waiting, keys, rsa_ciphertext, cnt, cur, user_data, out,
                     counts, spsc, errors, joined>>
  PROVE  IInv'
<1>0. TInv /\ KeysInv /\ TagsInv /\ (\A v \in Thread : HandleInv(v)) BY Zenon DEF IInv
<1> USE DEF control, counts, spsc
<1>1. /\ pc \in [Thread -> Place] /\ "gave up" \in Place
      /\ busy \in [Thread -> SUBSET Good(operation_mode)]
  BY <1>0, Zenon DEF TInv, Place
<1>2. /\ pc'[w] = "gave up" /\ busy'[w] = busy[w] \cup {c}
      /\ \A v \in Thread \ {w} : pc'[v] = pc[v] /\ busy'[v] = busy[v]
  BY <1>1, Zenon
<1>3. TInv'
  <2>1. pc' \in [Thread -> Place] /\ busy' \in [Thread -> SUBSET Good(operation_mode)] BY <1>1, Zenon
  <2> QED BY <1>0, <2>1, Zenon DEF TInv
<1>4. ASSUME NEW v \in Thread PROVE HandleInv(v)'
  <2>1. CASE v # w BY <1>0, <1>2, <2>1, HandleFrame, Zenon
  <2>2. CASE v = w
    <3>1. IsFiniteSet(busy[w] \cup {c})
      <4>1. IsFiniteSet(busy[w]) BY <1>0, Zenon DEF HandleInv
      <4> QED BY <4>1, FS_AddElement, Zenon
    <3> QED BY <1>2, <2>2, <3>1, Zenon DEF HandleInv, Before, Loop
  <2> QED BY <2>1, <2>2, Zenon
<1>5. ASSUME NEW v \in Started' PROVE Counts(v)'
  BY <1>5, Zenon DEF IInv, Started, Counts, Id
<1>6. KeysInv' BY <1>0, KeysFrame, Zenon DEF P3, Loop
<1>7. TagsInv' BY <1>0, TagsFrame, Zenon
<1>8. ChecksPass' BY Zenon DEF IInv, ChecksPass
<1> QED BY <1>3, <1>4, <1>5, <1>6, <1>7, <1>8, Zenon DEF IInv

-----------------------------------------------------------------------------
(* RSAworker before its loop, RANDworker, Producer.                        *)

\* The encryption is on the handle and not in the window.
LEMMA EncryptStep ==
  ASSUME IInv, NEW w \in Thread, RsaEncrypt(w)
  PROVE  IInv'
<1>0. TInv /\ KeysInv /\ TagsInv /\ Running /\ (\A v \in Thread : HandleInv(v))
  BY DEF IInv, RsaEncrypt
<1>1. CASE exited' = "refused" /\ UNCHANGED <<pc, busy>>
  BY <1>0, <1>1, ExitStep, Zenon DEF RsaEncrypt, TInv, spsc
<1>2. CASE /\ busy' = [busy EXCEPT ![w] = @ \cup {Command(w, "encrypt", 0, TRUE)}]
           /\ Goto(w, "malloc") /\ UNCHANGED exited
  <2> USE DEF control, counts, spsc
  <2> DEFINE c == Command(w, "encrypt", 0, TRUE)
  <2>1. /\ pc[w] = "encrypt" /\ busy' = [busy EXCEPT ![w] = @ \cup {c}]
        /\ pc' = [pc EXCEPT ![w] = "malloc"]
        /\ UNCHANGED <<control, exited, waiting, keys, rsa_ciphertext, cnt, cur, user_data, out,
                       counts, spsc, errors, joined>>
    BY <1>2 DEF RsaEncrypt, Goto
  <2>2. operation_mode = "RSA_DECRYPTION" BY <1>0, <2>1 DEF KeysInv
  <2>3. c \in Good(operation_mode) /\ c.n = cnt[w]
    <3>1. 0 \in Index BY ModIndex
    <3> QED BY <1>0, <2>2, <3>1, CommandGood, Zenon DEF Tls, Tagged
  <2> HIDE DEF c
  <2>4. /\ pc \in [Thread -> Place] /\ "malloc" \in Place
        /\ busy \in [Thread -> SUBSET Good(operation_mode)]
    BY <1>0, Zenon DEF TInv, Place
  <2>5. /\ pc'[w] = "malloc" /\ busy'[w] = busy[w] \cup {c}
        /\ \A v \in Thread \ {w} : pc'[v] = pc[v] /\ busy'[v] = busy[v]
    BY <2>1, <2>4
  <2>6. TInv'
    <3>1. pc' \in [Thread -> Place] /\ busy' \in [Thread -> SUBSET Good(operation_mode)]
      BY <2>1, <2>3, <2>4, Zenon
    <3> QED BY <1>0, <2>1, <3>1, Zenon DEF TInv
  <2>7. ASSUME NEW v \in Thread PROVE HandleInv(v)'
    <3>1. CASE v # w BY <1>0, <2>1, <2>5, <3>1, HandleFrame
    <3>2. CASE v = w
      <4>1. IsFiniteSet(busy[w]) /\ Pending(w) = 0 /\ cur[w] = 0
        BY <1>0, <2>1 DEF HandleInv, Before
      <4>2. busy[w] = {} BY <1>0, <4>1, PendingType
      <4>3. IsFiniteSet(busy'[w]) /\ Pending(w)' = Pending(w) + 1
        <5>1. \A d \in busy[w] : d.n < cnt[w] BY <4>2
        <5>2. out'[w] = out[w] BY <2>1
        <5> QED BY <1>0, <2>1, <2>3, <4>1, <5>1, <5>2, AddCommand, Zenon
      <4>4. Pending(w)' = 1 BY <4>1, <4>3
      <4> QED BY <2>1, <2>5, <3>2, <4>1, <4>3, <4>4 DEF HandleInv, Before, Loop
    <3> QED BY <3>1, <3>2
  <2>8. ASSUME NEW v \in Started' PROVE Counts(v)'
    BY <2>1, <2>8 DEF IInv, Started, Counts, Id
  <2>9. KeysInv' BY <1>0, <2>1, KeysFrame, Zenon DEF P3, Loop
  <2>10. TagsInv' BY <1>0, <2>1, TagsFrame, Zenon
  <2>11. ChecksPass' BY <2>1 DEF IInv, ChecksPass
  <2> QED BY <2>6, <2>7, <2>8, <2>9, <2>10, <2>11 DEF IInv
<1> QED BY <1>1, <1>2, Zenon DEF RsaEncrypt

\* The ciphertext is copied and the handle is empty when the loop begins.
LEMMA CopyStep ==
  ASSUME IInv, NEW w \in Thread, RsaCopy(w)
  PROVE  IInv'
<1>0. TInv /\ KeysInv /\ TagsInv /\ Running /\ (\A v \in Thread : HandleInv(v))
  BY DEF IInv, RsaCopy
<1> USE DEF control, counts, spsc
<1>1. /\ pc[w] = "copy" /\ pc' = [pc EXCEPT ![w] = "submit"]
      /\ out' = [out EXCEPT ![w] = Tail(@)]
      /\ rsa_ciphertext' \in {"ciphertext", "garbage"}
      /\ UNCHANGED <<control, exited, waiting, keys, cnt, cur, user_data, busy, counts,
                     spsc, errors, joined>>
  BY DEF RsaCopy, Goto
<1>2. operation_mode = "RSA_DECRYPTION" BY <1>0, <1>1 DEF KeysInv
<1>3. IsFiniteSet(busy[w]) /\ Pending(w) = 1 /\ cur[w] = 0 /\ out[w] # <<>>
  BY <1>0, <1>1 DEF HandleInv
<1>4. Cardinality(busy[w]) \in Nat /\ Len(out[w]) \in Nat /\ out[w] \in Seq(Answer(operation_mode))
  BY <1>0, <1>3, PendingType
<1>5. Tail(out[w]) \in Seq(Answer(operation_mode)) /\ Len(Tail(out[w])) = Len(out[w]) - 1
      /\ Len(out[w]) # 0
  BY <1>3, <1>4, HeadTailProperties, EmptySeq
<1>6. Pending(w) = Cardinality(busy[w]) + Len(out[w]) BY DEF Pending
<1>7. Cardinality(busy[w]) = 0 /\ Len(Tail(out[w])) = 0
  <2>1. Cardinality(busy[w]) + Len(out[w]) = 1 BY <1>3, <1>6
  <2>2. Cardinality(busy[w]) = 0 /\ Len(out[w]) - 1 = 0 BY <1>4, <1>5, <2>1, ShrinkByOne, Zenon
  <2> QED BY <1>5, <2>2
<1>8. busy[w] = {} BY <1>3, <1>7, FS_EmptySet
<1>9. /\ pc \in [Thread -> Place] /\ "submit" \in Place
      /\ out \in [Thread -> Seq(Answer(operation_mode))] /\ outstanding_cmd_num \in Nat
  BY <1>0, BenchmarkAssumption, Zenon DEF TInv, Place
<1>10. /\ pc'[w] = "submit" /\ out'[w] = Tail(out[w])
       /\ \A v \in Thread \ {w} : pc'[v] = pc[v] /\ out'[v] = out[v]
  BY <1>1, <1>9
<1>11. TInv'
  <2>1. pc' \in [Thread -> Place] /\ out' \in [Thread -> Seq(Answer(operation_mode))]
    BY <1>1, <1>5, <1>9
  <2> QED BY <1>0, <1>1, <2>1, Zenon DEF TInv
<1>12. ASSUME NEW v \in Thread PROVE HandleInv(v)'
  <2>1. CASE v # w BY <1>0, <1>1, <1>10, <2>1, HandleFrame
  <2>2. CASE v = w
    <3>1. Pending(w)' = Cardinality(busy[w]) + Len(Tail(out[w])) BY <1>1, <1>10, Zenon DEF Pending
    <3>2. Pending(w)' = 0 BY <1>7, <3>1
    <3>3. cur'[w] = 0 /\ busy'[w] = {} /\ pc'[w] = "submit" BY <1>1, <1>3, <1>8, <1>10, Zenon
    <3>4. 0 <= outstanding_cmd_num BY <1>9
    <3>5. IsFiniteSet(busy'[w]) BY <3>3, FS_EmptySet
    <3> QED BY <2>2, <3>2, <3>3, <3>4, <3>5 DEF HandleInv, Before, Loop
  <2> QED BY <2>1, <2>2
<1>13. ASSUME NEW v \in Started' PROVE Counts(v)'
  BY <1>1, <1>13 DEF IInv, Started, Counts, Id
<1>14. KeysInv' BY <1>0, <1>1, KeysFrame, Zenon DEF P3, Loop
<1>15. TagsInv' BY <1>0, <1>1, TagsFrame, Zenon
<1>16. ChecksPass' BY <1>1 DEF IInv, ChecksPass
<1> QED BY <1>11, <1>12, <1>13, <1>14, <1>15, <1>16 DEF IInv

\* A round of RANDworker: the three counters go together.
LEMMA RandStep ==
  ASSUME IInv, NEW w \in Thread, RandLoop(w)
  PROVE  IInv'
<1>0. TInv /\ KeysInv /\ TagsInv /\ Running /\ (\A v \in Thread : HandleInv(v))
  BY DEF IInv, RandLoop
<1> USE DEF control, spsc
<1>1. PICK step \in {0, 1} :
        /\ cnt' = [cnt EXCEPT ![w] = @ + step] /\ cur' = [cur EXCEPT ![w] = @ + step]
        /\ cmd_cnt' = [cmd_cnt EXCEPT ![w] = @ + step]
  BY Zenon DEF RandLoop
<1>2. PICK p \in {"submit", "print"} : pc' = [pc EXCEPT ![w] = p]
  BY DEF RandLoop, GoOn, Goto
<1>3. /\ operation_mode = "RAND" /\ pc[w] = "submit"
      /\ UNCHANGED <<control, exited, waiting, keys, rsa_ciphertext, user_data, busy, out,
                     ecdsa_done, ecdh_done, failed, spsc, errors, joined>>
  BY DEF RandLoop
<1>4. /\ pc \in [Thread -> Place] /\ p \in Place
      /\ cnt \in [Thread -> Nat] /\ cur \in [Thread -> Nat] /\ cmd_cnt \in [Thread -> Nat]
  BY <1>0, Zenon DEF TInv, Place
<1>5. /\ pc'[w] = p /\ cnt'[w] = cnt[w] + step /\ cur'[w] = cur[w] + step
      /\ cmd_cnt'[w] = cmd_cnt[w] + step
      /\ \A v \in Thread \ {w} : pc'[v] = pc[v] /\ cnt'[v] = cnt[v] /\ cur'[v] = cur[v]
                                 /\ cmd_cnt'[v] = cmd_cnt[v]
  BY <1>1, <1>2, <1>4
<1>6. TInv'
  <2>1. pc' \in [Thread -> Place] BY <1>2, <1>4
  <2>2. cnt' \in [Thread -> Nat] /\ cur' \in [Thread -> Nat] /\ cmd_cnt' \in [Thread -> Nat]
    BY <1>1, <1>4
  <2> QED BY <1>0, <1>3, <2>1, <2>2, Zenon DEF TInv
<1>7. ASSUME NEW v \in Thread PROVE HandleInv(v)'
  <2>1. CASE v # w BY <1>0, <1>3, <1>5, <2>1, HandleFrame
  <2>2. CASE v = w
    <3>1. IsFiniteSet(busy[w]) /\ Pending(w) = 0 BY <1>0, <1>3 DEF HandleInv, Loop
    <3>2. Pending(w)' = 0 BY <1>3, <3>1 DEF Pending
    <3> QED BY <1>3, <1>5, <2>2, <3>1, <3>2 DEF HandleInv, Before, Loop
  <2> QED BY <2>1, <2>2
<1>8. ASSUME NEW v \in Started' PROVE Counts(v)'
  <2>1. v \in Started /\ v \in Thread BY <1>0, <1>3, <1>8, StartedThreads DEF Started
  <2>2. cnt[v] = cmd_cnt[v] /\ cnt[v] = cur[v] BY <1>3, <2>1 DEF IInv, Counts
  <2>3. cnt'[v] = cmd_cnt'[v] /\ cnt'[v] = cur'[v] BY <1>5, <2>1, <2>2, Zenon
  <2> QED BY <1>3, <2>3 DEF Counts, Simple, Tls
<1>9. KeysInv' BY <1>0, <1>2, <1>3, KeysFrame, Zenon DEF P3, Loop
<1>10. TagsInv' BY <1>0, <1>2, <1>3, TagsFrame, Zenon
<1>11. ChecksPass' BY <1>3 DEF IInv, ChecksPass
<1> QED BY <1>6, <1>7, <1>8, <1>9, <1>10, <1>11 DEF IInv

\* The Producer adds a token to the ring, or finds it full.
LEMMA ProducerStep ==
  ASSUME IInv, Producer
  PROVE  IInv'
<1>0. TInv /\ KeysInv /\ TagsInv /\ Running /\ (\A v \in Thread : HandleInv(v))
  BY DEF IInv, Producer
<1> USE DEF control, counts
<1>1. /\ operation_mode = "SPSC"
      /\ UNCHANGED <<control, exited, pc, waiting, keys, rsa_ciphertext, cur, user_data, busy,
                     out, counts, ptr, errors, joined>>
  BY DEF Producer
<1>2. cnt' = cnt \/ (pc[0] = "submit" /\ cnt' = [cnt EXCEPT ![0] = 1]) BY DEF Producer
<1>3. cnt \in [Thread -> Nat] /\ 0 \in Thread BY <1>0, StartedThreads, Zenon DEF TInv
<1>4. cnt' \in [Thread -> Nat] BY <1>2, <1>3
<1>5. ring' \in Seq({"first", "later"})
  <2>1. ring \in Seq({"first", "later"}) BY <1>0, Zenon DEF TInv
  <2>2. ring' = ring \/ ring' = Append(ring, "first") \/ ring' = Append(ring, "later")
    BY DEF Producer
  <2> QED BY <2>1, <2>2, AppendProperties
<1>6. TInv' BY <1>0, <1>1, <1>4, <1>5, Zenon DEF TInv
<1>7. ASSUME NEW v \in Thread PROVE HandleInv(v)'
  <2>1. CASE cnt'[v] = cnt[v] BY <1>0, <1>1, <2>1, HandleFrame, Zenon
  <2>2. CASE cnt'[v] # cnt[v]
    <3>1. v = 0 /\ pc[0] = "submit" BY <1>2, <1>3, <2>2
    <3>2. IsFiniteSet(busy[0]) /\ Pending(0) = cur[0] /\ cur[0] <= outstanding_cmd_num
      BY <1>0, <1>1, <1>3, <3>1 DEF HandleInv, Loop
    <3>3. cur[0] = 0
      <4>1. 0 \in Started BY <1>1 DEF Started
      <4> QED BY <1>1, <4>1 DEF IInv, Counts
    <3>4. busy[0] = {} BY <1>0, <1>3, <3>2, <3>3, PendingType
    <3>5. Pending(0)' = Pending(0) BY <1>1 DEF Pending
    <3> QED BY <1>1, <3>1, <3>2, <3>3, <3>4, <3>5, Zenon DEF HandleInv, Before, Loop
  <2> QED BY <2>1, <2>2
<1>8. ASSUME NEW v \in Started' PROVE Counts(v)'
  <2>1. v \in Started /\ v \in Thread /\ Counts(v)
    BY <1>0, <1>1, <1>8, StartedThreads DEF Started, IInv
  <2>2. CASE v = 0 BY <1>1, <2>1, <2>2 DEF Counts, Simple
  <2>3. CASE v # 0
    <3>1. cnt'[v] = cnt[v] BY <1>2, <1>3, <2>1, <2>3
    <3> QED BY <1>1, <2>1, <3>1 DEF Counts, Id
  <2> QED BY <2>2, <2>3
<1>9. KeysInv' BY <1>0, <1>1, KeysSame
<1>10. TagsInv' BY <1>0, <1>1 DEF TagsInv
<1>11. ChecksPass' BY <1>1 DEF IInv, ChecksPass
<1> QED BY <1>6, <1>7, <1>8, <1>9, <1>10, <1>11 DEF IInv

-----------------------------------------------------------------------------
(* The actions, one kind after the other.                                  *)

\* The entry of a worker, up to the first barrier.
LEMMA Entering ==
  ASSUME IInv, NEW w \in Thread,
         \/ \E mode \in Keyed : Enter(w, mode)
         \/ RsaEnter(w) \/ RandEnter(w)
         \/ w = 1 /\ ConsumerEnter
         \/ w = 0 /\ ProducerEnter /\ pc[0] = "start"
  PROVE  IInv'
<1>0. TInv BY DEF IInv
<1>1. Running /\ pc[w] = "start" /\ BarrierWait(w, "barrier1")
  BY DEF Enter, RsaEnter, RandEnter, ConsumerEnter, ProducerEnter
<1>2. UNCHANGED <<control, exited, keys, rsa_ciphertext, cnt, cur, busy, out, errors, counts,
                  ptr, joined>>
  BY DEF Enter, RsaEnter, RandEnter, ConsumerEnter, ProducerEnter, work, spsc
<1>3. ring' \in Seq({"first", "later"})
  <2>1. ring \in Seq({"first", "later"}) /\ <<>> \in Seq({"first", "later"})
    BY <1>0, EmptySeq, Zenon DEF TInv
  <2>2. ring' = ring \/ ring' = <<>>
    BY <1>1 DEF Enter, RsaEnter, RandEnter, ConsumerEnter, ProducerEnter, spsc
  <2> QED BY <2>1, <2>2, Zenon
<1>4. user_data \in [Thread -> [Index -> Int]] /\ keys \in BOOLEAN BY <1>0, Zenon DEF TInv
<1>5. "barrier1" \in Barrier BY DEF Barrier
<1>6. CASE \E mode \in Keyed : Enter(w, mode)
  <2>1. user_data' = [user_data EXCEPT ![w] = [i \in Index |-> i]] BY <1>6 DEF Enter
  <2>2. [i \in Index |-> i] \in [Index -> Int] BY DEF Index
  <2>3. /\ user_data' \in [Thread -> [Index -> Int]]
        /\ \A v \in Thread \ {w} : user_data'[v] = user_data[v]
        /\ user_data'[w] = [i \in Index |-> i]
    BY <1>4, <2>1, <2>2
  <2>4. \A i \in Index : user_data'[w][i] = i BY <2>3
  <2> QED BY <1>1, <1>2, <1>3, <1>4, <1>5, <2>3, <2>4, BarrierStep, Zenon
<1>7. CASE ~\E mode \in Keyed : Enter(w, mode)
  <2>1. UNCHANGED user_data /\ operation_mode \notin Tagged
    BY <1>7 DEF RsaEnter, RandEnter, ConsumerEnter, ProducerEnter, work, Tagged
  <2> QED BY <1>1, <1>2, <1>3, <1>4, <1>5, <2>1, BarrierStep
<1> QED BY <1>6, <1>7

\* The keys are made, and the second barrier is reached.
LEMMA KeyMaking ==
  ASSUME IInv, NEW w \in Thread,
         \/ \E mode \in Keyed \cup {"RAND"} : MakeKeys(w, mode)
         \/ w = 1 /\ ConsumerKeys
         \/ w = 0 /\ ProducerEnter /\ pc[0] = "keys"
  PROVE  IInv'
<1>0. TInv BY DEF IInv
<1>1. Running /\ pc[w] = "keys" /\ BarrierWait(w, "barrier2")
  BY DEF MakeKeys, ConsumerKeys, ProducerEnter
<1>2. UNCHANGED <<control, exited, rsa_ciphertext, cnt, cur, user_data, busy, out, errors, counts,
                  ptr, joined, ring>>
  BY <1>1 DEF MakeKeys, ConsumerKeys, ProducerEnter, work, spsc
<1>3. /\ user_data \in [Thread -> [Index -> Int]] /\ keys \in BOOLEAN
      /\ ring \in Seq({"first", "later"})
  BY <1>0, Zenon DEF TInv
<1>4. keys' \in BOOLEAN /\ (keys => keys')
  BY <1>3, Zenon DEF MakeKeys, ConsumerKeys, ProducerEnter
<1>5. operation_mode \in Keyed /\ w = 0 => keys'
  BY Zenon DEF MakeKeys, ConsumerKeys, ProducerEnter, Keyed
<1>6. operation_mode = "SPSC" /\ w = 1 => keys'
  BY DEF MakeKeys, ConsumerKeys, ProducerEnter, Keyed
<1>7. "barrier2" \in Barrier BY DEF Barrier
<1> QED BY <1>1, <1>2, <1>3, <1>4, <1>5, <1>6, <1>7, BarrierStep

\* The steps that change only where a worker is.
LEMMA Moving ==
  ASSUME IInv, NEW w \in Thread,
         \/ StopSubmitting(w) \/ PrintStatistics(w) \/ RsaMalloc(w)
         \/ \E mode \in Simple \cup Keyed : Finish(w, mode)
         \/ \E mode \in Tls : TlsStopCollecting(w, mode)
         \/ w = 1 /\ ConsumerFinish /\ ptr # "later"
  PROVE  IInv'
<1>0. TInv BY DEF IInv
<1>1. /\ Running
      /\ UNCHANGED <<control, exited, waiting, keys, work, counts, spsc, joined>>
  BY Zenon DEF StopSubmitting, PrintStatistics, RsaMalloc, Finish, TlsStopCollecting, ConsumerFinish
<1>2. rsa_ciphertext' \in {"null", "empty", "ciphertext", "garbage"}
  BY <1>0, Zenon DEF TInv, StopSubmitting, PrintStatistics, RsaMalloc, Finish, TlsStopCollecting, ConsumerFinish
<1>3. pc \in [Thread -> Place] BY <1>0, Zenon DEF TInv
<1>4. \E p \in P3 \cup {"copy"} :
        /\ pc' = [pc EXCEPT ![w] = p]
        /\ \/ pc[w] \in Loop /\ p \in Loop
           \/ pc[w] \in Loop /\ p = "returned" /\ cur[w] = 0
           \/ pc[w] = "malloc" /\ p = "copy" /\ out[w] # <<>>
  <2>1. CASE StopSubmitting(w) BY <2>1 DEF StopSubmitting, Goto, P3, Loop
  <2>2. CASE PrintStatistics(w)
    <3>1. pc[w] = "print" /\ (pc' = pc \/ pc' = [pc EXCEPT ![w] = "submit"])
      BY <2>2 DEF PrintStatistics, StatRead, StatStore, StatTotal, StatSessions,
                  StatSessionTotal, Goto
    <3>2. pc = [pc EXCEPT ![w] = "print"] BY <1>3, <3>1
    <3> QED BY <3>1, <3>2 DEF P3, Loop
  <2>3. CASE RsaMalloc(w) BY <2>3, Zenon DEF RsaMalloc, Goto
  <2>4. CASE \E mode \in Simple \cup Keyed : Finish(w, mode)
    BY <2>4 DEF Finish, Goto, P3, Loop
  <2>5. CASE \E mode \in Tls : TlsStopCollecting(w, mode)
    BY <2>5 DEF TlsStopCollecting, GoOn, Goto, P3, Loop
  <2>6. CASE w = 1 /\ ConsumerFinish /\ ptr # "later"
    BY <2>6 DEF ConsumerFinish, Goto, P3, Loop
  <2> QED BY <2>1, <2>2, <2>3, <2>4, <2>5, <2>6, Zenon
<1> QED BY <1>1, <1>2, <1>4, MoveStep, Zenon

\* What the workers of a mode with keys submit, they submit with the keys.
LEMMA SubmitReady ==
  ASSUME TInv, KeysInv, NEW w \in Thread, pc[w] = "submit",
         operation_mode \in Keyed \/ (operation_mode = "SPSC" /\ w = 1)
  PROVE  keys
<1>1. CASE operation_mode = "SPSC" /\ w = 1 BY <1>1, Zenon DEF KeysInv, P3, Loop
<1>2. CASE operation_mode \in Keyed
  <2>1. w \in Started BY DEF KeysInv
  <2> QED BY <1>2, <2>1 DEF KeysInv, P1, P2
<1> QED BY <1>1, <1>2

\* A submission of the modes with keys: refused, accepted, or, in the mode
\* with a key derivation, given up.
LEMMA Submitting ==
  ASSUME IInv, Running, NEW w \in Thread, pc[w] = "submit", MaySubmit(w),
         operation_mode \in Keyed \/ (operation_mode = "SPSC" /\ w = 1),
         NEW slot \in Index, NEW op \in {"ecc_pt_mult", "mont_ecdh_mult", "ecdsa"},
         operation_mode \in Tls => op \in {"ecdsa", "mont_ecdh_mult"},
         operation_mode \in Tagged => slot = cnt[w] % outstanding_cmd_num,
         \/ Refused(w)
         \/ Accepted(w, Command(w, op, slot, keys))
         \/ /\ busy' = [busy EXCEPT ![w] = @ \cup {Command(w, op, slot, keys)}]
            /\ Goto(w, "gave up") /\ UNCHANGED <<exited, cnt, cur, ring, ptr>>,
         ring' \in Seq({"first", "later"}), ptr' \in {"own", "first", "later"},
         UNCHANGED <<control, waiting, keys, rsa_ciphertext, user_data, out, counts, errors,
                     joined>>
  PROVE  IInv'
<1>0. TInv /\ KeysInv BY Zenon DEF IInv
<1>1. keys = TRUE
  <2>1. keys BY <1>0, SubmitReady, Zenon
  <2>2. keys \in BOOLEAN BY <1>0, Zenon DEF TInv
  <2> QED BY <2>1, <2>2, Zenon
<1> DEFINE c == Command(w, op, slot, keys)
<1>2. c \in Good(operation_mode) /\ c.n = cnt[w]
  <2>1. op \in {"encrypt", "decrypt", "ecc_pt_mult", "mont_ecdh_mult", "ecdsa"} BY Zenon
  <2>2. Command(w, op, slot, TRUE) \in Good(operation_mode) /\ Command(w, op, slot, TRUE).n = cnt[w]
    BY <1>0, <2>1, CommandGood, Zenon
  <2> QED BY <1>1, <2>2, Zenon
<1> HIDE DEF c
<1>3. /\ user_data' \in [Thread -> [Index -> Int]] /\ user_data' = user_data
      /\ out' \in [Thread -> Seq(Answer(operation_mode))] /\ joined' \in Nat
  BY <1>0, Zenon DEF TInv
<1>4. operation_mode # "RAND" /\ ~(operation_mode = "SPSC" /\ w = 0)
  <2>1. CASE operation_mode \in Keyed BY <2>1, Zenon DEF Keyed
  <2>2. CASE operation_mode = "SPSC" /\ w = 1
    <3>1. w # 0 BY <2>2, ConsumerNotProducer, Zenon
    <3> QED BY <2>2, <3>1, Zenon
  <2> QED BY <2>1, <2>2, Zenon
<1>5. CASE Refused(w) BY <1>3, <1>5, ExitStep DEF Refused
<1>6. CASE Accepted(w, c) BY <1>2, <1>3, <1>4, <1>6, AcceptStep, Zenon
<1>7. CASE /\ busy' = [busy EXCEPT ![w] = @ \cup {c}]
           /\ Goto(w, "gave up") /\ UNCHANGED <<exited, cnt, cur, ring, ptr>>
  BY <1>2, <1>7, GiveUpStep, Zenon DEF Goto, spsc
<1> QED BY <1>5, <1>6, <1>7, Zenon DEF c

\* The submission of a decryption, with the shared ciphertext as it is.
LEMMA RsaSubmitting ==
  ASSUME IInv, NEW w \in Thread, RsaSubmit(w)
  PROVE  IInv'
<1>0. TInv BY DEF IInv
<1> DEFINE slot == cnt[w] % outstanding_cmd_num
           ready == rsa_ciphertext = "ciphertext"
           c == Command(w, "decrypt", slot, ready)
<1>1. cnt[w] \in Nat /\ cnt[w] \in Int
  <2>1. cnt \in [Thread -> Nat] BY <1>0, Zenon DEF TInv
  <2>2. cnt[w] \in Nat BY <2>1
  <2> QED BY <2>2
<1>2. slot \in Index BY <1>1, ModIndex
<1>3. ready \in BOOLEAN OBVIOUS
<1>4. /\ Running /\ operation_mode = "RSA_DECRYPTION" /\ pc[w] = "submit" /\ MaySubmit(w)
      /\ user_data' = [user_data EXCEPT ![w][slot] = cnt[w]]
      /\ Refused(w) \/ Accepted(w, c)
      /\ UNCHANGED <<control, waiting, keys, rsa_ciphertext, out, counts, spsc, errors, joined>>
  BY DEF RsaSubmit
<1>5. c \in Good(operation_mode) /\ c.n = cnt[w]
  <2> HIDE DEF slot, ready
  <2>1. operation_mode \notin Tls /\ operation_mode \notin Tagged BY <1>4 DEF Tls, Tagged
  <2> QED BY <1>0, <1>2, <1>3, <2>1, CommandGood
<1> HIDE DEF slot, ready, c
<1>6. user_data' \in [Thread -> [Index -> Int]]
  <2>1. user_data \in [Thread -> [Index -> Int]] BY <1>0, Zenon DEF TInv
  <2>2. [user_data[w] EXCEPT ![slot] = cnt[w]] \in [Index -> Int] BY <1>1, <2>1, Zenon
  <2>3. user_data' = [user_data EXCEPT ![w] = [user_data[w] EXCEPT ![slot] = cnt[w]]]
    BY <1>4, <2>1, Zenon
  <2> QED BY <2>1, <2>2, <2>3
<1>7. /\ out' \in [Thread -> Seq(Answer(operation_mode))] /\ joined' \in Nat
      /\ ring' \in Seq({"first", "later"}) /\ ptr' \in {"own", "first", "later"}
  BY <1>0, <1>4, Zenon DEF TInv, spsc
<1>8. operation_mode \notin Tagged BY <1>4 DEF Tagged
<1>9. CASE Refused(w) BY <1>4, <1>6, <1>7, <1>8, <1>9, ExitStep, Zenon DEF Refused
<1>10. CASE Accepted(w, c) BY <1>4, <1>5, <1>6, <1>7, <1>8, <1>10, AcceptStep
<1> QED BY <1>4, <1>9, <1>10

\* The arithmetic of an answer that is counted once.
LEMMA CountOnce ==
  ASSUME NEW a \in Nat, NEW e \in Nat, NEW b \in Nat
  PROVE  a = e + b => a = (e + 1) + (b - 1)
OBVIOUS

\* A counter that an answer may add to stays a number.
LEMMA CountUp ==
  ASSUME NEW e \in Nat, NEW x \in {0, 1}
  PROVE  e + x \in Nat /\ e + 1 \in Nat
OBVIOUS

\* The oldest answer of a handle that has one, and the ones behind it.
LEMMA OldestAnswer ==
  ASSUME TInv, NEW w \in Thread, out[w] # <<>>
  PROVE  /\ Head(out[w]) \in Answer(operation_mode)
         /\ [out EXCEPT ![w] = Tail(@)] \in [Thread -> Seq(Answer(operation_mode))]
<1>1. out \in [Thread -> Seq(Answer(operation_mode))] BY Zenon DEF TInv
<1>2. out[w] \in Seq(Answer(operation_mode)) BY <1>1
<1>3. Head(out[w]) \in Answer(operation_mode) /\ Tail(out[w]) \in Seq(Answer(operation_mode))
  BY <1>2, HeadTailProperties
<1> QED BY <1>1, <1>3

\* A comparison through the tag succeeds: the tag is the index of the operands.
LEMMA TagMatches ==
  ASSUME TInv, TagsInv, NEW w \in Thread, operation_mode \in Tagged,
         pc[w] = "collect", out[w] # <<>>
  PROVE  ~Mismatch(w, Head(out[w]).cmd)
<1> DEFINE c == Head(out[w]).cmd
<1>1. c \in Good(operation_mode) BY OldestAnswer DEF Answer
<1>2. c.ready /\ c.slot = c.idx /\ c.slot \in Index BY <1>1 DEF Good, CommandType
<1>3. user_data[w][c.slot] = c.slot BY <1>2 DEF TagsInv
<1> QED BY <1>2, <1>3 DEF Mismatch

\* An answer of the modes that count a failed command as done.
LEMMA SimpleCollecting ==
  ASSUME IInv, NEW w \in Thread, NEW mode \in Simple, NEW wrong,
         CollectOne(w, mode, wrong), mode \in Tagged => ~wrong
  PROVE  IInv'
<1>0. TInv BY DEF IInv
<1>1. /\ Running /\ operation_mode = mode /\ pc[w] = "collect" /\ out[w] # <<>>
      /\ out' = [out EXCEPT ![w] = Tail(@)]
      /\ UNCHANGED <<control, waiting, keys, rsa_ciphertext, cnt, user_data, busy, spsc, errors,
                     joined>>
  BY DEF CollectOne
<1>2. CASE Head(out[w]).status = "ok" /\ wrong
  <2>1. exited' = "mismatch" /\ UNCHANGED <<pc, cur, counts>> BY <1>2, Zenon DEF CollectOne
  <2>2. operation_mode = "RSA_DECRYPTION" /\ operation_mode \notin Tagged
    BY <1>1, <1>2 DEF Simple, Tagged
  <2>3. out' \in [Thread -> Seq(Answer(operation_mode))] BY <1>0, <1>1, OldestAnswer
  <2>4. /\ user_data' \in [Thread -> [Index -> Int]] /\ ring' \in Seq({"first", "later"})
        /\ ptr' \in {"own", "first", "later"} /\ joined' \in Nat
    BY <1>0, <1>1, Zenon DEF TInv, spsc
  <2> QED BY <1>1, <2>1, <2>2, <2>3, <2>4, ExitStep
<1>3. CASE ~(Head(out[w]).status = "ok" /\ wrong)
  <2>1. /\ cur' = [cur EXCEPT ![w] = @ - 1] /\ cmd_cnt' = [cmd_cnt EXCEPT ![w] = @ + 1]
        /\ UNCHANGED <<exited, ecdsa_done, ecdh_done>>
        /\ failed' = failed \/ failed' = [failed EXCEPT ![w] = @ + 1]
    BY <1>3 DEF CollectOne
  <2>2. PICK p \in Loop : pc' = [pc EXCEPT ![w] = p]
    BY <1>3 DEF CollectOne, GoOn, Goto, Loop
  <2>3. /\ cmd_cnt \in [Thread -> Nat] /\ failed \in [Thread -> Nat] /\ cur \in [Thread -> Nat]
        /\ ecdsa_done \in [Thread -> Nat] /\ ecdh_done \in [Thread -> Nat]
        /\ cnt \in [Thread -> Nat]
    BY <1>0, Zenon DEF TInv
  <2>4. cmd_cnt' \in [Thread -> Nat] /\ failed' \in [Thread -> Nat]
    <3>1. cmd_cnt[w] + 1 \in Nat /\ failed[w] + 1 \in Nat BY <2>3, CountUp
    <3> QED BY <2>1, <2>3, <3>1
  <2>5. ASSUME NEW v \in Started PROVE Counts(v)'
    <3>1. v \in Thread /\ Counts(v) BY <1>0, StartedThreads DEF IInv
    <3>2. /\ operation_mode' = mode /\ mode \in Simple /\ mode # "RAND"
          /\ mode # "SPSC" /\ mode \notin Tls /\ cnt' = cnt
      BY <1>1 DEF Simple, Tls, control
    <3>3. cnt[v] = cmd_cnt[v] + cur[v] BY <1>1, <3>1, Zenon DEF Counts
    <3>4. cnt[v] = cmd_cnt'[v] + cur'[v]
      <4>1. CASE v # w
        <5>1. cmd_cnt'[v] = cmd_cnt[v] /\ cur'[v] = cur[v] BY <2>1, <2>3, <3>1, <4>1
        <5> QED BY <3>3, <5>1
      <4>2. CASE v = w
        <5>1. cmd_cnt'[v] = cmd_cnt[v] + 1 /\ cur'[v] = cur[v] - 1 BY <2>1, <2>3, <3>1, <4>2
        <5>2. cnt[v] \in Nat /\ cmd_cnt[v] \in Nat /\ cur[v] \in Nat BY <2>3, <3>1
        <5>3. cnt[v] = (cmd_cnt[v] + 1) + (cur[v] - 1) BY <3>3, <5>2, CountOnce
        <5> QED BY <5>1, <5>3
      <4> QED BY <4>1, <4>2
    <3> QED BY <3>2, <3>4, Zenon DEF Counts
  <2>6. operation_mode # "RAND" BY <1>1 DEF Simple
  <2> QED BY <1>1, <2>1, <2>2, <2>3, <2>4, <2>5, <2>6, CollectStep, Zenon
<1> QED BY <1>2, <1>3

\* An answer of the TLS modes adds one to one of three counters: signatures,
\* multiplications, or, in the model only, failed commands.
LEMMA TlsCollecting ==
  ASSUME IInv, NEW w \in Thread, NEW mode \in Tls, TlsCollect(w, mode), mode = "SPSC" => w = 1
  PROVE  IInv'
<1>0. TInv BY DEF IInv
<1> DEFINE a == Head(out[w])
           x == IF a.status = "ok" /\ a.cmd.op = "ecdsa" THEN 1 ELSE 0
           y == IF a.status = "ok" /\ a.cmd.op = "mont_ecdh_mult" THEN 1 ELSE 0
           z == IF a.status = "ok" THEN 0 ELSE 1
<1>1. /\ Running /\ operation_mode = mode /\ pc[w] = "collect" /\ out[w] # <<>>
      /\ out' = [out EXCEPT ![w] = Tail(@)] /\ cur' = [cur EXCEPT ![w] = @ - 1]
      /\ ecdsa_done' = [ecdsa_done EXCEPT ![Id(w)] = @ + x]
      /\ ecdh_done' = [ecdh_done EXCEPT ![Id(w)] = @ + y]
      /\ failed' = [failed EXCEPT ![w] = @ + z]
      /\ UNCHANGED <<control, exited, pc, waiting, keys, rsa_ciphertext, cnt, user_data, busy,
                     cmd_cnt, spsc, errors, joined>>
  BY DEF TlsCollect
<1>2. x \in {0, 1} /\ y \in {0, 1} /\ z \in {0, 1} /\ x + y + z = 1
  <2>1. a \in Answer(operation_mode) BY <1>0, <1>1, OldestAnswer, Zenon
  <2>2. a.cmd.op \in {"ecdsa", "mont_ecdh_mult"} BY <1>1, <2>1 DEF Answer, Good
  <2> QED BY <2>2
<1> HIDE DEF x, y, z
<1>3. /\ cmd_cnt \in [Thread -> Nat] /\ failed \in [Thread -> Nat] /\ cur \in [Thread -> Nat]
      /\ ecdsa_done \in [Thread -> Nat] /\ ecdh_done \in [Thread -> Nat]
      /\ cnt \in [Thread -> Nat] /\ pc \in [Thread -> Place] /\ Id(w) \in Thread
  BY <1>0, Zenon DEF TInv, Id
<1>4. /\ cmd_cnt' \in [Thread -> Nat] /\ failed' \in [Thread -> Nat]
      /\ ecdsa_done' \in [Thread -> Nat] /\ ecdh_done' \in [Thread -> Nat]
  <2>1. ecdsa_done[Id(w)] + x \in Nat /\ ecdh_done[Id(w)] + y \in Nat /\ failed[w] + z \in Nat
    BY <1>2, <1>3, CountUp
  <2>2. cmd_cnt' \in [Thread -> Nat] BY <1>1, <1>3
  <2>3. failed' \in [Thread -> Nat] BY <1>1, <1>3, <2>1
  <2>4. ecdsa_done' \in [Thread -> Nat] BY <1>1, <1>3, <2>1
  <2>5. ecdh_done' \in [Thread -> Nat] BY <1>1, <1>3, <2>1
  <2> QED BY <2>2, <2>3, <2>4, <2>5
<1>5. ASSUME NEW v \in Started PROVE Counts(v)'
  <2>1. v \in Thread /\ Counts(v) BY <1>0, StartedThreads DEF IInv
  <2>2. /\ operation_mode' = mode /\ mode # "RAND" /\ mode \notin Simple /\ cnt' = cnt
        /\ Id(v)' = Id(v) /\ Id(v) \in Thread
    BY <1>0, <1>1, <2>1, Zenon DEF Simple, Tls, control, Id, TInv
  <2>3. CASE v # w
    <3>1. cur'[v] = cur[v] /\ failed'[v] = failed[v] BY <1>1, <1>3, <2>1, <2>3
    <3>2. CASE mode = "SPSC"
      <4>1. v = 0 BY <1>1, <2>3, <3>2 DEF Started
      <4> QED BY <1>1, <2>1, <2>2, <3>1, <3>2, <4>1 DEF Counts
    <3>3. CASE mode # "SPSC"
      <4>1. Id(v) # Id(w) BY <1>1, <2>3, <3>3 DEF Id
      <4>2. ecdsa_done'[Id(v)] = ecdsa_done[Id(v)] /\ ecdh_done'[Id(v)] = ecdh_done[Id(v)]
        BY <1>1, <1>3, <2>2, <4>1
      <4> QED BY <1>1, <2>1, <2>2, <3>1, <3>3, <4>2 DEF Counts
    <3> QED BY <3>2, <3>3
  <2>4. CASE v = w
    <3>1. ~(mode = "SPSC" /\ v = 0) BY <2>4, ConsumerNotProducer, Zenon
    <3>2. cnt[v] = ecdsa_done[Id(v)] + ecdh_done[Id(v)] + failed[v] + cur[v]
      BY <1>1, <2>1, <3>1 DEF Counts
    <3>3. /\ cnt[v] \in Nat /\ ecdsa_done[Id(v)] \in Nat /\ ecdh_done[Id(v)] \in Nat
          /\ failed[v] \in Nat /\ cur[v] \in Nat
      BY <1>3, <2>1, <2>2
    <3>4. cnt[v] = (ecdsa_done[Id(v)] + x) + (ecdh_done[Id(v)] + y) + (failed[v] + z) + (cur[v] - 1)
      <4>1. \/ x = 1 /\ y = 0 /\ z = 0
            \/ x = 0 /\ y = 1 /\ z = 0
            \/ x = 0 /\ y = 0 /\ z = 1
        BY <1>2
      <4>2. CASE x = 1 /\ y = 0 /\ z = 0
        <5>1. cnt[v] = (ecdsa_done[Id(v)] + 1) + (ecdh_done[Id(v)] + 0) + (failed[v] + 0) + (cur[v] - 1)
          BY <3>2, <3>3
        <5> QED BY <4>2, <5>1, Zenon
      <4>3. CASE x = 0 /\ y = 1 /\ z = 0
        <5>1. cnt[v] = (ecdsa_done[Id(v)] + 0) + (ecdh_done[Id(v)] + 1) + (failed[v] + 0) + (cur[v] - 1)
          BY <3>2, <3>3
        <5> QED BY <4>3, <5>1, Zenon
      <4>4. CASE x = 0 /\ y = 0 /\ z = 1
        <5>1. cnt[v] = (ecdsa_done[Id(v)] + 0) + (ecdh_done[Id(v)] + 0) + (failed[v] + 1) + (cur[v] - 1)
          BY <3>2, <3>3
        <5> QED BY <4>4, <5>1, Zenon
      <4> QED BY <4>1, <4>2, <4>3, <4>4, Zenon
    <3>5. /\ ecdsa_done'[Id(v)] = ecdsa_done[Id(v)] + x /\ ecdh_done'[Id(v)] = ecdh_done[Id(v)] + y
          /\ failed'[v] = failed[v] + z /\ cur'[v] = cur[v] - 1
      BY <1>1, <1>3, <2>4
    <3>6. cnt[v] = ecdsa_done'[Id(v)] + ecdh_done'[Id(v)] + failed'[v] + cur'[v]
      BY <3>4, <3>5, Zenon
    <3> QED BY <2>2, <3>1, <3>6 DEF Counts
  <2> QED BY <2>3, <2>4
<1>6. "collect" \in Loop /\ pc' = [pc EXCEPT ![w] = "collect"] BY <1>1, <1>3 DEF Loop
<1>7. operation_mode # "RAND" BY <1>1 DEF Tls
<1> QED BY <1>1, <1>4, <1>5, <1>6, <1>7, CollectStep, Zenon

\* The Consumer's submission, with or without a token from the ring.
LEMMA ConsumerSubmitting ==
  ASSUME IInv, ConsumerSubmit
  PROVE  IInv'
<1>0. TInv /\ 1 \in Thread BY StartedThreads DEF IInv
<1>1. ring' \in Seq({"first", "later"}) /\ ptr' \in {"own", "first", "later"}
  <2>1. ring \in Seq({"first", "later"}) /\ ptr \in {"own", "first", "later"} BY <1>0, Zenon DEF TInv
  <2>2. CASE ring = <<>> BY <2>1, <2>2 DEF ConsumerSubmit, spsc
  <2>3. CASE ring # <<>>
    <3>1. Tail(ring) \in Seq({"first", "later"}) /\ Head(ring) \in {"first", "later"}
      BY <2>1, <2>3, HeadTailProperties
    <3> QED BY <2>3, <3>1 DEF ConsumerSubmit
  <2> QED BY <2>2, <2>3
<1>2. 0 \in Index BY ModIndex
<1>3. TlsOp(cnt[1]) \in {"ecdsa", "mont_ecdh_mult"} BY DEF TlsOp
<1>4. /\ Running /\ operation_mode = "SPSC" /\ pc[1] = "submit" /\ MaySubmit(1)
      /\ Refused(1) \/ Accepted(1, Command(1, TlsOp(cnt[1]), 0, keys))
      /\ UNCHANGED <<control, waiting, keys, rsa_ciphertext, user_data, out, counts, errors, joined>>
  BY DEF ConsumerSubmit, TlsCommand
<1>5. operation_mode \notin Tagged BY <1>4 DEF Tagged
<1> QED BY <1>0, <1>1, <1>2, <1>3, <1>4, <1>5, Submitting, Zenon

\* The submissions of the workers of the modes with keys.
LEMMA WorkerSubmitting ==
  ASSUME IInv, NEW w \in Thread,
         \/ P256Submit(w) \/ X25519Submit(w) \/ EcdsaSubmit(w)
         \/ Tls13Submit(w) \/ HkdfSubmit(w)
  PROVE  IInv'
<1>0. TInv BY DEF IInv
<1>1. ring \in Seq({"first", "later"}) /\ ptr \in {"own", "first", "later"} /\ cnt[w] \in Nat
  BY <1>0, Zenon DEF TInv
<1>2. cnt[w] % outstanding_cmd_num \in Index /\ 0 \in Index BY <1>1, ModIndex
<1>3. ASSUME NEW mode \in Tagged, NEW op \in {"ecc_pt_mult", "mont_ecdh_mult", "ecdsa"},
             SubmitIndexed(w, mode, op)
      PROVE  IInv'
  <2>1. /\ Running /\ operation_mode = mode /\ pc[w] = "submit" /\ MaySubmit(w)
        /\ Refused(w) \/ Accepted(w, Command(w, op, cnt[w] % outstanding_cmd_num, keys))
        /\ UNCHANGED <<control, waiting, keys, rsa_ciphertext, user_data, out, counts, spsc, errors,
                       joined>>
    BY <1>3, Zenon DEF SubmitIndexed
  <2>2. operation_mode \in Keyed /\ operation_mode \notin Tls
    BY <2>1, Zenon DEF Keyed, Tagged, Tls
  <2>3. ring' = ring /\ ptr' = ptr BY <2>1 DEF spsc
  <2> QED BY <1>1, <1>2, <2>1, <2>2, <2>3, Submitting, Zenon
<1>4. CASE Tls13Submit(w) \/ HkdfSubmit(w)
  <2>1. /\ Running /\ operation_mode \in {"TLS13_ASYM", "TLS13_ASYM_HKDF"}
        /\ pc[w] = "submit" /\ MaySubmit(w)
        /\ UNCHANGED <<control, waiting, keys, rsa_ciphertext, user_data, out, counts, errors,
                       joined>>
    BY <1>4 DEF Tls13Submit, HkdfSubmit
  <2>2. ring' = ring /\ ptr' = ptr BY <1>4 DEF Tls13Submit, HkdfSubmit, spsc
  <2>3. \/ Refused(w)
        \/ Accepted(w, Command(w, TlsOp(cnt[w]), 0, keys))
        \/ /\ busy' = [busy EXCEPT ![w] = @ \cup {Command(w, TlsOp(cnt[w]), 0, keys)}]
           /\ Goto(w, "gave up") /\ UNCHANGED <<exited, cnt, cur, ring, ptr>>
    BY <1>4, <2>2, Zenon DEF Tls13Submit, HkdfSubmit, HkdfFails, TlsCommand
  <2>4. TlsOp(cnt[w]) \in {"ecdsa", "mont_ecdh_mult"} BY DEF TlsOp
  <2>5. operation_mode \in Keyed /\ operation_mode \notin Tagged BY <2>1 DEF Keyed, Tagged
  <2> QED BY <1>1, <1>2, <2>1, <2>2, <2>3, <2>4, <2>5, Submitting, Zenon
<1> QED BY <1>3, <1>4 DEF P256Submit, X25519Submit, EcdsaSubmit, Tagged

\* main joins a thread, and ends the process after the last.
LEMMA JoinStep ==
  ASSUME IInv, Join
  PROVE  IInv'
<1>0. TInv /\ Running BY Zenon DEF IInv, Join
<1>1. /\ joined' = joined + 1 /\ exited' = IF joined' = thread_num THEN "end" ELSE exited
      /\ UNCHANGED <<control, pc, waiting, keys, rsa_ciphertext, work, counts, spsc>>
  BY Zenon DEF Join
<1>2. joined' \in Nat
  <2>1. joined \in Nat BY <1>0, Zenon DEF TInv
  <2> QED BY <1>1, <2>1, CountUp
<1>3. CASE exited' = "end"
  BY <1>0, <1>1, <1>2, <1>3, ExitStep, Zenon DEF TInv, work, spsc
<1>4. CASE exited' = exited
  <2> USE DEF control, work, counts, spsc
  <2>1. TInv' BY <1>0, <1>1, <1>2, <1>4, Zenon DEF TInv
  <2>2. ASSUME NEW v \in Thread PROVE HandleInv(v)' BY <1>0, <1>1, HandleFrame, Zenon DEF IInv
  <2>3. ASSUME NEW v \in Started' PROVE Counts(v)' BY <1>1, <2>3 DEF IInv, Started, Counts, Id
  <2>4. KeysInv' BY <1>1, KeysSame DEF IInv
  <2>5. TagsInv' /\ ChecksPass' BY <1>1, <1>4 DEF IInv, TagsInv, ChecksPass
  <2> QED BY <2>1, <2>2, <2>3, <2>4, <2>5 DEF IInv
<1> QED BY <1>1, <1>3, <1>4

\* The Consumer's end with an entry that is no start of an allocation.
LEMMA BadFreeStep ==
  ASSUME IInv, ConsumerFinish, ptr = "later"
  PROVE  IInv'
<1>1. /\ exited' = "bad free"
      /\ UNCHANGED <<control, pc, waiting, keys, rsa_ciphertext, work, counts, spsc, joined>>
  BY Zenon DEF ConsumerFinish
<1>2. TInv BY DEF IInv
<1> QED BY <1>1, <1>2, ExitStep, Zenon DEF TInv, work, spsc

\* Nothing happens.
LEMMA StutterStep ==
  ASSUME IInv, UNCHANGED vars
  PROVE  IInv'
<1> USE DEF vars, control, work, counts, spsc
<1>1. TInv' BY Zenon DEF IInv, TInv
<1>2. ASSUME NEW v \in Thread, Running' PROVE HandleInv(v)'
  BY <1>2, HandleFrame, Zenon DEF IInv, Running
<1>3. ASSUME NEW v \in Started' PROVE Counts(v)' BY <1>3 DEF IInv, Started, Counts, Id
<1>4. KeysInv' BY KeysSame DEF IInv
<1>5. TagsInv' /\ ChecksPass' BY DEF IInv, TagsInv, ChecksPass
<1> QED BY <1>1, <1>2, <1>3, <1>4, <1>5 DEF IInv

-----------------------------------------------------------------------------
(* The invariant is inductive.                                             *)

\* main starts the threads with empty handles and no keys.
LEMMA InitInv == Init => IInv
<1> SUFFICES ASSUME Init PROVE IInv OBVIOUS
<1> USE DEF Init
<1>1. TInv
  <2>1. <<>> \in Seq(Answer(operation_mode)) /\ <<>> \in Seq({"first", "later"}) BY EmptySeq
  <2>2. pc \in [Thread -> Place] BY DEF Place
  <2>3. user_data \in [Thread -> [Index -> Int]] OBVIOUS
  <2>4. errors \in 0 .. MaxErrors BY BenchmarkAssumption
  <2> QED BY <2>1, <2>2, <2>3, <2>4, Zenon DEF TInv
<1>2. ASSUME NEW w \in Thread PROVE HandleInv(w)
  <2>1. busy[w] = {} /\ out[w] = <<>> /\ cur[w] = 0 /\ pc[w] \in {"start", "none"} OBVIOUS
  <2>2. IsFiniteSet({}) /\ Cardinality({}) = 0 /\ Len(<<>>) = 0 BY FS_EmptySet
  <2>3. IsFiniteSet(busy[w]) /\ Pending(w) = 0 BY <2>1, <2>2 DEF Pending
  <2> HIDE DEF Init
  <2> QED BY <2>1, <2>3 DEF HandleInv, Loop
<1>3. ASSUME NEW w \in Started PROVE Counts(w)
  <2>1. w \in Thread /\ Id(w) \in Thread BY <1>1, StartedThreads DEF Id, TInv
  <2>2. /\ cnt[w] = 0 /\ cur[w] = 0 /\ cmd_cnt[w] = 0 /\ failed[w] = 0
        /\ ecdsa_done[Id(w)] = 0 /\ ecdh_done[Id(w)] = 0
    BY <2>1
  <2> HIDE DEF Init
  <2> QED BY <2>2 DEF Counts
<1>4. KeysInv
  <2>1. Started \subseteq Thread /\ 0 \in Thread /\ 1 \in Thread BY <1>1, StartedThreads
  <2> QED BY <2>1, Zenon DEF KeysInv, P1, P3, Loop
<1>5. TagsInv BY DEF TagsInv
<1>6. ChecksPass BY DEF ChecksPass
<1> QED BY <1>1, <1>2, <1>3, <1>4, <1>5, <1>6 DEF IInv

\* Every step of a thread, of the engine and of main keeps the invariant.
LEMMA StepInv == IInv /\ [Next]_vars => IInv'
<1> SUFFICES ASSUME IInv, [Next]_vars PROVE IInv' OBVIOUS
<1>0. TInv /\ KeysInv /\ TagsInv BY DEF IInv
<1>1. ASSUME NEW w \in Thread, WorkerStep(w) PROVE IInv'
  <2>1. CASE StopSubmitting(w) \/ PrintStatistics(w) \/ RsaMalloc(w) BY <2>1, Moving
  <2>2. CASE RsaEnter(w) \/ RandEnter(w) BY <2>2, Entering
  <2>3. CASE RsaEncrypt(w) BY <2>3, EncryptStep
  <2>4. CASE RsaCopy(w) BY <2>4, CopyStep
  <2>5. CASE RsaSubmit(w) BY <2>5, RsaSubmitting
  <2>6. CASE RsaCollect(w)
    <3>1. "RSA_DECRYPTION" \in Simple /\ "RSA_DECRYPTION" \notin Tagged BY DEF Simple, Tagged
    <3> QED BY <2>6, <3>1, SimpleCollecting DEF RsaCollect
  <2>7. CASE P256Enter(w) \/ X25519Enter(w) \/ EcdsaEnter(w) \/ Tls13Enter(w) \/ HkdfEnter(w)
    BY <2>7, Entering DEF P256Enter, X25519Enter, EcdsaEnter, Tls13Enter, HkdfEnter, Keyed
  <2>8. CASE P256Keys(w) \/ X25519Keys(w) \/ EcdsaKeys(w) \/ Tls13Keys(w) \/ HkdfKeys(w) \/ RandKeys(w)
    BY <2>8, KeyMaking DEF P256Keys, X25519Keys, EcdsaKeys, Tls13Keys, HkdfKeys, RandKeys, Keyed
  <2>9. CASE \/ P256Submit(w) \/ X25519Submit(w) \/ EcdsaSubmit(w)
             \/ Tls13Submit(w) \/ HkdfSubmit(w)
    BY <2>9, WorkerSubmitting
  <2>10. ASSUME NEW mode \in Tagged, CollectOne(w, mode, Mismatch(w, Head(out[w]).cmd)) PROVE IInv'
    <3>1. operation_mode = mode /\ pc[w] = "collect" /\ out[w] # <<>> BY <2>10 DEF CollectOne
    <3>2. ~Mismatch(w, Head(out[w]).cmd) BY <1>0, <3>1, TagMatches
    <3>3. mode \in Simple BY DEF Tagged, Simple
    <3> QED BY <2>10, <3>2, <3>3, SimpleCollecting
  <2>11. CASE P256Collect(w) \/ X25519Collect(w) \/ EcdsaCollect(w)
    BY <2>10, <2>11 DEF P256Collect, X25519Collect, EcdsaCollect, Tagged
  <2>12. CASE RsaFinish(w) \/ P256Finish(w) \/ X25519Finish(w) \/ EcdsaFinish(w)
              \/ Tls13Finish(w) \/ HkdfFinish(w)
    BY <2>12, Moving DEF RsaFinish, P256Finish, X25519Finish, EcdsaFinish, Tls13Finish, HkdfFinish,
                         Simple, Keyed
  <2>13. CASE Tls13Collect(w) \/ HkdfCollect(w)
    BY <2>13, TlsCollecting DEF Tls13Collect, HkdfCollect, Tls
  <2>14. CASE Tls13Poll(w) \/ HkdfPoll(w) BY <2>14, Moving DEF Tls13Poll, HkdfPoll, Tls
  <2>15. CASE RandLoop(w) BY <2>15, RandStep
  <2> QED BY <1>1, <2>1, <2>2, <2>3, <2>4, <2>5, <2>6, <2>7, <2>8, <2>9, <2>11, <2>12, <2>13,
             <2>14, <2>15 DEF WorkerStep
<1>2. ASSUME NEW w \in Thread, SpscStep(w) PROVE IInv'
  <2>1. CASE w = 0 /\ ProducerEnter
    <3>1. pc[0] = "start" \/ pc[0] = "keys" BY <2>1 DEF ProducerEnter
    <3>2. CASE pc[0] = "start" BY <2>1, <3>2, Entering
    <3>3. CASE pc[0] = "keys" BY <2>1, <3>3, KeyMaking
    <3> QED BY <3>1, <3>2, <3>3
  <2>2. CASE Producer BY <2>2, ProducerStep
  <2>3. CASE w = 1 /\ ConsumerEnter BY <2>3, Entering
  <2>4. CASE w = 1 /\ ConsumerKeys BY <2>4, KeyMaking
  <2>5. CASE ConsumerSubmit BY <2>5, ConsumerSubmitting
  <2>6. CASE w = 1 /\ ConsumerCollect BY <2>6, TlsCollecting DEF ConsumerCollect, Tls
  <2>7. CASE w = 1 /\ ConsumerPoll BY <2>7, Moving DEF ConsumerPoll, Tls
  <2>8. CASE w = 1 /\ ConsumerFinish
    <3>1. CASE ptr = "later" BY <2>8, <3>1, BadFreeStep
    <3>2. CASE ptr # "later" BY <2>8, <3>2, Moving
    <3> QED BY <3>1, <3>2
  <2> QED BY <1>2, <2>1, <2>2, <2>3, <2>4, <2>5, <2>6, <2>7, <2>8 DEF SpscStep
<1>3. ASSUME NEW w \in Thread, HwAnswer(w) PROVE IInv' BY <1>3, AnswerStep
<1>4. CASE Join BY <1>4, JoinStep
<1>5. CASE UNCHANGED vars BY <1>5, StutterStep
<1> QED BY <1>1, <1>2, <1>3, <1>4, <1>5 DEF Next, ThreadStep, Ended

\* The invariant holds in every state of every run of the benchmark.
LEMMA Invariance == Spec => []IInv
BY InitInv, StepInv, PTL DEF Spec

-----------------------------------------------------------------------------
(* What the invariant says of the benchmark.                               *)

\* The commands on a handle are as the worker of the mode built them.
LEMMA CommandsGood ==
  ASSUME TInv, NEW w \in Thread
  PROVE  Commands(w) \subseteq Good(operation_mode)
<1>1. out[w] \in Seq(Answer(operation_mode)) /\ busy[w] \subseteq Good(operation_mode) BY Zenon DEF TInv
<1>2. \A i \in DOMAIN out[w] : out[w][i] \in Answer(operation_mode) BY <1>1
<1>3. \A a \in Answers(w) : a.cmd \in Good(operation_mode) BY <1>2 DEF Answers, Answer
<1> QED BY <1>1, <1>3 DEF Commands

\* Every variable of the benchmark keeps its type, and no counter of a worker
\* goes below zero, for any number of threads and any window.
THEOREM TypeCorrect == Spec => []TypeOK
<1>1. IInv => TypeOK
  <2> SUFFICES ASSUME IInv PROVE TypeOK OBVIOUS
  <2>1. TInv BY DEF IInv
  <2>2. \A w \in Thread : Commands(w) \subseteq CommandType BY <2>1, CommandsGood DEF Good
  <2>3. \A w \in Thread : user_data[w] \in [Index -> Int] BY <2>1, Zenon DEF TInv
  <2> QED BY <2>1, <2>2, <2>3, Zenon DEF TInv, TypeOK
<1> QED BY <1>1, Invariance, PTL

\* The counters of each worker add up to what it has submitted, in whatever
\* order and with whatever status the engine answers.
THEOREM CountsCorrect == Spec => []CountsExact
<1>1. IInv => CountsExact
  <2> SUFFICES ASSUME IInv PROVE CountsExact OBVIOUS
  <2>1. operation_mode \in Simple \cup Tls \cup {"RAND"} BY BenchmarkAssumption, Zenon DEF IInv, TInv
  <2>2. \A w \in Started : Counts(w) BY DEF IInv
  <2> QED BY <2>1, <2>2 DEF CountsExact, Counts, Simple, Tls
<1> QED BY <1>1, Invariance, PTL

\* The window of a worker is what its handle holds, and a worker that gives
\* the handle back leaves no command on it.
THEOREM HandleCorrect == Spec => []HandleDrained
<1>1. IInv => HandleDrained
  <2> SUFFICES ASSUME IInv, Running, NEW w \in Started
               PROVE  /\ pc[w] \in {"submit", "collect", "print"} =>
                           /\ cur[w] = Cardinality(busy[w]) + Len(out[w]) \/ operation_mode = "RAND"
                           /\ cur[w] <= outstanding_cmd_num \/ operation_mode = "RAND"
                      /\ pc[w] = "returned" => busy[w] = {} /\ out[w] = <<>>
    BY DEF HandleDrained
  <2>1. TInv /\ w \in Thread BY StartedThreads DEF IInv
  <2>2. HandleInv(w) BY <2>1 DEF IInv
  <2>3. pc[w] \in Loop => \/ operation_mode = "RAND"
                          \/ Pending(w) = cur[w] /\ cur[w] <= outstanding_cmd_num
    BY <2>2 DEF HandleInv
  <2>4. pc[w] = "returned" => busy[w] = {} /\ out[w] = <<>>
    <3>1. IsFiniteSet(busy[w]) /\ (pc[w] = "returned" => Pending(w) = 0) BY <2>2 DEF HandleInv
    <3> QED BY <2>1, <3>1, PendingType
  <2> QED BY <2>3, <2>4 DEF Loop, Pending
<1> QED BY <1>1, Invariance, PTL

\* The two barriers order the making of the keys before every use of them.
THEOREM KeysCorrect == Spec => []KeysFirst
<1>1. IInv => KeysFirst
  <2> SUFFICES ASSUME IInv, NEW w \in Started, NEW c \in Commands(w),
                      c.op \notin {"encrypt", "decrypt"}
               PROVE  c.ready
    BY DEF KeysFirst
  <2>1. TInv /\ w \in Thread BY StartedThreads DEF IInv
  <2>2. c \in Good(operation_mode) BY <2>1, CommandsGood
  <2> QED BY <2>2 DEF Good
<1> QED BY <1>1, Invariance, PTL

\* No comparison of P256worker, X25519worker or ECDSAworker stops the process:
\* the tag of a command names its operands whatever overtakes it.
THEOREM ChecksCorrect == Spec => []ChecksPass
<1>1. IInv => ChecksPass BY DEF IInv
<1> QED BY <1>1, Invariance, PTL
=============================================================================
