------------------------------- MODULE SjRing -------------------------------
(***************************************************************************)
(* ring.c: the lock-free ring through which a worker core hands PKA        *)
(* requests to core 0.  One thread enqueues and one thread dequeues; every *)
(* load and store of a shared word is a step of its own, so the two calls  *)
(* interleave at each of them.  The acquire loads and release stores of    *)
(* the code order the slot access before the index store, which is the     *)
(* program order kept here.                                                *)
(***************************************************************************)
EXTENDS Naturals, Sequences

CONSTANTS Obj,      \* pointers that are passed through the ring
          NoObj,    \* the zeroed slot
          Size      \* r->size

ASSUME SizeAssumption ==
  /\ Size \in Nat \ {0}
  /\ \E k \in 0..Size : Size = 2^k

ASSUME NoObjAssumption == NoObj \notin Obj

VARIABLES
  slots, head, tail,        \* the shared structure: r->ring, r->head, r->tail
  enq, et, eobj,            \* the enqueuing thread: its step, t and obj
  deq, dh, dobj,            \* the dequeuing thread: its step, h and *obj_p
  sent, got                 \* what the last enqueue and dequeue returned

prodVars == <<enq, et, eobj, sent>>
consVars == <<deq, dh, dobj, got>>
ringVars == <<slots, head, tail, prodVars, consVars>>

Slot == 0 .. Size - 1

\* Variants of the index arithmetic below, each with one slip: no full
\* test, one slot wasted, last object overlooked.
FullNever(t, h) == FALSE
FullEarly(t, h) == (t + 2) % Size = h
EmptyEarly(h, t) == h = t \/ (h + 1) % Size = t

\* (x + 1) & r->mask, for a size that is a power of two
Step(x) == (x + 1) % Size

\* The tests that make the two calls return SJ_ERROR.
Full(t, h) == Step(t) = h
Empty(h, t) == h = t

RingInit ==
  /\ slots = [i \in Slot |-> NoObj] /\ head = 0 /\ tail = 0
  /\ enq = "idle" /\ et = 0 /\ eobj = NoObj /\ sent = "none"
  /\ deq = "idle" /\ dh = 0 /\ dobj = NoObj /\ got = NoObj
-----------------------------------------------------------------------------
\* sj_ring_enqueue, one step per access to a shared word

EnqLoadTail(o) ==
  /\ enq = "idle"
  /\ et' = tail /\ eobj' = o /\ enq' = "loadHead"
  /\ UNCHANGED <<slots, head, tail, sent, consVars>>

EnqLoadHead ==
  /\ enq = "loadHead"
  /\ enq' = IF Full(et, head) THEN "refuse" ELSE "write"
  /\ UNCHANGED <<slots, head, tail, et, eobj, sent, consVars>>

EnqRefuse ==
  /\ enq = "refuse"
  /\ enq' = "idle" /\ sent' = "full"
  /\ UNCHANGED <<slots, head, tail, et, eobj, consVars>>

EnqWriteSlot ==
  /\ enq = "write"
  /\ slots' = [slots EXCEPT ![et] = eobj] /\ enq' = "publish"
  /\ UNCHANGED <<head, tail, et, eobj, sent, consVars>>

EnqStoreTail ==
  /\ enq = "publish"
  /\ tail' = Step(et) /\ enq' = "idle" /\ sent' = "ok"
  /\ UNCHANGED <<slots, head, et, eobj, consVars>>
-----------------------------------------------------------------------------
\* sj_ring_dequeue

DeqLoadHead ==
  /\ deq = "idle"
  /\ dh' = head /\ deq' = "loadTail"
  /\ UNCHANGED <<slots, head, tail, dobj, got, prodVars>>

DeqLoadTail ==
  /\ deq = "loadTail"
  /\ deq' = IF Empty(dh, tail) THEN "refuse" ELSE "read"
  /\ UNCHANGED <<slots, head, tail, dh, dobj, got, prodVars>>

DeqRefuse ==
  /\ deq = "refuse"
  /\ deq' = "idle" /\ got' = "empty"
  /\ UNCHANGED <<slots, head, tail, dh, dobj, prodVars>>

DeqReadSlot ==
  /\ deq = "read"
  /\ dobj' = slots[dh] /\ deq' = "publish"
  /\ UNCHANGED <<slots, head, tail, dh, got, prodVars>>

DeqStoreHead ==
  /\ deq = "publish"
  /\ head' = Step(dh) /\ deq' = "idle" /\ got' = dobj
  /\ UNCHANGED <<slots, tail, dh, dobj, prodVars>>
-----------------------------------------------------------------------------
Enqueuing == EnqLoadHead \/ EnqRefuse \/ EnqWriteSlot \/ EnqStoreTail
Dequeuing == DeqLoadHead \/ DeqLoadTail \/ DeqRefuse \/ DeqReadSlot \/ DeqStoreHead

RingNext == (\E o \in Obj : EnqLoadTail(o)) \/ Enqueuing \/ Dequeuing

RingSpec == RingInit /\ [][RingNext]_ringVars

\* A call that was entered runs on, and core 0 polls the ring for ever.
FairRingSpec == RingSpec /\ WF_ringVars(Enqueuing) /\ WF_ringVars(Dequeuing)
-----------------------------------------------------------------------------
\* How many slots lie between two indices, walking forward from h to t.
Dist(h, t) == IF h <= t THEN t - h ELSE (t + Size) - h

\* The objects in the ring, oldest first.
Content == [i \in 1 .. Dist(head, tail) |-> slots[(head + i - 1) % Size]]

Fifo == INSTANCE BoundedFifo WITH
  Capacity <- Size - 1,
  q <- Content,
  sent <- IF enq = "refuse" THEN "full" ELSE sent,
  got <- IF deq = "refuse" THEN "empty" ELSE got

RingTypeOK ==
  /\ slots \in [Slot -> Obj \cup {NoObj}] /\ head \in Slot /\ tail \in Slot
  /\ enq \in {"idle", "loadHead", "refuse", "write", "publish"}
  /\ et \in Slot /\ eobj \in Obj \cup {NoObj}
  /\ sent \in {"none", "ok", "full"}
  /\ deq \in {"idle", "loadTail", "refuse", "read", "publish"}
  /\ dh \in Slot /\ dobj \in Obj \cup {NoObj}
  /\ got \in Obj \cup {NoObj, "empty"}

\* Why the ring works: a thread that is inside its call still has the current
\* value of the index it owns; the room the producer saw, and the object the
\* consumer saw, are still there, because the other thread can only make more
\* of them; the occupied slots hold what was enqueued.
RingInv ==
  /\ RingTypeOK
  /\ enq # "idle" => et = tail /\ eobj \in Obj
  /\ enq \in {"write", "publish"} => ~Full(tail, head)
  /\ enq = "publish" => slots[tail] = eobj
  /\ deq # "idle" => dh = head
  /\ deq \in {"read", "publish"} => ~Empty(head, tail)
  /\ deq = "publish" => dobj = slots[head]
  /\ \A i \in Slot : Dist(head, i) < Dist(head, tail) => slots[i] \in Obj

\* The slot sj_ring_enqueue is about to store to (r->ring[t] = obj) is never
\* the slot sj_ring_dequeue is about to load (*obj_p = r->ring[h]): the two
\* threads never touch one slot at the same time although each decided on an
\* index of the other that may be stale by now.
NoSlotRace == ~(enq = "write" /\ deq = "read" /\ et = dh)

\* What sj_ring_dequeue hands back was put there by sj_ring_enqueue: the
\* consumer never returns a zeroed slot, however the two calls interleave.
NoZeroedObject == deq = "publish" => dobj \in Obj

\* Every behaviour of the ring is one of the bounded queue: calls take effect
\* in one instant (the store of tail, the store of head, or the load that
\* finds the ring full or empty), order is kept, nothing is lost or invented,
\* and at most Size - 1 objects fit.
RefinesFifo == Fifo!FifoSpec

\* An object sj_ring_enqueue stored is eventually returned by
\* sj_ring_dequeue, given that core 0 keeps polling.
Delivered ==
  \A o \in Obj : (\E i \in DOMAIN Content : Content[i] = o) ~> (got = o)
=============================================================================
