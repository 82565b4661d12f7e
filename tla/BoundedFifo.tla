---------------------------- MODULE BoundedFifo ----------------------------
(***************************************************************************)
(* What a submit ring between a worker core and the PKA core promises: a   *)
(* first-in first-out queue of at most Capacity objects, whose enqueue is  *)
(* refused only when it is full and whose dequeue is refused only when it  *)
(* is empty, each operation taking effect at one instant.                  *)
(***************************************************************************)
EXTENDS Naturals, Sequences

CONSTANTS Obj,        \* the objects that are passed
          Capacity,   \* how many fit
          NoObj       \* "nothing dequeued yet"

VARIABLES q,          \* the queued objects, oldest first
          sent,       \* result of the producer's last enqueue
          got         \* result of the consumer's last dequeue

fifoVars == <<q, sent, got>>

FifoInit == q = <<>> /\ sent = "none" /\ got = NoObj

Put(o) ==
  /\ Len(q) < Capacity
  /\ q' = Append(q, o)
  /\ sent' = "ok"
  /\ UNCHANGED got

PutRefused ==
  /\ Len(q) = Capacity
  /\ sent' = "full"
  /\ UNCHANGED <<q, got>>

Get ==
  /\ q # <<>>
  /\ q' = Tail(q)
  /\ got' = Head(q)
  /\ UNCHANGED sent

GetRefused ==
  /\ q = <<>>
  /\ got' = "empty"
  /\ UNCHANGED <<q, sent>>

FifoNext == (\E o \in Obj : Put(o)) \/ PutRefused \/ Get \/ GetRefused

FifoSpec == FifoInit /\ [][FifoNext]_fifoVars
=============================================================================
