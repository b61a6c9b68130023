---------------------------- MODULE BoundedFifo ----------------------------
(***************************************************************************)
(* What a ring buffer with one producer and one consumer promises: a first *)
(* in, first out queue of at most Capacity items that neither loses,       *)
(* repeats nor invents one.                                                *)
(***************************************************************************)
EXTENDS Naturals, Sequences

CONSTANTS
  Items,
  Capacity  \* a natural number

VARIABLE queue

Init == queue = <<>>

Put(x) == Len(queue) < Capacity /\ queue' = Append(queue, x)

Get == queue # <<>> /\ queue' = Tail(queue)

Next == Get \/ \E x \in Items : Put(x)

Spec == Init /\ [][Next]_queue
=============================================================================
