----------------------------- MODULE SharedFifo -----------------------------
(***************************************************************************)
(* What the character device promises the processes that have it open: one *)
(* first in, first out queue of at most Capacity bytes, shared by all, and *)
(* emptied when the first process opens the device.                        *)
(***************************************************************************)
EXTENDS Naturals, Sequences

CONSTANTS Items, Capacity

VARIABLES queue, users

vars == <<queue, users>>

Init == queue = <<>> /\ users = 0

Open ==
  /\ users' = users + 1
  /\ queue' = IF users = 0 THEN <<>> ELSE queue

Release == users > 0 /\ users' = users - 1 /\ UNCHANGED queue

Put(x) == users > 0 /\ Len(queue) < Capacity /\ queue' = Append(queue, x) /\ UNCHANGED users

Get == users > 0 /\ queue # <<>> /\ queue' = Tail(queue) /\ UNCHANGED users

Next == Open \/ Release \/ Get \/ \E x \in Items : Put(x)

Spec == Init /\ [][Next]_vars
=============================================================================
