------------------------------ MODULE MpmcRing ------------------------------
(***************************************************************************)
(* The ring buffer for many producers and many consumers of                *)
(* concurrency/multiproducerconsumer_lockfree.c.  A thread draws a ticket  *)
(* with fetch-and-add, and waits until the slot of the ticket is its own.  *)
(* It decides that from the tickets the threads of the other side publish  *)
(* in thr_p_, and from last_head_ or last_tail_, a cached lower bound.     *)
(*                                                                         *)
(* push() and pop() mirror each other: the actions are written once, for   *)
(* the side of the thread.  Every access to shared memory is a step, in    *)
(* program order: the variables are volatile and a store followed by a     *)
(* locked instruction is visible before it.                                *)
(***************************************************************************)
EXTENDS Integers, FiniteSets

CONSTANTS
  NProducers,  \* n_producers_
  NConsumers,  \* n_consumers_
  Q_SIZE,      \* a power of two
  ULONG_MAX,   \* larger than every ticket
  MaxTickets   \* bound: tickets each side draws

ASSUME RingAssumption ==
  /\ NProducers \in Nat \ {0} /\ NConsumers \in Nat \ {0}
  /\ Q_SIZE \in Nat \ {0}
  /\ MaxTickets \in Nat /\ ULONG_MAX \in Nat
  /\ MaxTickets + NProducers + NConsumers < ULONG_MAX

Sides == {"push", "pop"}
Threads == {[side |-> "push", n |-> i] : i \in 0 .. (NProducers - 1)}
             \cup {[side |-> "pop", n |-> i] : i \in 0 .. (NConsumers - 1)}
Other(s) == IF s = "push" THEN "pop" ELSE "push"
Count(s) == IF s = "push" THEN NProducers ELSE NConsumers

VARIABLES
  next,   \* head_ ("push") and tail_ ("pop"): the next ticket of each side
  last,   \* last_head_ and last_tail_
  pos,    \* thr_p_[n].head of a producer, thr_p_[n].tail of a consumer
  array,  \* ptr_array_: the ticket of the item in each slot, -1 at first
  pc,
  reg,    \* the ticket, in a register or (it is thr_pos()'s own field) read back
  min,    \* local min
  i       \* local i

vars == <<next, last, pos, array, pc, reg, min, i>>

Init ==
  /\ next = [s \in Sides |-> 0] /\ last = [s \in Sides |-> 0]
  /\ pos = [t \in Threads |-> 0]      \* file scope: zero
  /\ array = [s \in 0 .. (Q_SIZE - 1) |-> -1]
  /\ pc = [t \in Threads |-> "idle"]
  /\ reg = [t \in Threads |-> 0] /\ min = [t \in Threads |-> 0] /\ i = [t \in Threads |-> 0]

Goto(t, from, to) == pc[t] = from /\ pc' = [pc EXCEPT ![t] = to]

-----------------------------------------------------------------------------

\* thr_pos().head = head_ is a load and a store: a lower bound of the ticket to come
Load(t) ==
  /\ Goto(t, "idle", "announce")
  /\ next[t.side] < MaxTickets
  /\ reg' = [reg EXCEPT ![t] = next[t.side]]
  /\ UNCHANGED <<next, last, pos, array, min, i>>

Announce_none(t) ==                         \* mutant: no lower bound is published
  /\ Goto(t, "announce", "draw")
  /\ UNCHANGED <<next, last, pos, array, reg, min, i>>

Announce(t) ==
  /\ Goto(t, "announce", "draw")
  /\ pos' = [pos EXCEPT ![t] = reg[t]]
  /\ UNCHANGED <<next, last, array, reg, min, i>>

\* __sync_fetch_and_add().  A side stops at MaxTickets plus its threads.
Draw(t) ==
  /\ Goto(t, "draw", "publish")
  /\ reg' = [reg EXCEPT ![t] = next[t.side]]
  /\ next' = [next EXCEPT ![t.side] = @ + 1]
  /\ UNCHANGED <<last, pos, array, min, i>>

Publish_early(t) ==                         \* mutant: the ticket is withdrawn before the access
  /\ Goto(t, "publish", "test")
  /\ pos' = [pos EXCEPT ![t] = ULONG_MAX]
  /\ UNCHANGED <<next, last, array, reg, min, i>>

Publish(t) ==
  /\ Goto(t, "publish", "test")
  /\ pos' = [pos EXCEPT ![t] = reg[t]]
  /\ UNCHANGED <<next, last, array, reg, min, i>>

MustWait_late(t) ==                         \* mutant: one ticket too far
  IF t.side = "push" THEN reg[t] > last["pop"] + Q_SIZE ELSE reg[t] >= last["push"]

\* The condition of the while loop: the slot is full, or empty, as far as known
MustWait(t) ==
  IF t.side = "push" THEN reg[t] >= last["pop"] + Q_SIZE ELSE reg[t] >= last["push"]

Test(t) ==
  /\ Goto(t, "test", IF MustWait(t) THEN "floor" ELSE "access")
  /\ UNCHANGED <<next, last, pos, array, reg, min, i>>

Floor_cached(t) ==                          \* mutant: auto min = last_tail_
  /\ Goto(t, "floor", "scan")
  /\ min' = [min EXCEPT ![t] = last[Other(t.side)]]
  /\ i' = [i EXCEPT ![t] = 0]
  /\ UNCHANGED <<next, last, pos, array, reg>>

\* auto min = tail_
Floor(t) ==
  /\ Goto(t, "floor", "scan")
  /\ min' = [min EXCEPT ![t] = next[Other(t.side)]]
  /\ i' = [i EXCEPT ![t] = 0]
  /\ UNCHANGED <<next, last, pos, array, reg>>

\* One turn of the for loop
Scan(t) ==
  /\ pc[t] = "scan" /\ i[t] < Count(Other(t.side))
  /\ LET tmp == pos[[side |-> Other(t.side), n |-> i[t]]]
     IN min' = [min EXCEPT ![t] = IF tmp < @ THEN tmp ELSE @]
  /\ i' = [i EXCEPT ![t] = @ + 1]
  /\ UNCHANGED <<next, last, pos, array, pc, reg>>

\* last_tail_ = min; threads overwrite each other's bound, also with an older one
SetLast(t) ==
  /\ Goto(t, "scan", "test")
  /\ i[t] = Count(Other(t.side))
  /\ last' = [last EXCEPT ![Other(t.side)] = min[t]]
  /\ UNCHANGED <<next, pos, array, reg, min, i>>

\* ptr_array_[head & Q_MASK] = ptr, or ret = ptr_array_[tail & Q_MASK]
Access(t) ==
  /\ Goto(t, "access", "clear")
  /\ array' = IF t.side = "push" THEN [array EXCEPT ![reg[t] % Q_SIZE] = reg[t]] ELSE array
  /\ UNCHANGED <<next, last, pos, reg, min, i>>

Clear_signed(t) ==                          \* mutant: -1 in a signed field
  /\ Goto(t, "clear", "idle")
  /\ pos' = [pos EXCEPT ![t] = -1]
  /\ reg' = [reg EXCEPT ![t] = 0] /\ min' = [min EXCEPT ![t] = 0] /\ i' = [i EXCEPT ![t] = 0]
  /\ UNCHANGED <<next, last, array>>

\* thr_pos().head = ULONG_MAX
Clear(t) ==
  /\ Goto(t, "clear", "idle")
  /\ pos' = [pos EXCEPT ![t] = ULONG_MAX]
  /\ reg' = [reg EXCEPT ![t] = 0] /\ min' = [min EXCEPT ![t] = 0] /\ i' = [i EXCEPT ![t] = 0]
  /\ UNCHANGED <<next, last, array>>

\* The loop of a thread that waits
Wait(t) == Test(t) \/ Floor(t) \/ Scan(t) \/ SetLast(t)
Operation(t) == Announce(t) \/ Draw(t) \/ Publish(t) \/ Wait(t) \/ Access(t) \/ Clear(t)

\* Every call of the bound has returned, or waits for a call beyond it.
Next == \E t \in Threads : Load(t) \/ Operation(t)

Spec == Init /\ [][Next]_vars

\* A thread inside push() or pop() is scheduled; none is obliged to call.
FairSpec == Spec /\ \A t \in Threads : WF_vars(Operation(t))

-----------------------------------------------------------------------------
(* Properties *)

Locs == {"idle", "announce", "draw", "publish", "test", "floor", "scan", "access", "clear"}

\* The values each variable can hold.
TypeOK ==
  /\ next \in [Sides -> Nat] /\ last \in [Sides -> Nat]
  /\ pos \in [Threads -> Nat]
  /\ array \in [0 .. (Q_SIZE - 1) -> Nat \cup {-1}]
  /\ pc \in [Threads -> Locs]
  /\ reg \in [Threads -> Nat] /\ min \in [Threads -> Nat] /\ i \in [Threads -> Nat]

\* A ticket drawn whose access is still to come
Pending(t) == pc[t] \in {"publish", "test", "floor", "scan", "access"}
Accessed(s, k) == k < next[s] /\ \A t \in Threads : t.side = s /\ Pending(t) => reg[t] # k

\* pop(): the slot read holds the item pushed under the same ticket, written
\* completely, and not one of another lap.
PopsWhatWasPushed ==
  \A t \in Threads : t.side = "pop" /\ pc[t] = "access" => array[reg[t] % Q_SIZE] = reg[t]

\* push(): the item that was in the slot one lap ago has been read, so nothing
\* is overwritten before a consumer had it.
OverwritesOnlyRead ==
  \A t \in Threads : t.side = "push" /\ pc[t] = "access" /\ reg[t] >= Q_SIZE =>
    Accessed("pop", reg[t] - Q_SIZE)

\* The cached bounds never run ahead: every ticket below last_head_ has been
\* written, every ticket below last_tail_ read, although threads compute them
\* from stale values and store them in any order.
BoundsAreSafe == \A s \in Sides : \A k \in 0 .. (last[s] - 1) : Accessed(s, k)

\* push() and pop(): once every thread made a first call, a thread returns when
\* its ticket's partner was drawn, the item's or the one a lap ago: the threads
\* that spin do not block each other.
AllCalled == \A t \in Threads : pc[t] # "idle" \/ pos[t] = ULONG_MAX
Partnered(t) == IF t.side = "push" THEN reg[t] < next["pop"] + Q_SIZE ELSE reg[t] < next["push"]
OperationReturns ==
  \A t \in Threads : Pending(t) /\ Partnered(t) /\ AllCalled ~> pc[t] = "idle"
=============================================================================
