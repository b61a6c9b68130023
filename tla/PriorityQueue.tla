---------------------------- MODULE PriorityQueue ----------------------------
(***************************************************************************)
(* priorityqueue_heap.c: a heap in an array, the least priority at the     *)
(* root.  The array is a function from 0 .. n - 1; its memory is counted.  *)
(***************************************************************************)
EXTENDS Integers, FiniteSetsExt

CONSTANTS
  Data, Priorities, \* what is pushed: each datum once at a time
  LEAST             \* the least allocation (4 in the code)

VARIABLES
  pq_array, alloc,
  changed,  \* history: pq_changepriority() was called since it was empty
  inside    \* history: what was pushed and not popped

pqVars == <<pq_array, alloc, changed, inside>>

Elements == [data : Data, priority : Priorities]

Size(q) == Cardinality(DOMAIN q)

Init == pq_array = <<>> /\ alloc = LEAST /\ changed = FALSE /\ inside = {}

-----------------------------------------------------------------------------

\* The places that a loop comes by in n turns, from place a on
Passed(turn, a, n) ==
  LET at[k \in 0 .. n] == IF k = 0 THEN a ELSE turn[at[k - 1]]
  IN {at[k] : k \in 0 .. n}

Father(s) == (s - 1) \div 2

\* The places that the new element passes on its way up, and where it stays
Climb(q, e) ==
  Passed([s \in 0 .. Size(q) |->
            IF s > 0 /\ e.priority < q[Father(s)].priority THEN Father(s) ELSE s], Size(q), Size(q))

\* Fathers move down, the element takes the last place
Pushed(q, e) ==
  LET path == Climb(q, e) IN
  [s \in 0 .. Size(q) |-> IF s = Min(path) THEN e ELSE IF s \in path THEN q[Father(s)] ELSE q[s]]

pq_push(e) ==
  /\ \A f \in inside : f.data # e.data
  /\ alloc' = IF Size(pq_array) >= alloc THEN 2 * alloc ELSE alloc
  /\ pq_array' = Pushed(pq_array, e)
  /\ inside' = inside \cup {e}
  /\ UNCHANGED changed

Son_first(q, p) == 2 * p + 1                \* mutant: the sons are not compared

\* The son that takes the place of its father
Son(q, p) ==
  IF 2 * p + 2 > Size(q) - 1 \/ q[2 * p + 1].priority < q[2 * p + 2].priority
    THEN 2 * p + 1 ELSE 2 * p + 2

\* The fathers whose sons move up, and the last, that has none
Sunk(q) ==
  Passed([p \in DOMAIN q |-> IF 2 * p + 1 \in DOMAIN q THEN Son(q, p) ELSE p], 0, Size(q))

\* Sons move up to the last father; what is behind it is pushed again, each
\* element one place ahead of where it was
Adjusted(q) ==
  LET last == Max(Sunk(q))
      kept == [p \in 0 .. last - 1 |-> IF p \in Sunk(q) THEN q[Son(q, p)] ELSE q[p]]
      after[k \in 0 .. Size(q) - 1 - last] == IF k = 0 THEN kept ELSE Pushed(after[k - 1], q[last + k])
  IN after[Size(q) - 1 - last]

\* pq_adjusttree(), unless it was the only one
pq_pop ==
  /\ pq_array # <<>>
  /\ LET n == Size(pq_array) - 1 IN
     /\ pq_array' = IF n = 0 THEN <<>> ELSE Adjusted(pq_array)
     /\ alloc' = IF n > 0 /\ n < alloc \div 2 /\ n >= LEAST THEN alloc \div 2 ELSE alloc
     /\ changed' = (changed /\ n > 0)
  /\ inside' = {e \in inside : e.data # pq_array[0].data}

\* In place: the element does not move.  One that is not there ends the program.
pq_changepriority(data, priority) ==
  /\ \E i \in DOMAIN pq_array :
       /\ pq_array[i].data = data
       /\ pq_array' = [pq_array EXCEPT ![i].priority = priority]
  /\ inside' = {e \in inside : e.data # data} \cup {[data |-> data, priority |-> priority]}
  /\ changed' = TRUE
  /\ UNCHANGED alloc

Next ==
  \/ \E e \in Elements : pq_push(e)
  \/ pq_pop
  \/ \E e \in Elements : pq_changepriority(e.data, e.priority)

Spec == Init /\ [][Next]_pqVars

-----------------------------------------------------------------------------
(* Properties *)

\* The array is within its memory, which is not less than the least.
TypeOK ==
  /\ DOMAIN pq_array = 0 .. Size(pq_array) - 1 /\ \A i \in DOMAIN pq_array : pq_array[i] \in Elements
  /\ Size(pq_array) <= alloc /\ alloc >= LEAST

\* pq_push(), pq_pop(): through growing and shrinking no element is lost or
\* doubled, and as long as no priority has been changed in place the root, which
\* is popped next, has the least.
ServesLeast ==
  /\ {pq_array[i] : i \in DOMAIN pq_array} = inside /\ Size(pq_array) = Cardinality(inside)
  /\ ~changed /\ inside # {} => \A e \in inside : pq_array[0].priority <= e.priority
=============================================================================
