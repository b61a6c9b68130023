--------------------------- MODULE NonblockingList ---------------------------
(***************************************************************************)
(* The list of concurrency/blockfreelinkedlist.c: threads insert nodes     *)
(* with compare-and-swap, at the front (insertfirst) or by value           *)
(* (insertorder), and no node is ever removed.                             *)
(*                                                                         *)
(* Every load of *list or of a next field is a step of its own: the fields *)
(* are plain variables that other threads write, and the compiler may load *)
(* them again at each mention in the source.  value never changes.  main() *)
(* gives each thread five insertions in a row; here all run concurrently.  *)
(***************************************************************************)
EXTENDS Integers, FiniteSets

CONSTANTS
  Nodes,   \* the nodes calloc() returned, one insertion each
  Value,   \* value of each node
  NULL

ASSUME ListAssumption ==
  /\ Value \in [Nodes -> Int] /\ NULL \notin Nodes /\ IsFiniteSet(Nodes)

Ptr == Nodes \cup {NULL}

VARIABLES
  list,  \* the first node
  next,  \* the next field of each node
  pc,    \* where the insertion of each node is, in the thread that makes it
  ptr,   \* local ptr of insertorder, and the old value of the compare-and-swap
  prev,  \* local prev
  insert \* the function the threads call

vars == <<list, next, pc, ptr, prev, insert>>

Init ==
  /\ insert \in {"insertfirst", "insertorder"}
  /\ list = NULL
  /\ next = [n \in Nodes |-> NULL]
  /\ pc = [n \in Nodes |-> "start"]
  /\ ptr = [n \in Nodes |-> NULL] /\ prev = [n \in Nodes |-> NULL]

Goto(n, from, to) == pc[n] = from /\ pc' = [pc EXCEPT ![n] = to]

-----------------------------------------------------------------------------

\* if (!*list || (*list)->value > value), or insertfirst
Call(n) ==
  /\ Goto(n, "start", IF insert = "insertfirst" THEN "link" ELSE IF list = NULL THEN "recheck" ELSE "test")
  /\ UNCHANGED <<list, next, ptr, prev>>

Test(n) ==
  /\ Goto(n, "test", IF Value[list] > Value[n] THEN "recheck" ELSE "first")
  /\ UNCHANGED <<list, next, ptr, prev>>

\* if (*list && (*list)->value < value): the two mentions of *list
Recheck(n) ==
  /\ Goto(n, "recheck", IF list = NULL THEN "link" ELSE "recheck_value")
  /\ UNCHANGED <<list, next, ptr, prev>>

RecheckValue(n) ==
  /\ Goto(n, "recheck_value", IF Value[list] < Value[n] THEN "first" ELSE "link")
  /\ UNCHANGED <<list, next, ptr, prev>>

\* new->next = *list
Link(n) ==
  /\ Goto(n, "link", "swap")
  /\ next' = [next EXCEPT ![n] = list]
  /\ UNCHANGED <<list, ptr, prev>>

Swap_store(n) ==                            \* mutant: *list = new, nothing compared
  /\ Goto(n, "swap", "done")
  /\ list' = n
  /\ UNCHANGED <<next, ptr, prev>>

\* __sync_bool_compare_and_swap(list, new->next, new)
Swap(n) ==
  /\ pc[n] = "swap"
  /\ IF list = next[n]
       THEN pc' = [pc EXCEPT ![n] = "done"] /\ list' = n
       ELSE pc' = [pc EXCEPT ![n] = IF insert = "insertorder" THEN "recheck" ELSE "link"] /\ UNCHANGED list
  /\ UNCHANGED <<next, ptr, prev>>

\* ptr = (*list)->next, a load of *list and a load of its next
First(n) ==
  /\ Goto(n, "first", "first_next")
  /\ ptr' = [ptr EXCEPT ![n] = list]
  /\ UNCHANGED <<list, next, prev>>

FirstNext(n) ==
  /\ Goto(n, "first_next", "prev")
  /\ ptr' = [ptr EXCEPT ![n] = next[@]]
  /\ UNCHANGED <<list, next, prev>>

Prev_address(n) ==                          \* mutant: prev = (struct node *)list
  /\ Goto(n, "prev", "walk")
  /\ prev' = [prev EXCEPT ![n] = <<list>>]
  /\ UNCHANGED <<list, next, ptr>>

\* prev = *list, which may be another node by now
Prev(n) ==
  /\ Goto(n, "prev", "walk")
  /\ prev' = [prev EXCEPT ![n] = list]
  /\ UNCHANGED <<list, next, ptr>>

\* One turn of the while loop, or the end of it: new->next = ptr
Walk(n) ==
  /\ pc[n] = "walk"
  /\ IF ptr[n] # NULL /\ Value[ptr[n]] < Value[n]
       THEN /\ prev' = [prev EXCEPT ![n] = ptr[n]]
            /\ ptr' = [ptr EXCEPT ![n] = next[ptr[n]]]
            /\ UNCHANGED <<next, pc>>
       ELSE /\ next' = [next EXCEPT ![n] = ptr[n]]
            /\ pc' = [pc EXCEPT ![n] = "insert"]
            /\ UNCHANGED <<prev, ptr>>
  /\ UNCHANGED list

Insert_store(n) ==                          \* mutant: prev->next = new
  /\ Goto(n, "insert", "done")
  /\ next' = [next EXCEPT ![prev[n]] = n]
  /\ UNCHANGED <<list, ptr, prev>>

Insert_stale(n) ==                          \* mutant: the retry does not read the list again
  /\ pc[n] = "insert"
  /\ IF next[prev[n]] = ptr[n]
       THEN next' = [next EXCEPT ![prev[n]] = n] /\ pc' = [pc EXCEPT ![n] = "done"]
       ELSE pc' = [pc EXCEPT ![n] = "walk"] /\ UNCHANGED next
  /\ UNCHANGED <<list, ptr, prev>>

\* __sync_bool_compare_and_swap(&prev->next, ptr, new)
Insert(n) ==
  /\ pc[n] = "insert"
  /\ IF next[prev[n]] = ptr[n]
       THEN next' = [next EXCEPT ![prev[n]] = n] /\ pc' = [pc EXCEPT ![n] = "done"]
       ELSE pc' = [pc EXCEPT ![n] = "first"] /\ UNCHANGED next
  /\ UNCHANGED <<list, ptr, prev>>

Step(n) ==
  /\ \/ Call(n) \/ Test(n) \/ Recheck(n) \/ RecheckValue(n) \/ Link(n) \/ Swap(n)
     \/ First(n) \/ FirstNext(n) \/ Prev(n) \/ Walk(n) \/ Insert(n)
  /\ UNCHANGED insert

AllDone == \A n \in Nodes : pc[n] = "done"

\* main() joins the threads
Next == (\E n \in Nodes : Step(n)) \/ (AllDone /\ UNCHANGED vars)

Spec == Init /\ [][Next]_vars

\* Threads are scheduled.
FairSpec == Spec /\ \A n \in Nodes : WF_vars(Step(n))

-----------------------------------------------------------------------------
(* Properties *)

Locs == {"start", "test", "recheck", "recheck_value", "link", "swap",
         "first", "first_next", "prev", "walk", "insert", "done"}

\* The values each variable can hold.
TypeOK ==
  /\ list \in Ptr /\ next \in [Nodes -> Ptr] /\ pc \in [Nodes -> Locs]
  /\ ptr \in [Nodes -> Ptr] /\ prev \in [Nodes -> Ptr]
  /\ insert \in {"insertfirst", "insertorder"}

\* The k-th pointer of a walk along the list that starts at l
Walked(l, nx) == LET c[k \in 0 .. Cardinality(Nodes)] ==
                       IF k = 0 THEN l ELSE IF c[k - 1] = NULL THEN NULL ELSE nx[c[k - 1]]
                 IN c
Chain == Walked(list, next)
Linked == {Chain[k] : k \in 0 .. Cardinality(Nodes)} \ {NULL}

\* insertfirst(), insertorder(): the nodes on the list are exactly those whose
\* insertion succeeded; none is lost to a concurrent insertion and none shows up
\* before its compare-and-swap, and the list ends.
NoNodeLost ==
  /\ Linked = {n \in Nodes : pc[n] = "done"}
  /\ Chain[Cardinality(Nodes)] = NULL

\* A node on the list stays before every node it was before: an insertion
\* changes the order of nobody else.
Precedes(m, n) == \E j, k \in 0 .. Cardinality(Nodes) : j < k /\ Chain[j] = m /\ Chain[k] = n
OrderKeeps == \A m, n \in Nodes : Precedes(m, n) => Precedes(m, n)'
OrderIsStable == [][OrderKeeps]_vars

\* insertfirst(), insertorder(): every insertion ends, however often its
\* compare-and-swap fails, because each failure is the success of another one.
AllInserted == <>AllDone

\* insertorder(), "Another thread might have beat us and added a smaller node
\* in front": the list is in order of value all the same.
Sorted == insert = "insertorder" =>
  \A n \in Nodes : pc[n] = "done" /\ next[n] # NULL => Value[n] <= Value[next[n]]
=============================================================================
