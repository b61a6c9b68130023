------------------------ MODULE NonblockingListProofs ------------------------
(***************************************************************************)
(* The list of concurrency/blockfreelinkedlist.c for any nodes and values: *)
(* no concurrent insertion is lost and none moves another node.            *)
(*                                                                         *)
(* The nodes on the list are laid out as a sequence s of length m; an      *)
(* insertion makes it one longer and keeps the order of the others.        *)
(***************************************************************************)
EXTENDS NonblockingList, FiniteSetTheorems, WellFoundedInduction, TLAPS

\* s lists the nodes whose insertion succeeded, each once, in the order of
\* the pointers.
Listed(m, s) ==
  /\ \A k \in 1 .. m : pc[s[k]] = "done"
  /\ \A n \in Nodes : pc[n] = "done" => \E k \in 1 .. m : s[k] = n
  /\ \A j, k \in 1 .. m : s[j] = s[k] => j = k
  /\ list = IF m = 0 THEN NULL ELSE s[1]
  /\ \A k \in 1 .. m : next[s[k]] = IF k = m THEN NULL ELSE s[k + 1]

Chained == \E m \in Nat : \E s \in [1 .. m -> Nodes] : Listed(m, s)

\* What an insertion knows of the list: it is not empty, prev is on it, and so
\* is ptr, unless it is the end.
OnList(n) == pc[n] = "done"
Stale ==
  \A n \in Nodes :
    /\ pc[n] \in {"test", "recheck_value", "first", "prev"} => list # NULL
    /\ pc[n] = "first_next" => OnList(ptr[n])
    /\ pc[n] = "first_next" => ptr[n] # NULL
    /\ pc[n] \in {"prev", "walk", "insert"} /\ ptr[n] # NULL => OnList(ptr[n])
    /\ pc[n] \in {"walk", "insert"} => prev[n] # NULL /\ OnList(prev[n])
    /\ pc[n] = "insert" => next[n] = ptr[n]

IInv == TypeOK /\ Chained /\ Stale

-----------------------------------------------------------------------------
(* Sequences with one more node *)

\* n comes after the p-th node.
With(m, s, p, n) ==
  [k \in 1 .. (m + 1) |-> IF k <= p THEN s[k] ELSE IF k = p + 1 THEN n ELSE s[k - 1]]

LEMMA Inserted ==
  ASSUME TypeOK, NEW m \in Nat, NEW s \in [1 .. m -> Nodes], Listed(m, s),
         NEW n \in Nodes, pc[n] # "done", pc' = [pc EXCEPT ![n] = "done"],
         NEW p \in 0 .. m, next[n] = (IF p = m THEN NULL ELSE s[p + 1]),
         \/ p = 0 /\ list' = n /\ next' = next
         \/ p > 0 /\ list' = list /\ next' = [next EXCEPT ![s[p]] = n]
  PROVE  /\ m + 1 \in Nat /\ With(m, s, p, n) \in [1 .. (m + 1) -> Nodes]
         /\ Listed(m + 1, With(m, s, p, n))'
<1> DEFINE w == With(m, s, p, n)
<1>1. w \in [1 .. (m + 1) -> Nodes]  BY DEF With
<1>2. \A k \in 1 .. m : s[k] \in Nodes /\ s[k] # n  BY DEF Listed
<1>3. \A k \in 1 .. p : w[k] = s[k]  BY DEF With
<1>4. w[p + 1] = n  BY DEF With
<1>5. \A k \in (p + 2) .. (m + 1) : w[k] = s[k - 1]  BY DEF With
<1>6. \A k \in 1 .. (m + 1) : k \in 1 .. p \/ k = p + 1 \/ k \in (p + 2) .. (m + 1)
  OBVIOUS
<1> HIDE DEF w
<1>7. \A k \in 1 .. (m + 1) : pc'[w[k]] = "done"
  BY <1>2, <1>3, <1>4, <1>5, <1>6 DEF TypeOK, Listed
<1>8. \A x \in Nodes : pc'[x] = "done" => \E k \in 1 .. (m + 1) : w[k] = x
  <2> SUFFICES ASSUME NEW x \in Nodes, pc'[x] = "done" PROVE \E k \in 1 .. (m + 1) : w[k] = x
    OBVIOUS
  <2>1. CASE x = n  BY <2>1, <1>4
  <2>2. CASE x # n
    <3>1. PICK k \in 1 .. m : s[k] = x  BY <2>2 DEF TypeOK, Listed
    <3>2. CASE k <= p  BY <3>1, <3>2, <1>3
    <3>3. CASE k > p
      <4>1. k + 1 \in (p + 2) .. (m + 1) /\ k + 1 \in 1 .. (m + 1)  BY <3>3
      <4>2. w[k + 1] = s[(k + 1) - 1]  BY <4>1, <1>5
      <4> QED  BY <3>1, <4>1, <4>2
    <3> QED  BY <3>2, <3>3
  <2> QED  BY <2>1, <2>2
<1>9. \A j, k \in 1 .. (m + 1) : w[j] = w[k] => j = k
  <2> SUFFICES ASSUME NEW j \in 1 .. (m + 1), NEW k \in 1 .. (m + 1), j < k, w[j] = w[k] PROVE FALSE
    OBVIOUS
  <2> DEFINE at(i) == IF i <= p THEN i ELSE i - 1
  <2>1. CASE j # p + 1 /\ k # p + 1
    <3>1. /\ at(j) \in 1 .. m /\ at(k) \in 1 .. m /\ at(j) # at(k)
          /\ w[j] = s[at(j)] /\ w[k] = s[at(k)]
      BY <2>1, <1>3, <1>5
    <3> HIDE DEF at
    <3> QED  BY <3>1 DEF Listed
  <2>2. CASE j = p + 1  BY <2>2, <1>2, <1>4, <1>5
  <2>3. CASE k = p + 1  BY <2>3, <1>2, <1>4, <1>3
  <2> QED  BY <2>1, <2>2, <2>3
<1>10. list' = w[1]
  <2>1. CASE p = 0  BY <2>1, <1>4
  <2>2. CASE p > 0  BY <2>2, <1>3 DEF Listed
  <2> QED  BY <2>1, <2>2
<1>11. \A k \in 1 .. (m + 1) : next'[w[k]] = IF k = m + 1 THEN NULL ELSE w[k + 1]
  <2>1. \A k \in 1 .. m : p # k => next'[s[k]] = next[s[k]]
    BY <1>2 DEF TypeOK, Listed
  <2>2. next'[n] = next[n]  BY <1>2 DEF TypeOK
  <2>3. p > 0 => next'[s[p]] = n  BY <1>2 DEF TypeOK
  <2>4. next'[w[p + 1]] = IF p + 1 = m + 1 THEN NULL ELSE w[p + 2]
    BY <2>2, <1>4, <1>5
  <2>5. ASSUME NEW k \in 1 .. p PROVE next'[w[k]] = w[k + 1]
    <3>1. CASE k = p  BY <3>1, <2>3, <1>3, <1>4
    <3>2. CASE k < p  BY <3>2, <2>1, <1>3 DEF Listed
    <3> QED  BY <3>1, <3>2
  <2>6. ASSUME NEW k \in (p + 2) .. (m + 1)
        PROVE  next'[w[k]] = IF k = m + 1 THEN NULL ELSE w[k + 1]
    <3>1. k - 1 \in 1 .. m /\ k - 1 # p /\ w[k] = s[k - 1]  BY <1>5
    <3>2. next'[w[k]] = IF k - 1 = m THEN NULL ELSE s[k - 1 + 1]  BY <3>1, <2>1 DEF Listed
    <3>3. CASE k = m + 1  BY <3>2, <3>3
    <3>4. CASE k < m + 1
      <4>1. k + 1 \in (p + 2) .. (m + 1)  BY <3>4
      <4> QED  BY <3>2, <3>4, <4>1, <1>5
    <3> QED  BY <3>3, <3>4
  <2> QED  BY <2>4, <2>5, <2>6, <1>6
<1> QED  BY <1>1, <1>7, <1>8, <1>9, <1>10, <1>11 DEF Listed, w

\* The same nodes in the same order, when no insertion succeeds
LEMMA Kept ==
  ASSUME TypeOK, NEW m \in Nat, NEW s \in [1 .. m -> Nodes], Listed(m, s), list' = list,
         \A n \in Nodes : (pc'[n] = "done" <=> pc[n] = "done"),
         \A n \in Nodes : pc[n] = "done" => next'[n] = next[n]
  PROVE  Listed(m, s)'
BY DEF Listed

-----------------------------------------------------------------------------
(* The walk along the list *)

\* A non-empty set of natural numbers has a least element.
LEMMA Smallest ==
  ASSUME NEW T \in SUBSET Nat, T # {}
  PROVE  \E m \in T : \A k \in T : m <= k
<1>1. IsWellFoundedOn(OpToRel(<, Nat), Nat)  BY NatLessThanWellFounded, Zenon
<1>2. PICK m \in T : \A k \in T : <<k, m>> \notin OpToRel(<, Nat)  BY <1>1, WFMin, Zenon
<1>3. \A k \in T : ~(k < m)  BY <1>2 DEF OpToRel
<1> QED  BY <1>3

\* From l, the fields nx lead through the distinct nodes s[1], ..., s[m].
Leads(l, nx, m, s) ==
  /\ \A j, k \in 1 .. m : s[j] = s[k] => j = k
  /\ l = (IF m = 0 THEN NULL ELSE s[1])
  /\ \A k \in 1 .. m : nx[s[k]] = IF k = m THEN NULL ELSE s[k + 1]

\* As many steps as there are nodes pass all of them.
Passed(l, nx, m, s) ==
  /\ Cardinality(Nodes) \in Nat /\ m <= Cardinality(Nodes)
  /\ \A k \in 0 .. Cardinality(Nodes) : Walked(l, nx)[k] = IF k < m THEN s[k + 1] ELSE NULL

\* A list of distinct nodes is no longer than there are nodes, and a walk
\* that starts at its first node passes them in turn and then stays at NULL.
LEMMA WalkPasses ==
  ASSUME NEW l, NEW nx, NEW m \in Nat, NEW s \in [1 .. m -> Nodes], Leads(l, nx, m, s)
  PROVE  Passed(l, nx, m, s)
<1> USE DEF Leads, Passed
<1> DEFINE C == Cardinality(Nodes)
           step(c) == [k \in 0 .. C |->
                         IF k = 0 THEN l ELSE IF c[k - 1] = NULL THEN NULL ELSE nx[c[k - 1]]]
           g == [k \in 0 .. C |-> IF k < m THEN s[k + 1] ELSE NULL]
           w == Walked(l, nx)
<1>1. C \in Nat /\ m <= C
  <2>1. s \in Injection(1 .. m, Nodes)  BY DEF Injection, IsInjective
  <2>2. Cardinality(1 .. m) = m  BY FS_Interval
  <2>3. IsFiniteSet(Nodes)  BY ListAssumption
  <2> QED  BY <2>1, <2>2, <2>3, FS_Injection, FS_CardinalityType
<1> HIDE DEF C
<1>2. g = step(g)
  <2>1. \A k \in 0 .. C : g[k] = step(g)[k]
    <3> SUFFICES ASSUME NEW k \in 0 .. C PROVE g[k] = step(g)[k]
      OBVIOUS
    <3>1. CASE k = 0  BY <3>1
    <3>2. CASE k # 0
      <4>1. k - 1 \in 0 .. C /\ (k - 1) + 1 = k  BY <1>1, <3>2
      <4>2. g[k - 1] = IF k - 1 < m THEN s[(k - 1) + 1] ELSE NULL  BY <4>1
      <4>3. g[k - 1] = IF k <= m THEN s[k] ELSE NULL  BY <4>1, <4>2
      <4>4. CASE k <= m
        <5>1. k \in 1 .. m /\ s[k] # NULL  BY <3>2, <4>4, ListAssumption
        <5>2. g[k - 1] = s[k]  BY <4>3, <4>4
        <5>3. step(g)[k] = nx[s[k]]  BY <3>2, <5>1, <5>2
        <5>4. nx[s[k]] = g[k]  BY <5>1
        <5> QED  BY <5>3, <5>4
      <4>5. CASE k > m  BY <3>2, <4>3, <4>5
      <4> QED  BY <4>4, <4>5
    <3> QED  BY <3>1, <3>2
  <2> QED  BY <2>1
<1>3. w = CHOOSE c : c = step(c)  BY Zenon DEF Walked, C
<1>4. w = step(w)
  <2> HIDE DEF g, step
  <2>1. (CHOOSE c : c = step(c)) = step(CHOOSE c : c = step(c))  BY <1>2, Zenon
  <2> QED  BY <1>3, <2>1, Zenon
<1> HIDE DEF w
<1>5. \A k \in 0 .. C : w[k] = g[k]
  <2> DEFINE Off == {k \in 0 .. C : w[k] # g[k]}
  <2> SUFFICES ASSUME Off # {} PROVE FALSE
    OBVIOUS
  <2>0. Off \in SUBSET Nat  BY <1>1
  <2>1. PICK k \in Off : \A j \in Off : k <= j
    <3> HIDE DEF Off
    <3> QED  BY <2>0, Smallest
  <2>2. k \in 0 .. C /\ w[k] = step(w)[k] /\ g[k] = step(g)[k] /\ w[k] # g[k]
    BY <1>2, <1>4, <2>1
  <2>3. k # 0
    <3>1. step(w)[0] = l /\ step(g)[0] = l  BY <1>1
    <3> HIDE DEF step, g
    <3> QED  BY <2>2, <3>1
  <2>4. k - 1 \in 0 .. C /\ k - 1 \notin Off  BY <1>1, <2>1, <2>3
  <2>5. w[k - 1] = g[k - 1]  BY <2>4
  <2>6. step(w)[k] = step(g)[k]
    <3> HIDE DEF g
    <3> QED  BY <2>2, <2>3, <2>5
  <2> QED  BY <2>2, <2>6
<1> QED  BY <1>1, <1>5 DEF C, w

-----------------------------------------------------------------------------
(* The steps *)

LEMMA InitIInv == Init => IInv
<1> SUFFICES ASSUME Init PROVE IInv
  OBVIOUS
<1>1. TypeOK /\ Stale  BY DEF Init, TypeOK, Stale, Locs, Ptr
<1>2. Chained
  <2>1. [k \in 1 .. 0 |-> NULL] \in [1 .. 0 -> Nodes]  OBVIOUS
  <2>2. Listed(0, [k \in 1 .. 0 |-> NULL])  BY DEF Listed, Init
  <2> QED  BY <2>1, <2>2 DEF Chained
<1> QED  BY <1>1, <1>2 DEF IInv

\* The list is empty or its first node is one whose insertion succeeded, and
\* so is what comes after one of them.
LEMMA Linking ==
  ASSUME TypeOK, Chained
  PROVE  /\ list # NULL => list \in Nodes /\ OnList(list)
         /\ \A d \in Nodes : OnList(d) => list # NULL /\ (next[d] # NULL => next[d] \in Nodes /\ OnList(next[d]))
<1> PICK m \in Nat : \E s \in [1 .. m -> Nodes] : Listed(m, s)  BY DEF Chained
<1> PICK s \in [1 .. m -> Nodes] : Listed(m, s)  OBVIOUS
<1>1. list # NULL => list \in Nodes /\ OnList(list)  BY DEF Listed, OnList
<1>2. ASSUME NEW d \in Nodes, OnList(d)
      PROVE  list # NULL /\ (next[d] # NULL => next[d] \in Nodes /\ OnList(next[d]))
  <2>1. PICK k \in 1 .. m : s[k] = d  BY <1>2 DEF Listed, OnList
  <2>2. 1 \in 1 .. m /\ list = s[1] /\ list \in Nodes
    <3>1. m # 0 /\ 1 \in 1 .. m  BY <2>1
    <3> QED  BY <3>1 DEF Listed
  <2>3. next[d] # NULL => k # m /\ next[d] = s[k + 1] /\ k + 1 \in 1 .. m  BY <2>1 DEF Listed
  <2>4. next[d] # NULL => next[d] \in Nodes /\ OnList(next[d])
    <3> SUFFICES ASSUME next[d] # NULL PROVE next[d] \in Nodes /\ OnList(next[d])
      OBVIOUS
    <3>1. pc[s[k + 1]] = "done" /\ s[k + 1] \in Nodes  BY <2>3 DEF Listed
    <3> QED  BY <2>3, <3>1 DEF OnList
  <2> QED  BY <2>2, <2>4, ListAssumption
<1> QED  BY <1>1, <1>2

\* No insertion succeeds: no pointer of the list is written.
Quiet ==
  /\ list' = list
  /\ \A n \in Nodes : (pc'[n] = "done" <=> pc[n] = "done")
  /\ \A n \in Nodes : pc[n] = "done" => next'[n] = next[n]

\* One insertion succeeds, after the p-th node.
Succeeds(m, s) ==
  \E n \in Nodes, p \in 0 .. m :
    /\ pc[n] # "done" /\ pc' = [pc EXCEPT ![n] = "done"]
    /\ next[n] = IF p = m THEN NULL ELSE s[p + 1]
    /\ \/ p = 0 /\ list' = n /\ next' = next
       \/ p > 0 /\ list' = list /\ next' = [next EXCEPT ![s[p]] = n]

LEMMA EachStep ==
  ASSUME IInv, [Next]_vars, NEW m \in Nat, NEW s \in [1 .. m -> Nodes], Listed(m, s)
  PROVE  TypeOK' /\ Stale' /\ (Quiet \/ Succeeds(m, s))
<1> USE DEF IInv
<1>1. CASE UNCHANGED vars \/ (AllDone /\ UNCHANGED vars)
  BY <1>1 DEF vars, Quiet, TypeOK, Stale, OnList
<1>2. ASSUME NEW n \in Nodes, Step(n) PROVE TypeOK' /\ Stale' /\ (Quiet \/ Succeeds(m, s))
  <2> USE DEF OnList
  <2>0. insert' = insert  BY <1>2 DEF Step
  <2>1. CASE Call(n) \/ Test(n) \/ Recheck(n) \/ RecheckValue(n)
    <3>1. /\ UNCHANGED <<list, next, ptr, prev>> /\ pc[n] # "done"
          /\ \E l \in {"link", "recheck", "test", "recheck_value", "first"} :
               pc' = [pc EXCEPT ![n] = l] /\ (l \in {"test", "recheck_value", "first"} => list # NULL)
      BY <2>1 DEF Call, Test, Recheck, RecheckValue, Goto, TypeOK, Stale
    <3> QED  BY <2>0, <3>1 DEF TypeOK, Stale, Quiet, Locs
  <2>2. CASE Link(n)
    BY <2>0, <2>2 DEF Link, Goto, TypeOK, Stale, Quiet, Locs, Ptr
  <2>3. CASE Swap(n)
    <3>1. CASE list = next[n]
      <4>1. pc[n] = "swap" /\ pc' = [pc EXCEPT ![n] = "done"] /\ list' = n /\ UNCHANGED <<next, ptr, prev>>
        BY <2>3, <3>1 DEF Swap
      <4>2. TypeOK' /\ Stale'  BY <2>0, <4>1, ListAssumption DEF TypeOK, Stale, Locs, Ptr
      <4>3. next[n] = IF 0 = m THEN NULL ELSE s[0 + 1]  BY <3>1 DEF Listed
      <4>4. 0 \in 0 .. m  OBVIOUS
      <4> QED  BY <4>1, <4>2, <4>3, <4>4, Zenon DEF Succeeds
    <3>2. CASE list # next[n]
      <4>1. UNCHANGED <<list, next, ptr, prev>> /\ pc[n] # "done"
            /\ \E l \in {"link", "recheck"} : pc' = [pc EXCEPT ![n] = l]
        BY <2>3, <3>2 DEF Swap
      <4> QED  BY <2>0, <4>1 DEF TypeOK, Stale, Quiet, Locs
    <3> QED  BY <3>1, <3>2
  <2>4. CASE First(n)
    <3>1. list \in Nodes /\ OnList(list)  BY <2>4, Linking DEF First, Goto, Stale
    <3> QED  BY <2>0, <2>4, <3>1, ListAssumption DEF First, Goto, TypeOK, Stale, Quiet, Locs, Ptr
  <2>5. CASE FirstNext(n)
    <3>1. ptr[n] \in Nodes /\ OnList(ptr[n])  BY <2>5 DEF FirstNext, Goto, TypeOK, Stale, Ptr
    <3>2. list # NULL /\ (next[ptr[n]] # NULL => OnList(next[ptr[n]]))  BY <3>1, Linking
    <3> QED  BY <2>0, <2>5, <3>1, <3>2 DEF FirstNext, Goto, TypeOK, Stale, Quiet, Locs, Ptr
  <2>6. CASE Prev(n)
    <3>1. list \in Nodes /\ OnList(list)  BY <2>6, Linking DEF Prev, Goto, Stale
    <3> QED  BY <2>0, <2>6, <3>1, ListAssumption DEF Prev, Goto, TypeOK, Stale, Quiet, Locs, Ptr
  <2>7. CASE Walk(n)
    <3>1. CASE ptr[n] # NULL /\ Value[ptr[n]] < Value[n]
      <4>1. ptr[n] \in Nodes /\ OnList(ptr[n]) /\ (next[ptr[n]] # NULL => OnList(next[ptr[n]]))
        BY <2>7, <3>1, Linking DEF Walk, TypeOK, Stale, Ptr
      <4> QED  BY <2>0, <2>7, <3>1, <4>1 DEF Walk, TypeOK, Stale, Quiet, Ptr
    <3>2. CASE ~(ptr[n] # NULL /\ Value[ptr[n]] < Value[n])
      <4>1. /\ pc[n] = "walk" /\ next' = [next EXCEPT ![n] = ptr[n]]
            /\ pc' = [pc EXCEPT ![n] = "insert"] /\ UNCHANGED <<list, prev, ptr>>
        BY <2>7, <3>2 DEF Walk
      <4> QED  BY <2>0, <4>1 DEF TypeOK, Stale, Quiet, Locs
    <3> QED  BY <3>1, <3>2
  <2>8. CASE Insert(n)
    <3>1. prev[n] \in Nodes /\ OnList(prev[n]) /\ next[n] = ptr[n]
      BY <2>8 DEF Insert, TypeOK, Stale, Ptr
    <3>2. CASE next[prev[n]] = ptr[n]
      <4>1. pc[n] = "insert" /\ pc' = [pc EXCEPT ![n] = "done"] /\ next' = [next EXCEPT ![prev[n]] = n]
            /\ UNCHANGED <<list, ptr, prev>>
        BY <2>8, <3>2 DEF Insert
      <4>2. TypeOK' /\ Stale'  BY <2>0, <3>1, <4>1, ListAssumption DEF TypeOK, Stale, Locs, Ptr
      <4>3. PICK p \in 1 .. m : s[p] = prev[n]  BY <3>1 DEF Listed
      <4>4. next[n] = IF p = m THEN NULL ELSE s[p + 1]  BY <3>1, <3>2, <4>3 DEF Listed
      <4>5. p \in 0 .. m /\ p > 0  OBVIOUS
      <4>6. pc[n] # "done" /\ next' = [next EXCEPT ![s[p]] = n]  BY <4>1, <4>3
      <4> QED  BY <4>1, <4>2, <4>4, <4>5, <4>6, Zenon DEF Succeeds
    <3>3. CASE next[prev[n]] # ptr[n]
      <4>1. list # NULL  BY <3>1, Linking
      <4>2. pc[n] = "insert" /\ pc' = [pc EXCEPT ![n] = "first"] /\ UNCHANGED <<list, next, ptr, prev>>
        BY <2>8, <3>3 DEF Insert
      <4> QED  BY <2>0, <4>1, <4>2 DEF TypeOK, Stale, Quiet, Locs
    <3> QED  BY <3>2, <3>3
  <2> QED  BY <1>2, <2>1, <2>2, <2>3, <2>4, <2>5, <2>6, <2>7, <2>8 DEF Step
<1> QED  BY <1>1, <1>2 DEF Next

LEMMA NextIInv == IInv /\ [Next]_vars => IInv'
<1> SUFFICES ASSUME IInv, [Next]_vars PROVE IInv'
  OBVIOUS
<1>0. PICK m \in Nat : \E s \in [1 .. m -> Nodes] : Listed(m, s)  BY DEF IInv, Chained
<1>1. PICK s \in [1 .. m -> Nodes] : Listed(m, s)  BY <1>0
<1>2. TypeOK' /\ Stale' /\ (Quiet \/ Succeeds(m, s))  BY <1>1, EachStep
<1>3. CASE Quiet
  <2>1. Listed(m, s)'  BY <1>1, <1>3, Kept DEF IInv, Quiet
  <2> QED  BY <1>2, <2>1 DEF IInv, Chained
<1>4. CASE Succeeds(m, s)
  <2>1. \E p \in 0 .. m, n \in Nodes :
          With(m, s, p, n) \in [1 .. (m + 1) -> Nodes] /\ Listed(m + 1, With(m, s, p, n))'
    BY <1>1, <1>4, Inserted DEF IInv, Succeeds
  <2> QED  BY <1>2, <2>1 DEF IInv, Chained
<1> QED  BY <1>2, <1>3, <1>4

-----------------------------------------------------------------------------
(* The theorems *)

\* The values of list, next and the locals of each insertion.
THEOREM ListTypeCorrect == Spec => []TypeOK
<1>1. IInv => TypeOK  BY DEF IInv
<1> QED  BY InitIInv, NextIInv, <1>1, PTL DEF Spec

\* A walk of as many steps as there are nodes passes the listed ones and ends.
LEMMA ListedChain ==
  ASSUME NEW m \in Nat, NEW s \in [1 .. m -> Nodes], Listed(m, s)
  PROVE  /\ Cardinality(Nodes) \in Nat /\ m <= Cardinality(Nodes)
         /\ \A k \in 0 .. Cardinality(Nodes) : Chain[k] = IF k < m THEN s[k + 1] ELSE NULL
<1>1. Leads(list, next, m, s)  BY DEF Listed, Leads
<1>2. Passed(list, next, m, s)  BY <1>1, WalkPasses, Zenon
<1> QED  BY <1>2, Zenon DEF Chain, Passed

LEMMA ChainedKeepsNodes == IInv => NoNodeLost
<1> SUFFICES ASSUME IInv PROVE NoNodeLost
  OBVIOUS
<1>0. PICK m \in Nat : \E s \in [1 .. m -> Nodes] : Listed(m, s)  BY DEF IInv, Chained
<1>1. PICK s \in [1 .. m -> Nodes] : Listed(m, s)  BY <1>0
<1> DEFINE C == Cardinality(Nodes)
<1>2. /\ C \in Nat /\ m <= C
      /\ \A k \in 0 .. C : Chain[k] = IF k < m THEN s[k + 1] ELSE NULL
  BY <1>1, ListedChain
<1> HIDE DEF C
<1>3. Chain[C] = NULL  BY <1>2
<1>4. ASSUME NEW n \in Nodes, pc[n] = "done" PROVE n \in Linked
  <2>1. PICK k \in 1 .. m : s[k] = n  BY <1>1, <1>4 DEF Listed
  <2>2. k - 1 \in 0 .. C /\ k - 1 < m /\ (k - 1) + 1 = k  BY <1>2
  <2>3. Chain[k - 1] = n  BY <1>2, <2>1, <2>2
  <2> QED  BY <2>2, <2>3, ListAssumption DEF Linked, C
<1>5. ASSUME NEW n \in Linked PROVE n \in Nodes /\ pc[n] = "done"
  <2>1. PICK k \in 0 .. C : Chain[k] = n /\ n # NULL  BY <1>5 DEF Linked, C
  <2>2. k < m /\ n = s[k + 1] /\ k + 1 \in 1 .. m  BY <1>2, <2>1
  <2> QED  BY <1>1, <2>2 DEF Listed
<1>6. Linked = {n \in Nodes : pc[n] = "done"}  BY <1>4, <1>5
<1> QED  BY <1>3, <1>6 DEF NoNodeLost, C

\* insertfirst(), insertorder(): whatever compare-and-swaps fail and however
\* stale the locals are, the list holds the nodes whose insertion succeeded,
\* all of them and no other, and ends.
THEOREM InsertionsKept == Spec => []NoNodeLost
BY InitIInv, NextIInv, ChainedKeepsNodes, PTL DEF Spec

\* Two nodes that follow each other in a sequence of distinct nodes
Before(l, s, a, b) == \E j, k \in 1 .. l : j < k /\ s[j] = a /\ s[k] = b

LEMMA ListedPrecedes ==
  ASSUME NEW m \in Nat, NEW s \in [1 .. m -> Nodes], Listed(m, s), NEW a \in Nodes, NEW b \in Nodes
  PROVE  Precedes(a, b) <=> Before(m, s, a, b)
<1> DEFINE C == Cardinality(Nodes)
<1>1. /\ C \in Nat /\ m <= C
      /\ \A k \in 0 .. C : Chain[k] = IF k < m THEN s[k + 1] ELSE NULL
  BY ListedChain
<1> HIDE DEF C
<1>2. ASSUME Precedes(a, b) PROVE Before(m, s, a, b)
  <2>1. PICK j \in 0 .. C, k \in 0 .. C : j < k /\ Chain[j] = a /\ Chain[k] = b
    BY <1>2 DEF Precedes, C
  <2>2. k < m /\ s[j + 1] = a /\ s[k + 1] = b  BY <1>1, <2>1, ListAssumption
  <2>3. j + 1 \in 1 .. m /\ k + 1 \in 1 .. m /\ j + 1 < k + 1  BY <2>1, <2>2
  <2> QED  BY <2>2, <2>3 DEF Before
<1>3. ASSUME Before(m, s, a, b) PROVE Precedes(a, b)
  <2>1. PICK j \in 1 .. m, k \in 1 .. m : j < k /\ s[j] = a /\ s[k] = b  BY <1>3 DEF Before
  <2>2. j - 1 \in 0 .. C /\ k - 1 \in 0 .. C /\ j - 1 < k - 1  BY <1>1, <2>1
  <2>3. Chain[j - 1] = s[(j - 1) + 1] /\ Chain[k - 1] = s[(k - 1) + 1]  BY <1>1, <2>2
  <2>4. Chain[j - 1] = a /\ Chain[k - 1] = b  BY <2>1, <2>3
  <2> QED  BY <2>2, <2>4 DEF Precedes, C
<1> QED  BY <1>2, <1>3

\* The same, as a formula that is true in every state
LEMMA ChainOrder ==
  \A m \in Nat : \A s \in [1 .. m -> Nodes] : Listed(m, s) =>
    \A a, b \in Nodes : Precedes(a, b) <=> Before(m, s, a, b)
BY ListedPrecedes

LEMMA StepKeepsOrder ==
  IInv /\ [Next]_vars => (\A a, b \in Nodes : Precedes(a, b) => Precedes(a, b)')
<1>1. (\A m \in Nat : \A s \in [1 .. m -> Nodes] : Listed(m, s) =>
         \A a, b \in Nodes : Precedes(a, b) <=> Before(m, s, a, b))'
  BY ChainOrder, PTL
<1> SUFFICES ASSUME IInv, [Next]_vars, NEW a \in Nodes, NEW b \in Nodes, Precedes(a, b)
             PROVE  Precedes(a, b)'
  OBVIOUS
<1>2. PICK m \in Nat : \E s \in [1 .. m -> Nodes] : Listed(m, s)  BY DEF IInv, Chained
<1>3. PICK s \in [1 .. m -> Nodes] : Listed(m, s)  BY <1>2
<1>4. Before(m, s, a, b)  BY <1>3, ListedPrecedes
<1>5. Quiet \/ Succeeds(m, s)  BY <1>3, EachStep
<1>6. CASE Quiet
  <2>1. Listed(m, s)'  BY <1>3, <1>6, Kept DEF IInv, Quiet
  <2> QED  BY <1>1, <1>4, <2>1
<1>7. CASE Succeeds(m, s)
  <2>1. PICK p \in 0 .. m, n \in Nodes :
          With(m, s, p, n) \in [1 .. (m + 1) -> Nodes] /\ Listed(m + 1, With(m, s, p, n))'
    BY <1>3, <1>7, Inserted DEF IInv, Succeeds
  <2>2. Before(m + 1, With(m, s, p, n), a, b)
    <3>1. PICK j \in 1 .. m, k \in 1 .. m : j < k /\ s[j] = a /\ s[k] = b  BY <1>4 DEF Before
    <3> DEFINE at(i) == IF i <= p THEN i ELSE i + 1
    <3>2. /\ at(j) \in 1 .. (m + 1) /\ at(k) \in 1 .. (m + 1) /\ at(j) < at(k)
          /\ With(m, s, p, n)[at(j)] = a /\ With(m, s, p, n)[at(k)] = b
      BY <3>1 DEF With
    <3> HIDE DEF at
    <3> QED  BY <3>2 DEF Before
  <2> DEFINE w == With(m, s, p, n)
  <2>3. m + 1 \in Nat /\ w \in [1 .. (m + 1) -> Nodes] /\ Listed(m + 1, w)' /\ Before(m + 1, w, a, b)
    BY <2>1, <2>2
  <2> HIDE DEF w
  <2> QED  BY <1>1, <2>3
<1> QED  BY <1>5, <1>6, <1>7

\* insertorder(), insertfirst(): a node once before another stays before it;
\* an insertion moves nobody.
THEOREM OrderKept == Spec => OrderIsStable
<1>1. IInv /\ [Next]_vars => [OrderKeeps]_vars
  BY StepKeepsOrder DEF OrderKeeps
<1> QED  BY InitIInv, NextIInv, <1>1, PTL DEF Spec, OrderIsStable

=============================================================================
