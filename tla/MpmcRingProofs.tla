--------------------------- MODULE MpmcRingProofs ---------------------------
(***************************************************************************)
(* Theorems about MpmcRing, for every number of threads and ring size.     *)
(***************************************************************************)
EXTENDS MpmcRing, TLAPS

LEMMA DivMod ==
  ASSUME NEW n \in Nat, NEW q \in Nat, q > 0
  PROVE  n = q * (n \div q) + (n % q) /\ n \div q \in Int /\ n % q \in 0 .. (q - 1)
<1>1. n = q * (n \div q) + (n % q)
  OBVIOUS
<1>2. n \div q \in Int /\ n % q \in 0 .. (q - 1)
  OBVIOUS
<1> QED  BY <1>1, <1>2

USE RingAssumption

LEMMA Side ==
  /\ \A s \in Sides : Other(s) \in Sides /\ Other(s) # s
  /\ \A t \in Threads : t.side \in Sides
  BY DEF Sides, Other, Threads

LEMMA ThreadAt ==
  ASSUME NEW s \in Sides, NEW n \in Nat, n < Count(s)
  PROVE  [side |-> s, n |-> n] \in Threads
  BY DEF Sides, Count, Threads

LEMMA ThreadIs ==
  ASSUME NEW t \in Threads
  PROVE  t.n \in Nat /\ t.n < Count(t.side) /\ t = [side |-> t.side, n |-> t.n]
  BY DEF Count, Threads

LEMMA TypeInit == Init => TypeOK
  BY Side DEF Init, TypeOK, Locs

LEMMA TypeStep == TypeOK /\ [Next]_vars => TypeOK'
<1> SUFFICES ASSUME TypeOK, [Next]_vars PROVE TypeOK'
  OBVIOUS
<1> USE Side DEF TypeOK, Goto, Locs
<1>1. ASSUME NEW t \in Threads, Load(t) PROVE TypeOK'
  BY <1>1 DEF Load
<1>2. ASSUME NEW t \in Threads, Announce(t) PROVE TypeOK'
  BY <1>2 DEF Announce
<1>3. ASSUME NEW t \in Threads, Draw(t) PROVE TypeOK'
  BY SMTT(40), <1>3 DEF Draw
<1>4. ASSUME NEW t \in Threads, Publish(t) PROVE TypeOK'
  BY <1>4 DEF Publish
<1>5. ASSUME NEW t \in Threads, Test(t) PROVE TypeOK'
  BY <1>5 DEF Test
<1>6. ASSUME NEW t \in Threads, Floor(t) PROVE TypeOK'
  BY <1>6 DEF Floor
<1>7. ASSUME NEW t \in Threads, Scan(t) PROVE TypeOK'
  <2>1. [side |-> Other(t.side), n |-> i[t]] \in Threads
    BY <1>7, ThreadAt DEF Scan
  <2> QED  BY SMTT(40), <1>7, <2>1 DEF Scan
<1>8. ASSUME NEW t \in Threads, SetLast(t) PROVE TypeOK'
  BY <1>8 DEF SetLast
<1>9. ASSUME NEW t \in Threads, Access(t) PROVE TypeOK'
  <2>1. reg[t] % Q_SIZE \in 0 .. (Q_SIZE - 1)
    OBVIOUS
  <2> QED  BY <1>9, <2>1 DEF Access
<1>10. ASSUME NEW t \in Threads, Clear(t) PROVE TypeOK'
  BY <1>10 DEF Clear
<1>11. CASE UNCHANGED vars
  BY <1>11 DEF vars
<1> QED
  BY <1>1, <1>2, <1>3, <1>4, <1>5, <1>6, <1>7, <1>8, <1>9, <1>10, <1>11 DEF Next, Operation, Wait

\* Every reachable state has the types of the declarations.
THEOREM RingTypeCorrect == Spec => []TypeOK
  BY TypeInit, TypeStep, PTL DEF Spec

-----------------------------------------------------------------------------
(* The cached bounds.  A thread publishes a lower bound of its ticket      *)
(* before it draws it; a thread that scans has a bound that no ticket      *)
(* pending among the threads it has seen undercuts, and that no ticket     *)
(* still to be drawn can, because it started from the next ticket.         *)

Announced ==
  \A u \in Threads :
    /\ pc[u] = "announce" => reg[u] <= next[u.side]
    /\ pc[u] = "draw" => pos[u] <= next[u.side]
    /\ Pending(u) => pos[u] <= reg[u] /\ reg[u] < next[u.side]

ScanSafe(t) == pc[t] = "scan" =>
  /\ min[t] <= next[Other(t.side)]
  /\ \A u \in Threads : u.side = Other(t.side) /\ u.n < i[t] /\ Pending(u) => min[t] <= reg[u]

ScanBound == \A t \in Threads : ScanSafe(t)

LastBound ==
  \A s \in Sides :
    /\ last[s] <= next[s]
    /\ \A u \in Threads : u.side = s /\ Pending(u) => last[s] <= reg[u]

BoundInv == Announced /\ ScanBound /\ LastBound

LEMMA BoundInit == Init => BoundInv
  BY Side DEF Init, BoundInv, Announced, ScanBound, ScanSafe, LastBound, Pending

LEMMA BoundMeaning == TypeOK /\ BoundInv => BoundsAreSafe
  BY Side DEF TypeOK, BoundInv, LastBound, BoundsAreSafe, Accessed

LEMMA BoundStep == TypeOK /\ BoundInv /\ [Next]_vars => BoundInv'
<1> SUFFICES ASSUME TypeOK, BoundInv, [Next]_vars PROVE BoundInv'
  OBVIOUS
<1> USE Side DEF TypeOK, Goto, Locs, BoundInv, Pending
<1>1. ASSUME NEW t \in Threads, Load(t) PROVE BoundInv'
  BY <1>1 DEF Load, Announced, ScanBound, ScanSafe, LastBound
<1>2. ASSUME NEW t \in Threads, Announce(t) PROVE BoundInv'
  BY <1>2 DEF Announce, Announced, ScanBound, ScanSafe, LastBound
<1>3. ASSUME NEW t \in Threads, Draw(t) PROVE BoundInv'
  <2>1. Announced'
    BY SMTT(40), <1>3 DEF Draw, Announced
  <2>2. ScanBound'
    BY <1>3 DEF Draw, ScanBound, ScanSafe
  <2>3. LastBound'
    BY <1>3 DEF Draw, LastBound
  <2> QED  BY <2>1, <2>2, <2>3
<1>4. ASSUME NEW t \in Threads, Publish(t) PROVE BoundInv'
  BY <1>4 DEF Publish, Announced, ScanBound, ScanSafe, LastBound
<1>5. ASSUME NEW t \in Threads, Test(t) PROVE BoundInv'
  BY <1>5 DEF Test, Announced, ScanBound, ScanSafe, LastBound
<1>6. ASSUME NEW t \in Threads, Floor(t) PROVE BoundInv'
  <2>1. \A u \in Threads : ~(u.n < 0)
    BY SMTT(40), ThreadIs
  <2>2. ScanBound'
    <3>1. /\ min'[t] = next[Other(t.side)] /\ i'[t] = 0
          /\ \A x \in Threads \ {t} : min'[x] = min[x] /\ i'[x] = i[x] /\ pc'[x] = pc[x]
          /\ pc[t] = "floor" /\ pc'[t] = "scan"
          /\ UNCHANGED <<next, reg>>
      BY <1>6 DEF Floor
    <3>2. \A u \in Threads : Pending(u)' <=> Pending(u)
      BY <3>1
    <3>3. next[Other(t.side)] \in Nat
      OBVIOUS
    <3>4. ScanSafe(t)'
      BY <2>1, <3>1, <3>3 DEF ScanSafe
    <3>5. ASSUME NEW x \in Threads, x # t PROVE ScanSafe(x)'
      BY <3>1, <3>2, <3>5 DEF ScanSafe, ScanBound
    <3> QED  BY <3>4, <3>5 DEF ScanBound
  <2> QED  BY <1>6, <2>2 DEF Floor, Announced, LastBound
<1>7. ASSUME NEW t \in Threads, Scan(t) PROVE BoundInv'
  <2>1. PICK v \in Threads : v = [side |-> Other(t.side), n |-> i[t]]
    BY <1>7, ThreadAt DEF Scan
  <2>2. /\ min'[t] <= min[t] /\ min'[t] <= pos[v]
        /\ i'[t] = i[t] + 1 /\ \A u \in Threads \ {t} : min'[u] = min[u] /\ i'[u] = i[u]
        /\ UNCHANGED <<next, last, pos, array, pc, reg>>
    <3>1. /\ min' = [min EXCEPT ![t] = IF pos[v] < min[t] THEN pos[v] ELSE min[t]]
          /\ i' = [i EXCEPT ![t] = i[t] + 1]
          /\ UNCHANGED <<next, last, pos, array, pc, reg>>
      BY <1>7, <2>1 DEF Scan
    <3>2. min'[t] <= min[t] /\ min'[t] <= pos[v]
      BY <3>1
    <3> QED  BY <3>1, <3>2
  <2>3. ASSUME NEW u \in Threads, u.side = Other(t.side), u.n < i[t] + 1 PROVE u.n < i[t] \/ u = v
    <3>1. u.n \in Nat /\ u = [side |-> u.side, n |-> u.n]
      BY ThreadIs
    <3>2. CASE u.n = i[t]
      BY <2>1, <2>3, <3>1, <3>2
    <3>3. u.n \in Nat /\ i[t] \in Nat
      BY <3>1
    <3>4. u.n = i[t] \/ u.n < i[t]
      BY SMTT(40), <2>3, <3>3
    <3> QED  BY <3>2, <3>4
  <2>4. ScanBound'
    <3>1. min'[t] <= next[Other(t.side)]
      BY <1>7, <2>1, <2>2 DEF Scan, ScanBound, ScanSafe
    <3>2. ASSUME NEW u \in Threads, u.side = Other(t.side), u.n < i[t] + 1, Pending(u)
          PROVE  min'[t] <= reg[u]
      BY SMTT(40), <1>7, <2>1, <2>2, <2>3, <3>2 DEF Scan, ScanBound, ScanSafe, Announced
    <3>3. ScanSafe(t)'
      BY <2>2, <3>1, <3>2 DEF ScanSafe
    <3>4. ASSUME NEW x \in Threads, x # t PROVE ScanSafe(x)'
      BY <2>2, <3>4 DEF ScanSafe, ScanBound
    <3> QED  BY <3>3, <3>4 DEF ScanBound
  <2> QED  BY <1>7, <2>4 DEF Scan, Announced, LastBound
<1>8. ASSUME NEW t \in Threads, SetLast(t) PROVE BoundInv'
  <2>1. \A u \in Threads : u.side = Other(t.side) => u.n < i[t]
    BY <1>8, ThreadIs DEF SetLast
  <2>2. LastBound'
    BY <1>8, <2>1 DEF SetLast, LastBound, ScanBound, ScanSafe
  <2> QED  BY <1>8, <2>2 DEF SetLast, Announced, ScanBound, ScanSafe
<1>9. ASSUME NEW t \in Threads, Access(t) PROVE BoundInv'
  BY <1>9 DEF Access, Announced, ScanBound, ScanSafe, LastBound
<1>10. ASSUME NEW t \in Threads, Clear(t) PROVE BoundInv'
  BY <1>10 DEF Clear, Announced, ScanBound, ScanSafe, LastBound
<1>11. CASE UNCHANGED vars
  BY <1>11 DEF vars, Announced, ScanBound, ScanSafe, LastBound
<1> QED
  BY <1>1, <1>2, <1>3, <1>4, <1>5, <1>6, <1>7, <1>8, <1>9, <1>10, <1>11 DEF Next, Operation, Wait

\* push() and pop(): the bounds that other threads rely on never run ahead of
\* the slots written and read, however stale the values they were made from.
THEOREM BoundsCorrect == Spec => []BoundsAreSafe
<1>1. Init => TypeOK /\ BoundInv
  BY TypeInit, BoundInit
<1>2. (TypeOK /\ BoundInv) /\ [Next]_vars => (TypeOK /\ BoundInv)'
  BY TypeStep, BoundStep
<1> QED  BY <1>1, <1>2, BoundMeaning, PTL DEF Spec

-----------------------------------------------------------------------------
(* The items.  A slot belongs to the tickets that are equal modulo Q_SIZE. *)
(* A push waits for the pop one lap before it, and that one for the push of *)
(* its own ticket: pushes into a slot happen in the order of the tickets.   *)

LEMMA Lap ==
  ASSUME NEW j \in Nat, NEW k \in Nat, k < j, j % Q_SIZE = k % Q_SIZE
  PROVE  k <= j - Q_SIZE
<1>1. /\ j = Q_SIZE * (j \div Q_SIZE) + (j % Q_SIZE) /\ j \div Q_SIZE \in Int
      /\ k = Q_SIZE * (k \div Q_SIZE) + (k % Q_SIZE) /\ k \div Q_SIZE \in Int
      /\ j % Q_SIZE \in Int
  <2>1. Q_SIZE \in Nat /\ Q_SIZE > 0
    OBVIOUS
  <2>2. j % Q_SIZE \in 0 .. (Q_SIZE - 1)
    BY <2>1, DivMod
  <2> QED  BY <2>1, <2>2, DivMod
<1>2. ASSUME NEW a \in Int, NEW b \in Int, NEW r \in Int,
             j = Q_SIZE * a + r, k = Q_SIZE * b + r
      PROVE  k <= j - Q_SIZE
  <2>1. j - k = Q_SIZE * (a - b)
    BY <1>2
  <2>2. a - b >= 1
    BY <2>1
  <2>3. Q_SIZE * (a - b) >= Q_SIZE
    BY <2>2
  <2> QED  BY <2>1, <2>3
<1> QED  BY <1>1, <1>2

Unique ==
  \A t, u \in Threads :
    Pending(t) /\ Pending(u) /\ t.side = u.side /\ reg[t] = reg[u] => t = u

LEMMA UniqueStep == TypeOK /\ BoundInv /\ Unique /\ [Next]_vars => Unique'
<1> SUFFICES ASSUME TypeOK, BoundInv, Unique, [Next]_vars PROVE Unique'
  OBVIOUS
<1> USE Side DEF TypeOK, Goto, Pending
<1>1. ASSUME NEW t \in Threads, Draw(t) PROVE Unique'
  <2>1. pc' = [pc EXCEPT ![t] = "publish"] /\ reg' = [reg EXCEPT ![t] = next[t.side]]
    BY <1>1 DEF Draw
  <2>2. \A u \in Threads : Pending(u) /\ u.side = t.side => reg[u] < next[t.side]
    BY DEF BoundInv, Announced
  <2>3. next[t.side] \in Nat /\ pc[t] = "draw"
    BY <1>1 DEF Draw
  <2>4. ASSUME NEW u \in Threads, NEW v \in Threads, u # v, u.side = v.side,
               Pending(u)', Pending(v)'
        PROVE  reg'[u] # reg'[v]
    <3>1. ASSUME NEW x \in Threads, Pending(x)', x # t PROVE Pending(x) /\ reg'[x] = reg[x]
      BY <2>1, <3>1
    <3>2. reg'[t] = next[t.side]
      BY <2>1
    <3>3. \A x \in Threads : reg[x] \in Nat
      OBVIOUS
    <3> HIDE DEF Pending, TypeOK
    <3>4. CASE u = t
      BY <2>2, <2>3, <2>4, <3>1, <3>2, <3>3, <3>4
    <3>5. CASE v = t
      BY <2>2, <2>3, <2>4, <3>1, <3>2, <3>3, <3>5
    <3>6. CASE u # t /\ v # t
      BY <2>4, <3>1, <3>6 DEF Unique
    <3> QED  BY <3>4, <3>5, <3>6
  <2> QED  BY <2>4 DEF Unique
<1>2. ASSUME NEW t \in Threads, Load(t) \/ Announce(t) \/ Clear(t) PROVE Unique'
  <2>1. \A u \in Threads : Pending(u)' => Pending(u) /\ reg'[u] = reg[u]
    BY <1>2 DEF Load, Announce, Clear
  <2> QED  BY <2>1 DEF Unique
<1>3. ASSUME NEW t \in Threads, Publish(t) \/ Wait(t) \/ Access(t) PROVE Unique'
  <2>1. \A u \in Threads : Pending(u)' => Pending(u) /\ reg'[u] = reg[u]
    BY <1>3 DEF Publish, Wait, Test, Floor, Scan, SetLast, Access
  <2> QED  BY <2>1 DEF Unique
<1>4. CASE UNCHANGED vars
  BY <1>4 DEF vars, Unique
<1> QED  BY <1>1, <1>2, <1>3, <1>4 DEF Next, Operation

\* Only an access changes what has been accessed, and only by its own ticket.
LEMMA AccessedStep ==
  ASSUME TypeOK, BoundInv, Unique, [Next]_vars
  PROVE  /\ \A s \in Sides, k \in Nat : Accessed(s, k) => Accessed(s, k)'
         /\ \/ /\ array' = array
               /\ \A s \in Sides, k \in Nat : Accessed(s, k)' => Accessed(s, k)
            \/ \E t \in Threads :
                 /\ Access(t) /\ Accessed(t.side, reg[t])'
                 /\ \A s \in Sides, k \in Nat :
                      Accessed(s, k)' => Accessed(s, k) \/ (s = t.side /\ k = reg[t])
<1> USE Side DEF TypeOK, Goto, Pending, Accessed, BoundInv, Announced
<1>1. ASSUME NEW t \in Threads, Draw(t) PROVE
        array' = array /\ \A s \in Sides, k \in Nat : Accessed(s, k)' <=> Accessed(s, k)
  <2>1. pc' = [pc EXCEPT ![t] = "publish"] /\ reg' = [reg EXCEPT ![t] = next[t.side]]
        /\ next' = [next EXCEPT ![t.side] = @ + 1] /\ array' = array /\ pc[t] = "draw"
    BY <1>1 DEF Draw
  <2>2. ASSUME NEW s \in Sides, NEW k \in Nat PROVE Accessed(s, k)' <=> Accessed(s, k)
    <3>1. CASE s # t.side
      BY <2>1, <3>1
    <3>2. CASE s = t.side
      BY SMTT(40), <2>1, <3>2
    <3> QED  BY <3>1, <3>2
  <2> QED  BY <2>1, <2>2
<1>2. ASSUME NEW t \in Threads, Load(t) \/ Announce(t) \/ Clear(t) PROVE
        array' = array /\ \A s \in Sides, k \in Nat : Accessed(s, k)' <=> Accessed(s, k)
  <2>1. next' = next /\ array' = array
    BY <1>2 DEF Load, Announce, Clear
  <2>2. \A u \in Threads : Pending(u)' <=> Pending(u)
    BY <1>2 DEF Load, Announce, Clear
  <2>3. \A u \in Threads : Pending(u) => reg'[u] = reg[u]
    BY <1>2 DEF Load, Announce, Clear
  <2> HIDE DEF Pending, TypeOK, BoundInv, Announced
  <2> QED  BY <2>1, <2>2, <2>3
<1>3. ASSUME NEW t \in Threads, Publish(t) \/ Wait(t) PROVE
        array' = array /\ \A s \in Sides, k \in Nat : Accessed(s, k)' <=> Accessed(s, k)
  BY <1>3 DEF Publish, Wait, Test, Floor, Scan, SetLast
<1>4. ASSUME NEW t \in Threads, Access(t) PROVE
        /\ \A s \in Sides, k \in Nat : Accessed(s, k) => Accessed(s, k)'
        /\ Accessed(t.side, reg[t])'
        /\ \A s \in Sides, k \in Nat :
             Accessed(s, k)' => Accessed(s, k) \/ (s = t.side /\ k = reg[t])
  BY <1>4 DEF Access, Unique
<1>5. CASE UNCHANGED vars
  BY <1>5 DEF vars
<1> HIDE DEF Accessed, BoundInv, Announced, TypeOK
<1> QED  BY <1>1, <1>2, <1>3, <1>4, <1>5 DEF Next, Operation

AtAccess ==
  \A t \in Threads : pc[t] = "access" =>
    IF t.side = "push" THEN \A k \in Nat : k <= reg[t] - Q_SIZE => Accessed("pop", k)
                       ELSE Accessed("push", reg[t])

PopAfterPush == \A k \in Nat : Accessed("pop", k) => Accessed("push", k)

PushAfterPop ==
  \A j, k \in Nat : Accessed("push", k) /\ j <= k - Q_SIZE => Accessed("pop", j)

Latest(k) ==
  Accessed("push", k)
    /\ \A j \in Nat : k < j /\ j % Q_SIZE = k % Q_SIZE => ~Accessed("push", j)

Content == \A k \in Nat : Latest(k) => array[k % Q_SIZE] = k

ItemInv == Unique /\ AtAccess /\ PopAfterPush /\ PushAfterPop /\ Content

LEMMA ItemInit == Init => ItemInv
  BY Side DEF Init, ItemInv, Unique, AtAccess, PopAfterPush, PushAfterPop, Content, Latest,
    Accessed, Pending, Sides

LEMMA ItemMeaning ==
  TypeOK /\ ItemInv => PopsWhatWasPushed /\ OverwritesOnlyRead
<1> SUFFICES ASSUME TypeOK, ItemInv PROVE PopsWhatWasPushed /\ OverwritesOnlyRead
  OBVIOUS
<1> USE DEF TypeOK, ItemInv, AtAccess
<1>1. ASSUME NEW t \in Threads, t.side = "pop", pc[t] = "access"
      PROVE  array[reg[t] % Q_SIZE] = reg[t]
  <2>1. reg[t] \in Nat /\ Accessed("push", reg[t])
    BY <1>1
  <2>2. ~Accessed("pop", reg[t])
    BY <1>1 DEF Accessed, Pending
  <2>3. ASSUME NEW j \in Nat, reg[t] < j, j % Q_SIZE = reg[t] % Q_SIZE
        PROVE  ~Accessed("push", j)
    <3>1. reg[t] <= j - Q_SIZE
      BY <2>1, <2>3, Lap
    <3> QED  BY <2>1, <2>2, <3>1 DEF PushAfterPop
  <2> QED  BY <2>1, <2>3 DEF Content, Latest
<1>2. OverwritesOnlyRead
  BY DEF OverwritesOnlyRead
<1> QED  BY <1>1, <1>2 DEF PopsWhatWasPushed

LEMMA ItemStep == TypeOK /\ BoundInv /\ ItemInv /\ [Next]_vars => ItemInv'
<1> SUFFICES ASSUME TypeOK, BoundInv, ItemInv, [Next]_vars PROVE ItemInv'
  OBVIOUS
<1> USE DEF ItemInv
<1>1. Unique'
  BY UniqueStep
<1>2. \A s \in Sides, k \in Nat : Accessed(s, k) => Accessed(s, k)'
  BY AccessedStep
<1>3. "push" \in Sides /\ "pop" \in Sides
  BY DEF Sides
<1>4. AtAccess'
  <2>1. ASSUME NEW t \in Threads, pc'[t] = "access"
        PROVE  \/ pc[t] = "access" /\ reg'[t] = reg[t]
               \/ ~MustWait(t) /\ reg'[t] = reg[t]
    <3> USE DEF Goto, TypeOK
    <3>1. ASSUME NEW u \in Threads, Test(u) PROVE pc[t] = "access" \/ ~MustWait(t)
      BY <2>1, <3>1 DEF Test
    <3>2. ASSUME NEW u \in Threads, Load(u) \/ Announce(u) \/ Draw(u) \/ Publish(u)
          PROVE  pc[t] = "access" /\ reg'[t] = reg[t]
      BY <2>1, <3>2 DEF Load, Announce, Draw, Publish
    <3>3. ASSUME NEW u \in Threads, Floor(u) \/ Scan(u) \/ SetLast(u) \/ Access(u) \/ Clear(u)
          PROVE  pc[t] = "access" /\ reg'[t] = reg[t]
      BY <2>1, <3>3 DEF Floor, Scan, SetLast, Access, Clear
    <3>4. \A u \in Threads : Test(u) => reg' = reg
      BY DEF Test
    <3>5. CASE UNCHANGED vars
      BY <2>1, <3>5 DEF vars
    <3> HIDE DEF Goto, TypeOK
    <3> QED  BY <3>1, <3>2, <3>3, <3>4, <3>5 DEF Next, Operation, Wait
  <2>2. ASSUME NEW t \in Threads, ~MustWait(t)
        PROVE  IF t.side = "push" THEN \A k \in Nat : k <= reg[t] - Q_SIZE => Accessed("pop", k)
                                  ELSE Accessed("push", reg[t])
    <3>1. \A s \in Sides, k \in Nat : k < last[s] => Accessed(s, k)
      BY SMTT(40), BoundMeaning DEF BoundsAreSafe, TypeOK
    <3> QED  BY <1>3, <2>2, <3>1 DEF MustWait, TypeOK
  <2>3. \A t \in Threads : reg[t] \in Nat
    BY DEF TypeOK
  <2> QED  BY <1>2, <1>3, <2>1, <2>2, <2>3 DEF AtAccess
<1>5. CASE array' = array /\ \A s \in Sides, k \in Nat : Accessed(s, k)' => Accessed(s, k)
  <2>1. PopAfterPush' /\ PushAfterPop'
    BY <1>2, <1>3, <1>5 DEF PopAfterPush, PushAfterPop
  <2>2. Content'
    BY <1>2, <1>3, <1>5 DEF Content, Latest
  <2> QED  BY <1>1, <1>4, <2>1, <2>2
<1>6. ASSUME NEW t \in Threads, Access(t), Accessed(t.side, reg[t])',
             \A s \in Sides, k \in Nat :
               Accessed(s, k)' => Accessed(s, k) \/ (s = t.side /\ k = reg[t])
      PROVE  ItemInv'
  <2>1. reg[t] \in Nat /\ pc[t] = "access" /\ t.side \in Sides
    BY <1>6, Side DEF Access, Goto, TypeOK
  <2>2. PopAfterPush'
    BY <1>2, <1>3, <1>6, <2>1 DEF PopAfterPush, AtAccess
  <2>3. PushAfterPop'
    BY <1>2, <1>3, <1>6, <2>1 DEF PushAfterPop, AtAccess
  <2>4. CASE t.side = "pop"
    <3>1. array' = array /\ \A k \in Nat : Accessed("push", k)' => Accessed("push", k)
      BY <1>3, <1>6, <2>4 DEF Access
    <3>2. Content'
      BY <1>2, <1>3, <3>1 DEF Content, Latest
    <3> QED  BY <1>1, <1>4, <2>2, <2>3, <3>2
  <2>5. CASE t.side = "push"
    <3>1. array' = [array EXCEPT ![reg[t] % Q_SIZE] = reg[t]]
      BY <1>6, <2>5 DEF Access
    <3>2. ~Accessed("push", reg[t])
      BY <2>1, <2>5 DEF Accessed, Pending
    <3>3. \A k \in Nat : k % Q_SIZE \in 0 .. (Q_SIZE - 1)
      OBVIOUS
    <3>4. ASSUME NEW k \in Nat, Latest(k)' PROVE array'[k % Q_SIZE] = k
      <4>1. CASE k = reg[t]
        BY <2>1, <3>1, <3>3, <4>1 DEF TypeOK
      <4>2. CASE k # reg[t]
        <5>1. Accessed("push", k)
          BY <1>3, <1>6, <3>4, <4>2 DEF Latest
        <5>2. CASE k % Q_SIZE # reg[t] % Q_SIZE
          <6>1. Latest(k)
            BY <1>2, <1>3, <3>4, <5>1 DEF Latest
          <6>2. array'[k % Q_SIZE] = array[k % Q_SIZE]
            BY <2>1, <3>1, <3>3, <5>2 DEF TypeOK
          <6> QED  BY <6>1, <6>2 DEF Content
        <5>3. CASE k % Q_SIZE = reg[t] % Q_SIZE
          <6>1. CASE k < reg[t]
            <7>1. PICK r \in Nat : r = reg[t] /\ r = reg'[t]
              BY <1>6, <2>1 DEF Access
            <7>2. Accessed("push", r)'
              BY <1>6, <2>5, <7>1
            <7>3. ~Accessed("push", r)'
              BY <3>4, <5>3, <6>1, <7>1 DEF Latest
            <7> QED  BY <7>2, <7>3
          <6>2. CASE reg[t] < k
            <7>1. reg[t] <= k - Q_SIZE
              BY <2>1, <5>3, <6>2, Lap
            <7>2. Accessed("push", reg[t])
              BY <2>1, <5>1, <7>1 DEF PushAfterPop, PopAfterPush
            <7> QED  BY <3>2, <7>2
          <6> QED  BY <2>1, <4>2, <6>1, <6>2
        <5> QED  BY <5>2, <5>3
      <4> QED  BY <4>1, <4>2
    <3>5. Content'
      BY <3>4 DEF Content
    <3> QED  BY <1>1, <1>4, <2>2, <2>3, <3>5
  <2> QED  BY <2>1, <2>4, <2>5 DEF Sides
<1> QED  BY <1>5, <1>6, AccessedStep

\* push() and pop(): a consumer takes the item pushed under its own ticket, and
\* a producer overwrites only an item that was taken.
THEOREM ItemsCorrect == Spec => [](PopsWhatWasPushed /\ OverwritesOnlyRead)
<1>1. Init => TypeOK /\ BoundInv /\ ItemInv
  BY TypeInit, BoundInit, ItemInit
<1>2. (TypeOK /\ BoundInv /\ ItemInv) /\ [Next]_vars => (TypeOK /\ BoundInv /\ ItemInv)'
  BY TypeStep, BoundStep, ItemStep
<1> QED  BY <1>1, <1>2, ItemMeaning, PTL DEF Spec

\* push(): the slot a producer writes holds nothing that is still to be taken.
THEOREM OverwritesCorrect == Spec => []OverwritesOnlyRead
<1>1. PopsWhatWasPushed /\ OverwritesOnlyRead => OverwritesOnlyRead
  OBVIOUS
<1> QED  BY <1>1, ItemsCorrect, PTL
=============================================================================
