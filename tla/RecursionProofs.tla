--------------------------- MODULE RecursionProofs ---------------------------
(***************************************************************************)
(* The parts of MCDrivers whose operators are recursive functions: the     *)
(* data of an NVMe command, of which for any pages, offset and length the  *)
(* PRP entries are one for each page of the buffer and everything is given *)
(* back; and the heap, which for any elements serves the least first.      *)
(* Induction on numbers, and that a recursive function exists, are proved  *)
(* here from the least element of a set.                                   *)
(***************************************************************************)
EXTENDS DriversProofs

-----------------------------------------------------------------------------
(* Recursive functions of numbers *)

\* What holds of 0 and of each number after one it holds of
LEMMA Induction ==
  ASSUME NEW n \in Nat, NEW T, 0 \in T, \A k \in 1 .. n : k - 1 \in T => k \in T
  PROVE  \A k \in 0 .. n : k \in T
<1> DEFINE Out == {k \in 0 .. n : k \notin T}
<1>1. ASSUME Out # {} PROVE FALSE
  <2>1. PICK m \in Out : \A k \in Out : m <= k
    <3>1. Out \in SUBSET Nat  OBVIOUS
    <3> HIDE DEF Out
    <3> QED  BY <1>1, <3>1, Smallest
  <2>2. m # 0  BY <2>1
  <2>3. m \in 1 .. n /\ m - 1 \notin Out  BY <2>1, <2>2
  <2> QED  BY <2>1, <2>3
<1> QED  BY <1>1

\* f begins with base and goes on by g.
Steps(f, n, S, base, g) ==
  f \in [0 .. n -> S] /\ f[0] = base /\ \A k \in 1 .. n : f[k] = g[<<k, f[k - 1]>>]

\* Such a function exists.
LEMMA Recursion ==
  ASSUME NEW n \in Nat, NEW S, NEW base \in S, NEW g \in [(1 .. n) \X S -> S]
  PROVE  \E f : Steps(f, n, S, base, g)
<1> DEFINE Is(m, f) == f \in [0 .. m -> S] /\ f[0] = base /\ \A k \in 1 .. m : f[k] = g[<<k, f[k - 1]>>]
           Without == {m \in 0 .. n : \A f : ~Is(m, f)}
<1>1. ASSUME Without # {} PROVE FALSE
  <2>1. PICK m \in Without : \A k \in Without : m <= k
    <3>1. Without \in SUBSET Nat  OBVIOUS
    <3> HIDE DEF Without
    <3> QED  BY <1>1, <3>1, Smallest
  <2>2. CASE m = 0
    <3>1. Is(0, [k \in 0 .. 0 |-> base])  OBVIOUS
    <3> QED  BY <2>1, <2>2, <3>1
  <2>3. CASE m # 0
    <3>1. m - 1 \in 0 .. n /\ m \in 1 .. n /\ m - 1 \notin Without  BY <2>1, <2>3
    <3>2. PICK f : Is(m - 1, f)  BY <3>1
    <3> DEFINE h == [k \in 0 .. m |-> IF k = m THEN g[<<m, f[m - 1]>>] ELSE f[k]]
    <3>3. f[m - 1] \in S /\ g[<<m, f[m - 1]>>] \in S  BY <3>1, <3>2
    <3>4. h \in [0 .. m -> S]  BY <3>1, <3>2, <3>3
    <3>5. h[0] = base  BY <3>1, <3>2
    <3>6. ASSUME NEW k \in 1 .. m PROVE h[k] = g[<<k, h[k - 1]>>]
      <4>1. h[k - 1] = f[k - 1] /\ k - 1 # m  BY <3>1
      <4>2. k # m => h[k] = f[k] /\ k \in 1 .. m - 1  BY <3>1
      <4>3. k = m => h[k] = g[<<k, f[k - 1]>>]  BY <3>1
      <4> QED  BY <3>2, <4>1, <4>2, <4>3
    <3> HIDE DEF h
    <3>7. Is(m, h)  BY <3>4, <3>5, <3>6
    <3> QED  BY <2>1, <3>7
  <2> QED  BY <2>2, <2>3
<1>2. n \in 0 .. n /\ n \notin Without  BY <1>1
<1>3. PICK f : Is(n, f)
  <2> HIDE DEF Is
  <2> QED  BY <1>2
<1> QED  BY <1>3 DEF Steps

-----------------------------------------------------------------------------
(* The data of an NVMe command *)

Segment == [addr : Nat, len : Nat]

IodConstants ==
  /\ PAGE_SIZE \in Nat \ {0} /\ LIST \in Nat /\ LIST >= 2 /\ SMALL \in 1 .. LIST /\ EBUSY \in Nat
  /\ \A b \in UserBuffers :
       /\ b.pages \in Seq(Nat) /\ b.offset \in 0 .. PAGE_SIZE - 1 /\ b.length \in Nat
       /\ Iod!CeilDiv(b.offset + b.length, PAGE_SIZE) <= Len(b.pages)
  /\ \A v \in Bios : v \in Seq(Segment) /\ v # <<>>

LEMMA Lengthened ==
  \A l \in Segment, n \in Nat : [l EXCEPT !.len = @ + n] = [addr |-> l.addr, len |-> l.len + n]
BY DEF Segment

LEMMA Grown ==
  ASSUME NEW segs \in Seq(Segment), segs # <<>>, NEW s \in Segment
  PROVE  /\ Iod!Grow(segs, s) \in Seq(Segment) /\ Len(Iod!Grow(segs, s)) = Len(segs)
         /\ \A k \in 1 .. Len(segs) - 1 : Iod!Grow(segs, s)[k] = segs[k]
         /\ Iod!Grow(segs, s)[Len(segs)] = [addr |-> segs[Len(segs)].addr, len |-> segs[Len(segs)].len + s.len]
<1> DEFINE l == segs[Len(segs)]
<1>1. Len(segs) \in 1 .. Len(segs) /\ l \in Segment  OBVIOUS
<1>2. [l EXCEPT !.len = @ + s.len] = [addr |-> l.addr, len |-> l.len + s.len]  
  <2>1. s.len \in Nat  BY DEF Segment
  <2> HIDE DEF l
  <2> QED  BY <1>1, <2>1, Lengthened
<1>3. Iod!Grow(segs, s) = [segs EXCEPT ![Len(segs)] = [addr |-> l.addr, len |-> l.len + s.len]]
  BY <1>2 DEF Iod!Grow, Iod!ReplaceAt, Iod!Last
<1>4. [addr |-> l.addr, len |-> l.len + s.len] \in Segment  BY <1>1 DEF Segment
<1> QED  BY <1>1, <1>3, <1>4

LEMMA JoinedIs ==
  ASSUME NEW segs \in Seq(Segment)
  PROVE  \E J \in [0 .. Len(segs) -> Seq(Segment)] :
           /\ J[0] = <<>> /\ Iod!Joined(segs) = J[Len(segs)]
           /\ \A n \in 1 .. Len(segs) :
                J[n] = IF Iod!Touches(J[n - 1], segs[n]) THEN Iod!Grow(J[n - 1], segs[n])
                       ELSE Append(J[n - 1], segs[n])
<1> DEFINE after(n, acc) == IF Iod!Touches(acc, segs[n]) THEN Iod!Grow(acc, segs[n]) ELSE Append(acc, segs[n])
           J == CHOOSE f : f = [n \in 0 .. Len(segs) |-> IF n = 0 THEN <<>> ELSE after(n, f[n - 1])]
           g == [p \in (1 .. Len(segs)) \X Seq(Segment) |-> after(p[1], p[2])]
<1>1. Iod!Joined(segs) = J[Len(segs)]  BY DEF Iod!Joined
<1>2. ASSUME NEW n \in 1 .. Len(segs), NEW acc \in Seq(Segment) PROVE after(n, acc) \in Seq(Segment)
  <2>1. segs[n] \in Segment  OBVIOUS
  <2>2. CASE Iod!Touches(acc, segs[n])
    <3>1. acc # <<>>  BY <2>2 DEF Iod!Touches
    <3>2. Iod!Grow(acc, segs[n]) \in Seq(Segment)  BY <2>1, <3>1, Grown
    <3> QED  BY <2>2, <3>2
  <2>3. CASE ~Iod!Touches(acc, segs[n])
    <3>1. Append(acc, segs[n]) \in Seq(Segment)  BY <2>1
    <3> QED  BY <2>3, <3>1
  <2> QED  BY <2>2, <2>3
<1>3. Len(segs) \in Nat /\ <<>> \in Seq(Segment)  OBVIOUS
<1> HIDE DEF after
<1>4. g \in [(1 .. Len(segs)) \X Seq(Segment) -> Seq(Segment)]  BY <1>2
<1>5. PICK f : Steps(f, Len(segs), Seq(Segment), <<>>, g)
  <2> HIDE DEF g
  <2> QED  BY <1>3, <1>4, Recursion
<1>6. f = [n \in 0 .. Len(segs) |-> IF n = 0 THEN <<>> ELSE after(n, f[n - 1])]
  <2>1. \A n \in 1 .. Len(segs) : f[n] = after(n, f[n - 1])
    <3> TAKE n \in 1 .. Len(segs)
    <3>1. f[n - 1] \in Seq(Segment)  BY <1>5 DEF Steps
    <3>2. g[<<n, f[n - 1]>>] = after(n, f[n - 1])  BY <3>1
    <3> QED  BY <1>5, <3>2 DEF Steps
  <2>2. f = [n \in 0 .. Len(segs) |-> f[n]]  BY <1>5 DEF Steps
  <2>3. \A n \in 0 .. Len(segs) : f[n] = IF n = 0 THEN <<>> ELSE after(n, f[n - 1])
    BY <1>3, <1>5, <2>1 DEF Steps
  <2> QED  BY <2>2, <2>3
<1>7. J = [n \in 0 .. Len(segs) |-> IF n = 0 THEN <<>> ELSE after(n, J[n - 1])]  BY <1>6, Zenon
<1> HIDE DEF J
<1>8. \A n \in 0 .. Len(segs) : J[n] \in Seq(Segment)
  <2> DEFINE T == {n \in 0 .. Len(segs) : J[n] \in Seq(Segment)}
  <2>1. 0 \in T  BY <1>3, <1>7
  <2>2. ASSUME NEW n \in 1 .. Len(segs), n - 1 \in T PROVE n \in T
    <3>1. J[n - 1] \in Seq(Segment) /\ J[n] = after(n, J[n - 1])  BY <1>3, <1>7, <2>2
    <3> QED  BY <1>2, <3>1
  <2> HIDE DEF T
  <2>3. \A n \in 0 .. Len(segs) : n \in T  BY <1>3, <2>1, <2>2, Induction
  <2> QED  BY <2>3 DEF T
<1>9. J \in [0 .. Len(segs) -> Seq(Segment)]  BY <1>7, <1>8
<1>10. J[0] = <<>> /\ \A n \in 1 .. Len(segs) : J[n] = after(n, J[n - 1])  BY <1>3, <1>7
<1> QED  BY <1>1, <1>9, <1>10 DEF after

-----------------------------------------------------------------------------

Calls ==
  {c \in [kind : {"ioctl"}, pages : Seq(Nat), offset : 0 .. PAGE_SIZE - 1, length : Nat] :
     Iod!CeilDiv(c.offset + c.length, PAGE_SIZE) <= Len(c.pages)}
    \cup [kind : {"bio"}, vecs : Seq(Segment) \ {<<>>}]

Entry == {"data", "list"} \X Nat

IodTypes ==
  /\ call \in Calls
  /\ iod_step \in {"map", "put_pages", "setup", "list", "fill", "submit", "wait", "release", "end"}
  /\ sg \in Seq(Segment) /\ mapped \in Nat /\ pinned \in Nat
  /\ nents \in Nat /\ (iod_step # "end" => nents = pinned)
  /\ lists \in Seq(Seq(Entry)) /\ npages \in Int /\ npages >= -1
  /\ length \in Int /\ seg \in 0 .. Len(sg) /\ dma_addr \in Nat /\ dma_len \in Nat
  /\ dev \in {"none", "has", "done"}

\* The pages are pinned from the mapping to the release, fewer than asked for
\* until they are put again, and the lists are the ones counted.
Kept ==
  /\ iod_step = "map" => sg = <<>>
  /\ iod_step \in {"map", "end"} \/ call.kind = "bio" => pinned = 0 /\ lists = <<>>
  /\ iod_step \in {"map", "put_pages", "setup", "list"} => lists = <<>> /\ npages = -1
  /\ iod_step = "setup" => sg # <<>> /\ (call.kind = "ioctl" => pinned > 0)
  /\ iod_step \in {"list", "fill"} => pinned > 0
  /\ iod_step # "end" =>
       Len(lists) = IF npages = -1 THEN 0 ELSE IF npages = 0 THEN 1 ELSE npages
  /\ iod_step \in {"map", "put_pages", "setup", "list", "fill", "submit"} => dev = "none"
  /\ dev = "has" => iod_step = "wait" \/ result \in {"-EINTR", "NVME_SC_ABORT_REQ"}

Parts == [i \in 1 .. pinned |-> Iod!Part(i)]

\* The segments are the first n parts, joined where they touch; b says which
\* part each begins with.
Covers(segs, parts, n, b) ==
  /\ segs \in Seq(Segment) /\ b \in [1 .. Len(segs) + 1 -> 1 .. n + 1]
  /\ b[1] = 1 /\ b[Len(segs) + 1] = n + 1
  /\ \A m \in 1 .. Len(segs) :
       /\ b[m] < b[m + 1] /\ segs[m].addr = parts[b[m]].addr
       /\ segs[m].addr + segs[m].len = parts[b[m + 1] - 1].addr + parts[b[m + 1] - 1].len
       /\ \A i \in b[m] .. b[m + 1] - 2 :
            /\ parts[i + 1].addr = parts[i].addr + parts[i].len
            /\ parts[i].addr + parts[i].len + parts[b[m + 1] - 1].len <= segs[m].addr + segs[m].len

\* Data entries that come before the k-th list page
Before(k) == (k - 1) * (LIST - 1)

\* The next page
Coming == 2 + (IF lists = <<>> THEN 0 ELSE Before(Len(lists)) + Len(lists[Len(lists)]))

Pinned == call.length > 0 /\ pinned = Iod!CeilDiv(call.offset + call.length, PAGE_SIZE) /\ mapped = call.length

\* Each list is full but the last, and its last entry is the address of the next.
Written ==
  \A k \in 1 .. Len(lists) :
    /\ k < Len(lists) => Len(lists[k]) = LIST /\ lists[k][LIST] = <<"list", k + 1>>
    /\ Len(lists[k]) <= LIST
    /\ \A i \in 1 .. Len(lists[k]) :
         k = Len(lists) \/ i < LIST => lists[k][i] = <<"data", Parts[1 + Before(k) + i].addr>>

\* Where the loop is in the segments
Position(b) ==
  /\ Covers(sg, Parts, pinned, b)
  /\ Coming <= pinned /\ seg \in 1 .. Len(sg) /\ b[seg] <= Coming /\ Coming < b[seg + 1]
  /\ dma_addr = Parts[Coming].addr /\ dma_addr + dma_len = sg[seg].addr + sg[seg].len
  /\ length = (call.offset + call.length) - (Coming - 1) * PAGE_SIZE

Describing ==
  pinned > 0 /\ iod_step # "put_pages" =>
    /\ Pinned
    /\ iod_step = "setup" => \E b : Covers(sg, Parts, pinned, b)
    /\ iod_step \in {"list", "fill"} => length > 0 /\ pinned > 2 /\ \E b : Position(b)
    /\ iod_step = "list" => length > PAGE_SIZE
    /\ iod_step \in {"list", "fill", "submit"} =>
         /\ prp1 = <<"data", Parts[1].addr>> /\ Written
         /\ npages = 0 =>
              /\ length <= (SMALL - Len(lists[1])) * PAGE_SIZE
              /\ Len(lists[1]) <= IF iod_step = "fill" THEN SMALL - 1 ELSE SMALL
    /\ iod_step = "fill" => prp2 = <<"list", 1>> /\ lists # <<>>
    /\ iod_step = "submit" =>
         IF lists = <<>> THEN pinned <= 2 /\ (pinned = 2 => prp2 = <<"data", Parts[2].addr>>)
         ELSE prp2 = <<"list", 1>> /\ Coming = pinned + 1 /\ pinned > 2

IodInv == IodTypes /\ Kept /\ Describing

-----------------------------------------------------------------------------
(* Arithmetic *)

LEMMA Once ==
  ASSUME NEW d \in Int, NEW a \in Int
  PROVE  a * d \in Int /\ (a + 1) * d = a * d + d /\ (a - 1) * d = a * d - d
OBVIOUS

LEMMA Ordered ==
  ASSUME NEW d \in Nat, NEW a \in Int, NEW c \in Int, a <= c
  PROVE  a * d <= c * d
<1>1. c - a \in Nat  OBVIOUS
<1>2. (c - a) * d \in Nat  BY <1>1
<1>3. c * d = a * d + (c - a) * d  OBVIOUS
<1> QED  BY <1>2, <1>3

LEMMA Divided ==
  ASSUME NEW n \in Nat, NEW d \in Nat \ {0}
  PROVE  n \div d \in Nat /\ n % d \in 0 .. d - 1 /\ n = (n \div d) * d + (n % d)
<1>1. n \div d \in Int /\ n % d \in 0 .. d - 1 /\ n = d * (n \div d) + (n % d)  OBVIOUS
<1> DEFINE q == n \div d
<1> HIDE DEF q
<1>2. q \in Int /\ n = d * q + (n % d)  BY <1>1 DEF q
<1>3. d * q = q * d  BY <1>2
<1>4. ASSUME q < 0 PROVE FALSE
  <2>1. q * d <= (-1) * d  BY <1>2, <1>4, Ordered
  <2> QED  BY <1>1, <1>2, <1>3, <2>1
<1>5. q \in Nat  BY <1>2, <1>4
<1> QED  BY <1>1, <1>2, <1>3, <1>5 DEF q

LEMMA CeilDivIs ==
  ASSUME NEW n \in Nat, NEW d \in Nat \ {0}
  PROVE  /\ Iod!CeilDiv(n, d) \in Nat
         /\ (Iod!CeilDiv(n, d) - 1) * d < n /\ n <= Iod!CeilDiv(n, d) * d
<1>1. n + d - 1 \in Nat  OBVIOUS
<1> DEFINE q == (n + d - 1) \div d
<1>2. q \in Nat /\ n + d - 1 = q * d + ((n + d - 1) % d) /\ (n + d - 1) % d \in 0 .. d - 1
  BY <1>1, Divided
<1>3. Iod!CeilDiv(n, d) = q  BY DEF Iod!CeilDiv
<1> HIDE DEF q
<1>4. (q - 1) * d = q * d - d /\ q * d \in Int  BY <1>2, Once
<1>5. (q - 1) * d < n /\ n <= q * d
  <2> DEFINE x == q * d
             y == (q - 1) * d
             r == (n + d - 1) % d
  <2>1. y = x - d /\ x \in Int /\ n + d - 1 = x + r /\ r \in 0 .. d - 1  BY <1>2, <1>4
  <2> HIDE DEF x, y, r
  <2>2. y < n /\ n <= x  BY <2>1
  <2> QED  BY <2>2 DEF x, y
<1> QED  BY <1>2, <1>3, <1>5

\* A quotient and a remainder are unique.
LEMMA DividedOnce ==
  ASSUME NEW d \in Nat \ {0}, NEW q \in Nat, NEW r \in 0 .. d - 1
  PROVE  (q * d + r) \div d = q /\ (q * d + r) % d = r
<1> DEFINE n == q * d + r
           p == n \div d
<1>1. n \in Nat  OBVIOUS
<1>2. p \in Nat /\ n % d \in 0 .. d - 1 /\ n = p * d + (n % d)
  <2> HIDE DEF n
  <2> QED  BY <1>1, Divided
<1>3. ASSUME p < q PROVE FALSE
  <2>1. (p + 1) * d <= q * d  BY <1>2, <1>3, Ordered
  <2>2. (p + 1) * d = p * d + d /\ p * d \in Int /\ q * d \in Int  BY <1>2, Once
  <2> HIDE DEF p
  <2> QED  BY <1>2, <2>1, <2>2
<1>4. ASSUME q < p PROVE FALSE
  <2>1. (q + 1) * d <= p * d  BY <1>2, <1>4, Ordered
  <2>2. (q + 1) * d = q * d + d /\ p * d \in Int /\ q * d \in Int  BY <1>2, Once
  <2>3. q * d + r = p * d + (n % d)  BY <1>2
  <2> DEFINE x == q * d
             y == p * d
             s == n % d
  <2>4. x \in Int /\ y \in Int /\ s \in 0 .. d - 1 /\ x + r = y + s /\ x + d <= y
    BY <1>2, <2>1, <2>2, <2>3
  <2> HIDE DEF x, y, s
  <2> QED  BY <2>4
<1>5. p = q  BY <1>2, <1>3, <1>4
<1> QED  BY <1>2, <1>5

-----------------------------------------------------------------------------
(* The parts of a buffer *)

LEMMA LeastOfTwo ==
  ASSUME NEW a \in Int, NEW c \in Int
  PROVE  Iod!Min({a, c}) = IF a <= c THEN a ELSE c
<1>1. CASE a <= c  BY <1>1 DEF Iod!Min
<1>2. CASE ~(a <= c)  BY <1>2 DEF Iod!Min
<1> QED  BY <1>1, <1>2

LEMMA Ioctls ==
  ASSUME IodConstants, call \in Calls, call.kind = "ioctl"
  PROVE  /\ call.pages \in Seq(Nat) /\ call.offset \in 0 .. PAGE_SIZE - 1 /\ call.length \in Nat
         /\ PAGE_SIZE \in Nat \ {0} /\ call.offset + call.length \in Nat
         /\ Iod!CeilDiv(call.offset + call.length, PAGE_SIZE) \in 0 .. Len(call.pages)
<1>1. /\ call.pages \in Seq(Nat) /\ call.offset \in 0 .. PAGE_SIZE - 1 /\ call.length \in Nat
      /\ Iod!CeilDiv(call.offset + call.length, PAGE_SIZE) <= Len(call.pages)
  BY DEF Calls
<1>2. PAGE_SIZE \in Nat \ {0}  BY DEF IodConstants
<1>3. call.offset + call.length \in Nat  BY <1>1, <1>2
<1> QED  BY <1>1, <1>2, <1>3, CeilDivIs

LEMMA PartIs ==
  ASSUME IodConstants, call \in Calls, call.kind = "ioctl", call.length > 0,
         NEW n \in Nat, n = Iod!CeilDiv(call.offset + call.length, PAGE_SIZE), NEW i \in 1 .. n
  PROVE  /\ Iod!Part(i) \in Segment /\ Iod!Part(i).len > 0
         /\ Iod!Part(i).addr = call.pages[i] * PAGE_SIZE + (IF i = 1 THEN call.offset ELSE 0)
         /\ i < n => Iod!Part(i).len = PAGE_SIZE - (IF i = 1 THEN call.offset ELSE 0)
<1> DEFINE from == IF i = 1 THEN call.offset ELSE 0
           left == call.length - (IF i = 1 THEN 0 ELSE (i - 1) * PAGE_SIZE - call.offset)
           total == call.offset + call.length
<1>1. /\ call.pages \in Seq(Nat) /\ call.offset \in 0 .. PAGE_SIZE - 1 /\ call.length \in Nat
      /\ PAGE_SIZE \in Nat \ {0} /\ total \in Nat /\ i \in 1 .. Len(call.pages)
  BY Ioctls
<1>2. call.pages[i] \in Nat  BY <1>1
<1> DEFINE earlier == (i - 1) * PAGE_SIZE
           most == (n - 1) * PAGE_SIZE
<1>3. most < total  BY <1>1, CeilDivIs
<1>4. earlier <= most /\ earlier \in Int /\ most \in Int /\ (i = 1 => earlier = 0)
  <2>1. PAGE_SIZE \in Nat /\ i - 1 \in Int /\ n - 1 \in Int /\ i - 1 <= n - 1  BY <1>1
  <2>2. earlier <= most  BY <2>1, Ordered
  <2> QED  BY <2>1, <2>2
<1>5. left \in Int /\ left > 0
  <2>1. left = call.length - (IF i = 1 THEN 0 ELSE earlier - call.offset)  OBVIOUS
  <2> HIDE DEF earlier, most, left
  <2> QED  BY <1>1, <1>3, <1>4, <2>1
<1>6. ASSUME i < n PROVE left >= PAGE_SIZE - from
  <2>1. PAGE_SIZE \in Nat /\ i \in Int /\ n - 1 \in Int /\ i <= n - 1  BY <1>1, <1>6
  <2>2. i * PAGE_SIZE <= most  BY <2>1, Ordered
  <2>3. earlier = i * PAGE_SIZE - PAGE_SIZE /\ i * PAGE_SIZE \in Int  BY <2>1, Once
  <2>4. left = call.length - (IF i = 1 THEN 0 ELSE earlier - call.offset)  OBVIOUS
  <2> HIDE DEF earlier, most, left
  <2> QED  BY <1>1, <1>3, <1>4, <2>2, <2>3, <2>4
<1>7. PAGE_SIZE - from \in Nat \ {0} /\ from \in Nat  BY <1>1
<1> DEFINE short == Iod!Min({left, PAGE_SIZE - from})
<1>8. short = IF left <= PAGE_SIZE - from THEN left ELSE PAGE_SIZE - from
  BY <1>5, <1>7, LeastOfTwo
<1>9. Iod!Part(i) = [addr |-> call.pages[i] * PAGE_SIZE + from, len |-> short]  BY DEF Iod!Part
<1>10. call.pages[i] * PAGE_SIZE \in Nat  BY <1>1, <1>2
<1> HIDE DEF left, from
<1>11. short \in Nat /\ short > 0 /\ (i < n => short = PAGE_SIZE - from)
  BY <1>5, <1>6, <1>7, <1>8
<1> HIDE DEF short
<1>12. /\ Iod!Part(i) \in Segment /\ Iod!Part(i).len > 0
       /\ Iod!Part(i).addr = call.pages[i] * PAGE_SIZE + from
       /\ i < n => Iod!Part(i).len = PAGE_SIZE - from
  BY <1>7, <1>9, <1>10, <1>11 DEF Segment
<1> QED  BY <1>12 DEF from

-----------------------------------------------------------------------------
(* Mapping *)

LEMMA CoversEach ==
  ASSUME NEW parts \in Seq(Segment)
  PROVE  Covers(parts, parts, Len(parts), [m \in 1 .. Len(parts) + 1 |-> m])
BY DEF Covers

LEMMA CoversGrown ==
  ASSUME NEW parts \in Seq(Segment), NEW n \in 1 .. Len(parts), NEW segs, NEW b,
         Covers(segs, parts, n - 1, b), Iod!Touches(segs, parts[n])
  PROVE  Covers(Iod!Grow(segs, parts[n]), parts, n, [b EXCEPT ![Len(segs) + 1] = n + 1])
<1> DEFINE l == Len(segs)
           w == Iod!Grow(segs, parts[n])
           c == [b EXCEPT ![l + 1] = n + 1]
<1>1. /\ segs \in Seq(Segment) /\ segs # <<>> /\ l \in Nat \ {0} /\ parts[n] \in Segment
      /\ segs[l].addr + segs[l].len = parts[n].addr
  BY DEF Covers, Iod!Touches, Iod!Last
<1>2. /\ w \in Seq(Segment) /\ Len(w) = l
      /\ \A k \in 1 .. l - 1 : w[k] = segs[k]
      /\ w[l].addr = segs[l].addr /\ w[l].len = segs[l].len + parts[n].len
  <2>1. /\ w \in Seq(Segment) /\ Len(w) = l
        /\ \A k \in 1 .. l - 1 : w[k] = segs[k]
        /\ w[l] = [addr |-> segs[l].addr, len |-> segs[l].len + parts[n].len]
    BY <1>1, Grown
  <2> HIDE DEF w
  <2> QED  BY <2>1
<1>3. /\ b \in [1 .. l + 1 -> 1 .. n] /\ b[1] = 1 /\ b[l + 1] = n
      /\ \A m \in 1 .. l :
           /\ b[m] < b[m + 1] /\ segs[m].addr = parts[b[m]].addr
           /\ segs[m].addr + segs[m].len = parts[b[m + 1] - 1].addr + parts[b[m + 1] - 1].len
           /\ \A i \in b[m] .. b[m + 1] - 2 :
                /\ parts[i + 1].addr = parts[i].addr + parts[i].len
                /\ parts[i].addr + parts[i].len + parts[b[m + 1] - 1].len <= segs[m].addr + segs[m].len
  BY DEF Covers
<1>4. /\ c \in [1 .. l + 1 -> 1 .. n + 1] /\ c[l + 1] = n + 1 /\ \A m \in 1 .. l : c[m] = b[m]
  BY <1>1, <1>3
<1>5. ASSUME NEW i \in 1 .. Len(parts) PROVE parts[i].addr \in Nat /\ parts[i].len \in Nat
  <2>1. parts[i] \in Segment  OBVIOUS
  <2> QED  BY <2>1 DEF Segment
<1>6. ASSUME NEW m \in 1 .. l
      PROVE  /\ c[m] < c[m + 1] /\ w[m].addr = parts[c[m]].addr
             /\ w[m].addr + w[m].len = parts[c[m + 1] - 1].addr + parts[c[m + 1] - 1].len
             /\ \A i \in c[m] .. c[m + 1] - 2 :
                  /\ parts[i + 1].addr = parts[i].addr + parts[i].len
                  /\ parts[i].addr + parts[i].len + parts[c[m + 1] - 1].len <= w[m].addr + w[m].len
  <2> HIDE DEF w, c, l
  <2>1. CASE m < l
    <3>1. m \in 1 .. l - 1 /\ m + 1 \in 1 .. l /\ c[m] = b[m] /\ c[m + 1] = b[m + 1] /\ w[m] = segs[m]
      BY <1>1, <1>2, <1>4, <2>1
    <3> QED  BY <1>3, <3>1
  <2>2. CASE m = l
    <3>1. c[m] = b[m] /\ c[m + 1] = n + 1 /\ b[m + 1] = n /\ b[m] \in 1 .. n /\ b[m] < n /\ n - 1 \in 1 .. Len(parts)
      BY <1>1, <1>3, <1>4, <2>2
    <3>2. /\ segs[m].addr = parts[b[m]].addr
          /\ segs[m].addr + segs[m].len = parts[n - 1].addr + parts[n - 1].len
          /\ segs[m].addr + segs[m].len = parts[n].addr
      BY <1>1, <1>3, <2>2, <3>1
    <3>3. segs[m].addr \in Nat /\ segs[m].len \in Nat
      <4>1. segs[m] \in Segment  BY <1>1, <2>2 DEF l
      <4> QED  BY <4>1 DEF Segment
    <3>4. w[m].addr = segs[m].addr /\ w[m].len = segs[m].len + parts[n].len  BY <1>2, <2>2
    <3>5. ASSUME NEW i \in b[m] .. n - 1
          PROVE  /\ parts[i + 1].addr = parts[i].addr + parts[i].len
                 /\ parts[i].addr + parts[i].len + parts[n].len <= w[m].addr + w[m].len
      <4>0. i \in 1 .. Len(parts) /\ n - 1 \in 1 .. Len(parts) /\ n \in 1 .. Len(parts)  BY <3>1
      <4>1. CASE i = n - 1  BY <1>5, <3>2, <3>3, <3>4, <4>0, <4>1
      <4>2. CASE i # n - 1
        <5>1. i \in b[m] .. b[m + 1] - 2  BY <3>1, <4>2
        <5>2. /\ parts[i + 1].addr = parts[i].addr + parts[i].len
              /\ parts[i].addr + parts[i].len + parts[n - 1].len <= segs[m].addr + segs[m].len
          BY <1>3, <3>1, <5>1
        <5>3. /\ parts[i].addr \in Nat /\ parts[i].len \in Nat /\ parts[n].len \in Nat
              /\ parts[n - 1].addr \in Nat /\ parts[n - 1].len \in Nat
          BY <1>5, <4>0
        <5> DEFINE a == parts[i].addr
                   e == parts[i].len
                   o == parts[n - 1].len
                   z == parts[n].len
                   s == segs[m].addr
                   t == segs[m].len
        <5>4. a \in Nat /\ e \in Nat /\ o \in Nat /\ z \in Nat /\ s \in Nat /\ t \in Nat /\ a + e + o <= s + t
          BY <3>3, <5>2, <5>3
        <5>5. w[m].addr = s /\ w[m].len = t + z  BY <3>4
        <5> HIDE DEF a, e, o, z, s, t
        <5>6. a + e + z <= s + (t + z)  BY <5>4
        <5> QED  BY <5>2, <5>5, <5>6 DEF a, e, z
      <4> QED  BY <4>1, <4>2
    <3> QED  BY <1>5, <3>1, <3>2, <3>3, <3>4, <3>5
  <2> QED  BY <1>1, <2>1, <2>2
<1>7. c[1] = 1  BY <1>1, <1>3, <1>4
<1> HIDE DEF w, c
<1>8. Covers(w, parts, n, c)  BY <1>2, <1>4, <1>6, <1>7 DEF Covers
<1> QED  BY <1>8 DEF w, c

LEMMA CoversAppended ==
  ASSUME NEW parts \in Seq(Segment), NEW n \in 1 .. Len(parts), NEW segs, NEW b,
         Covers(segs, parts, n - 1, b)
  PROVE  Covers(Append(segs, parts[n]), parts, n,
                [m \in 1 .. Len(segs) + 2 |-> IF m = Len(segs) + 2 THEN n + 1 ELSE b[m]])
<1> DEFINE l == Len(segs)
           w == Append(segs, parts[n])
           c == [m \in 1 .. l + 2 |-> IF m = l + 2 THEN n + 1 ELSE b[m]]
<1>1. /\ segs \in Seq(Segment) /\ l \in Nat /\ parts[n] \in Segment
      /\ b \in [1 .. l + 1 -> 1 .. n] /\ b[1] = 1 /\ b[l + 1] = n
  BY DEF Covers
<1>2. w \in Seq(Segment) /\ Len(w) = l + 1 /\ w[l + 1] = parts[n] /\ \A k \in 1 .. l : w[k] = segs[k]
  BY <1>1
<1>3. c \in [1 .. l + 2 -> 1 .. n + 1] /\ c[l + 2] = n + 1 /\ \A m \in 1 .. l + 1 : c[m] = b[m]
  BY <1>1
<1>4. ASSUME NEW m \in 1 .. l + 1
      PROVE  /\ c[m] < c[m + 1] /\ w[m].addr = parts[c[m]].addr
             /\ w[m].addr + w[m].len = parts[c[m + 1] - 1].addr + parts[c[m + 1] - 1].len
             /\ \A i \in c[m] .. c[m + 1] - 2 :
                  /\ parts[i + 1].addr = parts[i].addr + parts[i].len
                  /\ parts[i].addr + parts[i].len + parts[c[m + 1] - 1].len <= w[m].addr + w[m].len
  <2> HIDE DEF w, c
  <2>1. CASE m <= l
    <3>1. m \in 1 .. l /\ c[m] = b[m] /\ c[m + 1] = b[m + 1] /\ w[m] = segs[m]  BY <1>1, <1>2, <1>3, <2>1
    <3> QED  BY <3>1 DEF Covers
  <2>2. CASE m = l + 1
    <3>1. c[m] = n /\ c[m + 1] = n + 1 /\ w[m] = parts[n]  BY <1>1, <1>2, <1>3, <2>2
    <3> QED  BY <3>1
  <2> QED  BY <1>1, <2>1, <2>2
<1>5. c[1] = 1  BY <1>1, <1>3
<1> HIDE DEF w, c
<1>6. Covers(w, parts, n, c)  BY <1>1, <1>2, <1>3, <1>4, <1>5 DEF Covers
<1> QED  BY <1>6 DEF w, c

LEMMA CoversJoined ==
  ASSUME NEW parts \in Seq(Segment)
  PROVE  \E b : Covers(Iod!Joined(parts), parts, Len(parts), b)
<1>1. PICK J \in [0 .. Len(parts) -> Seq(Segment)] :
           /\ J[0] = <<>> /\ Iod!Joined(parts) = J[Len(parts)]
           /\ \A n \in 1 .. Len(parts) :
                J[n] = IF Iod!Touches(J[n - 1], parts[n]) THEN Iod!Grow(J[n - 1], parts[n])
                       ELSE Append(J[n - 1], parts[n])
  BY JoinedIs
<1> DEFINE T == {n \in 0 .. Len(parts) : \E b : Covers(J[n], parts, n, b)}
<1>2. 0 \in T
  <2>1. Covers(<<>>, parts, 0, [m \in 1 .. 1 |-> 1])  BY DEF Covers
  <2> QED  BY <1>1, <2>1
<1>3. ASSUME NEW n \in 1 .. Len(parts), n - 1 \in T PROVE n \in T
  <2>1. PICK b : Covers(J[n - 1], parts, n - 1, b)  BY <1>3
  <2>2. \E c : Covers(J[n], parts, n, c)
    <3>1. CASE Iod!Touches(J[n - 1], parts[n])
      <4>1. J[n] = Iod!Grow(J[n - 1], parts[n])  BY <1>1, <3>1
      <4> QED  BY <2>1, <3>1, <4>1, CoversGrown
    <3>2. CASE ~Iod!Touches(J[n - 1], parts[n])
      <4>1. J[n] = Append(J[n - 1], parts[n])  BY <1>1, <3>2
      <4> QED  BY <2>1, <4>1, CoversAppended
    <3> QED  BY <3>1, <3>2
  <2> QED  BY <2>2
<1> HIDE DEF T
<1>4. Len(parts) \in Nat /\ Len(parts) \in 0 .. Len(parts)  OBVIOUS
<1>5. Len(parts) \in T  BY <1>2, <1>3, <1>4, Induction
<1> QED  BY <1>1, <1>5 DEF T

Taking == {acc \in [segs : Seq(Segment), stop : BOOLEAN] : acc.stop => acc.segs # <<>>}

\* A bio of segments keeps at least its first.
LEMMA TakenIs ==
  ASSUME NEW vecs \in Seq(Segment), vecs # <<>>
  PROVE  Iod!Taken(vecs) \in Seq(Segment) /\ Iod!Taken(vecs) # <<>>
<1> DEFINE after(n, acc) ==
             IF acc.stop THEN acc
             ELSE IF Iod!Touches(acc.segs, vecs[n]) THEN [acc EXCEPT !.segs = Iod!Grow(@, vecs[n])]
             ELSE IF Iod!Hole(acc.segs, vecs[n]) THEN [acc EXCEPT !.stop = TRUE]
             ELSE [acc EXCEPT !.segs = Append(@, vecs[n])]
           none == [segs |-> <<>>, stop |-> FALSE]
           J == CHOOSE f : f = [n \in 0 .. Len(vecs) |-> IF n = 0 THEN none ELSE after(n, f[n - 1])]
           g == [p \in (1 .. Len(vecs)) \X Taking |-> after(p[1], p[2])]
<1>1. Iod!Taken(vecs) = J[Len(vecs)].segs  BY DEF Iod!Taken
<1>2. ASSUME NEW n \in 1 .. Len(vecs), NEW acc \in Taking
      PROVE  after(n, acc) \in Taking /\ after(n, acc).segs # <<>>
  <2>1. /\ acc \in [segs : Seq(Segment), stop : BOOLEAN] /\ acc.segs \in Seq(Segment) /\ vecs[n] \in Segment
        /\ acc.stop => acc.segs # <<>>
    BY DEF Taking
  <2> DEFINE segs == acc.segs
             grown == Iod!Grow(segs, vecs[n])
             longer == Append(segs, vecs[n])
  <2>2. CASE acc.stop  BY <2>1, <2>2
  <2>3. CASE ~acc.stop /\ Iod!Touches(segs, vecs[n])
    <3>1. segs # <<>>  BY <2>3 DEF Iod!Touches
    <3>2. grown \in Seq(Segment) /\ Len(grown) = Len(segs)  BY <2>1, <3>1, Grown
    <3>3. after(n, acc) = [acc EXCEPT !.segs = grown]  BY <2>3
    <3> HIDE DEF grown, after
    <3>4. grown # <<>>  BY <2>1, <3>1, <3>2
    <3>5. /\ [acc EXCEPT !.segs = grown] \in [segs : Seq(Segment), stop : BOOLEAN]
          /\ [acc EXCEPT !.segs = grown].segs = grown
      BY <2>1, <3>2
    <3> QED  BY <3>3, <3>4, <3>5 DEF Taking
  <2>4. CASE ~acc.stop /\ ~Iod!Touches(segs, vecs[n]) /\ Iod!Hole(segs, vecs[n])
    <3>1. segs # <<>>  BY <2>4 DEF Iod!Hole
    <3>2. after(n, acc) = [acc EXCEPT !.stop = TRUE]  BY <2>4
    <3> HIDE DEF after
    <3>3. /\ [acc EXCEPT !.stop = TRUE] \in [segs : Seq(Segment), stop : BOOLEAN]
          /\ [acc EXCEPT !.stop = TRUE].segs = segs
      BY <2>1
    <3> QED  BY <3>1, <3>2, <3>3 DEF Taking
  <2>5. CASE ~acc.stop /\ ~Iod!Touches(segs, vecs[n]) /\ ~Iod!Hole(segs, vecs[n])
    <3>1. after(n, acc) = [acc EXCEPT !.segs = longer]  BY <2>5
    <3>2. longer \in Seq(Segment) /\ longer # <<>>  BY <2>1
    <3> HIDE DEF longer, after
    <3>3. /\ [acc EXCEPT !.segs = longer] \in [segs : Seq(Segment), stop : BOOLEAN]
          /\ [acc EXCEPT !.segs = longer].segs = longer
      BY <2>1, <3>2
    <3> QED  BY <3>1, <3>2, <3>3 DEF Taking
  <2> QED  BY <2>1, <2>2, <2>3, <2>4, <2>5
<1>3. Len(vecs) \in Nat \ {0} /\ none \in Taking  BY DEF Taking
<1> HIDE DEF after, none
<1>4. g \in [(1 .. Len(vecs)) \X Taking -> Taking]  BY <1>2
<1>5. PICK f : Steps(f, Len(vecs), Taking, none, g)
  <2> HIDE DEF g
  <2> QED  BY <1>3, <1>4, Recursion
<1>6. f = [n \in 0 .. Len(vecs) |-> IF n = 0 THEN none ELSE after(n, f[n - 1])]
  <2>1. \A n \in 1 .. Len(vecs) : f[n] = after(n, f[n - 1])
    <3> TAKE n \in 1 .. Len(vecs)
    <3>1. f[n - 1] \in Taking  BY <1>5 DEF Steps
    <3>2. g[<<n, f[n - 1]>>] = after(n, f[n - 1])  BY <3>1
    <3> QED  BY <1>5, <3>2 DEF Steps
  <2>2. f = [n \in 0 .. Len(vecs) |-> f[n]]  BY <1>5 DEF Steps
  <2>3. \A n \in 0 .. Len(vecs) : f[n] = IF n = 0 THEN none ELSE after(n, f[n - 1])
    BY <1>3, <1>5, <2>1 DEF Steps
  <2> QED  BY <2>2, <2>3
<1>7. J = [n \in 0 .. Len(vecs) |-> IF n = 0 THEN none ELSE after(n, J[n - 1])]  BY <1>6, Zenon
<1> HIDE DEF J
<1>8. \A n \in 0 .. Len(vecs) : J[n] \in Taking
  <2> DEFINE T == {n \in 0 .. Len(vecs) : J[n] \in Taking}
  <2>1. 0 \in T  BY <1>3, <1>7
  <2>2. ASSUME NEW n \in 1 .. Len(vecs), n - 1 \in T PROVE n \in T
    <3>1. J[n - 1] \in Taking /\ J[n] = after(n, J[n - 1])  BY <1>3, <1>7, <2>2
    <3> QED  BY <1>2, <3>1
  <2> HIDE DEF T
  <2>3. \A n \in 0 .. Len(vecs) : n \in T  BY <1>3, <2>1, <2>2, Induction
  <2> QED  BY <2>3 DEF T
<1> DEFINE all == Len(vecs)
<1>9. all \in 1 .. all /\ J[all - 1] \in Taking /\ J[all] = after(all, J[all - 1]) /\ J[all] \in Taking
  <2>1. all \in Nat \ {0} /\ all \in 0 .. all /\ all - 1 \in 0 .. all /\ all # 0  BY <1>3
  <2>2. J[all] = after(all, J[all - 1])  BY <1>7, <2>1
  <2> QED  BY <1>8, <2>1, <2>2
<1>10. J[all].segs # <<>>  BY <1>2, <1>9
<1>11. J[all].segs \in Seq(Segment)  BY <1>9 DEF Taking
<1> QED  BY <1>1, <1>10, <1>11

LEMMA BytesIs == ASSUME NEW segs \in Seq(Segment) PROVE Iod!Bytes(segs) \in Nat
<1> DEFINE J == CHOOSE f : f = [n \in 0 .. Len(segs) |-> IF n = 0 THEN 0 ELSE f[n - 1] + segs[n].len]
           g == [p \in (1 .. Len(segs)) \X Nat |-> p[2] + segs[p[1]].len]
<1>1. Iod!Bytes(segs) = J[Len(segs)]  BY DEF Iod!Bytes
<1>2. ASSUME NEW n \in 1 .. Len(segs) PROVE segs[n].len \in Nat
  <2>1. segs[n] \in Segment  OBVIOUS
  <2> QED  BY <2>1 DEF Segment
<1>3. Len(segs) \in Nat  OBVIOUS
<1>4. g \in [(1 .. Len(segs)) \X Nat -> Nat]  BY <1>2
<1>5. PICK f : Steps(f, Len(segs), Nat, 0, g)
  <2> HIDE DEF g
  <2> QED  BY <1>3, <1>4, Recursion
<1>6. f = [n \in 0 .. Len(segs) |-> IF n = 0 THEN 0 ELSE f[n - 1] + segs[n].len]
  <2>1. \A n \in 1 .. Len(segs) : f[n] = f[n - 1] + segs[n].len
    <3> TAKE n \in 1 .. Len(segs)
    <3>1. f[n - 1] \in Nat  BY <1>5 DEF Steps
    <3>2. g[<<n, f[n - 1]>>] = f[n - 1] + segs[n].len  BY <3>1
    <3> QED  BY <1>5, <3>2 DEF Steps
  <2>2. f = [n \in 0 .. Len(segs) |-> f[n]]  BY <1>5 DEF Steps
  <2>3. \A n \in 0 .. Len(segs) : f[n] = IF n = 0 THEN 0 ELSE f[n - 1] + segs[n].len
    BY <1>3, <1>5, <2>1 DEF Steps
  <2> QED  BY <2>2, <2>3
<1>7. J = [n \in 0 .. Len(segs) |-> IF n = 0 THEN 0 ELSE J[n - 1] + segs[n].len]  BY <1>6, Zenon
<1> HIDE DEF J
<1>8. \A n \in 0 .. Len(segs) : J[n] \in Nat
  <2> DEFINE T == {n \in 0 .. Len(segs) : J[n] \in Nat}
  <2>1. 0 \in T  BY <1>3, <1>7
  <2>2. ASSUME NEW n \in 1 .. Len(segs), n - 1 \in T PROVE n \in T
    <3>1. J[n - 1] \in Nat /\ J[n] = J[n - 1] + segs[n].len  BY <1>3, <1>7, <2>2
    <3> QED  BY <1>2, <3>1
  <2> HIDE DEF T
  <2>3. \A n \in 0 .. Len(segs) : n \in T  BY <1>3, <2>1, <2>2, Induction
  <2> QED  BY <2>3 DEF T
<1> QED  BY <1>1, <1>3, <1>8

-----------------------------------------------------------------------------
(* The parts and the loop of nvme_setup_prps() *)

LEMMA Sizes ==
  ASSUME IodConstants
  PROVE  /\ PAGE_SIZE \in Nat \ {0} /\ LIST \in Nat /\ LIST >= 2 /\ SMALL \in 1 .. LIST /\ EBUSY \in Nat
         /\ LIST - 1 \in Nat \ {0}
BY DEF IodConstants

LEMMA PartsAre ==
  ASSUME IodConstants, IodTypes, Kept, pinned > 0, Pinned
  PROVE  /\ call.kind = "ioctl" /\ call.offset \in 0 .. PAGE_SIZE - 1 /\ call.length \in Nat
         /\ pinned \in Nat \ {0} /\ Parts \in Seq(Segment) /\ Len(Parts) = pinned
         /\ Iod!Offset(Parts[1].addr) = call.offset
         /\ Parts[1].len <= PAGE_SIZE - call.offset
         /\ \A i \in 1 .. pinned : Parts[i] = Iod!Part(i) /\ Parts[i] \in Segment /\ Parts[i].len > 0
         /\ \A i \in 1 .. pinned - 1 :
              Parts[i].len = PAGE_SIZE - (IF i = 1 THEN call.offset ELSE 0)
         /\ \A i \in Nat : i * PAGE_SIZE < call.offset + call.length => i < pinned
         /\ \A i \in Nat : call.offset + call.length <= i * PAGE_SIZE => pinned <= i
<1> DEFINE total == call.offset + call.length
<1>1. call.kind \in {"ioctl", "bio"} /\ call \in Calls  BY DEF IodTypes, Calls
<1>2. call.kind = "ioctl"  BY <1>1 DEF Kept, IodTypes
<1>3. /\ call.pages \in Seq(Nat) /\ call.offset \in 0 .. PAGE_SIZE - 1 /\ call.length \in Nat
      /\ PAGE_SIZE \in Nat \ {0} /\ total \in Nat /\ pinned \in 0 .. Len(call.pages)
  BY <1>1, <1>2, Ioctls DEF Pinned
<1>4. pinned \in Nat \ {0}  BY <1>3
<1>5. ASSUME NEW i \in 1 .. pinned
      PROVE  /\ Iod!Part(i) \in Segment /\ Iod!Part(i).len > 0
             /\ Iod!Part(i).addr = call.pages[i] * PAGE_SIZE + (IF i = 1 THEN call.offset ELSE 0)
             /\ i < pinned => Iod!Part(i).len = PAGE_SIZE - (IF i = 1 THEN call.offset ELSE 0)
  <2>1. call.length > 0 /\ pinned = Iod!CeilDiv(call.offset + call.length, PAGE_SIZE)  BY DEF Pinned
  <2> QED  BY <1>1, <1>2, <1>4, <2>1, PartIs
<1>6. \A i \in 1 .. pinned : Parts[i] = Iod!Part(i) /\ Parts[i] \in Segment /\ Parts[i].len > 0
  BY <1>5 DEF Parts
<1>7. Parts \in Seq(Segment) /\ Len(Parts) = pinned  BY <1>4, <1>5 DEF Parts
<1>8. Iod!Offset(Parts[1].addr) = call.offset
  <2>1. 1 \in 1 .. pinned /\ call.pages[1] \in Nat  BY <1>3, <1>4
  <2>2. Parts[1].addr = call.pages[1] * PAGE_SIZE + call.offset  BY <1>5, <1>6, <2>1
  <2>3. (call.pages[1] * PAGE_SIZE + call.offset) % PAGE_SIZE = call.offset  BY <1>3, <2>1, DividedOnce
  <2> QED  BY <2>2, <2>3 DEF Iod!Offset
<1>9. \A i \in 1 .. pinned - 1 : Parts[i].len = PAGE_SIZE - (IF i = 1 THEN call.offset ELSE 0)
  <2> TAKE i \in 1 .. pinned - 1
  <2>1. i \in 1 .. pinned /\ i < pinned  BY <1>4
  <2> QED  BY <1>5, <1>6, <2>1
<1>10. (pinned - 1) * PAGE_SIZE < total /\ total <= pinned * PAGE_SIZE
  BY <1>3, CeilDivIs DEF Pinned
<1>11. ASSUME NEW i \in Nat, i * PAGE_SIZE < total PROVE i < pinned
  <2>1. CASE i >= pinned
    <3>1. pinned * PAGE_SIZE <= i * PAGE_SIZE  BY <1>3, <1>4, <2>1, Ordered
    <3> DEFINE x == pinned * PAGE_SIZE
               y == i * PAGE_SIZE
    <3>2. y \in Int /\ x \in Int  BY <1>3, <1>4, Once
    <3>3. total \in Int /\ total <= x /\ x <= y /\ y < total  BY <1>3, <1>10, <1>11, <3>1
    <3> HIDE DEF total, x, y
    <3> QED  BY <3>2, <3>3
  <2> QED  BY <1>4, <2>1
<1>12. ASSUME NEW i \in Nat, total <= i * PAGE_SIZE PROVE pinned <= i
  <2>1. CASE i <= pinned - 1
    <3>1. i * PAGE_SIZE <= (pinned - 1) * PAGE_SIZE  BY <1>3, <1>4, <2>1, Ordered
    <3> DEFINE x == (pinned - 1) * PAGE_SIZE
               y == i * PAGE_SIZE
    <3>2. y \in Int /\ x \in Int  BY <1>3, <1>4, Once
    <3>3. total \in Int /\ x < total /\ total <= y /\ y <= x  BY <1>3, <1>10, <1>12, <3>1
    <3> HIDE DEF total, x, y
    <3> QED  BY <3>2, <3>3
  <2> QED  BY <1>4, <2>1
<1>13. Parts[1].len <= PAGE_SIZE - call.offset
  <2> DEFINE left == call.length
             room == PAGE_SIZE - call.offset
  <2>1. 1 \in 1 .. pinned /\ left \in Int /\ room \in Int  BY <1>3, <1>4
  <2>2. Iod!Part(1).len = Iod!Min({left, room})
    <3>1. left - 0 = left  BY <2>1
    <3> QED  BY <3>1 DEF Iod!Part
  <2>3. Iod!Min({left, room}) <= room  BY <2>1, LeastOfTwo
  <2> QED  BY <1>6, <2>1, <2>2, <2>3
<1> QED  BY <1>2, <1>3, <1>4, <1>6, <1>7, <1>8, <1>9, <1>11, <1>12, <1>13

\* From the i-th part, somewhere in the s-th segment, to the next.
LEMMA Advance ==
  ASSUME NEW parts \in Seq(Segment), NEW segs, NEW b, Covers(segs, parts, Len(parts), b),
         \A i \in 1 .. Len(parts) : parts[i].len > 0,
         NEW s \in 1 .. Len(segs), NEW i \in 1 .. Len(parts) - 1, b[s] <= i, i < b[s + 1],
         NEW len \in Nat, parts[i].addr + len = segs[s].addr + segs[s].len
  PROVE  IF len > parts[i].len
           THEN i + 1 < b[s + 1] /\ parts[i + 1].addr = parts[i].addr + parts[i].len
           ELSE /\ s + 1 \in 1 .. Len(segs) /\ b[s + 1] = i + 1 /\ i + 1 < b[s + 2]
                /\ segs[s + 1].addr = parts[i + 1].addr
<1> DEFINE n == Len(parts)
<1>1. /\ b \in [1 .. Len(segs) + 1 -> 1 .. n + 1] /\ b[Len(segs) + 1] = n + 1
      /\ segs \in Seq(Segment) /\ n \in Nat /\ Len(segs) \in Nat
      /\ segs[s].addr + segs[s].len = parts[b[s + 1] - 1].addr + parts[b[s + 1] - 1].len
      /\ \A j \in b[s] .. b[s + 1] - 2 :
           /\ parts[j + 1].addr = parts[j].addr + parts[j].len
           /\ parts[j].addr + parts[j].len + parts[b[s + 1] - 1].len <= segs[s].addr + segs[s].len
  BY DEF Covers
<1>2. /\ s \in 1 .. Len(segs) + 1 /\ s + 1 \in 1 .. Len(segs) + 1
      /\ b[s] \in 1 .. n + 1 /\ b[s + 1] \in 1 .. n + 1 /\ b[s + 1] - 1 \in 1 .. n /\ i \in 1 .. n
  <2>1. s \in 1 .. Len(segs) + 1 /\ s + 1 \in 1 .. Len(segs) + 1 /\ i \in 1 .. n  BY <1>1
  <2>2. b[s] \in 1 .. n + 1 /\ b[s + 1] \in 1 .. n + 1  BY <1>1, <2>1
  <2> QED  BY <1>1, <2>1, <2>2
<1>3. \A j \in 1 .. n : parts[j].addr \in Nat /\ parts[j].len \in Nat /\ parts[j].len > 0
  <2> TAKE j \in 1 .. n
  <2>1. parts[j] \in Segment  BY <1>1
  <2> QED  BY <2>1 DEF Segment
<1> DEFINE a == parts[i].addr
           l == parts[i].len
           z == parts[b[s + 1] - 1].len
           e == segs[s].addr + segs[s].len
<1>4. a \in Nat /\ l \in Nat /\ z \in Nat /\ z > 0 /\ a + len = e  BY <1>2, <1>3
<1>5. CASE i + 1 < b[s + 1]
  <2>1. i \in b[s] .. b[s + 1] - 2  BY <1>2, <1>5
  <2>2. parts[i + 1].addr = a + l /\ a + l + z <= e  BY <1>1, <2>1
  <2> HIDE DEF a, l, z, e
  <2>3. len > l  BY <1>4, <2>2
  <2> QED  BY <1>5, <2>2, <2>3 DEF a, l
<1>6. CASE ~(i + 1 < b[s + 1])
  <2>1. b[s + 1] = i + 1 /\ b[s + 1] - 1 = i  BY <1>2, <1>6
  <2>2. e = a + l  BY <1>1, <2>1
  <2>3. ~(len > l)
    <3> HIDE DEF a, l, e
    <3> QED  BY <1>4, <2>2
  <2>4. s # Len(segs)  BY <1>1, <1>2, <2>1
  <2>5. s + 1 \in 1 .. Len(segs)  BY <1>1, <2>4
  <2>6. b[s + 1] < b[(s + 1) + 1] /\ segs[s + 1].addr = parts[b[s + 1]].addr  BY <2>5 DEF Covers
  <2>7. (s + 1) + 1 = s + 2  OBVIOUS
  <2> QED  BY <2>1, <2>3, <2>5, <2>6, <2>7
<1> QED  BY <1>5, <1>6

LEMMA IodInit == ASSUME IodConstants, Iod!Init PROVE IodInv
<1>1. call \in Calls
  <2>1. CASE \E b \in UserBuffers :
               call = [kind |-> "ioctl", pages |-> b.pages, offset |-> b.offset, length |-> b.length]
    <3>1. PICK b \in UserBuffers :
            call = [kind |-> "ioctl", pages |-> b.pages, offset |-> b.offset, length |-> b.length]
      BY <2>1
    <3>2. /\ b.pages \in Seq(Nat) /\ b.offset \in 0 .. PAGE_SIZE - 1 /\ b.length \in Nat
          /\ Iod!CeilDiv(b.offset + b.length, PAGE_SIZE) <= Len(b.pages)
      BY DEF IodConstants
    <3>3. /\ call.pages = b.pages /\ call.offset = b.offset /\ call.length = b.length
          /\ call \in [kind : {"ioctl"}, pages : Seq(Nat), offset : 0 .. PAGE_SIZE - 1, length : Nat]
      BY <3>1, <3>2
    <3> QED  BY <3>2, <3>3 DEF Calls
  <2>2. CASE \E v \in Bios : call = [kind |-> "bio", vecs |-> v]  BY <2>2 DEF IodConstants, Calls
  <2> QED  BY <2>1, <2>2 DEF Iod!Init
<1>2. IodTypes  BY <1>1 DEF Iod!Init, IodTypes
<1>3. Kept  BY DEF Iod!Init, Kept
<1>4. Describing  BY DEF Iod!Init, Describing
<1> QED  BY <1>2, <1>3, <1>4 DEF IodInv

LEMMA SameParts == ASSUME call' = call, pinned' = pinned PROVE Parts' = Parts
BY DEF Parts, Iod!Part

LEMMA IodMapUserPages == ASSUME IodConstants, IodInv, Iod!MapUserPages PROVE IodInv'
<1> DEFINE count == Iod!CeilDiv(call.offset + call.length, PAGE_SIZE)
           segs  == [i \in 1 .. count |-> Iod!Part(i)]
<1>1. /\ iod_step = "map" /\ call.kind = "ioctl" /\ call' = call /\ dev' = dev
      /\ UNCHANGED <<length, seg, dma_addr, dma_len, prp1, prp2, lists, npages>>
  BY DEF Iod!MapUserPages, Iod!prpVars
<1>2. IodTypes /\ Kept /\ call \in Calls /\ sg = <<>> /\ seg = 0 /\ pinned = 0 /\ lists = <<>> /\ npages = -1 /\ dev = "none"
  BY <1>1 DEF IodInv, IodTypes, Kept
<1>3. call.length \in Nat  BY <1>1, <1>2, Ioctls
<1>4. CASE call.length = 0 \/ iod_step' = "end"
  <2>1. UNCHANGED <<pinned, nents, sg, mapped>> /\ iod_step' \in {"end", "submit"}
    BY <1>1, <1>4 DEF Iod!MapUserPages
  <2>2. IodTypes'  BY <1>1, <1>2, <2>1 DEF IodTypes
  <2>3. Kept'  BY <1>1, <1>2, <2>1 DEF Kept
  <2>4. Describing'  BY <1>2, <2>1 DEF Describing
  <2> QED  BY <2>2, <2>3, <2>4 DEF IodInv
<1>5. CASE call.length > 0 /\ iod_step' = "put_pages"
  <2>1. /\ UNCHANGED <<sg, mapped>> /\ pinned' \in 0 .. count /\ nents' = pinned'
    BY <1>3, <1>5 DEF Iod!MapUserPages, Iod!ToPut
  <2>2. IodTypes'
    <3>1. pinned' \in Nat  BY <2>1
    <3> QED  BY <1>1, <1>2, <1>5, <2>1, <3>1 DEF IodTypes
  <2>3. Kept'  BY <1>1, <1>2, <1>5, <2>1 DEF Kept
  <2>4. Describing'  BY <1>5 DEF Describing
  <2> QED  BY <2>2, <2>3, <2>4 DEF IodInv
<1>6. CASE call.length > 0 /\ iod_step' \notin {"end", "put_pages"}
  <2>1. pinned' = count /\ nents' = count /\ sg' \in {segs, Iod!Joined(segs)} /\ mapped' = call.length /\ iod_step' = "setup"
    BY <1>3, <1>6 DEF Iod!MapUserPages
  <2>2. /\ call.offset \in 0 .. PAGE_SIZE - 1 /\ PAGE_SIZE \in Nat \ {0} /\ call.offset + call.length \in Nat
        /\ count \in Nat /\ (count - 1) * PAGE_SIZE < call.offset + call.length
        /\ call.offset + call.length <= count * PAGE_SIZE
    BY <1>1, <1>2, Ioctls, CeilDivIs
  <2>3. count > 0
    <3>1. CASE count = 0
      <4>1. count * PAGE_SIZE = 0  BY <2>2, <3>1
      <4> HIDE DEF count
      <4> QED  BY <1>3, <1>6, <2>2, <4>1
    <3> QED  BY <2>2, <3>1
  <2>4. \A i \in 1 .. count : Iod!Part(i) \in Segment  BY <1>1, <1>2, <1>6, <2>2, PartIs
  <2>5. segs \in Seq(Segment) /\ Len(segs) = count
    <3> HIDE DEF count
    <3> QED  BY <2>2, <2>4
  <2>6. Parts' = segs  BY <1>1, <2>1 DEF Parts, Iod!Part
  <2> HIDE DEF segs
  <2>7. PICK b : Covers(sg', segs, count, b)
    <3> HIDE DEF count
    <3>1. CASE sg' = segs  BY <2>5, <3>1, CoversEach
    <3>2. CASE sg' = Iod!Joined(segs)  BY <2>5, <3>2, CoversJoined
    <3> QED  BY <2>1, <3>1, <3>2
  <2> HIDE DEF count
  <2>8. sg' \in Seq(Segment) /\ sg' # <<>>  BY <2>2, <2>3, <2>7 DEF Covers
  <2>9. IodTypes'  BY <1>1, <1>2, <1>3, <2>1, <2>2, <2>8 DEF IodTypes
  <2>10. Kept'  BY <1>1, <1>2, <2>1, <2>3, <2>8 DEF Kept
  <2>11. Pinned'  BY <1>1, <1>6, <2>1 DEF Pinned, Iod!CeilDiv, count
  <2>12. (\E c : Covers(sg, Parts, pinned, c))'  BY <2>1, <2>6, <2>7 DEF Covers
  <2>13. Describing'  BY <2>1, <2>11, <2>12 DEF Describing
  <2> QED  BY <2>9, <2>10, <2>13 DEF IodInv
<1> QED  BY <1>3, <1>4, <1>5, <1>6

LEMMA IodPutPages == ASSUME IodConstants, IodInv, Iod!PutPages PROVE IodInv'
<1>1. /\ iod_step = "put_pages" /\ iod_step' = "end" /\ pinned' = pinned - nents
      /\ UNCHANGED <<call, result, nents, sg, mapped, dev>>
      /\ UNCHANGED <<length, seg, dma_addr, dma_len, prp1, prp2, lists, npages>>
  BY DEF Iod!PutPages, Iod!prpVars
<1>2. IodTypes /\ Kept  BY DEF IodInv
<1>3. pinned' = 0  BY <1>1, <1>2 DEF IodTypes
<1>4. IodTypes'  BY <1>1, <1>2, <1>3 DEF IodTypes
<1>5. Kept'  BY <1>1, <1>2, <1>3 DEF Kept
<1>6. Describing'  BY <1>3 DEF Describing
<1> QED  BY <1>4, <1>5, <1>6 DEF IodInv

LEMMA IodMapBio == ASSUME IodConstants, IodInv, Iod!MapBio PROVE IodInv'
<1>1. /\ iod_step = "map" /\ call.kind = "bio" /\ iod_step' = "setup" /\ sg' = Iod!Taken(call.vecs)
      /\ mapped' \in {Iod!Bytes(sg'), 0} /\ UNCHANGED <<call, result, pinned, nents, dev>>
      /\ UNCHANGED <<length, seg, dma_addr, dma_len, prp1, prp2, lists, npages>>
  BY DEF Iod!MapBio, Iod!prpVars
<1>2. IodTypes /\ Kept /\ call \in Calls /\ sg = <<>> /\ seg = 0 /\ pinned = 0 /\ lists = <<>> /\ npages = -1 /\ dev = "none"
  BY <1>1 DEF IodInv, IodTypes, Kept
<1>3. call.vecs \in Seq(Segment) /\ call.vecs # <<>>  BY <1>1, <1>2 DEF Calls
<1>4. sg' \in Seq(Segment) /\ sg' # <<>>  BY <1>1, <1>3, TakenIs
<1>5. mapped' \in Nat  BY <1>1, <1>4, BytesIs
<1>6. IodTypes'  BY <1>1, <1>2, <1>4, <1>5 DEF IodTypes
<1>7. Kept'  BY <1>1, <1>2, <1>4 DEF Kept
<1>8. Describing'  BY <1>1, <1>2 DEF Describing
<1> QED  BY <1>6, <1>7, <1>8 DEF IodInv

\* The first part is written; what the second lies in.
LEMMA IodSetupPrps == ASSUME IodConstants, IodInv, Iod!SetupPrps PROVE IodInv'
<1> DEFINE first == PAGE_SIZE - Iod!Offset(sg[1].addr)
           rest  == Iod!Total - first
           more  == sg[1].len > first
           next  == IF more THEN sg[1].addr + first ELSE IF Len(sg) > 1 THEN sg[2].addr ELSE 0
<1>1. /\ iod_step = "setup" /\ UNCHANGED <<call, result, pinned, nents, sg, mapped, lists, npages, dev>>
      /\ prp1' = <<"data", sg[1].addr>> /\ length' = rest
      /\ IF rest <= 0
           THEN iod_step' = Iod!Tested(Iod!Total) /\ UNCHANGED <<seg, dma_addr, dma_len, prp2>>
           ELSE /\ seg' = IF more THEN 1 ELSE 2
                /\ dma_addr' = next
                /\ dma_len' = IF more THEN sg[1].len - first ELSE sg[2].len
                /\ IF rest <= PAGE_SIZE
                     THEN prp2' = <<"data", next>> /\ iod_step' = Iod!Tested(Iod!Total)
                     ELSE UNCHANGED prp2 /\ iod_step' = "list"
  BY DEF Iod!SetupPrps
<1>2. /\ IodTypes /\ Kept /\ Describing /\ call \in Calls /\ sg \in Seq(Segment) /\ sg # <<>> /\ lists = <<>>
      /\ npages = -1 /\ dev = "none" /\ mapped \in Nat /\ (call.kind = "ioctl" => pinned > 0) /\ pinned \in Nat
      /\ (call.kind = "bio" => pinned = 0)
      /\ call.kind \in {"ioctl", "bio"}
  BY <1>1 DEF IodInv, IodTypes, Kept, Calls
<1>3. PAGE_SIZE \in Nat \ {0} /\ EBUSY \in Nat  BY Sizes
<1>4. 1 \in 1 .. Len(sg) /\ sg[1] \in Segment /\ sg[1].addr \in Nat /\ sg[1].len \in Nat
  <2>1. 1 \in 1 .. Len(sg) /\ sg[1] \in Segment  BY <1>2
  <2> QED  BY <2>1 DEF Segment
<1>5. first \in 1 .. PAGE_SIZE
  <2>1. sg[1].addr % PAGE_SIZE \in 0 .. PAGE_SIZE - 1  BY <1>3, <1>4, Divided
  <2> QED  BY <1>3, <2>1 DEF Iod!Offset
<1>6. Parts' = Parts  BY <1>1, SameParts
<1> HIDE DEF first
<1>7. CASE call.kind = "bio"
  <2>1. Iod!Total = -EBUSY  BY <1>7 DEF Iod!Total
  <2>2. rest \in Int /\ rest <= 0  BY <1>3, <1>5, <2>1
  <2>3. iod_step' = "submit" /\ UNCHANGED <<seg, dma_addr, dma_len, prp2>>
    BY <1>1, <1>7, <2>2 DEF Iod!Tested
  <2>4. IodTypes'  BY <1>1, <1>2, <2>2, <2>3 DEF IodTypes
  <2>5. Kept'  BY <1>1, <1>2, <2>3 DEF Kept
  <2>6. Describing'  BY <1>1, <1>2, <1>7 DEF Describing
  <2> QED  BY <2>4, <2>5, <2>6 DEF IodInv
<1>8. CASE call.kind = "ioctl"
  <2>1. pinned > 0 /\ Pinned /\ Iod!Total = mapped /\ mapped = call.length /\ Iod!Tested(Iod!Total) = "submit"
    BY <1>1, <1>2, <1>8 DEF Describing, Pinned, Iod!Total, Iod!Tested
  <2>2. PICK b : Covers(sg, Parts, pinned, b)  BY <1>1, <1>2, <2>1 DEF Describing
  <2>3. /\ call.offset \in 0 .. PAGE_SIZE - 1 /\ call.length \in Nat
        /\ pinned \in Nat \ {0} /\ Parts \in Seq(Segment) /\ Len(Parts) = pinned
        /\ Iod!Offset(Parts[1].addr) = call.offset
        /\ Parts[1].len <= PAGE_SIZE - call.offset
        /\ \A i \in 1 .. pinned : Parts[i] \in Segment /\ Parts[i].len > 0
        /\ pinned > 1 => Parts[1].len = PAGE_SIZE - call.offset
    BY <1>2, <2>1, PartsAre
  <2>4. 1 * PAGE_SIZE = PAGE_SIZE /\ 2 * PAGE_SIZE = PAGE_SIZE + PAGE_SIZE  BY <1>3
  <2>5. /\ PAGE_SIZE < call.offset + call.length => 1 < pinned
        /\ call.offset + call.length <= PAGE_SIZE => pinned <= 1
        /\ PAGE_SIZE + PAGE_SIZE < call.offset + call.length => 2 < pinned
        /\ call.offset + call.length <= PAGE_SIZE + PAGE_SIZE => pinned <= 2
    <3>1. \A i \in Nat : /\ i * PAGE_SIZE < call.offset + call.length => i < pinned
                         /\ call.offset + call.length <= i * PAGE_SIZE => pinned <= i
      BY <1>2, <2>1, PartsAre
    <3>2. 1 \in Nat /\ 2 \in Nat  OBVIOUS
    <3> QED  BY <2>4, <3>1, <3>2
  <2>6. b[1] = 1 /\ sg[1].addr = Parts[1].addr /\ b[1] < b[2]
    <3>1. b[1] < b[1 + 1] /\ sg[1].addr = Parts[b[1]].addr /\ b[1] = 1  BY <1>4, <2>2 DEF Covers
    <3>2. 1 + 1 = 2  OBVIOUS
    <3> QED  BY <3>1, <3>2
  <2>7. first = PAGE_SIZE - call.offset  BY <2>3, <2>6 DEF first
  <2>8. rest = call.offset + call.length - PAGE_SIZE /\ rest \in Int  BY <1>3, <2>1, <2>3, <2>7
  <2>9. prp1' = <<"data", Parts[1].addr>>  BY <1>1, <2>6
  <2>10. Pinned'  BY <1>1, <2>1 DEF Pinned, Iod!CeilDiv
  <2> HIDE DEF rest
  <2>11. CASE rest <= 0
    <3>1. pinned <= 1 /\ iod_step' = "submit" /\ UNCHANGED <<seg, dma_addr, dma_len, prp2>>
      BY <1>1, <1>3, <2>1, <2>3, <2>5, <2>8, <2>11
    <3>2. IodTypes'  BY <1>1, <1>2, <2>8, <3>1 DEF IodTypes
    <3>3. Kept'  BY <1>1, <1>2, <2>1, <3>1 DEF Kept
    <3>4. Written'  BY <1>1, <1>2 DEF Written
    <3>5. Describing'  BY <1>1, <1>2, <1>6, <2>1, <2>3, <2>9, <2>10, <3>1, <3>4 DEF Describing
    <3> QED  BY <3>2, <3>3, <3>5 DEF IodInv
  <2>12. CASE rest > 0
    <3>1. pinned > 1 /\ Parts[1].len = first  BY <1>3, <2>1, <2>3, <2>5, <2>7, <2>8, <2>12
    <3>2. 1 \in 1 .. Len(Parts) - 1 /\ Parts[1].addr + sg[1].len = sg[1].addr + sg[1].len
      BY <2>3, <2>6, <3>1
    <3>3. IF sg[1].len > Parts[1].len
            THEN 1 + 1 < b[1 + 1] /\ Parts[1 + 1].addr = Parts[1].addr + Parts[1].len
            ELSE /\ 1 + 1 \in 1 .. Len(sg) /\ b[1 + 1] = 1 + 1 /\ 1 + 1 < b[1 + 2]
                 /\ sg[1 + 1].addr = Parts[1 + 1].addr
      <4>1. Covers(sg, Parts, Len(Parts), b) /\ b[1] <= 1 /\ 1 < b[1 + 1] /\ sg[1].len \in Nat
        BY <1>4, <2>2, <2>3, <2>6
      <4>2. \A i \in 1 .. Len(Parts) : Parts[i].len > 0  BY <2>3
      <4> DEFINE parts == Parts
                 segs == sg
                 len == sg[1].len
      <4>3. /\ parts \in Seq(Segment) /\ Covers(segs, parts, Len(parts), b) /\ len \in Nat
            /\ 1 \in 1 .. Len(segs) /\ 1 \in 1 .. Len(parts) - 1 /\ b[1] <= 1 /\ 1 < b[1 + 1]
            /\ parts[1].addr + len = segs[1].addr + segs[1].len
        BY <1>4, <2>3, <3>2, <4>1
      <4>4. \A i \in 1 .. Len(parts) : parts[i].len > 0  BY <4>2
      <4> HIDE DEF parts, segs, len
      <4>5. IF len > parts[1].len
              THEN 1 + 1 < b[1 + 1] /\ parts[1 + 1].addr = parts[1].addr + parts[1].len
              ELSE /\ 1 + 1 \in 1 .. Len(segs) /\ b[1 + 1] = 1 + 1 /\ 1 + 1 < b[1 + 2]
                   /\ segs[1 + 1].addr = parts[1 + 1].addr
        BY <4>3, <4>4, Advance
      <4> QED  BY <4>5 DEF parts, segs, len
    <3>4. 1 + 1 = 2 /\ 1 + 2 = 3  OBVIOUS
    <3>5. IF more THEN 2 < b[2] /\ Parts[2].addr = sg[1].addr + first
          ELSE 2 \in 1 .. Len(sg) /\ b[2] = 2 /\ 2 < b[3] /\ sg[2].addr = Parts[2].addr
      BY <2>6, <3>1, <3>3, <3>4
    <3>6. /\ dma_addr' = next /\ seg' = (IF more THEN 1 ELSE 2)
          /\ dma_len' = IF more THEN sg[1].len - first ELSE sg[2].len
          /\ IF rest <= PAGE_SIZE THEN prp2' = <<"data", next>> /\ iod_step' = "submit"
             ELSE UNCHANGED prp2 /\ iod_step' = "list"
      BY <1>1, <2>1, <2>8, <2>12
    <3>7. next = Parts[2].addr /\ Parts[2].addr \in Nat /\ Parts[2] \in Segment
      <4>1. 2 \in 1 .. pinned /\ Parts[2] \in Segment  BY <2>3, <3>1
      <4>2. Parts[2].addr \in Nat  BY <4>1 DEF Segment
      <4> QED  BY <1>2, <3>5, <4>1, <4>2
    <3>8. /\ seg' \in 1 .. Len(sg) /\ dma_addr' \in Nat /\ dma_len' \in Nat
          /\ b[seg'] <= 2 /\ 2 < b[seg' + 1] /\ dma_addr' + dma_len' = sg[seg'].addr + sg[seg'].len
      <4>1. CASE more
        <5>1. seg' = 1 /\ dma_addr' = sg[1].addr + first /\ dma_len' = sg[1].len - first  BY <3>6, <4>1
        <5>2. 2 < b[2] /\ b[1] <= 2 /\ 1 + 1 = 2  BY <2>6, <3>5, <4>1
        <5>3. sg[1].addr + first \in Nat /\ sg[1].len - first \in Nat  BY <1>4, <1>5, <4>1
        <5>4. (sg[1].addr + first) + (sg[1].len - first) = sg[1].addr + sg[1].len  BY <1>4, <1>5
        <5> QED  BY <1>4, <5>1, <5>2, <5>3, <5>4
      <4>2. CASE ~more
        <5>1. seg' = 2 /\ dma_addr' = sg[2].addr /\ dma_len' = sg[2].len /\ 2 \in 1 .. Len(sg)
          BY <3>5, <3>6, <3>7, <4>2
        <5>2. sg[2] \in Segment  BY <1>2, <5>1
        <5>3. sg[2].addr \in Nat /\ sg[2].len \in Nat  BY <5>2 DEF Segment
        <5>4. 2 + 1 = 3  OBVIOUS
        <5> QED  BY <3>5, <4>2, <5>1, <5>3, <5>4
      <4> QED  BY <4>1, <4>2
    <3>9. iod_step' \in {"submit", "list"}  BY <3>6
    <3> HIDE DEF next, more
    <3>10. IodTypes'  BY <1>1, <1>2, <2>8, <3>8, <3>9 DEF IodTypes
    <3>11. Kept'  BY <1>1, <1>2, <2>1, <3>9 DEF Kept
    <3>12. Written'  BY <1>1, <1>2 DEF Written
    <3>13. CASE rest <= PAGE_SIZE
      <4>1. pinned <= 2 /\ iod_step' = "submit" /\ prp2' = <<"data", Parts[2].addr>>
        BY <1>3, <2>1, <2>3, <2>5, <2>8, <3>6, <3>7, <3>13
      <4>2. Describing'  BY <1>1, <1>2, <1>6, <2>1, <2>9, <2>10, <3>12, <4>1 DEF Describing
      <4> QED  BY <3>10, <3>11, <4>2 DEF IodInv
    <3>14. CASE ~(rest <= PAGE_SIZE)
      <4>1. pinned > 2 /\ iod_step' = "list" /\ length' > PAGE_SIZE /\ length' > 0
        BY <1>1, <1>3, <2>1, <2>3, <2>5, <2>8, <3>6, <3>14
      <4>2. Coming' = 2  BY <1>1, <1>2 DEF Coming
      <4>3. length' = (call.offset + call.length) - (2 - 1) * PAGE_SIZE  BY <1>1, <1>3, <2>3, <2>8
      <4>4. (\E c : Position(c))'
        <5>1. Position(b)'
          <6>1. Covers(sg, Parts, pinned, b)'  BY <1>1, <1>6, <2>2 DEF Covers
          <6>2. dma_addr' = Parts'[2].addr  BY <1>6, <3>6, <3>7
          <6>3. Coming' <= pinned' /\ b[seg'] <= Coming' /\ Coming' < b[seg' + 1] /\ dma_addr' = Parts'[Coming'].addr
            BY <1>1, <1>2, <3>8, <4>1, <4>2, <6>2
          <6>4. length' = (call'.offset + call'.length) - (Coming' - 1) * PAGE_SIZE  BY <1>1, <4>2, <4>3
          <6>5. seg' \in 1 .. Len(sg') /\ dma_addr' + dma_len' = sg'[seg'].addr + sg'[seg'].len  BY <1>1, <3>8
          <6> QED  BY <6>1, <6>3, <6>4, <6>5 DEF Position
        <5> QED  BY <5>1
      <4>5. Describing'  BY <1>1, <1>2, <1>6, <2>1, <2>9, <2>10, <3>12, <4>1, <4>4 DEF Describing
      <4> QED  BY <3>10, <3>11, <4>5 DEF IodInv
    <3> QED  BY <3>13, <3>14
  <2> QED  BY <2>8, <2>11, <2>12
<1> QED  BY <1>2, <1>7, <1>8

\* What has no list page left to write keeps the rest.
LEMMA IodReleasing ==
  ASSUME IodConstants, IodInv, iod_step \in {"list", "fill"}, iod_step' = "release",
         UNCHANGED <<call, pinned, nents, sg, mapped, length, seg, dma_addr, dma_len, lists, npages, dev>>
  PROVE  IodInv'
<1>1. IodTypes /\ Kept /\ dev = "none"  BY DEF IodInv, Kept
<1>2. IodTypes'  BY <1>1 DEF IodTypes
<1>3. Kept'  BY <1>1 DEF Kept
<1>4. Describing'
  <2>1. pinned > 0 => Pinned'  BY DEF IodInv, Describing, Pinned, Iod!CeilDiv
  <2> QED  BY <2>1 DEF Describing
<1> QED  BY <1>2, <1>3, <1>4 DEF IodInv

LEMMA IodFirstList == ASSUME IodConstants, IodInv, Iod!FirstList PROVE IodInv'
<1>1. /\ iod_step = "list" /\ UNCHANGED <<call, pinned, nents, sg, mapped, length, seg, dma_addr, dma_len, prp1, dev>>
      /\ \/ /\ npages' = IF Iod!CeilDiv(length, PAGE_SIZE) <= SMALL THEN 0 ELSE 1
            /\ lists' = << <<>> >> /\ prp2' = <<"list", 1>> /\ iod_step' = "fill"
         \/ iod_step' = "release" /\ UNCHANGED <<npages, lists>>
  BY DEF Iod!FirstList
<1>2. /\ IodTypes /\ Kept /\ Describing /\ lists = <<>> /\ npages = -1 /\ pinned > 0 /\ dev = "none"
      /\ length \in Int /\ call.kind \in {"ioctl", "bio"}
  BY <1>1 DEF IodInv, IodTypes, Kept, Calls
<1>3. /\ Pinned /\ length > 0 /\ pinned > 2 /\ length > PAGE_SIZE /\ prp1 = <<"data", Parts[1].addr>>
      /\ PAGE_SIZE \in Nat \ {0} /\ SMALL \in Nat \ {0}
  BY <1>1, <1>2, Sizes DEF Describing
<1>4. PICK b : Position(b)  BY <1>1, <1>2 DEF Describing
<1>5. Parts' = Parts  BY <1>1, SameParts
<1>6. CASE /\ npages' = IF Iod!CeilDiv(length, PAGE_SIZE) <= SMALL THEN 0 ELSE 1
           /\ lists' = << <<>> >> /\ prp2' = <<"list", 1>> /\ iod_step' = "fill"
  <2>1. Len(lists') = 1 /\ lists'[1] = <<>> /\ Len(lists'[1]) = 0 /\ lists' # <<>> /\ lists' \in Seq(Seq(Entry))
        /\ npages' \in {0, 1}
    BY <1>6
  <2>2. Coming = 2  BY <1>2 DEF Coming
  <2>3. Coming' = 2
    <3>1. Before(1) = 0  BY Sizes DEF Before
    <3> QED  BY <2>1, <3>1 DEF Coming, Before
  <2>4. (\E c : Position(c))'
    <3>1. Covers(sg, Parts, pinned, b)'  BY <1>1, <1>4, <1>5 DEF Covers, Position
    <3>2. Position(b)'  BY <1>1, <1>4, <1>5, <2>2, <2>3, <3>1 DEF Position
    <3> QED  BY <3>2
  <2>5. npages' = 0 => length' <= (SMALL - Len(lists'[1])) * PAGE_SIZE
    <3>1. length <= Iod!CeilDiv(length, PAGE_SIZE) * PAGE_SIZE /\ Iod!CeilDiv(length, PAGE_SIZE) \in Nat
      <4>1. length \in Nat  BY <1>2, <1>3
      <4> QED  BY <1>3, <4>1, CeilDivIs
    <3>2. ASSUME npages' = 0 PROVE length <= SMALL * PAGE_SIZE
      <4> DEFINE q == Iod!CeilDiv(length, PAGE_SIZE)
                 x == q * PAGE_SIZE
                 y == SMALL * PAGE_SIZE
      <4>1. q <= SMALL  BY <1>6, <3>2
      <4>2. x <= y  BY <1>3, <3>1, <4>1, Ordered
      <4>3. length <= x /\ x \in Int /\ y \in Int  BY <1>3, <3>1, Once
      <4> HIDE DEF x, y
      <4>4. length <= y  BY <1>2, <4>2, <4>3
      <4> QED  BY <4>4 DEF y
    <3>3. SMALL - Len(lists'[1]) = SMALL  BY <1>3, <2>1
    <3> QED  BY <1>1, <3>2, <3>3
  <2>6. Len(lists'[1]) <= SMALL - 1  BY <1>3, <2>1
  <2>7. Written'  BY <2>1, Sizes DEF Written
  <2>8. IodTypes'  BY <1>1, <1>2, <1>6, <2>1 DEF IodTypes
  <2>9. Kept'  BY <1>1, <1>2, <1>6, <2>1 DEF Kept
  <2>10. Pinned'  BY <1>1, <1>3 DEF Pinned, Iod!CeilDiv
  <2>11. Describing'
    BY <1>1, <1>2, <1>3, <1>5, <1>6, <2>1, <2>4, <2>5, <2>6, <2>7, <2>10 DEF Describing
  <2> QED  BY <2>8, <2>9, <2>11 DEF IodInv
<1>7. CASE iod_step' = "release" /\ UNCHANGED <<npages, lists>>  BY <1>1, <1>7, IodReleasing
<1> QED  BY <1>1, <1>6, <1>7

LEMMA IodNextList == ASSUME IodConstants, IodInv, Iod!NextList PROVE IodInv'
<1> DEFINE k == Len(lists)
           old == lists[k]
           full == Iod!ReplaceAt(old, LIST, <<"list", k + 1>>)
<1>1. /\ iod_step = "fill" /\ Len(Iod!Last(lists)) = LIST
      /\ UNCHANGED <<call, pinned, nents, sg, mapped, length, seg, dma_addr, dma_len, prp1, prp2, dev>>
      /\ \/ /\ lists' = Append(Iod!ReplaceAt(lists, k, full), <<old[LIST]>>)
            /\ npages' = npages + 1 /\ iod_step' = iod_step
         \/ iod_step' = "release" /\ UNCHANGED <<lists, npages>>
  BY DEF Iod!NextList, Iod!Full
<1>2. /\ IodTypes /\ Kept /\ Describing /\ pinned > 0 /\ dev = "none" /\ lists \in Seq(Seq(Entry))
      /\ npages \in Int /\ npages >= -1 /\ call.kind \in {"ioctl", "bio"}
      /\ k = IF npages = -1 THEN 0 ELSE IF npages = 0 THEN 1 ELSE npages
  BY <1>1 DEF IodInv, IodTypes, Kept, Calls
<1>3. /\ Pinned /\ length > 0 /\ pinned > 2 /\ prp1 = <<"data", Parts[1].addr>> /\ Written
      /\ prp2 = <<"list", 1>> /\ lists # <<>>
      /\ npages = 0 => Len(lists[1]) <= SMALL - 1
  BY <1>1, <1>2 DEF Describing
<1>4. PICK b : Position(b)  BY <1>1, <1>2 DEF Describing
<1>5. Parts' = Parts  BY <1>1, SameParts
<1>6. LIST \in Nat /\ LIST >= 2 /\ SMALL \in 1 .. LIST /\ LIST - 1 \in Nat \ {0}  BY Sizes
<1>7. k \in Nat \ {0} /\ k \in 1 .. k /\ old \in Seq(Entry) /\ Len(old) = LIST /\ LIST \in 1 .. LIST
  <2>1. k \in Nat \ {0} /\ k \in 1 .. k /\ old \in Seq(Entry)  BY <1>2, <1>3
  <2>2. Iod!Last(lists) = old  BY DEF Iod!Last
  <2> QED  BY <1>1, <1>6, <2>1, <2>2
<1>8. npages > 0 /\ npages = k
  <2>1. npages # -1  BY <1>2, <1>7
  <2>2. CASE npages = 0
    <3>1. k = 1 /\ Len(old) <= SMALL - 1  BY <1>2, <1>3, <2>2
    <3> QED  BY <1>6, <1>7, <3>1
  <2> QED  BY <1>2, <2>1, <2>2
<1>9. CASE /\ lists' = Append(Iod!ReplaceAt(lists, k, full), <<old[LIST]>>)
           /\ npages' = npages + 1 /\ iod_step' = iod_step
  <2>1. old[LIST] \in Entry /\ <<"list", k + 1>> \in Entry  BY <1>7 DEF Entry
  <2>2. /\ full \in Seq(Entry) /\ Len(full) = LIST /\ full[LIST] = <<"list", k + 1>>
        /\ \A i \in 1 .. LIST : i < LIST => full[i] = old[i]
    <3>1. full = [old EXCEPT ![LIST] = <<"list", k + 1>>]  BY DEF Iod!ReplaceAt
    <3> HIDE DEF old, full
    <3> QED  BY <1>6, <1>7, <2>1, <3>1
  <2> HIDE DEF full, old
  <2>3. /\ lists' \in Seq(Seq(Entry)) /\ Len(lists') = k + 1 /\ lists'[k + 1] = <<old[LIST]>> /\ lists'[k] = full
        /\ \A j \in 1 .. k : j < k => lists'[j] = lists[j]
    <3> DEFINE refilled == [lists EXCEPT ![k] = full]
    <3>1. refilled \in Seq(Seq(Entry)) /\ Len(refilled) = k /\ refilled[k] = full
          /\ \A j \in 1 .. k : j < k => refilled[j] = lists[j]
      BY <1>2, <1>7, <2>2
    <3>2. lists' = Append(refilled, <<old[LIST]>>) /\ <<old[LIST]>> \in Seq(Entry)
      BY <1>9, <2>1 DEF Iod!ReplaceAt
    <3> HIDE DEF refilled
    <3> QED  BY <1>7, <3>1, <3>2
  <2>4. Len(lists'[k + 1]) = 1 /\ lists'[k + 1][1] = old[LIST] /\ lists' # <<>>  BY <1>7, <2>3
  <2>5. Before(k + 1) = Before(k) + (LIST - 1) /\ Before(k) \in Int /\ Before(k + 1) \in Int
    <3>1. ((k - 1) + 1) * (LIST - 1) = (k - 1) * (LIST - 1) + (LIST - 1) /\ (k - 1) * (LIST - 1) \in Int
      BY <1>6, <1>7, Once
    <3>2. (k - 1) + 1 = (k + 1) - 1  BY <1>7
    <3> QED  BY <1>6, <3>1, <3>2 DEF Before
  <2>6. Coming = 2 + (Before(k) + LIST)  BY <1>3, <1>7 DEF Coming, old
  <2>7. Coming' = 2 + (Before(k + 1) + 1)  BY <2>3, <2>4 DEF Coming, Before
  <2>8. Coming' = Coming  BY <1>6, <2>5, <2>6, <2>7
  <2>9. (\E c : Position(c))'
    <3>1. Covers(sg, Parts, pinned, b)'  BY <1>1, <1>4, <1>5 DEF Covers, Position
    <3>2. Position(b)'  BY <1>1, <1>4, <1>5, <2>8, <3>1 DEF Position
    <3> QED  BY <3>2
  <2>10. Written'
    <3>1. /\ \A j \in 1 .. k - 1 : lists'[j] = lists[j] /\ Len(lists[j]) = LIST /\ lists[j][LIST] = <<"list", j + 1>>
          /\ \A j \in 1 .. k : \A i \in 1 .. Len(lists[j]) :
               j = k \/ i < LIST => lists[j][i] = <<"data", Parts[1 + Before(j) + i].addr>>
      <4>1. \A j \in 1 .. Len(lists) :
              /\ j < Len(lists) => Len(lists[j]) = LIST /\ lists[j][LIST] = <<"list", j + 1>>
              /\ \A i \in 1 .. Len(lists[j]) :
                   j = Len(lists) \/ i < LIST => lists[j][i] = <<"data", Parts[1 + Before(j) + i].addr>>
        BY <1>3 DEF Written
      <4>2. \A j \in 1 .. k - 1 : j \in 1 .. k /\ j < k  BY <1>7
      <4> HIDE DEF k
      <4>3. \A j \in 1 .. k - 1 : lists'[j] = lists[j]  BY <2>3, <4>2
      <4> QED  BY <4>1, <4>2, <4>3 DEF k
    <3>2. \A i \in 1 .. LIST : old[i] = <<"data", Parts[1 + Before(k) + i].addr>>  BY <1>7, <3>1 DEF old
    <3>3. ASSUME NEW j \in 1 .. k + 1
          PROVE  /\ j < k + 1 => Len(lists'[j]) = LIST /\ lists'[j][LIST] = <<"list", j + 1>>
                 /\ Len(lists'[j]) <= LIST
                 /\ \A i \in 1 .. Len(lists'[j]) :
                      j = k + 1 \/ i < LIST => lists'[j][i] = <<"data", Parts[1 + Before(j) + i].addr>>
      <4>1. CASE j < k
        <5>1. j \in 1 .. k - 1 /\ j \in 1 .. k /\ j # k + 1  BY <1>7, <4>1
        <5> QED  BY <1>6, <3>1, <5>1
      <4>2. CASE j = k
        <5>1. lists'[j] = full /\ j # k + 1  BY <1>7, <2>3, <4>2
        <5> QED  BY <1>6, <2>2, <3>2, <4>2, <5>1
      <4>3. CASE j = k + 1
        <5>1. old[LIST] = <<"data", Parts[1 + Before(k) + LIST].addr>>  BY <1>7, <3>2
        <5>2. 1 + Before(k) + LIST = 1 + Before(k + 1) + 1  BY <1>6, <2>5
        <5>3. old[LIST] = <<"data", Parts[1 + Before(j) + 1].addr>>  BY <4>3, <5>1, <5>2
        <5>4. 1 <= LIST /\ ~(j < k + 1) /\ Len(lists'[j]) = 1 /\ lists'[j][1] = old[LIST]  BY <1>6, <1>7, <2>4, <4>3
        <5> QED  BY <5>3, <5>4
      <4> QED  BY <1>7, <4>1, <4>2, <4>3
    <3> HIDE DEF k
    <3> QED  BY <1>5, <2>3, <3>3 DEF Written, Before
  <2>11. IodTypes'  BY <1>1, <1>2, <1>8, <1>9, <2>3 DEF IodTypes
  <2>12. Kept'  BY <1>1, <1>2, <1>8, <1>9, <2>3 DEF Kept
  <2>13. Pinned'  BY <1>1, <1>3 DEF Pinned, Iod!CeilDiv
  <2>14. npages' # 0 /\ iod_step' = "fill"  BY <1>1, <1>2, <1>8, <1>9
  <2>15. Describing'
    BY <1>1, <1>3, <1>5, <2>4, <2>9, <2>10, <2>13, <2>14 DEF Describing
  <2> QED  BY <2>11, <2>12, <2>15 DEF IodInv
<1>10. CASE iod_step' = "release" /\ UNCHANGED <<lists, npages>>  BY <1>1, <1>10, IodReleasing
<1> QED  BY <1>1, <1>9, <1>10

\* The entry of the coming page is written, and the loop goes to the next.
LEMMA IodFill == ASSUME IodConstants, IodInv, Iod!Fill PROVE IodInv'
<1> DEFINE k == Len(lists)
           old == lists[k]
           entry == <<"data", dma_addr>>
           total == call.offset + call.length
<1>1. /\ iod_step = "fill" /\ Len(Iod!Last(lists)) # LIST
      /\ UNCHANGED <<call, result, pinned, nents, sg, mapped, prp1, prp2, npages, dev>>
      /\ lists' = Iod!ReplaceAt(lists, k, Append(Iod!Last(lists), entry))
      /\ length' = length - PAGE_SIZE
      /\ IF length' <= 0
           THEN iod_step' = "submit" /\ UNCHANGED <<seg, dma_addr, dma_len>>
           ELSE /\ IF dma_len > PAGE_SIZE
                     THEN UNCHANGED seg /\ dma_addr' = dma_addr + PAGE_SIZE /\ dma_len' = dma_len - PAGE_SIZE
                     ELSE seg' = seg + 1 /\ dma_addr' = sg[seg + 1].addr /\ dma_len' = sg[seg + 1].len
                /\ iod_step' = iod_step
  BY DEF Iod!Fill, Iod!Full
<1>2. /\ IodTypes /\ Kept /\ Describing /\ pinned > 0 /\ dev = "none" /\ lists \in Seq(Seq(Entry))
      /\ npages \in Int /\ npages >= -1 /\ call.kind \in {"ioctl", "bio"} /\ sg \in Seq(Segment)
      /\ length \in Int /\ dma_addr \in Nat /\ dma_len \in Nat
      /\ k = IF npages = -1 THEN 0 ELSE IF npages = 0 THEN 1 ELSE npages
  BY <1>1 DEF IodInv, IodTypes, Kept, Calls
<1>3. /\ Pinned /\ length > 0 /\ pinned > 2 /\ prp1 = <<"data", Parts[1].addr>> /\ Written
      /\ prp2 = <<"list", 1>> /\ lists # <<>>
      /\ npages = 0 => length <= (SMALL - Len(lists[1])) * PAGE_SIZE /\ Len(lists[1]) <= SMALL - 1
  BY <1>1, <1>2 DEF Describing
<1>4. PICK b : Position(b)  BY <1>1, <1>2 DEF Describing
<1>5. Parts' = Parts  BY <1>1, SameParts
<1>6. /\ LIST \in Nat /\ LIST >= 2 /\ SMALL \in 1 .. LIST /\ LIST - 1 \in Nat \ {0}
      /\ PAGE_SIZE \in Nat \ {0}
  BY Sizes
<1>7. k \in Nat \ {0} /\ k \in 1 .. k /\ old \in Seq(Entry) /\ Len(old) \in 0 .. LIST - 1 /\ Iod!Last(lists) = old
  <2>1. k \in Nat \ {0} /\ k \in 1 .. k /\ old \in Seq(Entry) /\ Len(old) \in Nat  BY <1>2, <1>3
  <2>2. Iod!Last(lists) = old  BY DEF Iod!Last
  <2>3. Len(old) <= LIST  BY <1>3, <2>1 DEF Written
  <2> QED  BY <1>1, <1>6, <2>1, <2>2, <2>3
<1>8. /\ lists' \in Seq(Seq(Entry)) /\ Len(lists') = k /\ lists'[k] = Append(old, entry) /\ lists' # <<>>
      /\ \A j \in 1 .. k : j < k => lists'[j] = lists[j]
  <2>1. entry \in Entry  BY <1>2 DEF Entry
  <2> DEFINE new == Append(old, entry)
  <2>2. new \in Seq(Entry)  BY <1>7, <2>1
  <2>3. lists' = [lists EXCEPT ![k] = new]  BY <1>1, <1>7 DEF Iod!ReplaceAt
  <2> HIDE DEF new
  <2>4. /\ lists' \in Seq(Seq(Entry)) /\ Len(lists') = k /\ lists'[k] = new /\ lists' # <<>>
        /\ \A j \in 1 .. k : j < k => lists'[j] = lists[j]
    BY <1>2, <1>7, <2>2, <2>3
  <2> QED  BY <2>4 DEF new
<1>9. /\ Len(lists'[k]) = Len(old) + 1 /\ lists'[k][Len(old) + 1] = entry
      /\ \A i \in 1 .. Len(old) : lists'[k][i] = old[i]
  BY <1>7, <1>8
<1>10. Coming = 2 + (Before(k) + Len(old)) /\ Before(k) \in Nat /\ Coming \in Nat /\ Coming >= 2
  <2>1. Before(k) \in Nat  BY <1>6, <1>7 DEF Before
  <2> QED  BY <1>3, <1>7, <2>1 DEF Coming
<1>11. Coming' = Coming + 1
  <2>1. Coming' = 2 + (Before(k) + (Len(old) + 1))  BY <1>8, <1>9 DEF Coming, Before
  <2> QED  BY <1>7, <1>10, <2>1
<1>12. /\ Covers(sg, Parts, pinned, b) /\ Coming <= pinned /\ seg \in 1 .. Len(sg) /\ b[seg] <= Coming
       /\ Coming < b[seg + 1] /\ dma_addr = Parts[Coming].addr
       /\ dma_addr + dma_len = sg[seg].addr + sg[seg].len
       /\ length = total - (Coming - 1) * PAGE_SIZE
  BY <1>4 DEF Position
<1>13. /\ call.offset \in 0 .. PAGE_SIZE - 1 /\ call.length \in Nat /\ call.kind = "ioctl"
       /\ pinned \in Nat \ {0} /\ Parts \in Seq(Segment) /\ Len(Parts) = pinned
       /\ \A i \in 1 .. pinned : Parts[i] \in Segment /\ Parts[i].len > 0
       /\ \A i \in 1 .. pinned - 1 : Parts[i].len = PAGE_SIZE - (IF i = 1 THEN call.offset ELSE 0)
       /\ \A i \in Nat : i * PAGE_SIZE < call.offset + call.length => i < pinned
       /\ \A i \in Nat : call.offset + call.length <= i * PAGE_SIZE => pinned <= i
  BY <1>2, <1>3, PartsAre
<1>14. total \in Nat  BY <1>13
<1>15. length' = total - Coming * PAGE_SIZE /\ length' \in Int /\ Coming * PAGE_SIZE \in Int
  <2>1. (Coming - 1) * PAGE_SIZE = Coming * PAGE_SIZE - PAGE_SIZE /\ Coming * PAGE_SIZE \in Int
    BY <1>6, <1>10, Once
  <2> DEFINE x == Coming * PAGE_SIZE
             y == (Coming - 1) * PAGE_SIZE
  <2>2. y = x - PAGE_SIZE /\ x \in Int /\ length = total - y /\ length' = length - PAGE_SIZE  BY <1>1, <1>12, <2>1
  <2> HIDE DEF x, y, total
  <2>3. length' = total - x /\ length' \in Int  BY <1>6, <1>14, <2>2
  <2> QED  BY <2>1, <2>3 DEF x
<1>16. Written'
  <2>1. /\ \A j \in 1 .. k : j < k => Len(lists[j]) = LIST /\ lists[j][LIST] = <<"list", j + 1>>
        /\ \A j \in 1 .. k : \A i \in 1 .. Len(lists[j]) :
             j = k \/ i < LIST => lists[j][i] = <<"data", Parts[1 + Before(j) + i].addr>>
    BY <1>3 DEF Written
  <2>2. ASSUME NEW j \in 1 .. k
        PROVE  /\ j < k => Len(lists'[j]) = LIST /\ lists'[j][LIST] = <<"list", j + 1>>
               /\ Len(lists'[j]) <= LIST
               /\ \A i \in 1 .. Len(lists'[j]) :
                    j = k \/ i < LIST => lists'[j][i] = <<"data", Parts[1 + Before(j) + i].addr>>
    <3>1. CASE j < k
      <4>1. lists'[j] = lists[j]  BY <1>8, <3>1
      <4> QED  BY <1>6, <2>1, <3>1, <4>1
    <3>2. CASE j = k
      <4>1. ASSUME NEW i \in 1 .. Len(old) + 1
            PROVE  lists'[j][i] = <<"data", Parts[1 + Before(j) + i].addr>>
        <5>1. CASE i = Len(old) + 1
          <6>1. 1 + Before(j) + i = Coming  BY <1>7, <1>10, <3>2, <5>1
          <6> QED  BY <1>9, <1>12, <3>2, <5>1, <6>1
        <5>2. CASE i # Len(old) + 1
          <6>1. i \in 1 .. Len(old)  BY <1>7, <5>2
          <6> QED  BY <1>7, <1>9, <2>1, <3>2, <6>1
        <5> QED  BY <5>1, <5>2
      <4>2. Len(lists'[j]) = Len(old) + 1 /\ Len(old) + 1 <= LIST /\ ~(j < k)  BY <1>6, <1>7, <1>9, <3>2
      <4> QED  BY <4>1, <4>2
    <3> QED  BY <1>7, <3>1, <3>2
  <2> HIDE DEF k
  <2> QED  BY <1>5, <1>8, <2>2 DEF Written, Before
<1>17. npages' = 0 => length' <= (SMALL - Len(lists'[1])) * PAGE_SIZE
                      /\ Len(lists'[1]) <= IF iod_step' = "fill" THEN SMALL - 1 ELSE SMALL
  <2> SUFFICES ASSUME npages' = 0
               PROVE  length' <= (SMALL - Len(lists'[1])) * PAGE_SIZE
                      /\ Len(lists'[1]) <= IF iod_step' = "fill" THEN SMALL - 1 ELSE SMALL
    OBVIOUS
  <2>1. k = 1 /\ npages = 0 /\ Len(lists'[1]) = Len(old) + 1  BY <1>1, <1>2, <1>9
  <2> DEFINE m == SMALL - Len(old)
             x == m * PAGE_SIZE
             y == (m - 1) * PAGE_SIZE
  <2>2. m \in Int /\ m >= 1 /\ length <= x  BY <1>3, <1>6, <1>7, <2>1
  <2>3. x \in Int /\ y = x - PAGE_SIZE
    <3> HIDE DEF m
    <3> QED  BY <1>6, <2>2, Once
  <2>4. SMALL - Len(lists'[1]) = m - 1  BY <1>6, <1>7, <2>1
  <2>5. length' <= y
    <3> HIDE DEF x, y, m
    <3> QED  BY <1>1, <1>2, <1>6, <2>2, <2>3
  <2>6. ASSUME m = 1 PROVE length' <= 0
    <3>1. y = 0  BY <1>6, <2>6
    <3> HIDE DEF y
    <3> QED  BY <1>15, <2>5, <3>1
  <2>7. Len(lists'[1]) <= IF iod_step' = "fill" THEN SMALL - 1 ELSE SMALL
    <3>1. CASE m = 1
      <4>1. iod_step' = "submit"  BY <1>1, <2>6, <3>1
      <4> QED  BY <1>6, <1>7, <2>1, <3>1, <4>1
    <3>2. CASE m # 1  BY <1>6, <1>7, <2>1, <2>2, <3>2
    <3> QED  BY <3>1, <3>2
  <2> QED  BY <2>4, <2>5, <2>7
<1>18. Pinned'  BY <1>1, <1>3 DEF Pinned, Iod!CeilDiv
<1>19. CASE length' <= 0
  <2>1. iod_step' = "submit" /\ UNCHANGED <<seg, dma_addr, dma_len>>  BY <1>1, <1>19
  <2>2. Coming = pinned
    <3>1. total <= Coming * PAGE_SIZE
      <4> DEFINE x == Coming * PAGE_SIZE
      <4>1. x \in Int /\ length' = total - x  BY <1>15
      <4> HIDE DEF x, total
      <4>2. total <= x  BY <1>14, <1>19, <4>1
      <4> QED  BY <4>2 DEF x
    <3>2. pinned <= Coming  BY <1>10, <1>13, <3>1
    <3> QED  BY <1>10, <1>12, <1>13, <3>2
  <2>3. IodTypes'  BY <1>1, <1>2, <1>8, <1>15, <2>1 DEF IodTypes
  <2>4. Kept'  BY <1>1, <1>2, <1>8, <1>13, <2>1 DEF Kept
  <2>5. Describing'
    BY <1>1, <1>3, <1>5, <1>8, <1>11, <1>16, <1>17, <1>18, <2>1, <2>2 DEF Describing
  <2> QED  BY <2>3, <2>4, <2>5 DEF IodInv
<1>20. CASE ~(length' <= 0)
  <2>1. /\ IF dma_len > PAGE_SIZE
             THEN UNCHANGED seg /\ dma_addr' = dma_addr + PAGE_SIZE /\ dma_len' = dma_len - PAGE_SIZE
             ELSE seg' = seg + 1 /\ dma_addr' = sg[seg + 1].addr /\ dma_len' = sg[seg + 1].len
        /\ iod_step' = "fill"
    BY <1>1, <1>20
  <2>2. Coming < pinned
    <3>1. Coming * PAGE_SIZE < total
      <4> DEFINE x == Coming * PAGE_SIZE
      <4>1. x \in Int /\ length' = total - x  BY <1>15
      <4> HIDE DEF x, total
      <4>2. x < total  BY <1>14, <1>20, <4>1
      <4> QED  BY <4>2 DEF x
    <3> QED  BY <1>10, <1>13, <3>1
  <2>3. Coming \in 1 .. pinned - 1 /\ Coming # 1  BY <1>10, <1>13, <2>2
  <2>4. Parts[Coming].len = PAGE_SIZE  BY <1>6, <1>13, <2>3
  <2>5. IF dma_len > PAGE_SIZE
          THEN Coming + 1 < b[seg + 1] /\ Parts[Coming + 1].addr = Parts[Coming].addr + PAGE_SIZE
          ELSE /\ seg + 1 \in 1 .. Len(sg) /\ b[seg + 1] = Coming + 1 /\ Coming + 1 < b[seg + 2]
               /\ sg[seg + 1].addr = Parts[Coming + 1].addr
    <3> DEFINE c == Coming
               parts == Parts
               l == parts[c].len
    <3>1. /\ Covers(sg, parts, Len(parts), b) /\ parts \in Seq(Segment) /\ seg \in 1 .. Len(sg)
          /\ c \in 1 .. Len(parts) - 1 /\ b[seg] <= c /\ c < b[seg + 1] /\ dma_len \in Nat
          /\ parts[c].addr + dma_len = sg[seg].addr + sg[seg].len
          /\ \A i \in 1 .. Len(parts) : parts[i].len > 0
      BY <1>2, <1>12, <1>13, <2>3
    <3> HIDE DEF c, parts
    <3>2. IF dma_len > parts[c].len
            THEN c + 1 < b[seg + 1] /\ parts[c + 1].addr = parts[c].addr + parts[c].len
            ELSE /\ seg + 1 \in 1 .. Len(sg) /\ b[seg + 1] = c + 1 /\ c + 1 < b[seg + 2]
                 /\ sg[seg + 1].addr = parts[c + 1].addr
      BY <3>1, Advance
    <3>3. parts[c].len = PAGE_SIZE  BY <2>4 DEF c, parts
    <3> QED  BY <3>2, <3>3 DEF c, parts
  <2>6. /\ seg' \in 1 .. Len(sg) /\ dma_addr' \in Nat /\ dma_len' \in Nat
        /\ b[seg'] <= Coming + 1 /\ Coming + 1 < b[seg' + 1]
        /\ dma_addr' = Parts[Coming + 1].addr /\ dma_addr' + dma_len' = sg[seg'].addr + sg[seg'].len
    <3>1. CASE dma_len > PAGE_SIZE
      <4>1. seg' = seg /\ dma_addr' = dma_addr + PAGE_SIZE /\ dma_len' = dma_len - PAGE_SIZE  BY <2>1, <3>1
      <4>2. dma_addr' \in Nat /\ dma_len' \in Nat /\ dma_addr' + dma_len' = dma_addr + dma_len
        BY <1>2, <1>6, <3>1, <4>1
      <4>3. seg \in 1 .. Len(sg) + 1 /\ b[seg] \in Int /\ b[seg] <= Coming + 1
        <5>1. seg \in 1 .. Len(sg) + 1 /\ b \in [1 .. Len(sg) + 1 -> 1 .. pinned + 1]
          BY <1>2, <1>12 DEF Covers
        <5>2. b[seg] \in 1 .. pinned + 1  BY <5>1
        <5> QED  BY <1>10, <1>12, <5>1, <5>2
      <4> QED  BY <1>12, <2>5, <3>1, <4>1, <4>2, <4>3
    <3>2. CASE ~(dma_len > PAGE_SIZE)
      <4>1. seg' = seg + 1 /\ dma_addr' = sg[seg + 1].addr /\ dma_len' = sg[seg + 1].len  BY <2>1, <3>2
      <4>2. seg + 1 \in 1 .. Len(sg) /\ sg[seg + 1] \in Segment  BY <1>2, <2>5, <3>2
      <4>3. sg[seg + 1].addr \in Nat /\ sg[seg + 1].len \in Nat  BY <4>2 DEF Segment
      <4>4. (seg + 1) + 1 = seg + 2 /\ Coming + 1 <= Coming + 1  BY <1>10, <1>12
      <4> QED  BY <2>5, <3>2, <4>1, <4>2, <4>3, <4>4
    <3> QED  BY <3>1, <3>2
  <2>7. (\E c : Position(c))'
    <3>1. Covers(sg, Parts, pinned, b)'  BY <1>1, <1>5, <1>12 DEF Covers
    <3>2. Coming' <= pinned' /\ b[seg'] <= Coming' /\ Coming' < b[seg' + 1] /\ dma_addr' = Parts'[Coming'].addr
      BY <1>1, <1>5, <1>10, <1>11, <1>13, <2>2, <2>6
    <3>3. length' = (call'.offset + call'.length) - (Coming' - 1) * PAGE_SIZE
      <4>1. Coming' - 1 = Coming  BY <1>10, <1>11
      <4> QED  BY <1>1, <1>15, <4>1
    <3>4. seg' \in 1 .. Len(sg') /\ dma_addr' + dma_len' = sg'[seg'].addr + sg'[seg'].len  BY <1>1, <2>6
    <3>5. Position(b)'  BY <3>1, <3>2, <3>3, <3>4 DEF Position
    <3> QED  BY <3>5
  <2>8. IodTypes'
    <3>1. seg' \in 0 .. Len(sg')  BY <1>1, <2>6
    <3> QED  BY <1>1, <1>2, <1>8, <1>15, <2>1, <2>6, <3>1 DEF IodTypes
  <2>9. Kept'  BY <1>1, <1>2, <1>8, <1>13, <2>1 DEF Kept
  <2>10. length' > 0  BY <1>15, <1>20
  <2>11. Describing'
    BY <1>1, <1>3, <1>5, <1>8, <1>16, <1>17, <1>18, <2>1, <2>7, <2>10 DEF Describing
  <2> QED  BY <2>8, <2>9, <2>11 DEF IodInv
<1> QED  BY <1>19, <1>20

\* The rest of a command changes neither the data nor what describes it.
LEMMA IodSubmitted ==
  ASSUME IodConstants, IodInv, Iod!Submit \/ Iod!Answer \/ Iod!LateAnswer PROVE IodInv'
<1>1. /\ UNCHANGED <<call, pinned, nents, sg, mapped, length, seg, dma_addr, dma_len, prp1, prp2, lists, npages>>
      /\ \/ iod_step = "submit" /\ dev' = "has" /\ iod_step' = "wait"
         \/ /\ iod_step = "wait" /\ iod_step' = "release"
            /\ \/ dev' = "done"
               \/ result' \in {"-EINTR", "NVME_SC_ABORT_REQ"} /\ dev' = dev
         \/ iod_step = "end" /\ dev = "has" /\ dev' = "done" /\ UNCHANGED <<iod_step, result>>
  BY DEF Iod!Submit, Iod!Answer, Iod!LateAnswer, Iod!prpVars
<1>2. IodTypes /\ Kept /\ Describing  BY DEF IodInv
<1>3. IodTypes'  BY <1>1, <1>2 DEF IodTypes
<1>4. Kept'  BY <1>1, <1>2 DEF Kept
<1>5. pinned > 0 => Pinned'  BY <1>1, <1>2 DEF Describing, Pinned, Iod!CeilDiv
<1>6. Describing'  BY <1>1, <1>5 DEF Describing
<1> QED  BY <1>3, <1>4, <1>6 DEF IodInv

\* Every list is found again.
LEMMA IodRelease == ASSUME IodConstants, IodInv, Iod!Release PROVE IodInv'
<1>1. /\ iod_step = "release" /\ iod_step' = "end" /\ pinned' = pinned - nents
      /\ lists' = SubSeq(lists, Iod!Freed + 1, Len(lists))
      /\ UNCHANGED <<call, result, nents, sg, mapped, length, seg, dma_addr, dma_len, prp1, prp2, npages, dev>>
  BY DEF Iod!Release
<1>2. /\ IodTypes /\ Kept /\ lists \in Seq(Seq(Entry)) /\ npages \in Int /\ npages >= -1
      /\ Len(lists) = IF npages = -1 THEN 0 ELSE IF npages = 0 THEN 1 ELSE npages
  BY <1>1 DEF IodInv, IodTypes, Kept
<1>3. Iod!Freed = Len(lists)  BY <1>2 DEF Iod!Freed
<1>4. lists' = <<>> /\ lists' \in Seq(Seq(Entry))  BY <1>1, <1>2, <1>3
<1>5. pinned' = 0  BY <1>1, <1>2 DEF IodTypes
<1>6. IodTypes'  BY <1>1, <1>2, <1>4, <1>5 DEF IodTypes
<1>7. Kept'  BY <1>1, <1>2, <1>4, <1>5 DEF Kept
<1>8. Describing'  BY <1>5 DEF Describing
<1> QED  BY <1>6, <1>7, <1>8 DEF IodInv

LEMMA IodNext == ASSUME IodConstants, IodInv, [Iod!Next]_Iod!iodVars PROVE IodInv'
<1>1. CASE Iod!Next
  BY <1>1, IodMapUserPages, IodPutPages, IodMapBio, IodSetupPrps, IodFirstList, IodNextList, IodFill, IodSubmitted, IodRelease
  DEF Iod!Next
<1>2. CASE UNCHANGED Iod!iodVars
  <2>1. /\ UNCHANGED <<call, iod_step, result, pinned, nents, sg, mapped, length, seg, dma_addr, dma_len>>
        /\ UNCHANGED <<prp1, prp2, lists, npages, dev>>
    BY <1>2 DEF Iod!iodVars
  <2>2. IodTypes'  BY <2>1 DEF IodInv, IodTypes
  <2>3. Kept'  BY <2>1 DEF IodInv, Kept
  <2>4. Parts' = Parts /\ Coming' = Coming  BY <2>1, SameParts DEF Coming, Before
  <2>5. \A b : Covers(sg, Parts, pinned, b) => Covers(sg, Parts, pinned, b)'  BY <2>1, <2>4 DEF Covers
  <2>6. \A b : Position(b) => Position(b)'  BY <2>1, <2>4, <2>5 DEF Position
  <2>7. Written => Written'  BY <2>1, <2>4 DEF Written, Before
  <2>8. Pinned => Pinned'  BY <2>1 DEF Pinned, Iod!CeilDiv
  <2>9. Describing  BY DEF IodInv
  <2>10. iod_step = "setup" /\ pinned > 0 => (\E b : Covers(sg, Parts, pinned, b))'
    <3> SUFFICES ASSUME iod_step = "setup", pinned > 0 PROVE (\E b : Covers(sg, Parts, pinned, b))'
      OBVIOUS
    <3>1. PICK b : Covers(sg, Parts, pinned, b)  BY <2>9 DEF Describing
    <3>2. Covers(sg, Parts, pinned, b)'  BY <2>5, <3>1
    <3> QED  BY <3>2
  <2>11. iod_step \in {"list", "fill"} /\ pinned > 0 => (\E b : Position(b))'
    <3> SUFFICES ASSUME iod_step \in {"list", "fill"}, pinned > 0 PROVE (\E b : Position(b))'
      OBVIOUS
    <3>1. PICK b : Position(b)  BY <2>9 DEF Describing
    <3>2. Position(b)'  BY <2>6, <3>1
    <3> QED  BY <3>2
  <2>12. Describing'  BY <2>1, <2>4, <2>7, <2>8, <2>9, <2>10, <2>11 DEF Describing
  <2> QED  BY <2>2, <2>3, <2>12 DEF IodInv
<1> QED  BY <1>1, <1>2

LEMMA IodIsReleased == ASSUME IodInv PROVE Iod!TypeOK /\ Iod!IodReleased
<1>1. IodTypes /\ Kept  BY DEF IodInv
<1> QED  BY <1>1 DEF IodTypes, Kept, Iod!TypeOK, Iod!IodReleased

-----------------------------------------------------------------------------
(* What the controller reads *)

LEMMA SequenceIs ==
  ASSUME NEW W, NEW s \in Seq(W), NEW n \in Nat, Len(s) = n
  PROVE  s = [i \in 1 .. n |-> s[i]]
<1>1. s \in [1 .. Len(s) -> W]  OBVIOUS
<1> QED  BY <1>1

LEMMA ChainToIs ==
  ASSUME IodConstants, lists \in Seq(Seq(Entry)), Written
  PROVE  /\ Iod!ChainTo[0] = <<>>
         /\ \A k \in 1 .. Len(lists) :
              Iod!ChainTo[k] = Iod!ChainTo[k - 1] \o
                (IF k < Len(lists) THEN SubSeq(lists[k], 1, LIST - 1) ELSE lists[k])
<1> DEFINE l == Len(lists)
           after(k, acc) == acc \o (IF k < l THEN SubSeq(lists[k], 1, LIST - 1) ELSE lists[k])
           J == CHOOSE f : f = [k \in 0 .. l |-> IF k = 0 THEN <<>> ELSE after(k, f[k - 1])]
           g == [p \in (1 .. l) \X Seq(Entry) |-> after(p[1], p[2])]
<1>1. Iod!ChainTo = J  BY DEF Iod!ChainTo
<1>2. ASSUME NEW k \in 1 .. l, NEW acc \in Seq(Entry) PROVE after(k, acc) \in Seq(Entry)
  <2>1. lists[k] \in Seq(Entry)  OBVIOUS
  <2>2. LIST - 1 \in Nat  BY Sizes
  <2>3. k < l => Len(lists[k]) = LIST  BY DEF Written
  <2>4. k < l => SubSeq(lists[k], 1, LIST - 1) \in Seq(Entry)  BY <2>1, <2>2, <2>3
  <2> QED  BY <2>1, <2>4
<1>3. l \in Nat /\ <<>> \in Seq(Entry)  OBVIOUS
<1> HIDE DEF after
<1>4. g \in [(1 .. l) \X Seq(Entry) -> Seq(Entry)]  BY <1>2
<1>5. PICK f : Steps(f, l, Seq(Entry), <<>>, g)
  <2> HIDE DEF g, l
  <2> QED  BY <1>3, <1>4, Recursion
<1>6. f = [k \in 0 .. l |-> IF k = 0 THEN <<>> ELSE after(k, f[k - 1])]
  <2>1. \A k \in 1 .. l : f[k] = after(k, f[k - 1])
    <3> TAKE k \in 1 .. l
    <3>1. f[k - 1] \in Seq(Entry)
      <4>1. k - 1 \in 0 .. l  BY <1>3
      <4> HIDE DEF l
      <4> QED  BY <1>5, <4>1 DEF Steps
    <3>2. g[<<k, f[k - 1]>>] = after(k, f[k - 1])  BY <3>1
    <3> QED  BY <1>5, <3>2 DEF Steps
  <2>2. f = [k \in 0 .. l |-> f[k]]  BY <1>5 DEF Steps
  <2>3. \A k \in 0 .. l : f[k] = IF k = 0 THEN <<>> ELSE after(k, f[k - 1])
    BY <1>3, <1>5, <2>1 DEF Steps
  <2> QED  BY <2>2, <2>3
<1>7. J = [k \in 0 .. l |-> IF k = 0 THEN <<>> ELSE after(k, J[k - 1])]  BY <1>6, Zenon
<1> HIDE DEF J
<1>8. J[0] = <<>> /\ \A k \in 1 .. l : J[k] = after(k, J[k - 1])
  <2> HIDE DEF l
  <2>1. 0 \in 0 .. l /\ \A k \in 1 .. l : k \in 0 .. l /\ k # 0  BY <1>3
  <2> QED  BY <1>7, <2>1
<1> QED  BY <1>1, <1>8 DEF after

\* The data entries of the lists, in order: one for each page from the second.
LEMMA ChainIs ==
  ASSUME IodConstants, lists \in Seq(Seq(Entry)), lists # <<>>, Written
  PROVE  LET n == Before(Len(lists)) + Len(lists[Len(lists)]) IN
         n \in Nat /\ Iod!Chain = [i \in 1 .. n |-> <<"data", Parts[1 + i].addr>>]
<1> DEFINE l == Len(lists)
           L == LIST - 1
           upto(n) == [i \in 1 .. n |-> <<"data", Parts[1 + i].addr>>]
           C(k) == Iod!ChainTo[k]
           last == Len(lists[l])
           T == {k \in 0 .. l - 1 : C(k) = upto(k * L)}
<1>1. L \in Nat \ {0} /\ LIST \in Nat  BY Sizes
<1>2. l \in Nat \ {0} /\ l \in 1 .. l /\ lists[l] \in Seq(Entry) /\ last \in Nat  OBVIOUS
<1>3. C(0) = <<>> /\ \A k \in 1 .. l : C(k) = C(k - 1) \o (IF k < l THEN SubSeq(lists[k], 1, L) ELSE lists[k])
  BY ChainToIs
<1>4. ASSUME NEW n \in Nat, NEW m \in Nat, NEW s, s \in Seq(Entry), Len(s) = m,
             \A i \in 1 .. m : s[i] = <<"data", Parts[1 + n + i].addr>>
      PROVE  upto(n) \o s = upto(n + m)
  <2> DEFINE W == Entry \cup {<<"data", Parts[1 + i].addr>> : i \in 1 .. n}
  <2>1. upto(n) \in Seq(W) /\ Len(upto(n)) = n /\ s \in Seq(W)
    <3>1. \A i \in 1 .. n : <<"data", Parts[1 + i].addr>> \in W  OBVIOUS
    <3>2. \A i \in 1 .. m : s[i] \in W  BY <1>4
    <3> HIDE DEF W
    <3>3. upto(n) \in Seq(W) /\ Len(upto(n)) = n  BY <1>4, <3>1
    <3>4. s \in [1 .. m -> W]
      <4>1. s = [i \in 1 .. m |-> s[i]]  BY <1>4, SequenceIs
      <4> QED  BY <3>2, <4>1
    <3>5. s \in Seq(W)  BY <1>4, <3>4
    <3> QED  BY <3>3, <3>5
  <2> HIDE DEF W
  <2>2. upto(n) \o s = [i \in 1 .. n + m |-> IF i <= n THEN upto(n)[i] ELSE s[i - n]]
    <3> DEFINE u == upto(n)
    <3>1. u \in Seq(W) /\ Len(u) = n  BY <2>1
    <3> HIDE DEF u
    <3>2. u \o s \in Seq(W) /\ Len(u \o s) = n + m
      <4>1. u \in Seq(W) /\ s \in Seq(W)  BY <2>1, <3>1
      <4>2. u \o s \in Seq(W) /\ Len(u \o s) = Len(u) + Len(s)  BY <4>1
      <4> QED  BY <1>4, <3>1, <4>2
    <3>5. ASSUME NEW i \in 1 .. n + m PROVE (u \o s)[i] = IF i <= n THEN u[i] ELSE s[i - n]
      <4>1. i \in 1 .. Len(u) + Len(s)  BY <1>4, <3>1
      <4>2. (u \o s)[i] = IF i <= Len(u) THEN u[i] ELSE s[i - Len(u)]  BY <2>1, <3>1, <4>1
      <4> QED  BY <3>1, <4>2
    <3>3. n + m \in Nat  OBVIOUS
    <3>4. u \o s = [i \in 1 .. n + m |-> (u \o s)[i]]  BY <3>2, <3>3, SequenceIs
    <3> QED  BY <3>4, <3>5 DEF u
  <2>3. \A i \in 1 .. n + m : (IF i <= n THEN upto(n)[i] ELSE s[i - n]) = upto(n + m)[i]
    <3> TAKE i \in 1 .. n + m
    <3>1. CASE i <= n  BY <3>1
    <3>2. CASE ~(i <= n)
      <4>1. i - n \in 1 .. m /\ 1 + n + (i - n) = 1 + i  BY <3>2
      <4>2. s[i - n] = <<"data", Parts[1 + n + (i - n)].addr>>  BY <1>4, <4>1
      <4> QED  BY <3>2, <4>1, <4>2
    <3> QED  BY <3>1, <3>2
  <2> QED  BY <2>2, <2>3
<1>5. Before(l) \in Nat /\ Before(l) = (l - 1) * L  BY <1>1, <1>2 DEF Before
<1> HIDE DEF C
<1>6. 0 \in T
  <2>1. 0 * L = 0  BY <1>1
  <2>2. upto(0) = <<>>  OBVIOUS
  <2> HIDE DEF upto
  <2>3. C(0) = upto(0 * L)  BY <1>3, <2>1, <2>2
  <2>4. 0 \in 0 .. l - 1  BY <1>2
  <2> QED  BY <2>3, <2>4
<1>7. ASSUME NEW k \in 1 .. l - 1, k - 1 \in T PROVE k \in T
  <2> DEFINE s == SubSeq(lists[k], 1, L)
             n == (k - 1) * L
  <2>1. k \in 1 .. l /\ k < l /\ lists[k] \in Seq(Entry) /\ Len(lists[k]) = LIST
    BY <1>2 DEF Written
  <2>2. s \in Seq(Entry) /\ Len(s) = L /\ \A i \in 1 .. L : s[i] = lists[k][i]  BY <1>1, <2>1
  <2>3. \A i \in 1 .. L : s[i] = <<"data", Parts[1 + n + i].addr>>
    <3> TAKE i \in 1 .. L
    <3>1. i \in 1 .. Len(lists[k]) /\ i < LIST  BY <1>1, <2>1
    <3>2. lists[k][i] = <<"data", Parts[1 + Before(k) + i].addr>>  BY <2>1, <3>1 DEF Written
    <3> QED  BY <2>2, <3>2 DEF Before
  <2>4. n \in Nat /\ k * L = n + L  
    <3>1. ((k - 1) + 1) * L = (k - 1) * L + L  BY <1>1, Once
    <3>2. (k - 1) + 1 = k /\ k - 1 \in Nat  OBVIOUS
    <3> HIDE DEF L
    <3>3. (k - 1) * L \in Nat  BY <1>1, <3>2
    <3> QED  BY <3>1, <3>2, <3>3
  <2>5. C(k) = C(k - 1) \o s /\ C(k - 1) = upto(n)  BY <1>3, <1>7, <2>1
  <2> HIDE DEF upto, s, n
  <2>6. upto(n) \o s = upto(n + L)  BY <1>1, <1>4, <2>2, <2>3, <2>4
  <2>7. C(k) = upto(k * L)
    <3> HIDE DEF L
    <3> QED  BY <2>4, <2>5, <2>6
  <2>8. k \in 0 .. l - 1  BY <1>2
  <2> QED  BY <2>7, <2>8
<1> HIDE DEF T
<1>8. \A k \in 0 .. l - 1 : k \in T
  <2>1. l - 1 \in Nat  BY <1>2
  <2> HIDE DEF l
  <2> QED  BY <1>6, <1>7, <2>1, Induction
<1>9. C(l - 1) = upto((l - 1) * L)
  <2>1. l - 1 \in 0 .. l - 1  BY <1>2
  <2> QED  BY <1>8, <2>1 DEF T
<1>10. C(l) = C(l - 1) \o lists[l]
  <2>1. ~(l < l)  BY <1>2
  <2> QED  BY <1>2, <1>3, <2>1
<1>11. \A i \in 1 .. last : lists[l][i] = <<"data", Parts[1 + Before(l) + i].addr>>  BY <1>2 DEF Written
<1>12. upto(Before(l)) \o lists[l] = upto(Before(l) + last)
  <2> DEFINE n == Before(l)
             s == lists[l]
  <2>1. n \in Nat /\ last \in Nat /\ s \in Seq(Entry) /\ Len(s) = last
        /\ \A i \in 1 .. last : s[i] = <<"data", Parts[1 + n + i].addr>>
    BY <1>2, <1>5, <1>11
  <2> HIDE DEF n, s, last, upto
  <2>2. upto(n) \o s = upto(n + last)  BY <1>4, <2>1
  <2> QED  BY <2>2 DEF n, s
<1>13. Iod!Chain = C(l)  BY DEF Iod!Chain, C
<1> HIDE DEF upto
<1>14. C(l - 1) = upto(Before(l))  BY <1>5, <1>9
<1>15. Iod!Chain = upto(Before(l) + last)  BY <1>10, <1>12, <1>13, <1>14
<1>16. Before(l) + last \in Nat  BY <1>2, <1>5
<1> QED  BY <1>15, <1>16 DEF upto

\* One entry for each page, in order; and not more lists than there is room for.
LEMMA IodDescribes == ASSUME IodConstants, IodInv PROVE Iod!PrpsDescribeBuffer
<1> SUFFICES ASSUME iod_step = "submit", pinned > 0
             PROVE  LET pages == [i \in 1 .. pinned |-> <<"data", Iod!Part(i).addr>>] IN
                    /\ prp1 = pages[1]
                    /\ pinned = 2 => prp2 = pages[2]
                    /\ pinned > 2 =>
                         /\ Iod!Chain = Tail(pages) /\ prp2 = <<"list", 1>>
                         /\ \A k \in 1 .. Len(lists) - 1 : lists[k][LIST] = <<"list", k + 1>>
                    /\ \A k \in DOMAIN lists : Len(lists[k]) <= (IF npages = 0 THEN SMALL ELSE LIST)
                    /\ Len(lists) <= Iod!CeilDiv(Iod!CeilDiv(mapped + PAGE_SIZE, PAGE_SIZE), LIST - 1)
  BY DEF Iod!PrpsDescribeBuffer
<1> DEFINE pages == [i \in 1 .. pinned |-> <<"data", Iod!Part(i).addr>>]
           l == Len(lists)
<1>1. /\ IodTypes /\ Kept /\ lists \in Seq(Seq(Entry)) /\ npages \in Int /\ npages >= -1
      /\ l = IF npages = -1 THEN 0 ELSE IF npages = 0 THEN 1 ELSE npages
  BY DEF IodInv, IodTypes, Kept
<1>2. /\ Pinned /\ prp1 = <<"data", Parts[1].addr>> /\ Written
      /\ npages = 0 => Len(lists[1]) <= SMALL
      /\ IF lists = <<>> THEN pinned <= 2 /\ (pinned = 2 => prp2 = <<"data", Parts[2].addr>>)
         ELSE prp2 = <<"list", 1>> /\ Coming = pinned + 1 /\ pinned > 2
  BY DEF IodInv, Describing
<1>3. /\ pinned \in Nat \ {0} /\ call.offset \in 0 .. PAGE_SIZE - 1 /\ call.length \in Nat
      /\ \A i \in 1 .. pinned : Parts[i] = Iod!Part(i)
  BY <1>1, <1>2, PartsAre
<1>4. \A i \in 1 .. pinned : pages[i] = <<"data", Parts[i].addr>>  BY <1>3
<1>5. /\ LIST \in Nat /\ SMALL \in 1 .. LIST /\ PAGE_SIZE \in Nat \ {0} /\ LIST - 1 \in Nat \ {0}
  BY Sizes
<1>6. prp1 = pages[1] /\ (pinned = 2 => prp2 = pages[2])  BY <1>2, <1>3, <1>4
<1>7. l \in Nat /\ (lists # <<>> => l >= 1 /\ Before(l) \in Nat /\ Len(lists[l]) \in Nat
                                    /\ pinned = 1 + (Before(l) + Len(lists[l])))
  <2>1. l \in Nat  BY <1>1
  <2>2. CASE lists # <<>>
    <3>1. l \in 1 .. l /\ lists[l] \in Seq(Entry)  BY <1>1, <2>2
    <3>2. Before(l) \in Nat  BY <1>5, <3>1 DEF Before
    <3>3. Len(lists[l]) \in Nat  BY <3>1
    <3>4. Coming = 2 + (Before(l) + Len(lists[l])) /\ Coming = pinned + 1  BY <1>2, <2>2 DEF Coming
    <3>5. pinned = 1 + (Before(l) + Len(lists[l]))
      <4> HIDE DEF l
      <4> QED  BY <1>3, <3>2, <3>3, <3>4
    <3> QED  BY <2>1, <3>1, <3>2, <3>3, <3>5
  <2> QED  BY <2>1, <2>2
<1>8. ASSUME pinned > 2 PROVE Iod!Chain = Tail(pages) /\ prp2 = <<"list", 1>>
  <2>1. lists # <<>>  BY <1>2, <1>3, <1>8
  <2>2. Iod!Chain = [i \in 1 .. pinned - 1 |-> <<"data", Parts[1 + i].addr>>]
    <3> DEFINE n == Before(l) + Len(lists[l])
    <3>1. Iod!Chain = [i \in 1 .. n |-> <<"data", Parts[1 + i].addr>>]  BY <1>1, <1>2, <2>1, ChainIs
    <3>2. n = pinned - 1  BY <1>7, <2>1
    <3> HIDE DEF n
    <3> QED  BY <3>1, <3>2
  <2>3. Tail(pages) = [i \in 1 .. pinned - 1 |-> pages[i + 1]]
    <3> DEFINE W == {<<"data", Iod!Part(i).addr>> : i \in 1 .. pinned}
    <3>1. \A i \in 1 .. pinned : <<"data", Iod!Part(i).addr>> \in W  OBVIOUS
    <3> HIDE DEF W
    <3>2. pages \in Seq(W) /\ Len(pages) = pinned /\ pages # <<>>  BY <1>3, <3>1
    <3> HIDE DEF pages
    <3>3. /\ Tail(pages) \in Seq(W) /\ Len(Tail(pages)) = pinned - 1
          /\ \A i \in 1 .. pinned - 1 : Tail(pages)[i] = pages[i + 1]
      BY <1>3, <3>2
    <3>4. Tail(pages) = [i \in 1 .. pinned - 1 |-> Tail(pages)[i]]
      <4> DEFINE t == Tail(pages)
                 n == pinned - 1
      <4>1. t \in Seq(W) /\ Len(t) = n /\ n \in Nat  BY <1>3, <3>3
      <4> HIDE DEF t, n
      <4>2. t = [i \in 1 .. n |-> t[i]]  BY <4>1, SequenceIs
      <4> QED  BY <4>2 DEF t, n
    <3> QED  BY <3>3, <3>4
  <2>4. \A i \in 1 .. pinned - 1 : pages[i + 1] = <<"data", Parts[1 + i].addr>>
    <3> TAKE i \in 1 .. pinned - 1
    <3>1. i + 1 \in 1 .. pinned /\ i + 1 = 1 + i  BY <1>3
    <3> QED  BY <1>4, <3>1
  <2> HIDE DEF pages
  <2> QED  BY <1>2, <2>1, <2>2, <2>3, <2>4
<1>9. \A k \in 1 .. l - 1 : lists[k][LIST] = <<"list", k + 1>>
  <2> TAKE k \in 1 .. l - 1
  <2>1. k \in 1 .. Len(lists) /\ k < Len(lists)  BY <1>7
  <2> QED  BY <1>2, <2>1 DEF Written
<1>10. \A k \in DOMAIN lists : Len(lists[k]) <= (IF npages = 0 THEN SMALL ELSE LIST)
  <2> TAKE k \in DOMAIN lists
  <2>1. k \in 1 .. l /\ Len(lists[k]) <= LIST  BY <1>1, <1>2 DEF Written
  <2>2. CASE npages = 0
    <3>1. k = 1  BY <1>1, <2>1, <2>2
    <3> QED  BY <1>2, <2>2, <3>1
  <2> QED  BY <2>1, <2>2
<1>11. l <= Iod!CeilDiv(Iod!CeilDiv(mapped + PAGE_SIZE, PAGE_SIZE), LIST - 1)
  <2> DEFINE m == Iod!CeilDiv(mapped + PAGE_SIZE, PAGE_SIZE)
             c == Iod!CeilDiv(m, LIST - 1)
             L == LIST - 1
  <2>1. mapped = call.length /\ mapped + PAGE_SIZE \in Nat  BY <1>2, <1>3, <1>5 DEF Pinned
  <2>2. m \in Nat /\ mapped + PAGE_SIZE <= m * PAGE_SIZE  BY <1>5, <2>1, CeilDivIs
  <2>3. c \in Nat /\ m <= c * L
    <3> HIDE DEF m, L
    <3> QED  BY <1>5, <2>2, CeilDivIs DEF L
  <2> HIDE DEF c, m
  <2>4. pinned <= m
    <3> DEFINE x == m * PAGE_SIZE
    <3>1. x \in Int /\ mapped + PAGE_SIZE <= x  BY <1>5, <2>2, Once
    <3> HIDE DEF x
    <3>2. call.offset + call.length <= x  BY <1>3, <1>5, <2>1, <3>1
    <3> QED  BY <1>1, <1>2, <2>2, <3>2, PartsAre DEF x
  <2>5. ASSUME lists = <<>> PROVE l <= c  BY <2>3, <2>5
  <2>6. ASSUME lists # <<>>, c <= l - 1
        PROVE  FALSE
    <3> DEFINE x == c * L
               y == (l - 1) * L
    <3>1. x <= y
      <4>1. c \in Int /\ l - 1 \in Int /\ L \in Nat  BY <1>5, <1>7, <2>3
      <4> HIDE DEF L, l
      <4> QED  BY <2>6, <4>1, Ordered
    <3>2. m <= x /\ y = Before(l) /\ x \in Int  BY <1>5, <2>3, Once DEF Before
    <3> HIDE DEF x, y, l
    <3> QED  BY <1>3, <1>7, <2>2, <2>4, <2>6, <3>1, <3>2
  <2>7. l <= c
    <3> HIDE DEF l
    <3> QED  BY <1>7, <2>3, <2>5, <2>6
  <2> QED  BY <2>7 DEF c, m
<1> HIDE DEF pages
<1>12. /\ prp1 = pages[1]
       /\ pinned = 2 => prp2 = pages[2]
       /\ pinned > 2 =>
            /\ Iod!Chain = Tail(pages) /\ prp2 = <<"list", 1>>
            /\ \A k \in 1 .. Len(lists) - 1 : lists[k][LIST] = <<"list", k + 1>>
       /\ \A k \in DOMAIN lists : Len(lists[k]) <= (IF npages = 0 THEN SMALL ELSE LIST)
       /\ Len(lists) <= Iod!CeilDiv(Iod!CeilDiv(mapped + PAGE_SIZE, PAGE_SIZE), LIST - 1)
  BY <1>6, <1>8, <1>9, <1>10, <1>11
<1> QED  BY <1>12 DEF pages

\* nvme_map_user_pages() to nvme_free_iod(), for any buffers and bios.
LEMMA IodCorrect ==
  ASSUME IodConstants
  PROVE  Iod!Spec => [](Iod!TypeOK /\ Iod!IodReleased /\ PrpsDescribeBuffer)
<1>1. Iod!Init => IodInv  BY IodInit
<1>2. IodInv /\ [Iod!Next]_Iod!iodVars => IodInv'  BY IodNext
<1>3. IodInv => Iod!TypeOK /\ Iod!IodReleased /\ PrpsDescribeBuffer
  BY IodIsReleased, IodDescribes DEF PrpsDescribeBuffer
<1> QED  BY <1>1, <1>2, <1>3, PTL DEF Iod!Spec

-----------------------------------------------------------------------------

\* nvme_setup_prps(): whatever the pages, the offset, the length and the joins
\* of the IOMMU, the controller is given one entry for each page of an ioctl's
\* buffer, in order, through lists each of which ends in the address of the
\* next, and never more of them than nvme_alloc_iod() made room for.
THEOREM EntriesDescribeBuffer == ASSUME IodConstants PROVE DriversSpec => []PrpsDescribeBuffer
BY EachRuns, IodCorrect, PTL

\* nvme_probe(), nvme_remove(), nvme_submit_io(), my_pci_probe(): for any
\* number of processors, any data and any descriptors, each path that fails or
\* ends has given back what it took.
THEOREM NothingIsKept ==
  ASSUME IodConstants, PciConstants
  PROVE  DriversSpec => []NothingKept
<1>1. NothingLeft /\ Iod!IodReleased /\ Net!FailedProbeHoldsNothing => NothingKept  BY DEF NothingKept
<1> QED  BY <1>1, EachRuns, SetupCorrect, IodCorrect, NetCorrect, PTL
-----------------------------------------------------------------------------
(* The heap *)

\* The turns of a loop, one after the other
Turns(spot, S, turn, a, n) ==
  /\ spot \in [0 .. n -> S]
  /\ spot[0] = a /\ \A k \in 1 .. n : spot[k] = turn[spot[k - 1]]
  /\ Heap!Passed(turn, a, n) = {spot[k] : k \in 0 .. n}

LEMMA PassedIs ==
  ASSUME NEW n \in Nat, NEW S, NEW turn \in [S -> S], NEW a \in S
  PROVE  \E spot : Turns(spot, S, turn, a, n)
<1> DEFINE J == CHOOSE f : f = [k \in 0 .. n |-> IF k = 0 THEN a ELSE turn[f[k - 1]]]
           g == [p \in (1 .. n) \X S |-> turn[p[2]]]
<1>1. Heap!Passed(turn, a, n) = {J[k] : k \in 0 .. n}  BY DEF Heap!Passed
<1>2. g \in [(1 .. n) \X S -> S]  OBVIOUS
<1>3. PICK f : Steps(f, n, S, a, g)
  <2> HIDE DEF g
  <2> QED  BY <1>2, Recursion
<1>4. f \in [0 .. n -> S] /\ f[0] = a /\ \A k \in 1 .. n : f[k] = turn[f[k - 1]]
  <2>1. f \in [0 .. n -> S] /\ f[0] = a /\ \A k \in 1 .. n : f[k] = g[<<k, f[k - 1]>>]  BY <1>3 DEF Steps
  <2>2. ASSUME NEW k \in 1 .. n PROVE f[k] = turn[f[k - 1]]
    <3>1. f[k - 1] \in S  BY <2>1
    <3>2. g[<<k, f[k - 1]>>] = turn[f[k - 1]]  BY <3>1
    <3> QED  BY <2>1, <3>2
  <2> QED  BY <2>1, <2>2
<1>5. f = [k \in 0 .. n |-> IF k = 0 THEN a ELSE turn[f[k - 1]]]
  <2>1. f = [k \in 0 .. n |-> f[k]]  BY <1>4
  <2>2. \A k \in 0 .. n : f[k] = IF k = 0 THEN a ELSE turn[f[k - 1]]  BY <1>4
  <2> QED  BY <2>1, <2>2
<1>6. J = [k \in 0 .. n |-> IF k = 0 THEN a ELSE turn[J[k - 1]]]  BY <1>5, Zenon
<1> HIDE DEF J
<1>7. J[0] = a /\ \A k \in 1 .. n : J[k] = turn[J[k - 1]]  BY <1>6
<1>8. \A k \in 0 .. n : J[k] \in S
  <2> DEFINE T == {k \in 0 .. n : J[k] \in S}
  <2>1. 0 \in T  BY <1>7
  <2>2. \A k \in 1 .. n : k - 1 \in T => k \in T  BY <1>7
  <2> HIDE DEF T
  <2>3. \A k \in 0 .. n : k \in T  BY <2>1, <2>2, Induction
  <2> QED  BY <2>3 DEF T
<1>9. J \in [0 .. n -> S]  BY <1>6, <1>8
<1> QED  BY <1>1, <1>7, <1>9 DEF Turns

\* What the places are that a loop comes by until it stops
Stops(path, S, turn, a, rank) ==
  /\ path \subseteq S /\ a \in path /\ \A x \in path : turn[x] \in path
  /\ \E end \in path : turn[end] = end /\ \A x \in path : rank[end] <= rank[x] /\ (x # end => turn[x] # x)
  /\ \A x \in path : x # a => \E y \in path : turn[y] = x /\ y # x

\* A loop whose turns go down in rank stops within its n turns, and before that
\* comes by each place once.
LEMMA Loop ==
  ASSUME NEW n \in Nat, NEW S, NEW turn \in [S -> S], NEW a \in S, NEW rank \in [S -> 0 .. n],
         \A x \in S : turn[x] # x => rank[turn[x]] < rank[x]
  PROVE  Stops(Heap!Passed(turn, a, n), S, turn, a, rank)
<1>a. PICK spot : Turns(spot, S, turn, a, n)  BY PassedIs
<1>1. /\ spot \in [0 .. n -> S]
      /\ spot[0] = a /\ \A k \in 1 .. n : spot[k] = turn[spot[k - 1]]
      /\ Heap!Passed(turn, a, n) = {spot[k] : k \in 0 .. n}
  BY <1>a DEF Turns
<1>0. \A x \in S : turn[x] \in S /\ rank[x] \in 0 .. n /\ rank[turn[x]] <= rank[x]
  <2> TAKE x \in S
  <2>1. turn[x] \in S /\ rank[x] \in 0 .. n  OBVIOUS
  <2>2. CASE turn[x] = x  BY <2>1, <2>2
  <2>3. CASE turn[x] # x  BY <2>1, <2>3
  <2> QED  BY <2>2, <2>3
<1> DEFINE path == {spot[k] : k \in 0 .. n}
<1>2. spot[n] \in S /\ turn[spot[n]] = spot[n]
  <2> DEFINE T == {k \in 0 .. n : turn[spot[k]] = spot[k] \/ rank[spot[k]] <= n - k}
  <2>1. 0 \in T  BY <1>1
  <2>2. ASSUME NEW k \in 1 .. n, k - 1 \in T PROVE k \in T
    <3>1. spot[k] = turn[spot[k - 1]] /\ spot[k - 1] \in S /\ spot[k] \in S  BY <1>1
    <3>2. CASE turn[spot[k - 1]] = spot[k - 1]  BY <3>1, <3>2
    <3>3. CASE turn[spot[k - 1]] # spot[k - 1]
      <4>1. rank[spot[k - 1]] <= n - (k - 1)  BY <2>2, <3>3
      <4>2. rank[spot[k]] < rank[spot[k - 1]]  BY <3>1, <3>3
      <4>3. rank[spot[k]] \in 0 .. n /\ rank[spot[k - 1]] \in 0 .. n  BY <3>1
      <4>4. rank[spot[k]] <= n - k  BY <4>1, <4>2, <4>3
      <4> QED  BY <4>4
    <3> QED  BY <3>2, <3>3
  <2> HIDE DEF T
  <2>3. \A k \in 0 .. n : k \in T  BY <2>1, <2>2, Induction
  <2>4. n \in T /\ spot[n] \in S
    <3>1. n \in 0 .. n  OBVIOUS
    <3> QED  BY <1>1, <2>3, <3>1
  <2>5. turn[spot[n]] = spot[n] \/ rank[spot[n]] <= n - n  BY <2>4 DEF T
  <2>6. turn[spot[n]] \in S /\ rank[spot[n]] \in 0 .. n /\ rank[turn[spot[n]]] \in 0 .. n  BY <2>4
  <2> QED  BY <2>4, <2>5, <2>6
<1>3. ASSUME NEW k \in 0 .. n PROVE rank[spot[n]] <= rank[spot[k]] /\ (turn[spot[k]] = spot[k] => spot[n] = spot[k])
  <2> DEFINE T == {j \in 0 .. n : j >= k => rank[spot[j]] <= rank[spot[k]] /\ (turn[spot[k]] = spot[k] => spot[j] = spot[k])}
  <2>1. 0 \in T  BY <1>1
  <2>2. ASSUME NEW j \in 1 .. n, j - 1 \in T PROVE j \in T
    <3>1. spot[j] = turn[spot[j - 1]] /\ spot[j - 1] \in S /\ spot[j] \in S  BY <1>1
    <3>2. /\ rank[spot[j]] \in 0 .. n /\ rank[spot[j - 1]] \in 0 .. n /\ rank[spot[k]] \in 0 .. n
          /\ rank[spot[j]] <= rank[spot[j - 1]]
      BY <1>0, <1>1, <3>1
    <3>3. CASE j > k
      <4>1. j - 1 >= k  BY <3>3
      <4>2. rank[spot[j - 1]] <= rank[spot[k]] /\ (turn[spot[k]] = spot[k] => spot[j - 1] = spot[k])  BY <2>2, <4>1
      <4> QED  BY <3>1, <3>2, <4>2
    <3>4. CASE j = k  BY <3>2, <3>4
    <3>5. CASE j < k  BY <3>5
    <3> QED  BY <3>3, <3>4, <3>5
  <2> HIDE DEF T
  <2>3. \A j \in 0 .. n : j \in T
    <3>1. \A j \in 1 .. n : j - 1 \in T => j \in T  BY <2>2
    <3> QED  BY <2>1, <3>1, Induction
  <2>4. n \in T  BY <2>3
  <2> QED  BY <2>4 DEF T
<1>4. path \subseteq S /\ a \in path /\ spot[n] \in path
  <2>1. 0 \in 0 .. n /\ n \in 0 .. n  OBVIOUS
  <2> QED  BY <1>1, <2>1
<1>5. ASSUME NEW x \in path PROVE turn[x] \in path
  <2>1. PICK k \in 0 .. n : x = spot[k]  OBVIOUS
  <2>2. CASE k = n  BY <1>2, <1>4, <2>1, <2>2
  <2>3. CASE k # n
    <3>1. k + 1 \in 1 .. n /\ k + 1 \in 0 .. n /\ (k + 1) - 1 = k  BY <2>3
    <3>2. spot[k + 1] = turn[spot[k]]  BY <1>1, <3>1
    <3> QED  BY <2>1, <3>1, <3>2
  <2> QED  BY <2>2, <2>3
<1>6. \A x \in path : rank[spot[n]] <= rank[x] /\ (x # spot[n] => turn[x] # x)  BY <1>3
<1>7. ASSUME NEW x \in path, x # a PROVE \E y \in path : turn[y] = x /\ y # x
  <2> DEFINE T == {k \in 0 .. n : spot[k] = x}
  <2>1. PICK m \in T : \A k \in T : m <= k
    <3>1. T \in SUBSET Nat /\ T # {}  OBVIOUS
    <3> HIDE DEF T
    <3> QED  BY <3>1, Smallest
  <2>2. m \in 1 .. n /\ spot[m] = x  BY <1>1, <1>7, <2>1
  <2>3. m - 1 \in 0 .. n /\ m - 1 \notin T  BY <2>1, <2>2
  <2>4. spot[m - 1] # x /\ spot[m - 1] \in path /\ turn[spot[m - 1]] = x  BY <1>1, <2>2, <2>3
  <2> QED  BY <2>4
<1>8. Heap!Passed(turn, a, n) = path  BY <1>1
<1> HIDE DEF path
<1>9. \A x \in path : turn[x] \in path  BY <1>5
<1>10. \A x \in path : x # a => \E y \in path : turn[y] = x /\ y # x  BY <1>7
<1> QED  BY <1>2, <1>4, <1>6, <1>8, <1>9, <1>10 DEF Stops

HeapConstants == LEAST \in Nat \ {0} /\ Priorities \subseteq Int

Elems == Heap!Elements

LEMMA HeapCount == \A S : Heap!Cardinality(S) = Cardinality(S)
BY DEF Heap!Cardinality, Cardinality

LEMMA HeapSize == ASSUME NEW n \in Nat, NEW q, DOMAIN q = 0 .. n - 1 PROVE Heap!Size(q) = n
<1>1. 0 \in Int /\ n - 1 \in Int  OBVIOUS
<1>2. Cardinality(0 .. n - 1) = n  BY <1>1, FS_Interval
<1> QED  BY <1>2, HeapCount DEF Heap!Size

LEMMA HeapLeast ==
  ASSUME NEW S \in SUBSET Int, NEW m \in S, \A x \in S : m <= x
  PROVE  Heap!Min(S) = m
<1>1. PICK c \in S : c = Heap!Min(S) /\ \A y \in S : c <= y  BY DEF Heap!Min
<1> QED  BY <1>1

LEMMA HeapMost ==
  ASSUME NEW S \in SUBSET Int, NEW m \in S, \A x \in S : x <= m
  PROVE  Heap!Max(S) = m
<1>1. PICK c \in S : c = Heap!Max(S) /\ \A y \in S : y <= c  BY DEF Heap!Max
<1> QED  BY <1>1

LEMMA Fathers ==
  /\ \A s \in Nat \ {0} : Heap!Father(s) \in 0 .. s - 1
  /\ \A s \in Nat \ {0}, p \in Nat : Heap!Father(s) = p <=> s = 2 * p + 1 \/ s = 2 * p + 2
BY DEF Heap!Father

\* No son has a lesser priority than its father.
Order(q, n) == \A i \in 1 .. n - 1 : q[Heap!Father(i)].priority <= q[i].priority

Rng(q) == {q[i] : i \in DOMAIN q}

Greater(q, e, s) == s > 0 /\ e.priority < q[Heap!Father(s)].priority

Climbed(path, q, e, n) ==
  /\ path \subseteq 0 .. n /\ n \in path
  /\ \E m \in path :
       /\ \A x \in path : m <= x
       /\ ~Greater(q, e, m)
       /\ \A x \in path : x # m => Greater(q, e, x) /\ Heap!Father(x) \in path
  /\ \A x \in path : x # n => \E y \in path : Greater(q, e, y) /\ Heap!Father(y) = x

\* The places a new element passes: each has its father's element greater than
\* it, and the last has not.
LEMMA ClimbIs ==
  ASSUME HeapConstants, NEW n \in Nat, NEW q \in [0 .. n - 1 -> Elems], NEW e \in Elems
  PROVE  Climbed(Heap!Climb(q, e), q, e, n)
<1> DEFINE S == 0 .. n
           turn == [s \in 0 .. Heap!Size(q) |->
                      IF s > 0 /\ e.priority < q[Heap!Father(s)].priority THEN Heap!Father(s) ELSE s]
           rank == [s \in S |-> s]
<1>1. Heap!Size(q) = n  BY HeapSize
<1>2. Heap!Climb(q, e) = Heap!Passed(turn, n, n)  BY <1>1 DEF Heap!Climb
<1>3. \A s \in S : /\ turn[s] \in S
                   /\ Greater(q, e, s) => turn[s] = Heap!Father(s) /\ turn[s] < s /\ turn[s] # s
                   /\ ~Greater(q, e, s) => turn[s] = s
  BY <1>1, Fathers DEF Greater
<1>4. turn \in [S -> S] /\ rank \in [S -> 0 .. n] /\ n \in S  BY <1>1, <1>3
<1>5. \A x \in S : turn[x] # x => rank[turn[x]] < rank[x]  BY <1>3
<1>6. \A x \in S : rank[x] = x  OBVIOUS
<1> DEFINE path == Heap!Passed(turn, n, n)
<1> HIDE DEF S, turn, rank
<1>7. /\ path \subseteq S /\ n \in path /\ \A x \in path : turn[x] \in path
      /\ \E end \in path : turn[end] = end /\ \A x \in path : rank[end] <= rank[x] /\ (x # end => turn[x] # x)
      /\ \A x \in path : x # n => \E y \in path : turn[y] = x /\ y # x
  <2>1. Stops(Heap!Passed(turn, n, n), S, turn, n, rank)  BY <1>4, <1>5, Loop
  <2> QED  BY <2>1 DEF Stops
<1>8. PICK m \in path : turn[m] = m /\ \A x \in path : rank[m] <= rank[x] /\ (x # m => turn[x] # x)  BY <1>7
<1> HIDE DEF path
<1>9. /\ \A x \in path : m <= x
      /\ ~Greater(q, e, m)
      /\ \A x \in path : x # m => Greater(q, e, x) /\ Heap!Father(x) \in path
  BY <1>3, <1>6, <1>7, <1>8
<1>10. \A x \in path : x # n => \E y \in path : Greater(q, e, y) /\ Heap!Father(y) = x
  BY <1>3, <1>7
<1> QED  BY <1>2, <1>7, <1>9, <1>10 DEF path, S, Climbed

\* An element more, and the order kept
IsPushed(w, q, e, n) ==
  w \in [0 .. n -> Elems] /\ Rng(w) = Rng(q) \cup {e} /\ (Order(q, n) => Order(w, n + 1))

LEMMA PushedIs ==
  ASSUME HeapConstants, NEW n \in Nat, NEW q \in [0 .. n - 1 -> Elems], NEW e \in Elems
  PROVE  IsPushed(Heap!Pushed(q, e), q, e, n)
<1> DEFINE path == Heap!Climb(q, e)
           w == Heap!Pushed(q, e)
           F(s) == Heap!Father(s)
           key(i) == q[i].priority
           new == e.priority
           val(i) == w[i].priority
<1>1. Climbed(path, q, e, n)  BY ClimbIs
<1>2. path \subseteq 0 .. n /\ n \in path  BY <1>1 DEF Climbed
<1>3. PICK m \in path : /\ \A x \in path : m <= x
                        /\ ~Greater(q, e, m)
                        /\ \A x \in path : x # m => Greater(q, e, x) /\ F(x) \in path
  BY <1>1 DEF Climbed
<1>4. \A x \in path : x # n => \E y \in path : Greater(q, e, y) /\ F(y) = x  BY <1>1 DEF Climbed
<1>5. Heap!Size(q) = n  BY HeapSize
<1>6. Heap!Min(path) = m  BY <1>2, <1>3, HeapLeast
<1>7. w = [s \in 0 .. n |-> IF s = m THEN e ELSE IF s \in path THEN q[F(s)] ELSE q[s]]
  BY <1>5, <1>6 DEF Heap!Pushed
<1>8. \A s \in 1 .. n : F(s) \in 0 .. n - 1 /\ F(s) < s  BY Fathers
<1>9. \A x \in path : x # m => x \in 1 .. n  BY <1>2, <1>3 DEF Greater
<1>10. /\ w[m] = e
       /\ \A s \in path : s # m => w[s] = q[F(s)]
       /\ \A s \in 0 .. n : s \notin path => s \in 0 .. n - 1 /\ w[s] = q[s]
  BY <1>2, <1>3, <1>7
<1> HIDE DEF path, w
<1>11. w \in [0 .. n -> Elems]
  <2>1. \A s \in 0 .. n : w[s] \in Elems  BY <1>8, <1>9, <1>10
  <2>2. w = [s \in 0 .. n |-> w[s]]  BY <1>7
  <2> QED  BY <2>1, <2>2
<1>12. Rng(w) = Rng(q) \cup {e}
  <2>1. Rng(w) = {w[i] : i \in 0 .. n} /\ Rng(q) = {q[i] : i \in 0 .. n - 1}  BY <1>11 DEF Rng
  <2>2. ASSUME NEW s \in 0 .. n PROVE w[s] \in {q[i] : i \in 0 .. n - 1} \cup {e}
    <3>1. CASE s = m  BY <1>10, <3>1
    <3>2. CASE s \in path /\ s # m  BY <1>8, <1>9, <1>10, <3>2
    <3>3. CASE s \notin path  BY <1>10, <3>3
    <3> QED  BY <3>1, <3>2, <3>3
  <2>3. e \in {w[i] : i \in 0 .. n}  BY <1>2, <1>10
  <2>4. ASSUME NEW i \in 0 .. n - 1 PROVE q[i] \in {w[s] : s \in 0 .. n}
    <3>1. CASE i \in path
      <4>1. PICK y \in path : Greater(q, e, y) /\ F(y) = i  BY <1>4, <3>1
      <4>2. y # m /\ y \in 0 .. n  BY <1>2, <1>3, <4>1
      <4> QED  BY <1>10, <4>1, <4>2
    <3>2. CASE i \notin path  BY <1>10, <3>2
    <3> QED  BY <3>1, <3>2
  <2> QED  BY <2>1, <2>2, <2>3, <2>4
<1>13. ASSUME Order(q, n) PROVE Order(w, n + 1)
  <2>1. /\ new \in Int /\ \A i \in 0 .. n - 1 : key(i) \in Int
        /\ \A i \in 1 .. n - 1 : key(F(i)) <= key(i)
    BY <1>8, <1>13 DEF Order, HeapConstants, Elems, Heap!Elements
  <2>2. /\ \A x \in path : x # m => new < key(F(x)) /\ F(x) \in path
        /\ m > 0 => ~(new < key(F(m)))
    BY <1>3 DEF Greater
  <2>3. /\ val(m) = new
        /\ \A s \in path : s # m => val(s) = key(F(s))
        /\ \A s \in 0 .. n : s \notin path => val(s) = key(s)
    BY <1>10
  <2> HIDE DEF val, key, new, F
  <2>4. ASSUME NEW i \in 1 .. n PROVE val(F(i)) <= val(i)
    <3>0. F(i) \in 0 .. n - 1 /\ F(i) < i  BY <1>8
    <3>1. CASE i \in path /\ i # m
      <4>1. F(i) \in path /\ new < key(F(i)) /\ val(i) = key(F(i))  BY <2>2, <2>3, <3>1
      <4>2. CASE F(i) = m  BY <2>1, <2>3, <3>0, <4>1, <4>2
      <4>3. CASE F(i) # m
        <5>1. F(i) \in 1 .. n - 1 /\ val(F(i)) = key(F(F(i)))  BY <1>9, <2>3, <3>0, <4>1, <4>3
        <5> QED  BY <2>1, <4>1, <5>1
      <4> QED  BY <4>2, <4>3
    <3>2. CASE i = m
      <4>1. F(i) \notin path  BY <1>2, <1>3, <3>0, <3>2
      <4>2. val(F(i)) = key(F(i)) /\ val(i) = new /\ ~(new < key(F(i)))  BY <2>2, <2>3, <3>0, <3>2, <4>1
      <4> QED  BY <2>1, <3>0, <4>2
    <3>3. CASE i \notin path
      <4>1. i \in 1 .. n - 1 /\ val(i) = key(i) /\ key(F(i)) <= key(i)  BY <1>10, <2>1, <2>3, <3>3
      <4>2. CASE F(i) \notin path  BY <2>3, <3>0, <4>1, <4>2
      <4>3. CASE F(i) \in path /\ F(i) # m
        <5>1. F(i) \in 1 .. n - 1 /\ val(F(i)) = key(F(F(i)))  BY <1>9, <2>3, <3>0, <4>3
        <5>2. key(F(F(i))) <= key(F(i)) /\ F(F(i)) \in 0 .. n - 1  BY <1>8, <2>1, <5>1
        <5> QED  BY <2>1, <3>0, <4>1, <5>1, <5>2
      <4>4. CASE F(i) = m
        <5>1. PICK y \in path : Greater(q, e, y) /\ F(y) = m
          <6>1. m # n  BY <3>0, <4>4
          <6> QED  BY <1>4, <6>1 DEF F
        <5>2. y # m  BY <1>3, <5>1
        <5>3. new < key(m)  BY <2>2, <5>1, <5>2
        <5> QED  BY <2>1, <2>3, <3>0, <4>1, <4>4, <5>3
      <4> QED  BY <4>2, <4>3, <4>4
    <3> QED  BY <3>1, <3>2, <3>3
  <2>5. \A i \in 1 .. n : w[F(i)].priority <= w[i].priority  BY <2>4 DEF val
  <2> QED  BY <2>5 DEF Order, F
<1> QED  BY <1>11, <1>12, <1>13 DEF IsPushed, w

\* The lesser son
LEMMA SonIs ==
  ASSUME HeapConstants, NEW n \in Nat, NEW q \in [0 .. n - 1 -> Elems], NEW p \in 0 .. n - 1, 2 * p + 1 <= n - 1
  PROVE  /\ Heap!Son(q, p) \in 1 .. n - 1 /\ Heap!Father(Heap!Son(q, p)) = p /\ p < Heap!Son(q, p)
         /\ \A s \in 1 .. n - 1 : Heap!Father(s) = p => q[Heap!Son(q, p)].priority <= q[s].priority
<1>1. Heap!Size(q) = n  BY HeapSize
<1>2. Heap!Son(q, p) = IF 2 * p + 2 > n - 1 \/ q[2 * p + 1].priority < q[2 * p + 2].priority
                         THEN 2 * p + 1 ELSE 2 * p + 2
  BY <1>1 DEF Heap!Son
<1> DEFINE son == Heap!Son(q, p)
<1>3. \A i \in 0 .. n - 1 : q[i].priority \in Int  BY DEF HeapConstants, Elems, Heap!Elements
<1>4. \A s \in 1 .. n - 1 : Heap!Father(s) = p <=> s = 2 * p + 1 \/ s = 2 * p + 2  BY DEF Heap!Father
<1>5. CASE 2 * p + 2 > n - 1 \/ q[2 * p + 1].priority < q[2 * p + 2].priority
  <2>1. son = 2 * p + 1  BY <1>2, <1>5
  <2>2. son \in 1 .. n - 1 /\ p < son /\ Heap!Father(son) = p  BY <1>4, <2>1
  <2>3. ASSUME NEW s \in 1 .. n - 1, Heap!Father(s) = p PROVE q[son].priority <= q[s].priority
    <3>1. s = 2 * p + 1 \/ s = 2 * p + 2  BY <1>4, <2>3
    <3>2. q[s].priority \in Int /\ q[son].priority \in Int  BY <1>3, <2>2
    <3> QED  BY <1>5, <2>1, <3>1, <3>2
  <2> QED  BY <2>2, <2>3
<1>6. CASE ~(2 * p + 2 > n - 1 \/ q[2 * p + 1].priority < q[2 * p + 2].priority)
  <2>1. son = 2 * p + 2 /\ 2 * p + 2 <= n - 1  BY <1>2, <1>6
  <2>2. son \in 1 .. n - 1 /\ p < son /\ Heap!Father(son) = p  BY <1>4, <2>1
  <2>3. ASSUME NEW s \in 1 .. n - 1, Heap!Father(s) = p PROVE q[son].priority <= q[s].priority
    <3>1. s = 2 * p + 1 \/ s = 2 * p + 2  BY <1>4, <2>3
    <3>2. q[2 * p + 1].priority \in Int /\ q[2 * p + 2].priority \in Int  BY <1>3, <2>1
    <3> QED  BY <1>6, <2>1, <3>1, <3>2
  <2> QED  BY <2>2, <2>3
<1> QED  BY <1>5, <1>6

IsSunk(path, last, q, n) ==
  /\ path \subseteq 0 .. n - 1 /\ 0 \in path /\ last \in path /\ \A x \in path : x <= last
  /\ \A x \in path : x # last => 2 * x + 1 <= n - 1 /\ Heap!Son(q, x) \in path
  /\ \A x \in path : x # 0 => \E y \in path : y # last /\ Heap!Son(q, y) = x

\* The way down, from the root to a place without sons
LEMMA SunkIs ==
  ASSUME HeapConstants, NEW n \in Nat \ {0}, NEW q \in [0 .. n - 1 -> Elems]
  PROVE  IsSunk(Heap!Sunk(q), Heap!Max(Heap!Sunk(q)), q, n)
<1> DEFINE S == 0 .. n - 1
           turn == [p \in DOMAIN q |-> IF 2 * p + 1 \in DOMAIN q THEN Heap!Son(q, p) ELSE p]
           rank == [p \in S |-> n - p]
           path == Heap!Sunk(q)
<1>1. path = Heap!Passed(turn, 0, n)  BY HeapSize DEF Heap!Sunk
<1>2. \A p \in S : /\ turn[p] \in S
                   /\ 2 * p + 1 <= n - 1 => turn[p] = Heap!Son(q, p) /\ turn[p] > p
                   /\ ~(2 * p + 1 <= n - 1) => turn[p] = p
  <2> TAKE p \in S
  <2>1. CASE 2 * p + 1 <= n - 1
    <3>1. turn[p] = Heap!Son(q, p)  BY <2>1
    <3> QED  BY <2>1, <3>1, SonIs
  <2>2. CASE ~(2 * p + 1 <= n - 1)  BY <2>2
  <2> QED  BY <2>1, <2>2
<1>3. turn \in [S -> S] /\ rank \in [S -> 0 .. n] /\ 0 \in S  BY <1>2
<1>4. \A x \in S : rank[x] = n - x  OBVIOUS
<1>5. \A x \in S : turn[x] # x => rank[turn[x]] < rank[x]  BY <1>2, <1>4
<1> HIDE DEF turn, rank, path
<1>6. Stops(path, S, turn, 0, rank)
  <2> HIDE DEF S
  <2> QED  BY <1>1, <1>3, <1>5, Loop
<1>7. /\ path \subseteq S /\ 0 \in path /\ \A x \in path : turn[x] \in path
      /\ \A x \in path : x # 0 => \E y \in path : turn[y] = x /\ y # x
  BY <1>6 DEF Stops
<1>8. PICK last \in path : turn[last] = last /\ \A x \in path : rank[last] <= rank[x] /\ (x # last => turn[x] # x)
  BY <1>6 DEF Stops
<1>9. \A x \in path : x <= last
  <2> TAKE x \in path
  <2>1. n - last <= n - x  BY <1>4, <1>7, <1>8
  <2> QED  BY <1>7, <2>1
<1>10. Heap!Max(path) = last  BY <1>7, <1>9, HeapMost
<1>11. \A x \in path : x # last => 2 * x + 1 <= n - 1 /\ Heap!Son(q, x) \in path
  BY <1>2, <1>7, <1>8
<1>12. \A x \in path : x # 0 => \E y \in path : y # last /\ Heap!Son(q, y) = x
  <2> TAKE x \in path
  <2>1. ASSUME x # 0 PROVE \E y \in path : y # last /\ Heap!Son(q, y) = x
    <3>1. PICK y \in path : turn[y] = x /\ y # x  BY <1>7, <2>1
    <3>2. y # last /\ turn[y] = Heap!Son(q, y)  BY <1>2, <1>7, <1>8, <3>1
    <3> QED  BY <3>1, <3>2
  <2> QED  BY <2>1
<1> QED  BY <1>7, <1>8, <1>9, <1>10, <1>11, <1>12 DEF IsSunk, path

\* What is before the last place of the way down, when the sons have moved up
MovedUp(q, path, last) == [p \in 0 .. last - 1 |-> IF p \in path THEN q[Heap!Son(q, p)] ELSE q[p]]

\* Without the root, l elements in order
Rest(w, q, l, n) ==
  /\ w \in [0 .. l - 1 -> Elems]
  /\ Rng(w) = {q[i] : i \in 1 .. l}
  /\ Order(q, n) => Order(w, l)

LEMMA KeptIs ==
  ASSUME HeapConstants, NEW n \in Nat \ {0}, NEW q \in [0 .. n - 1 -> Elems],
         NEW path, NEW last, IsSunk(path, last, q, n)
  PROVE  Rest(MovedUp(q, path, last), q, last, n)
<1> DEFINE w == MovedUp(q, path, last)
           F(s) == Heap!Father(s)
           son(p) == Heap!Son(q, p)
           key(i) == q[i].priority
           val(i) == w[i].priority
<1>1. /\ path \subseteq 0 .. n - 1 /\ 0 \in path /\ last \in path /\ \A x \in path : x <= last
      /\ \A x \in path : x # last => 2 * x + 1 <= n - 1 /\ son(x) \in path
      /\ \A x \in path : x # 0 => \E y \in path : y # last /\ son(y) = x
  BY DEF IsSunk
<1>2. last \in 0 .. n - 1  BY <1>1
<1>3. \A x \in path : x # last => x \in 0 .. last - 1 /\ son(x) \in 1 .. last /\ F(son(x)) = x
                                /\ \A s \in 1 .. n - 1 : F(s) = x => key(son(x)) <= key(s)
  <2> TAKE x \in path
  <2>1. ASSUME x # last PROVE x \in 0 .. last - 1 /\ son(x) \in 1 .. last /\ F(son(x)) = x
                                /\ \A s \in 1 .. n - 1 : F(s) = x => key(son(x)) <= key(s)
    <3>1. x \in 0 .. n - 1 /\ x <= last /\ 2 * x + 1 <= n - 1 /\ son(x) \in path /\ son(x) <= last  BY <1>1, <2>1
    <3>2. /\ son(x) \in 1 .. n - 1 /\ F(son(x)) = x
          /\ \A s \in 1 .. n - 1 : F(s) = x => key(son(x)) <= key(s)
      BY <3>1, SonIs
    <3> QED  BY <1>2, <2>1, <3>1, <3>2
  <2> QED  BY <2>1
<1>4. w = [p \in 0 .. last - 1 |-> IF p \in path THEN q[son(p)] ELSE q[p]]  BY DEF MovedUp
<1>5. \A p \in 0 .. last - 1 : /\ p \in path => w[p] = q[son(p)] /\ son(p) \in 1 .. last
                               /\ p \notin path => w[p] = q[p] /\ p \in 1 .. last
  BY <1>1, <1>2, <1>3, <1>4
<1> HIDE DEF w, son
<1>6. w \in [0 .. last - 1 -> Elems]
  <2>1. \A p \in 0 .. last - 1 : w[p] \in Elems  BY <1>2, <1>5
  <2>2. w = [p \in 0 .. last - 1 |-> w[p]]  BY <1>4
  <2> QED  BY <2>1, <2>2
<1>7. Rng(w) = {q[i] : i \in 1 .. last}
  <2>1. Rng(w) = {w[p] : p \in 0 .. last - 1}  BY <1>6 DEF Rng
  <2>2. ASSUME NEW p \in 0 .. last - 1 PROVE w[p] \in {q[i] : i \in 1 .. last}  BY <1>5
  <2>3. ASSUME NEW i \in 1 .. last PROVE q[i] \in {w[p] : p \in 0 .. last - 1}
    <3>1. CASE i \in path
      <4>1. PICK y \in path : y # last /\ son(y) = i  BY <1>1, <3>1
      <4>2. y \in 0 .. last - 1 /\ w[y] = q[i]  BY <1>3, <1>5, <4>1
      <4> QED  BY <4>2
    <3>2. CASE i \notin path
      <4>1. i \in 0 .. last - 1 /\ w[i] = q[i]  BY <1>1, <1>2, <1>5, <3>2
      <4> QED  BY <4>1
    <3> QED  BY <3>1, <3>2
  <2> QED  BY <2>1, <2>2, <2>3
<1>8. ASSUME Order(q, n) PROVE Order(w, last)
  <2>1. /\ \A i \in 0 .. n - 1 : key(i) \in Int
        /\ \A i \in 1 .. n - 1 : key(F(i)) <= key(i)
    BY <1>8 DEF Order, HeapConstants, Elems, Heap!Elements
  <2>2. \A s \in 1 .. n - 1 : F(s) \in 0 .. s - 1  BY Fathers
  <2>3. \A p \in 0 .. last - 1 : /\ p \in path => val(p) = key(son(p))
                                 /\ p \notin path => val(p) = key(p)
    BY <1>5
  <2> HIDE DEF val, key, F
  <2>4. ASSUME NEW i \in 1 .. last - 1 PROVE val(F(i)) <= val(i)
    <3>1. F(i) \in 0 .. last - 1 /\ i \in 1 .. n - 1 /\ F(i) # last /\ i # last  BY <1>2, <2>2
    <3>2. CASE i \in path
      <4>1. PICK y \in path : y # last /\ son(y) = i  BY <1>1, <3>2
      <4>2. F(i) = y /\ val(y) = key(i)  BY <1>3, <2>3, <4>1
      <4>3. son(i) \in 1 .. n - 1 /\ F(son(i)) = i /\ val(i) = key(son(i))  BY <1>2, <1>3, <2>3, <3>1, <3>2
      <4> QED  BY <2>1, <4>2, <4>3
    <3>3. CASE i \notin path /\ F(i) \in path  BY <1>3, <2>3, <3>1, <3>3
    <3>4. CASE i \notin path /\ F(i) \notin path  BY <2>1, <2>3, <3>1, <3>4
    <3> QED  BY <3>2, <3>3, <3>4
  <2>5. \A i \in 1 .. last - 1 : w[F(i)].priority <= w[i].priority  BY <2>4 DEF val
  <2> QED  BY <2>5 DEF Order, F
<1> QED  BY <1>6, <1>7, <1>8 DEF Rest, w

\* Every other element, and the order kept
LEMMA AdjustedIs ==
  ASSUME HeapConstants, NEW n \in Nat \ {0}, NEW q \in [0 .. n - 1 -> Elems]
  PROVE  Rest(Heap!Adjusted(q), q, n - 1, n)
<1> DEFINE path == Heap!Sunk(q)
           last == Heap!Max(path)
           kept == MovedUp(q, path, last)
           m == n - 1 - last
           S == UNION {[0 .. k - 1 -> Elems] : k \in Nat}
           g == [x \in (1 .. m) \X S |-> Heap!Pushed(x[2], q[last + x[1]])]
           J == CHOOSE f : f = [k \in 0 .. m |-> IF k = 0 THEN kept ELSE Heap!Pushed(f[k - 1], q[last + k])]
<1>1. IsSunk(path, last, q, n)  BY SunkIs
<1>2. Rest(kept, q, last, n)  BY <1>1, KeptIs
<1>3. Heap!Adjusted(q) = J[m]
  BY HeapSize DEF Heap!Adjusted, MovedUp
<1>4. last \in 0 .. n - 1  BY <1>1 DEF IsSunk
<1> HIDE DEF path, last, kept
<1>5. m \in Nat /\ \A k \in 1 .. m : q[last + k] \in Elems  BY <1>4
<1>6. ASSUME NEW k \in 1 .. m, NEW w \in S PROVE Heap!Pushed(w, q[last + k]) \in S
  <2>1. PICK l \in Nat : w \in [0 .. l - 1 -> Elems]  OBVIOUS
  <2>2. Heap!Pushed(w, q[last + k]) \in [0 .. l -> Elems]  BY <1>5, <2>1, PushedIs DEF IsPushed
  <2>3. l + 1 \in Nat /\ (l + 1) - 1 = l  OBVIOUS
  <2> QED  BY <2>2, <2>3
<1>7. kept \in S  BY <1>2, <1>4 DEF Rest
<1>8. g \in [(1 .. m) \X S -> S]
  <2> HIDE DEF m, S
  <2> QED  BY <1>6
<1>9. PICK f : Steps(f, m, S, kept, g)
  <2> HIDE DEF m, S, g
  <2> QED  BY <1>5, <1>7, <1>8, Recursion
<1>10. f = [k \in 0 .. m |-> IF k = 0 THEN kept ELSE Heap!Pushed(f[k - 1], q[last + k])]
  <2>1. \A k \in 1 .. m : f[k] = Heap!Pushed(f[k - 1], q[last + k])
    <3> TAKE k \in 1 .. m
    <3>1. f[k - 1] \in S
      <4>1. k - 1 \in 0 .. m  BY <1>5
      <4> HIDE DEF m, S
      <4> QED  BY <1>9, <4>1 DEF Steps
    <3>2. g[<<k, f[k - 1]>>] = Heap!Pushed(f[k - 1], q[last + k])
      <4> HIDE DEF m, S
      <4> QED  BY <3>1
    <3>3. f[k] = g[<<k, f[k - 1]>>]
      <4> HIDE DEF g, m, S
      <4> QED  BY <1>9 DEF Steps
    <3> QED  BY <3>2, <3>3
  <2> HIDE DEF m, S, g
  <2>2. f \in [0 .. m -> S] /\ f[0] = kept  BY <1>9 DEF Steps
  <2>3. f = [k \in 0 .. m |-> f[k]]  BY <2>2
  <2>4. \A k \in 0 .. m : f[k] = IF k = 0 THEN kept ELSE Heap!Pushed(f[k - 1], q[last + k])
    BY <1>5, <2>1, <2>2
  <2> QED  BY <2>3, <2>4
<1>11. J = [k \in 0 .. m |-> IF k = 0 THEN kept ELSE Heap!Pushed(J[k - 1], q[last + k])]  BY <1>10, Zenon
<1> HIDE DEF J, g, S
<1>12. J[0] = kept /\ \A k \in 1 .. m : J[k] = Heap!Pushed(J[k - 1], q[last + k])
  <2> HIDE DEF m
  <2> QED  BY <1>5, <1>11
<1> DEFINE T == {k \in 0 .. m : Rest(J[k], q, last + k, n)}
<1>13. 0 \in T  BY <1>2, <1>4, <1>5, <1>12
<1>14. ASSUME NEW k \in 1 .. m, k - 1 \in T PROVE k \in T
  <2> DEFINE l == last + k - 1
             w == J[k - 1]
             e == q[last + k]
  <2>1. l \in Nat /\ last + (k - 1) = l /\ l + 1 = last + k /\ last + k - 1 = l  BY <1>4
  <2>2. Rest(w, q, l, n)  BY <1>14, <2>1
  <2>3. w \in [0 .. l - 1 -> Elems] /\ Rng(w) = {q[i] : i \in 1 .. l} /\ (Order(q, n) => Order(w, l))
    BY <2>2 DEF Rest
  <2>4. e \in Elems /\ J[k] = Heap!Pushed(w, e) /\ q[l + 1] = e  BY <1>5, <1>12, <2>1
  <2> HIDE DEF l, w, e
  <2>5. IsPushed(Heap!Pushed(w, e), w, e, l)  BY <2>1, <2>3, <2>4, PushedIs
  <2>6. J[k] \in [0 .. l -> Elems] /\ Rng(J[k]) = Rng(w) \cup {e} /\ (Order(w, l) => Order(J[k], l + 1))
    BY <2>4, <2>5 DEF IsPushed
  <2>7. {q[i] : i \in 1 .. l + 1} = {q[i] : i \in 1 .. l} \cup {e}  BY <2>1, <2>4
  <2>8. Rest(J[k], q, l + 1, n)
    <3>1. (l + 1) - 1 = l  BY <2>1
    <3>2. J[k] \in [0 .. (l + 1) - 1 -> Elems]  BY <2>6, <3>1
    <3>3. Rng(J[k]) = {q[i] : i \in 1 .. l + 1}  BY <2>3, <2>6, <2>7
    <3> QED  BY <2>3, <2>6, <3>2, <3>3 DEF Rest
  <2> QED  BY <2>1, <2>8
<1> HIDE DEF T
<1>15. \A k \in 0 .. m : k \in T
  <2> HIDE DEF m
  <2> QED  BY <1>5, <1>13, <1>14, Induction
<1>16. m \in T /\ last + m = n - 1  BY <1>4, <1>5, <1>15
<1> QED  BY <1>3, <1>16 DEF T

LEMMA RootLeast ==
  ASSUME HeapConstants, NEW n \in Nat, NEW q \in [0 .. n - 1 -> Elems], Order(q, n)
  PROVE  \A i \in 0 .. n - 1 : q[0].priority <= q[i].priority
<1> DEFINE key(i) == q[i].priority
           Over == {i \in 0 .. n - 1 : ~(key(0) <= key(i))}
<1>1. \A i \in 0 .. n - 1 : key(i) \in Int  BY DEF HeapConstants, Elems, Heap!Elements
<1>2. \A i \in 1 .. n - 1 : Heap!Father(i) \in 0 .. i - 1 /\ key(Heap!Father(i)) <= key(i)
  BY Fathers DEF Order
<1>3. ASSUME Over # {} PROVE FALSE
  <2>1. Over \in SUBSET Nat  OBVIOUS
  <2>2. PICK i \in Over : \A j \in Over : i <= j
    <3> HIDE DEF Over
    <3> QED  BY <1>3, <2>1, Smallest
  <2>3. i \in 1 .. n - 1  BY <1>1, <2>2
  <2> DEFINE f == Heap!Father(i)
  <2>4. f \in 0 .. n - 1 /\ f < i /\ key(f) <= key(i)  BY <1>2, <2>3
  <2> HIDE DEF f
  <2>5. f \notin Over  BY <2>2, <2>3, <2>4
  <2>6. key(0) <= key(f)  BY <2>4, <2>5
  <2>7. 0 \in 0 .. n - 1  BY <2>3
  <2> QED  BY <1>1, <2>2, <2>3, <2>4, <2>6, <2>7
<1> QED  BY <1>3

\* Each element that is held is in one place.
Holds(q, n, elements) ==
  /\ q \in [0 .. n - 1 -> Elems] /\ Rng(q) = elements
  /\ IsFiniteSet(elements) /\ Cardinality(elements) = n
  /\ \A e, f \in elements : e.data = f.data => e = f

Room(n, size) == n <= size /\ LEAST <= size

HeapInv ==
  /\ alloc \in Nat /\ changed \in BOOLEAN
  /\ \E n \in Nat : Holds(pq_array, n, inside) /\ Room(n, alloc) /\ (~changed => Order(pq_array, n))

LEMMA OnePlace ==
  ASSUME NEW n \in Nat, NEW q, NEW elements, Holds(q, n, elements)
  PROVE  \A i, j \in 0 .. n - 1 : q[i] = q[j] => i = j
<1>1. IsFiniteSet(0 .. n - 1) /\ Cardinality(0 .. n - 1) = n
  <2>1. 0 \in Int /\ n - 1 \in Int  OBVIOUS
  <2> QED  BY <2>1, FS_Interval
<1>2. q \in [0 .. n - 1 -> elements] /\ \A t \in elements : \E i \in 0 .. n - 1 : q[i] = t
  BY DEF Holds, Rng
<1>3. q \in Surjection(0 .. n - 1, elements)  BY <1>2 DEF Surjection
<1>4. Cardinality(elements) = Cardinality(0 .. n - 1)  BY <1>1 DEF Holds
<1>5. q \in Injection(0 .. n - 1, elements)  BY <1>1, <1>3, <1>4, FS_Surjection
<1> QED  BY <1>2, <1>5 DEF Injection, IsInjective

LEMMA HeapInit == ASSUME HeapConstants, Heap!Init PROVE HeapInv
<1>1. pq_array = <<>> /\ alloc = LEAST /\ changed = FALSE /\ inside = {}  BY DEF Heap!Init
<1>2. DOMAIN pq_array = 0 .. 0 - 1 /\ Rng(pq_array) = {}  BY <1>1 DEF Rng
<1>3. pq_array \in [0 .. 0 - 1 -> Elems]
  <2>1. <<>> \in Seq(Elems) /\ Len(<<>>) = 0  OBVIOUS
  <2>2. 1 .. 0 = 0 .. 0 - 1  OBVIOUS
  <2> QED  BY <1>1, <2>1, <2>2
<1>4. IsFiniteSet({}) /\ Cardinality({}) = 0  BY FS_EmptySet
<1>5. Holds(pq_array, 0, inside)  BY <1>1, <1>2, <1>3, <1>4 DEF Holds
<1>6. alloc \in Nat /\ Room(0, alloc)  BY <1>1 DEF Room, HeapConstants
<1>7. Order(pq_array, 0)  BY DEF Order
<1> QED  BY <1>1, <1>5, <1>6, <1>7 DEF HeapInv

LEMMA HeapPush == ASSUME HeapConstants, HeapInv, NEW e \in Elems, Heap!pq_push(e) PROVE HeapInv'
<1>1. /\ \A f \in inside : f.data # e.data
      /\ alloc' = IF Heap!Size(pq_array) >= alloc THEN 2 * alloc ELSE alloc
      /\ pq_array' = Heap!Pushed(pq_array, e)
      /\ inside' = inside \cup {e} /\ changed' = changed
  BY DEF Heap!pq_push
<1>2. PICK n \in Nat : Holds(pq_array, n, inside) /\ Room(n, alloc) /\ (~changed => Order(pq_array, n))
  BY DEF HeapInv
<1>3. /\ pq_array \in [0 .. n - 1 -> Elems] /\ Rng(pq_array) = inside
      /\ IsFiniteSet(inside) /\ Cardinality(inside) = n
      /\ \A f, g \in inside : f.data = g.data => f = g
  BY <1>2 DEF Holds
<1>4. Heap!Size(pq_array) = n  BY <1>3, HeapSize
<1>5. IsPushed(Heap!Pushed(pq_array, e), pq_array, e, n)  BY <1>3, PushedIs
<1>6. /\ pq_array' \in [0 .. n -> Elems] /\ Rng(pq_array') = inside'
      /\ Order(pq_array, n) => Order(pq_array', n + 1)
  BY <1>1, <1>3, <1>5 DEF IsPushed
<1>7. IsFiniteSet(inside') /\ Cardinality(inside') = n + 1
  <2>1. e \notin inside  BY <1>1
  <2> QED  BY <1>1, <1>3, <2>1, FS_AddElement
<1>8. \A f, g \in inside' : f.data = g.data => f = g  BY <1>1, <1>3
<1>9. n + 1 \in Nat /\ (n + 1) - 1 = n  OBVIOUS
<1>10. Holds(pq_array', n + 1, inside')
  <2>1. pq_array' \in [0 .. (n + 1) - 1 -> Elems]  BY <1>6, <1>9
  <2> QED  BY <1>6, <1>7, <1>8, <2>1 DEF Holds
<1>11. alloc' \in Nat /\ Room(n + 1, alloc')
  BY <1>1, <1>2, <1>4 DEF HeapInv, HeapConstants, Room
<1>12. changed' \in BOOLEAN /\ (~changed' => Order(pq_array', n + 1))  BY <1>1, <1>2, <1>6 DEF HeapInv
<1> QED  BY <1>9, <1>10, <1>11, <1>12 DEF HeapInv

LEMMA HeapPop == ASSUME HeapConstants, HeapInv, Heap!pq_pop PROVE HeapInv'
<1> DEFINE m == Heap!Size(pq_array) - 1
<1>1. /\ pq_array # <<>>
      /\ pq_array' = IF m = 0 THEN <<>> ELSE Heap!Adjusted(pq_array)
      /\ alloc' = IF m > 0 /\ m < alloc \div 2 /\ m >= LEAST THEN alloc \div 2 ELSE alloc
      /\ changed' = (changed /\ m > 0)
      /\ inside' = {e \in inside : e.data # pq_array[0].data}
  BY DEF Heap!pq_pop
<1>2. PICK n \in Nat : Holds(pq_array, n, inside) /\ Room(n, alloc) /\ (~changed => Order(pq_array, n))
  BY DEF HeapInv
<1>3. /\ pq_array \in [0 .. n - 1 -> Elems] /\ Rng(pq_array) = inside
      /\ IsFiniteSet(inside) /\ Cardinality(inside) = n
      /\ \A f, g \in inside : f.data = g.data => f = g
  BY <1>2 DEF Holds
<1>4. m = n - 1  BY <1>3, HeapSize
<1> HIDE DEF m
<1>5. n > 0
  <2>1. ASSUME n = 0 PROVE FALSE
    <3>1. DOMAIN pq_array = {} /\ DOMAIN <<>> = {}  BY <1>3, <2>1
    <3>2. pq_array = [i \in {} |-> pq_array[i]] /\ <<>> = [i \in {} |-> <<>>[i]]  BY <1>3, <2>1, <3>1
    <3> QED  BY <1>1, <3>2
  <2> QED  BY <2>1
<1>6. m \in Nat /\ 0 \in 0 .. n - 1 /\ pq_array[0] \in inside  BY <1>3, <1>4, <1>5 DEF Rng
<1>7. inside' = inside \ {pq_array[0]}  BY <1>1, <1>3, <1>6
<1>8. {pq_array[i] : i \in 1 .. m} = inside'
  <2>1. inside = {pq_array[i] : i \in 0 .. n - 1}  BY <1>3 DEF Rng
  <2>2. \A i \in 1 .. m : pq_array[i] # pq_array[0] /\ i \in 0 .. n - 1
    <3> TAKE i \in 1 .. m
    <3>1. i \in 0 .. n - 1 /\ i # 0  BY <1>4
    <3> QED  BY <1>2, <1>6, <3>1, OnePlace
  <2>3. \A i \in 0 .. n - 1 : i = 0 \/ i \in 1 .. m  BY <1>4
  <2> QED  BY <1>7, <2>1, <2>2, <2>3
<1>9. IsFiniteSet(inside') /\ Cardinality(inside') = m  BY <1>3, <1>4, <1>6, <1>7, FS_RemoveElement
<1>10. \A f, g \in inside' : f.data = g.data => f = g  BY <1>3, <1>7
<1>11. alloc' \in Nat /\ Room(m, alloc')
  BY <1>1, <1>2, <1>4, <1>6 DEF HeapInv, HeapConstants, Room
<1>12. CASE m = 0
  <2>1. pq_array' = <<>>  BY <1>1, <1>12
  <2>2. DOMAIN pq_array' = 0 .. m - 1 /\ Rng(pq_array') = {}  BY <1>12, <2>1 DEF Rng
  <2>3. pq_array' \in [0 .. m - 1 -> Elems]
    <3>1. <<>> \in Seq(Elems) /\ Len(<<>>) = 0  OBVIOUS
    <3>2. 1 .. 0 = 0 .. m - 1  BY <1>12
    <3> QED  BY <2>1, <3>1, <3>2
  <2>4. inside' = {}  BY <1>8, <1>12
  <2>5. Holds(pq_array', m, inside')  BY <1>9, <1>10, <2>2, <2>3, <2>4 DEF Holds
  <2>6. Order(pq_array', m)  BY <1>12 DEF Order
  <2>7. changed' \in BOOLEAN  BY <1>1
  <2> QED  BY <1>6, <1>11, <2>5, <2>6, <2>7 DEF HeapInv
<1>13. CASE m # 0
  <2>1. pq_array' = Heap!Adjusted(pq_array) /\ n \in Nat \ {0}  BY <1>1, <1>5, <1>13
  <2>2. Rest(Heap!Adjusted(pq_array), pq_array, n - 1, n)  BY <1>3, <2>1, AdjustedIs
  <2>3. /\ pq_array' \in [0 .. m - 1 -> Elems] /\ Rng(pq_array') = {pq_array[i] : i \in 1 .. m}
        /\ Order(pq_array, n) => Order(pq_array', m)
    BY <1>4, <2>1, <2>2 DEF Rest
  <2>4. Holds(pq_array', m, inside')  BY <1>8, <1>9, <1>10, <2>3 DEF Holds
  <2>5. changed' \in BOOLEAN /\ (~changed' => ~changed)
    <3>1. m > 0  BY <1>6, <1>13
    <3> QED  BY <1>1, <3>1
  <2> QED  BY <1>2, <1>6, <1>11, <2>3, <2>4, <2>5 DEF HeapInv
<1> QED  BY <1>12, <1>13

LEMMA HeapChange ==
  ASSUME HeapConstants, HeapInv, NEW e \in Elems, Heap!pq_changepriority(e.data, e.priority)
  PROVE  HeapInv'
<1> DEFINE data == e.data
           priority == e.priority
<1>0. e = [data |-> data, priority |-> priority]  BY DEF Elems, Heap!Elements
<1>1. PICK i \in DOMAIN pq_array : /\ pq_array[i].data = data
                                  /\ pq_array' = [pq_array EXCEPT ![i].priority = priority]
  BY DEF Heap!pq_changepriority
<1>2. /\ inside' = {f \in inside : f.data # data} \cup {e}
      /\ changed' = TRUE /\ alloc' = alloc
  BY <1>0 DEF Heap!pq_changepriority
<1>3. PICK n \in Nat : Holds(pq_array, n, inside) /\ Room(n, alloc)  BY DEF HeapInv
<1>4. /\ pq_array \in [0 .. n - 1 -> Elems] /\ Rng(pq_array) = inside
      /\ IsFiniteSet(inside) /\ Cardinality(inside) = n
      /\ \A f, g \in inside : f.data = g.data => f = g
  BY <1>3 DEF Holds
<1>5. i \in 0 .. n - 1 /\ pq_array[i] \in inside /\ pq_array[i] \in Elems  BY <1>1, <1>4 DEF Rng
<1>6. /\ pq_array' \in [0 .. n - 1 -> Elems] /\ pq_array'[i] = e
      /\ \A j \in 0 .. n - 1 : j # i => pq_array'[j] = pq_array[j]
  <2>1. [pq_array[i] EXCEPT !.priority = priority] = e  BY <1>0, <1>1, <1>5 DEF Elems, Heap!Elements
  <2>2. pq_array' = [pq_array EXCEPT ![i] = e]  BY <1>1, <1>4, <1>5, <2>1
  <2> QED  BY <1>4, <1>5, <2>2
<1>7. {f \in inside : f.data # data} = inside \ {pq_array[i]}  BY <1>1, <1>4, <1>5
<1>8. Rng(pq_array') = inside'
  <2>1. inside = {pq_array[j] : j \in 0 .. n - 1} /\ Rng(pq_array') = {pq_array'[j] : j \in 0 .. n - 1}
    BY <1>4, <1>6 DEF Rng
  <2>2. \A j \in 0 .. n - 1 : j # i => pq_array[j] # pq_array[i]  BY <1>3, <1>5, OnePlace
  <2> QED  BY <1>2, <1>5, <1>6, <1>7, <2>1, <2>2
<1>9. IsFiniteSet(inside') /\ Cardinality(inside') = n
  <2> DEFINE others == {f \in inside : f.data # data}
  <2>1. e \notin others /\ inside' = others \cup {e}  BY <1>2
  <2>2. n > 0  BY <1>5
  <2>3. others = inside \ {pq_array[i]}  BY <1>7
  <2> HIDE DEF others
  <2>5. IsFiniteSet(others) /\ Cardinality(others) = n - 1
    <3> DEFINE x == pq_array[i]
    <3>1. x \in inside /\ others = inside \ {x}  BY <1>5, <2>3
    <3> HIDE DEF x
    <3> QED  BY <1>4, <3>1, FS_RemoveElement
  <2>4. IsFiniteSet(inside') /\ Cardinality(inside') = (n - 1) + 1  BY <2>1, <2>5, FS_AddElement
  <2> QED  BY <2>2, <2>4
<1>10. \A f, g \in inside' : f.data = g.data => f = g  BY <1>2, <1>4
<1>11. Holds(pq_array', n, inside')  BY <1>4, <1>6, <1>8, <1>9, <1>10 DEF Holds
<1> QED  BY <1>2, <1>3, <1>11 DEF HeapInv

LEMMA HeapCorrect == ASSUME HeapConstants PROVE Heap!Spec => [](Heap!TypeOK /\ Heap!ServesLeast)
<1>1. Heap!Init => HeapInv  BY HeapInit
<1>2. HeapInv /\ [Heap!Next]_Heap!pqVars => HeapInv'
  <2>1. ASSUME HeapInv, UNCHANGED Heap!pqVars PROVE HeapInv'
    BY <2>1 DEF HeapInv, Heap!pqVars, Holds, Room, Order, Rng
  <2>2. ASSUME HeapInv, Heap!Next PROVE HeapInv'
    <3>1. CASE \E e \in Elems : Heap!pq_push(e)  BY <2>2, <3>1, HeapPush
    <3>2. CASE Heap!pq_pop  BY <2>2, <3>2, HeapPop
    <3>3. CASE \E e \in Elems : Heap!pq_changepriority(e.data, e.priority)  BY <2>2, <3>3, HeapChange
    <3> QED  BY <2>2, <3>1, <3>2, <3>3 DEF Heap!Next, Elems
  <2> QED  BY <2>1, <2>2
<1>3. HeapInv => Heap!TypeOK /\ Heap!ServesLeast
  <2> SUFFICES ASSUME HeapInv PROVE Heap!TypeOK /\ Heap!ServesLeast  OBVIOUS
  <2>1. PICK n \in Nat : Holds(pq_array, n, inside) /\ Room(n, alloc) /\ (~changed => Order(pq_array, n))
    BY DEF HeapInv
  <2>2. /\ pq_array \in [0 .. n - 1 -> Elems] /\ Rng(pq_array) = inside
        /\ IsFiniteSet(inside) /\ Cardinality(inside) = n
    BY <2>1 DEF Holds
  <2>3. Heap!Size(pq_array) = n  BY <2>2, HeapSize
  <2>4. Heap!TypeOK
    BY <2>1, <2>2, <2>3 DEF Heap!TypeOK, Room, HeapInv, HeapConstants, Elems
  <2>5. {pq_array[i] : i \in DOMAIN pq_array} = inside /\ Heap!Size(pq_array) = Heap!Cardinality(inside)
    BY <2>2, <2>3, HeapCount DEF Rng
  <2>6. ASSUME ~changed, NEW e \in inside PROVE pq_array[0].priority <= e.priority
    <3>1. Order(pq_array, n)  BY <2>1, <2>6
    <3>2. PICK i \in 0 .. n - 1 : e = pq_array[i]  BY <2>2 DEF Rng
    <3> QED  BY <2>2, <3>1, <3>2, RootLeast
  <2> QED  BY <2>4, <2>5, <2>6 DEF Heap!ServesLeast
<1> QED  BY <1>1, <1>2, <1>3, PTL DEF Heap!Spec

-----------------------------------------------------------------------------

\* pq_push(), pq_pop(), pq_changepriority(): for any elements and any order of
\* the calls no element is lost or doubled, and as long as no priority has been
\* changed in place the root has the least.
THEOREM LeastIsServed == ASSUME HeapConstants PROVE DriversSpec => []LeastServed
<1>1. LeastServed <=> Heap!ServesLeast  BY DEF LeastServed
<1> QED  BY <1>1, EachRuns, HeapCorrect, PTL
=============================================================================
