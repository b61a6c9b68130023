--------------------------- MODULE PollDeviceProofs ---------------------------
(***************************************************************************)
(* The device of kernel/blockingIO_polling/module.c as its test program    *)
(* uses it, with one process that writes, any number that read and none    *)
(* that polls: for every size of the ring it is one queue of bytes, and    *)
(* nobody sleeps who should be awake.  A second writer, or a process that  *)
(* polls, would store into ih while the first one copies.                  *)
(***************************************************************************)
EXTENDS PollDevice, FiniteSetTheorems, TLAPS

OneWriter == Pollers = {} /\ \A v, w \in Writers : v = w

-----------------------------------------------------------------------------
(* The ring as a sequence *)

\* a % N for an a that is less than N away from its range
Rem(a) == IF a >= N THEN a - N ELSE IF a < 0 THEN a + N ELSE a

LEMMA NType == N \in Nat /\ N >= 2
BY DeviceAssumption

LEMMA ModUnique ==
  ASSUME NEW a \in Int, NEW b \in 0 .. (N - 1), NEW c \in {-1, 0, 1}, a = c * N + b
  PROVE  a % N = b
<1>1. a = N * (a \div N) + (a % N) /\ a \div N \in Int /\ a % N \in 0 .. (N - 1)
  BY NType
<1>2. ASSUME NEW q \in Int, NEW r \in 0 .. (N - 1), a = N * q + r PROVE r = b
  <2>1. N * (q - c) = b - r  BY <1>2, NType
  <2>2. q - c >= 1 => N * (q - c) >= N  BY NType
  <2>3. q - c <= -1 => N * (q - c) <= -N  BY NType
  <2>4. q - c = 0  BY <2>1, <2>2, <2>3, NType
  <2> QED  BY <2>1, <2>4, NType
<1> QED  BY <1>1, <1>2

LEMMA ModIsRem ==
  ASSUME NEW a \in (-N) .. (2 * N - 1)
  PROVE  a % N = Rem(a) /\ Rem(a) \in 0 .. (N - 1)
<1>1. CASE a >= N  BY <1>1, NType, ModUnique DEF Rem
<1>2. CASE a < 0  BY <1>2, NType, ModUnique DEF Rem
<1>3. CASE a \in 0 .. (N - 1)  BY <1>3, NType, ModUnique DEF Rem
<1> QED  BY <1>1, <1>2, <1>3, NType

\* What a reader at i finds in the ring b when the writer is at o
Span(b, i, o) == [k \in 1 .. ((o - i) % N) |-> b[(i + k - 1) % N]]

\* s is the sequence over B of what is in the slots i, i + 1, ... before o
Spans(s, B, b, i, o) ==
  /\ Rem(o - i) \in 0 .. (N - 1)
  /\ s \in Seq(B) /\ Len(s) = Rem(o - i)
  /\ \A k \in 1 .. Rem(o - i) :
       Rem(i + k - 1) \in 0 .. (N - 1) /\ s[k] = b[Rem(i + k - 1)]

LEMMA SpanIs ==
  ASSUME NEW i \in 0 .. N, NEW o \in 0 .. N, NEW B, NEW b \in [0 .. (N - 1) -> B]
  PROVE  Spans(Span(b, i, o), B, b, i, o)
<1>1. o - i \in (-N) .. (2 * N - 1)  BY NType
<1>2. (o - i) % N = Rem(o - i) /\ Rem(o - i) \in 0 .. (N - 1)  BY <1>1, ModIsRem
<1>3. \A k \in 1 .. Rem(o - i) : i + k - 1 \in (-N) .. (2 * N - 1)  BY <1>2, NType
<1>4. \A k \in 1 .. Rem(o - i) :
        (i + k - 1) % N = Rem(i + k - 1) /\ Rem(i + k - 1) \in 0 .. (N - 1)
  BY <1>3, ModIsRem
<1>5. Span(b, i, o) = [k \in 1 .. Rem(o - i) |-> b[(i + k - 1) % N]]
  BY <1>2 DEF Span
<1> HIDE DEF Rem
<1>6. Span(b, i, o) \in [1 .. Rem(o - i) -> B]
  BY <1>4, <1>5
<1>7. Span(b, i, o) \in Seq(B) /\ Len(Span(b, i, o)) = Rem(o - i)
  BY <1>2, <1>6
<1> QED  BY <1>2, <1>4, <1>5, <1>7 DEF Spans

\* A sequence is determined by its slots.
LEMMA SpanUnique ==
  ASSUME NEW s, NEW t, NEW B, NEW b, NEW i, NEW o, Spans(s, B, b, i, o), Spans(t, B, b, i, o)
  PROVE  s = t
<1>1. Len(s) = Len(t) /\ s \in Seq(B) /\ t \in Seq(B) /\ Len(s) \in Nat  BY DEF Spans
<1>2. \A k \in 1 .. Len(s) : s[k] = t[k]  BY DEF Spans
<1> QED  BY <1>1, <1>2

LEMMA SpanGet ==
  ASSUME NEW i \in 0 .. (N - 1), NEW o \in 0 .. (N - 1), i # o, NEW B, NEW b \in [0 .. (N - 1) -> B]
  PROVE  Span(b, i, o) # <<>> /\ Span(b, i + 1, o) = Tail(Span(b, i, o))
<1>1. i \in 0 .. N /\ o \in 0 .. N /\ i + 1 \in 0 .. N  BY NType
<1>2. Rem(o - i) >= 1 /\ Rem(o - (i + 1)) = Rem(o - i) - 1  BY NType DEF Rem
<1>3. \A k \in 1 .. Rem(o - (i + 1)) : Rem((i + 1) + k - 1) = Rem(i + (k + 1) - 1)  BY NType DEF Rem
<1> DEFINE s == Span(b, i, o)
<1>4. Spans(s, B, b, i, o)  BY <1>1, SpanIs
<1>5. Spans(Span(b, i + 1, o), B, b, i + 1, o)  BY <1>1, SpanIs
<1> HIDE DEF s
<1>6. s # <<>> /\ s \in Seq(B) /\ Len(s) = Rem(o - i) /\ Len(s) \in Nat  BY <1>2, <1>4 DEF Spans
<1>7. Spans(Tail(s), B, b, i + 1, o)
  <2>1. Tail(s) \in Seq(B) /\ Len(Tail(s)) = Len(s) - 1  BY <1>6
  <2>2. Rem(o - (i + 1)) \in 0 .. (N - 1)  BY <1>5 DEF Spans
  <2>3. ASSUME NEW k \in 1 .. Rem(o - (i + 1))
        PROVE  Rem((i + 1) + k - 1) \in 0 .. (N - 1) /\ Tail(s)[k] = b[Rem((i + 1) + k - 1)]
    <3>1. k + 1 \in 1 .. Rem(o - i) /\ k \in 1 .. Len(Tail(s))  BY <1>2, <1>6, <2>1, <2>2
    <3>2. Tail(s)[k] = s[k + 1]  BY <1>6, <2>1, <3>1
    <3>3. Rem(i + (k + 1) - 1) \in 0 .. (N - 1) /\ s[k + 1] = b[Rem(i + (k + 1) - 1)]
      BY <1>4, <3>1 DEF Spans
    <3> QED  BY <1>3, <3>2, <3>3
  <2> QED  BY <1>2, <1>6, <2>1, <2>2, <2>3 DEF Spans
<1> QED  BY <1>5, <1>6, <1>7, SpanUnique DEF s

\* Span(c, i, o + 1) is Span(b, i, o) with x at its end.
Longer(c, b, i, o, x) == Span(c, i, o + 1) = Append(Span(b, i, o), x)

LEMMA SpanPut ==
  ASSUME NEW i \in 0 .. (N - 1), NEW o \in 0 .. (N - 1), Rem(o - i) < N - 1,
         NEW B, NEW b \in [0 .. (N - 1) -> B], NEW x \in B, NEW c, c = [b EXCEPT ![o] = x]
  PROVE  Longer(c, b, i, o, x)
<1>1. i \in 0 .. N /\ o \in 0 .. N /\ o + 1 \in 0 .. N  BY NType
<1>2. Rem((o + 1) - i) = Rem(o - i) + 1 /\ Rem(i + Rem((o + 1) - i) - 1) = o  BY NType DEF Rem
<1>3. \A k \in 1 .. Rem(o - i) : Rem(i + k - 1) # o  BY NType DEF Rem
<1> DEFINE s == Span(b, i, o)
<1>4. Spans(s, B, b, i, o)  BY <1>1, SpanIs
<1>5. c \in [0 .. (N - 1) -> B] /\ c[o] = x /\ \A j \in 0 .. (N - 1) : j # o => c[j] = b[j]
  OBVIOUS
<1> HIDE DEF s
<1>6. Spans(Span(c, i, o + 1), B, c, i, o + 1)  BY <1>1, <1>5, SpanIs
<1>7. s \in Seq(B) /\ Len(s) = Rem(o - i) /\ Len(s) \in Nat  BY <1>4 DEF Spans
<1>8. Spans(Append(s, x), B, c, i, o + 1)
  <2>1. Append(s, x) \in Seq(B) /\ Len(Append(s, x)) = Len(s) + 1  BY <1>7
  <2>2. Rem((o + 1) - i) \in 0 .. (N - 1)  BY <1>6 DEF Spans
  <2>3. ASSUME NEW k \in 1 .. Rem((o + 1) - i)
        PROVE  Rem(i + k - 1) \in 0 .. (N - 1) /\ Append(s, x)[k] = c[Rem(i + k - 1)]
    <3>1. CASE k = Rem((o + 1) - i)
      <4>1. Append(s, x)[k] = x  BY <1>2, <1>7, <3>1
      <4>2. Rem(i + k - 1) = o  BY <1>2, <3>1
      <4> QED  BY <1>5, <4>1, <4>2
    <3>2. CASE k # Rem((o + 1) - i)
      <4>1. k \in 1 .. Rem(o - i)  BY <1>2, <1>7, <3>2
      <4>2. Append(s, x)[k] = s[k]  BY <1>7, <4>1
      <4>3. Rem(i + k - 1) \in 0 .. (N - 1) /\ s[k] = b[Rem(i + k - 1)]  BY <1>4, <4>1 DEF Spans
      <4> QED  BY <1>3, <1>5, <4>1, <4>2, <4>3
    <3> QED  BY <3>1, <3>2
  <2> QED  BY <1>2, <1>7, <2>1, <2>2, <2>3 DEF Spans
<1> QED  BY <1>6, <1>8, SpanUnique DEF s, Longer

LEMMA SpanWrap ==
  ASSUME NEW j \in 0 .. (N - 1), NEW B, NEW b \in [0 .. (N - 1) -> B]
  PROVE  Span(b, N, j) = Span(b, 0, j) /\ Span(b, j, N) = Span(b, j, 0)
<1>1. j \in 0 .. N /\ N \in 0 .. N /\ 0 \in 0 .. N  BY NType
<1>2. Rem(j - N) = Rem(j - 0) /\ Rem(N - j) = Rem(0 - j)  BY NType DEF Rem
<1>3. \A k \in 1 .. Rem(j - 0) : Rem(N + k - 1) = Rem(0 + k - 1)  BY NType DEF Rem
<1>4. /\ Spans(Span(b, N, j), B, b, N, j) /\ Spans(Span(b, 0, j), B, b, 0, j)
      /\ Spans(Span(b, j, N), B, b, j, N) /\ Spans(Span(b, j, 0), B, b, j, 0)
  BY <1>1, SpanIs
<1>5. Spans(Span(b, N, j), B, b, 0, j)  BY <1>2, <1>3, <1>4 DEF Spans
<1>6. Spans(Span(b, j, N), B, b, j, 0)  BY <1>2, <1>4 DEF Spans
<1> QED  BY <1>4, <1>5, <1>6, SpanUnique

LEMMA SpanEmpty == \A b : Span(b, 0, 0) = <<>>
<1>1. 0 - 0 \in (-N) .. (2 * N - 1) /\ Rem(0 - 0) = 0  BY NType DEF Rem
<1>2. (0 - 0) % N = 0  BY <1>1, ModIsRem
<1> QED  BY <1>2 DEF Span

-----------------------------------------------------------------------------
(* The inductive invariant *)

Copying(p) == pc[p] \in {"copy", "wrap"}
Active(p) == pc[p] \in {"copy", "wrap", "wake"}

\* Whoever copies holds the semaphore.
Mutex == \A p \in Processes : Copying(p) <=> sema = p

\* An index is past the end only while its process wraps it.
Indices ==
  /\ ir = N => \E r \in Readers : pc[r] = "wrap"
  /\ iw = N => \E w \in Writers : pc[w] = "wrap"

Users == {p \in Processes : pc[p] # "closed"}
Opened == use_count = Cardinality(Users)

\* The room the writer believes in is there: from iw to h, and what is stored,
\* is at most the ring.
Fits(h) == Rem(h - iw) + Rem(iw - ir) <= N - 1

Room ==
  /\ \A p \in Processes : full[p] # "load" => p \in Writers /\ pc[p] \in {"first", "event"}
  /\ \A w \in Writers :
       /\ full[w] \in {"store", "answer"} => Fits(reg[w])
       /\ full[w] = "answer" => ih = reg[w]
       /\ pc[w] \in {"down", "copy", "wrap"} => ih \in 0 .. (N - 1) /\ Fits(ih)

\* A reader sleeps on an empty ring; the writer on a full one, or on one it saw
\* full before a reader came, who has still to wake it.
Moved(w) == Rem(ir) # Rem(reg[w] + 1)
Sleepers ==
  /\ \A r \in Readers : pc[r] = "asleep" /\ onq[r] = "queued" /\ ir # iw => \E w \in Writers : Active(w)
  /\ \A w \in Writers :
       /\ onq[w] = "queued" /\ pc[w] = "event" /\ full[w] \in {"store", "answer"} /\ Moved(w) => \E r \in Readers : Active(r)
       /\ onq[w] = "queued" /\ pc[w] = "asleep" /\ Rem(iw - ir) # N - 1 => \E r \in Readers : Active(r)

NoPoll == \A p \in Processes : pc[p] # "poll"

IInv == TypeOK /\ NoPoll /\ Mutex /\ Indices /\ Opened /\ Room /\ Sleepers

-----------------------------------------------------------------------------
(* It holds at first and every step keeps it *)

LEMMA Roles ==
  ASSUME OneWriter
  PROVE  /\ Processes = Readers \cup Writers /\ Readers \cap Writers = {}
         /\ \A v, w \in Writers : v = w
         /\ None \notin Processes /\ IsFiniteSet(Processes)
BY DeviceAssumption DEF OneWriter, Processes

LEMMA UsersCounted ==
  ASSUME OneWriter
  PROVE  \A S \in SUBSET Processes :
           /\ Cardinality(S) \in 0 .. Cardinality(Processes) /\ (Cardinality(S) = 0 <=> S = {})
           /\ \A p \in Processes \ S : Cardinality(S \cup {p}) = Cardinality(S) + 1
           /\ \A p \in S : Cardinality(S \ {p}) = Cardinality(S) - 1
<1> SUFFICES ASSUME NEW S \in SUBSET Processes
             PROVE  /\ Cardinality(S) \in 0 .. Cardinality(Processes) /\ (Cardinality(S) = 0 <=> S = {})
                    /\ \A p \in Processes \ S : Cardinality(S \cup {p}) = Cardinality(S) + 1
                    /\ \A p \in S : Cardinality(S \ {p}) = Cardinality(S) - 1
  OBVIOUS
<1>1. IsFiniteSet(Processes)  BY Roles
<1>2. IsFiniteSet(S) /\ Cardinality(S) <= Cardinality(Processes)  BY <1>1, FS_Subset
<1>3. Cardinality(S) \in Nat /\ Cardinality(Processes) \in Nat  BY <1>1, <1>2, FS_CardinalityType
<1> QED  BY <1>2, <1>3, FS_EmptySet, FS_AddElement, FS_RemoveElement

LEMMA InitIInv == ASSUME OneWriter, Init PROVE IInv
<1>1. Users = {} /\ Cardinality(Users) = 0
  <2>1. Users = {}  BY DEF Users, Init
  <2> QED  BY <2>1, FS_EmptySet
<1>2. TypeOK
  <2>1. Cardinality({}) \in 0 .. Cardinality(Processes) /\ Cardinality({}) = 0  BY UsersCounted, FS_EmptySet
  <2> QED  BY <2>1, NType, DeviceAssumption DEF Init, TypeOK, NoCall
<1>3. Mutex  BY Roles DEF Init, Mutex, Copying
<1>4. Indices  BY NType DEF Init, Indices
<1>5. Room /\ Sleepers /\ NoPoll  BY Roles DEF Init, Room, Sleepers, NoPoll
<1> QED  BY <1>1, <1>2, <1>3, <1>4, <1>5 DEF IInv, Opened, Init

\* While somebody copies, both indices are slots of the ring.
LEMMA CopyIndices ==
  ASSUME OneWriter, IInv, NEW p \in Processes, pc[p] = "copy"
  PROVE  ir \in 0 .. (N - 1) /\ iw \in 0 .. (N - 1) /\ \A q \in Processes : Copying(q) => q = p
<1>1. \A q \in Processes : Copying(q) => q = p  BY DEF IInv, Mutex, Copying
<1>2. ir # N /\ iw # N  BY <1>1, Roles DEF IInv, Indices, Copying
<1> QED  BY <1>1, <1>2, NType DEF IInv, TypeOK

\* What a test that finds the caller blocked, or not, does to the caller.
Decision(p, blocked, l, o) ==
  /\ l \in {"open", "event", "down", "asleep"} /\ o \in {"no", "queued", "woken"}
  /\ pc' = [pc EXCEPT ![p] = l] /\ onq' = [onq EXCEPT ![p] = o]
  /\ l = "down" => ~blocked
  /\ l = "asleep" => pc[p] = "event" /\ onq[p] = "queued" /\ blocked

LEMMA Decided ==
  ASSUME TypeOK, NEW p \in Processes, NEW blocked \in BOOLEAN, Testing(p), Decide(p, blocked)
  PROVE  /\ call' \in [Processes -> [left : 0 .. MaxLen, nonblock : BOOLEAN]]
         /\ \E l, o : Decision(p, blocked, l, o)
<1>0. /\ pc \in [Processes -> {"closed", "open", "first", "event", "poll", "asleep", "down", "copy", "wrap", "wake"}]
      /\ onq \in [Processes -> {"no", "queued", "woken"}]
      /\ call \in [Processes -> [left : 0 .. MaxLen, nonblock : BOOLEAN]]
      /\ NoCall \in [left : 0 .. MaxLen, nonblock : BOOLEAN]
  BY DeviceAssumption DEF TypeOK, NoCall
<1>1. ASSUME Return(p), UNCHANGED onq, pc[p] \in {"first", "poll"}
      PROVE  call' \in [Processes -> [left : 0 .. MaxLen, nonblock : BOOLEAN]] /\ \E l, o : Decision(p, blocked, l, o)
  <2>1. call' \in [Processes -> [left : 0 .. MaxLen, nonblock : BOOLEAN]]  BY <1>0, <1>1 DEF Return
  <2>2. Decision(p, blocked, "open", onq[p])  BY <1>0, <1>1 DEF Return, Decision
  <2> QED  BY <2>1, <2>2
<1>2. CASE pc[p] = "first"
  <2>1. CASE Goto(p, "event") /\ UNCHANGED onq
    <3>1. Decision(p, blocked, "event", onq[p])  BY <1>0, <2>1 DEF Goto, Decision
    <3> QED  BY <1>0, <2>1, <3>1 DEF Goto
  <2> QED  BY <1>1, <1>2, <2>1 DEF Decide
<1>3. CASE pc[p] = "poll"  BY <1>1, <1>3 DEF Decide
<1>4. CASE pc[p] = "event" /\ ~blocked
  <2>1. Goto(p, "down") /\ onq' = [onq EXCEPT ![p] = "no"]  BY <1>4 DEF Decide
  <2>2. Decision(p, blocked, "down", "no")  BY <1>0, <1>4, <2>1 DEF Goto, Decision
  <2> QED  BY <1>0, <2>1, <2>2 DEF Goto
<1>5. CASE pc[p] = "event" /\ blocked
  <2>1. IF onq[p] = "queued" THEN Goto(p, "asleep") /\ UNCHANGED onq
                             ELSE UNCHANGED <<pc, call>> /\ onq' = [onq EXCEPT ![p] = "queued"]
    BY <1>5 DEF Decide
  <2>2. CASE onq[p] = "queued"
    <3>1. Decision(p, blocked, "asleep", "queued")  BY <1>0, <1>5, <2>1, <2>2 DEF Goto, Decision
    <3> QED  BY <1>0, <2>1, <2>2, <3>1 DEF Goto
  <2>3. CASE onq[p] # "queued"
    <3>1. Decision(p, blocked, "event", "queued")  BY <1>0, <1>5, <2>1, <2>3 DEF Decision
    <3> QED  BY <1>0, <2>1, <2>3, <3>1
  <2> QED  BY <2>2, <2>3
<1> QED  BY <1>2, <1>3, <1>4, <1>5 DEF Testing

\* The two actions that test, in that form.
Tests(p) ==
  /\ Testing(p) /\ UNCHANGED <<rbuf, ir, iw, use_count, sema>>
  /\ call' \in [Processes -> [left : 0 .. MaxLen, nonblock : BOOLEAN]]

LEMMA TestForms ==
  ASSUME OneWriter, IInv, NEW p \in Processes
  PROVE  /\ EmptyTest(p) => /\ p \in Readers /\ Tests(p) /\ UNCHANGED <<ih, full, reg>>
                            /\ \E l, o : Decision(p, ir = iw, l, o)
         /\ FullAnswer(p) => /\ p \in Writers /\ Tests(p) /\ full[p] = "answer"
                             /\ ih' = (IF reg[p] < 0 THEN reg[p] + N ELSE reg[p])
                             /\ full' = [full EXCEPT ![p] = "load"] /\ reg' = [reg EXCEPT ![p] = 0]
                             /\ \E l, o : Decision(p, iw = ih', l, o)
<1>1. ASSUME EmptyTest(p)
      PROVE  p \in Readers /\ Tests(p) /\ UNCHANGED <<ih, full, reg>> /\ \E l, o : Decision(p, ir = iw, l, o)
  <2>1. Testing(p) /\ Decide(p, ir = iw) /\ (ir = iw) \in BOOLEAN  BY <1>1 DEF EmptyTest
  <2>2. /\ call' \in [Processes -> [left : 0 .. MaxLen, nonblock : BOOLEAN]]
        /\ \E l, o : Decision(p, ir = iw, l, o)
    BY <2>1, Decided DEF IInv
  <2> QED  BY <1>1, <2>2 DEF EmptyTest, Tests, ring, tests
<1>2. ASSUME FullAnswer(p)
      PROVE  /\ p \in Writers /\ Tests(p) /\ full[p] = "answer"
             /\ ih' = (IF reg[p] < 0 THEN reg[p] + N ELSE reg[p])
             /\ full' = [full EXCEPT ![p] = "load"] /\ reg' = [reg EXCEPT ![p] = 0]
             /\ \E l, o : Decision(p, iw = ih', l, o)
  <2>1. full[p] = "answer" /\ p \in Writers /\ Testing(p) /\ ih = reg[p]
    BY <1>2 DEF FullAnswer, IInv, Room, Testing
  <2>2. ih' = (IF reg[p] < 0 THEN reg[p] + N ELSE reg[p])  BY <1>2, <2>1 DEF FullAnswer
  <2>3. Decide(p, iw = ih') /\ (iw = ih') \in BOOLEAN  BY <1>2, <2>2 DEF FullAnswer
  <2>4. /\ call' \in [Processes -> [left : 0 .. MaxLen, nonblock : BOOLEAN]]
        /\ \E l, o : Decision(p, iw = ih', l, o)
    BY <2>1, <2>3, Decided DEF IInv
  <2> QED  BY <1>2, <2>1, <2>2, <2>4 DEF FullAnswer, Tests, ring
<1> QED  BY <1>1, <1>2

\* No step but open() and release() opens or closes the device.
LEMMA OpenKept ==
  ASSUME OneWriter, IInv, NEW p \in Processes, Call(p) \/ Interrupted(p) \/ Down(p) \/ Step(p)
  PROVE  use_count' = use_count /\ \A q \in Processes : pc'[q] = "closed" <=> pc[q] = "closed"
<1> USE DEF IInv
<1>0. pc \in [Processes -> {"closed", "open", "first", "event", "poll", "asleep", "down", "copy", "wrap", "wake"}]
  BY DEF TypeOK
<1>1. CASE \E l : l # "closed" /\ pc[p] # "closed" /\ pc' = [pc EXCEPT ![p] = l] /\ use_count' = use_count
  BY <1>0, <1>1
<1>2. CASE Call(p) \/ Interrupted(p) \/ Down(p) \/ Awake(p) \/ Wake(p) \/ Wrap(p)
  BY <1>1, <1>2 DEF Call, Interrupted, Down, Awake, Wake, Wrap, Goto, Return
<1>3. CASE EmptyTest(p) \/ FullAnswer(p)
  <2>1. Tests(p) /\ \E b, l, o : Decision(p, b, l, o)
    <3>1. CASE EmptyTest(p)  BY <3>1, TestForms
    <3>2. CASE FullAnswer(p)  BY <3>2, TestForms
    <3> QED  BY <1>3, <3>1, <3>2
  <2> QED  BY <1>1, <2>1 DEF Tests, Testing, Decision
<1>4. CASE FullLoad(p) \/ FullStore(p)  BY <1>4 DEF FullLoad, FullStore
<1>5. CASE Read(p) \/ Write(p)
  BY <1>1, <1>5 DEF Read, Write, Up, Copied, Goto
<1> QED  BY <1>2, <1>3, <1>4, <1>5 DEF Step

LEMMA OpenedStep == ASSUME OneWriter, IInv, [Next]_vars PROVE Opened'
<1> USE DEF IInv
<1>1. Users \in SUBSET Processes  BY DEF Users
<1>2. ASSUME NEW p \in Processes, Open(p) PROVE Opened'
  <2>1. p \in Processes \ Users /\ Users' = Users \cup {p} /\ use_count' = use_count + 1
    BY <1>2 DEF Open, Goto, Users, TypeOK
  <2> QED  BY <1>1, <2>1, UsersCounted DEF Opened
<1>3. ASSUME NEW p \in Processes, Release(p) PROVE Opened'
  <2>1. p \in Users /\ Users' = Users \ {p} /\ use_count' = use_count - 1
    BY <1>3 DEF Release, Goto, Users, TypeOK
  <2> QED  BY <1>1, <2>1, UsersCounted DEF Opened
<1>4. ASSUME NEW p \in Processes, Call(p) \/ Interrupted(p) \/ Down(p) \/ Step(p) PROVE Opened'
  <2>1. use_count' = use_count /\ \A q \in Processes : pc'[q] = "closed" <=> pc[q] = "closed"
    BY <1>4, OpenKept
  <2>2. Users' = Users  BY <2>1 DEF Users
  <2> QED  BY <2>1, <2>2 DEF Opened
<1>5. CASE UNCHANGED vars  BY <1>5 DEF vars, Opened, Users
<1> QED  BY <1>2, <1>3, <1>4, <1>5 DEF Next

LEMMA CopiedType ==
  ASSUME TypeOK, NEW p \in Processes, Copied(p), call[p].left # 0
  PROVE  call' \in [Processes -> [left : 0 .. MaxLen, nonblock : BOOLEAN]]
<1>1. call[p] \in [left : 0 .. MaxLen, nonblock : BOOLEAN]  BY DEF TypeOK
<1>2. [call[p] EXCEPT !.left = @ - 1] \in [left : 0 .. MaxLen, nonblock : BOOLEAN]  BY <1>1, DeviceAssumption
<1> QED  BY <1>2 DEF Copied, TypeOK

\* Only a process of Pollers calls poll().
LEMMA NoPollStep == ASSUME OneWriter, IInv, [Next]_vars PROVE NoPoll'
<1> USE DEF IInv
<1>1. ASSUME NEW p \in Processes, NEW l, l # "poll", pc' = [pc EXCEPT ![p] = l] PROVE NoPoll'
  BY <1>1 DEF NoPoll, TypeOK
<1>2. ASSUME NEW p \in Processes, EmptyTest(p) \/ FullAnswer(p) PROVE NoPoll'
  <2>1. \E b, l, o : Decision(p, b, l, o)
    <3>1. CASE EmptyTest(p)  BY <3>1, TestForms
    <3>2. CASE FullAnswer(p)  BY <3>2, TestForms
    <3> QED  BY <1>2, <3>1, <3>2
  <2> QED  BY <1>1, <2>1 DEF Decision
<1>3. ASSUME NEW p \in Processes, Call(p) PROVE NoPoll'
  BY <1>1, <1>3 DEF Call, OneWriter
<1>4. ASSUME NEW p \in Processes, Read(p) \/ Write(p) PROVE NoPoll'
  BY <1>1, <1>4 DEF Read, Write, Up, Copied, Goto
<1>5. ASSUME NEW p \in Processes, Open(p) \/ Release(p) \/ Interrupted(p) \/ Down(p) \/ Awake(p) \/ Wake(p) \/ Wrap(p)
      PROVE NoPoll'
  BY <1>1, <1>5 DEF Open, Release, Interrupted, Down, Awake, Wake, Wrap, Goto, Return
<1>6. ASSUME NEW p \in Processes, FullLoad(p) \/ FullStore(p) PROVE NoPoll'
  BY <1>6 DEF FullLoad, FullStore, NoPoll
<1>7. CASE UNCHANGED vars  BY <1>7 DEF vars, NoPoll
<1> QED  BY <1>2, <1>3, <1>4, <1>5, <1>6, <1>7 DEF Next, Step

LEMMA TypeStep == ASSUME OneWriter, IInv, [Next]_vars PROVE TypeOK'
<1> USE DEF IInv
<1>0. use_count' \in 0 .. Cardinality(Processes)
  <2>1. Opened' /\ Users' \in SUBSET Processes  BY OpenedStep DEF Users
  <2> QED  BY <2>1, UsersCounted DEF Opened
<1>n. NoCall \in [left : 0 .. MaxLen, nonblock : BOOLEAN]  BY DeviceAssumption DEF NoCall
<1>1. ASSUME NEW p \in Processes, Open(p) \/ Release(p) PROVE TypeOK'
  <2>1. ir' \in 0 .. N /\ iw' \in 0 .. N  BY <1>1, NType DEF Open, Release, ring, TypeOK
  <2>2. \E l \in {"open", "closed"} : pc' = [pc EXCEPT ![p] = l]  BY <1>1 DEF Open, Release, Goto
  <2>3. UNCHANGED <<rbuf, ih, sema, onq, full, reg, call>>
    BY <1>1 DEF Open, Release, Goto, ring, tests
  <2> QED  BY <1>0, <2>1, <2>2, <2>3 DEF TypeOK
<1>2. ASSUME NEW p \in Processes, Interrupted(p) \/ Wake(p) PROVE TypeOK'
  <2>1. /\ onq' \in [Processes -> {"no", "queued", "woken"}]
        /\ UNCHANGED <<rbuf, ir, iw, ih, sema, full, reg>> /\ Return(p)
    BY <1>2 DEF Interrupted, Wake, wake_up, TypeOK, ring, tests
  <2> QED  BY <1>0, <1>n, <2>1 DEF Return, TypeOK
<1>3. ASSUME NEW p \in Processes, Down(p) \/ Awake(p) PROVE TypeOK'
  BY <1>0, <1>3 DEF Down, Awake, Goto, TypeOK, ring, tests
<1>4. ASSUME NEW p \in Processes, Call(p) PROVE TypeOK'
  <2>1. UNCHANGED <<rbuf, ir, iw, ih, sema, onq, full, reg>>  BY <1>4 DEF Call, ring, tests
  <2>2. CASE p \in Pollers  BY <1>0, <1>4, <2>1, <2>2 DEF Call, Goto, TypeOK
  <2>3. CASE p \notin Pollers
    <3>1. PICK len \in 1 .. MaxLen, nonblock \in BOOLEAN :
            /\ call' = [call EXCEPT ![p] = [left |-> len, nonblock |-> nonblock]]
            /\ pc' = [pc EXCEPT ![p] = "first"]
      BY <1>4, <2>3 DEF Call
    <3> QED  BY <1>0, <2>1, <3>1, DeviceAssumption DEF TypeOK
  <2> QED  BY <2>2, <2>3
<1>5. ASSUME NEW p \in Processes, EmptyTest(p) PROVE TypeOK'
  <2>1. Tests(p) /\ UNCHANGED <<ih, full, reg>> /\ \E l, o : Decision(p, ir = iw, l, o)  BY <1>5, TestForms
  <2> QED  BY <1>0, <2>1 DEF Tests, Decision, TypeOK
<1>6. ASSUME NEW p \in Processes, FullAnswer(p) PROVE TypeOK'
  <2>1. /\ Tests(p) /\ ih' = (IF reg[p] < 0 THEN reg[p] + N ELSE reg[p])
        /\ full' = [full EXCEPT ![p] = "load"] /\ reg' = [reg EXCEPT ![p] = 0]
        /\ \E l, o : Decision(p, iw = ih', l, o)
    BY <1>6, TestForms
  <2> QED  BY <1>0, <2>1, NType DEF Tests, Decision, TypeOK
<1>7. ASSUME NEW p \in Processes, FullLoad(p) PROVE TypeOK'
  BY <1>0, <1>7, NType DEF FullLoad, TypeOK, ring
<1>8. ASSUME NEW p \in Processes, FullStore(p) PROVE TypeOK'
  BY <1>0, <1>8 DEF FullStore, TypeOK, ring
<1>9. ASSUME NEW p \in Processes, Read(p) PROVE TypeOK'
  <2>1. CASE Up(p)  BY <1>0, <2>1 DEF Up, Goto, TypeOK, ring, tests
  <2>2. CASE ~Up(p)
    <3>1. /\ ir' = ir + 1 /\ Copied(p) /\ call[p].left # 0
          /\ UNCHANGED <<rbuf, iw, ih, use_count, sema, onq, tests>>
      BY <1>9, <2>2 DEF Read
    <3>2. ir \in 0 .. (N - 1)  BY <1>9, CopyIndices DEF Read
    <3>3. call' \in [Processes -> [left : 0 .. MaxLen, nonblock : BOOLEAN]]  BY <3>1, CopiedType
    <3>4. pc' = [pc EXCEPT ![p] = "wrap"]  BY <3>1 DEF Copied
    <3>5. ir' \in 0 .. N  BY <3>1, <3>2, NType
    <3> QED  BY <1>0, <3>1, <3>3, <3>4, <3>5 DEF TypeOK, tests
  <2> QED  BY <2>1, <2>2
<1>10. ASSUME NEW p \in Processes, Write(p) PROVE TypeOK'
  <2>1. CASE Up(p)  BY <1>0, <2>1 DEF Up, Goto, TypeOK, ring, tests
  <2>2. CASE ~Up(p)
    <3>1. /\ \E x \in Bytes : rbuf' = [rbuf EXCEPT ![iw] = x]
          /\ iw' = iw + 1 /\ Copied(p) /\ call[p].left # 0
          /\ UNCHANGED <<ir, ih, use_count, sema, onq, tests>>
      BY <1>10, <2>2 DEF Write
    <3>2. iw \in 0 .. (N - 1)  BY <1>10, CopyIndices DEF Write
    <3>3. call' \in [Processes -> [left : 0 .. MaxLen, nonblock : BOOLEAN]]  BY <3>1, CopiedType
    <3>4. rbuf' \in [0 .. (N - 1) -> Bytes \cup {None}]  BY <3>1, <3>2 DEF TypeOK
    <3>5. pc' = [pc EXCEPT ![p] = "wrap"]  BY <3>1 DEF Copied
    <3>6. iw' \in 0 .. N  BY <3>1, <3>2, NType
    <3> QED  BY <1>0, <3>1, <3>3, <3>4, <3>5, <3>6 DEF TypeOK, tests
  <2> QED  BY <2>1, <2>2
<1>11. ASSUME NEW p \in Processes, Wrap(p) PROVE TypeOK'
  <2>1. /\ ir' \in 0 .. N /\ iw' \in 0 .. N
        /\ Goto(p, "copy") /\ UNCHANGED <<rbuf, ih, use_count, sema, onq, tests>>
    BY <1>11, NType DEF Wrap, TypeOK
  <2> QED  BY <1>0, <2>1 DEF Goto, TypeOK, tests
<1>12. CASE UNCHANGED vars  BY <1>12 DEF vars, TypeOK, ring, tests
<1> QED  BY <1>1, <1>2, <1>3, <1>4, <1>5, <1>6, <1>7, <1>8, <1>9, <1>10, <1>11, <1>12 DEF Next, Step

\* One process moves from a place where it does not copy to another, and an
\* index changes only to 0.
LEMMA MutexQuiet ==
  ASSUME OneWriter, IInv, NEW p \in Processes, NEW l, l \notin {"copy", "wrap"}, ~Copying(p),
         pc' = [pc EXCEPT ![p] = l], sema' = sema, ir' \in {0, ir}, iw' \in {0, iw}
  PROVE  Mutex' /\ Indices'
<1>1. \A q \in Processes : Copying(q)' <=> Copying(q)  BY DEF Copying, IInv, TypeOK
<1>2. Mutex'  BY <1>1 DEF IInv, Mutex
<1>3. \A q \in Processes : pc[q] = "wrap" => pc'[q] = "wrap"  BY DEF Copying, IInv, TypeOK
<1>4. Indices'  BY <1>3, Roles, NType DEF IInv, Indices
<1> QED  BY <1>2, <1>4

\* The process that copies moves, and the others stay out.
LEMMA MutexCopies ==
  ASSUME OneWriter, IInv, NEW p \in Processes, pc[p] \in {"down", "copy", "wrap"}, NEW l \in {"copy", "wrap", "wake"},
         pc' = [pc EXCEPT ![p] = l], sema \in {p, None},
         sema' = (IF l = "wake" THEN None ELSE p)
  PROVE  Mutex'
<1>1. \A q \in Processes : q # p => ~Copying(q) /\ ~Copying(q)'  BY Roles DEF IInv, Mutex, Copying, TypeOK
<1>2. Copying(p)' <=> l # "wake"  BY DEF Copying, IInv, TypeOK
<1> QED  BY <1>1, <1>2, Roles DEF Mutex

LEMMA MutexStep == ASSUME OneWriter, IInv, [Next]_vars PROVE Mutex' /\ Indices'
<1> USE DEF IInv
<1>1. ASSUME NEW p \in Processes, Open(p) \/ Release(p) PROVE Mutex' /\ Indices'
  <2>1. ir' \in {0, ir} /\ iw' \in {0, iw} /\ sema' = sema /\ ~Copying(p)
    BY <1>1 DEF Open, Release, ring, Copying
  <2>2. CASE pc' = [pc EXCEPT ![p] = "open"]  BY <2>1, <2>2, MutexQuiet
  <2>3. CASE pc' = [pc EXCEPT ![p] = "closed"]  BY <2>1, <2>3, MutexQuiet
  <2> QED  BY <1>1, <2>2, <2>3 DEF Open, Release, Goto
<1>2. ASSUME NEW p \in Processes, Interrupted(p) \/ Wake(p) \/ Awake(p) PROVE Mutex' /\ Indices'
  <2>1. UNCHANGED <<ir, iw, sema>> /\ ~Copying(p)  BY <1>2 DEF Interrupted, Wake, Awake, ring, Copying
  <2>2. CASE pc' = [pc EXCEPT ![p] = "open"]  BY <2>1, <2>2, MutexQuiet
  <2>3. CASE pc' = [pc EXCEPT ![p] = "event"]  BY <2>1, <2>3, MutexQuiet
  <2> QED  BY <1>2, <2>2, <2>3 DEF Interrupted, Wake, Awake, Goto, Return
<1>3. ASSUME NEW p \in Processes, Call(p) PROVE Mutex' /\ Indices'
  <2>1. UNCHANGED <<ir, iw, sema>> /\ ~Copying(p)  BY <1>3 DEF Call, ring, Copying
  <2>2. CASE pc' = [pc EXCEPT ![p] = "first"]  BY <2>1, <2>2, MutexQuiet
  <2> QED  BY <1>3, <2>2 DEF Call, OneWriter
<1>4. ASSUME NEW p \in Processes, EmptyTest(p) \/ FullAnswer(p) PROVE Mutex' /\ Indices'
  <2>1. Tests(p) /\ \E b, l, o : Decision(p, b, l, o)
    <3>1. CASE EmptyTest(p)  BY <3>1, TestForms
    <3>2. CASE FullAnswer(p)  BY <3>2, TestForms
    <3> QED  BY <1>4, <3>1, <3>2
  <2>2. PICK l : pc' = [pc EXCEPT ![p] = l] /\ l \notin {"copy", "wrap"}  BY <2>1 DEF Decision
  <2>3. UNCHANGED <<ir, iw, sema>> /\ ~Copying(p)  BY <2>1 DEF Tests, Testing, Copying
  <2> QED  BY <2>2, <2>3, MutexQuiet
<1>5. ASSUME NEW p \in Processes, Down(p) PROVE Mutex' /\ Indices'
  <2>1. pc' = [pc EXCEPT ![p] = "copy"] /\ pc[p] = "down" /\ sema = None /\ sema' = p /\ UNCHANGED <<ir, iw>>
    BY <1>5 DEF Down, Goto, ring
  <2>2. Mutex'  BY <2>1, MutexCopies
  <2>3. Indices'  BY <2>1 DEF Indices, TypeOK
  <2> QED  BY <2>2, <2>3
<1>6. ASSUME NEW p \in Processes, Read(p) \/ Write(p) PROVE Mutex' /\ Indices'
  <2>1. pc[p] = "copy" /\ sema = p /\ ir \in 0 .. (N - 1) /\ iw \in 0 .. (N - 1)
    BY <1>6, CopyIndices DEF Read, Write, Mutex, Copying
  <2>2. CASE Up(p)
    <3>1. pc' = [pc EXCEPT ![p] = "wake"] /\ sema' = None /\ UNCHANGED <<ir, iw>>  BY <2>2 DEF Up, Goto, ring
    <3>2. Mutex'  BY <2>1, <3>1, MutexCopies
    <3> QED  BY <2>1, <3>1, <3>2, NType DEF Indices
  <2>3. CASE ~Up(p)
    <3>1. pc' = [pc EXCEPT ![p] = "wrap"] /\ sema' = p
      BY <1>6, <2>1, <2>3 DEF Read, Write, Copied
    <3>2. Mutex'  BY <2>1, <3>1, MutexCopies
    <3>3. pc'[p] = "wrap"  BY <3>1 DEF TypeOK
    <3>4. (ir' # N \/ p \in Readers) /\ (iw' # N \/ p \in Writers)
      BY <1>6, <2>1, <2>3, NType DEF Read, Write
    <3> QED  BY <3>2, <3>3, <3>4 DEF Indices
  <2> QED  BY <2>2, <2>3
<1>7. ASSUME NEW p \in Processes, Wrap(p) PROVE Mutex' /\ Indices'
  <2>1. pc[p] = "wrap" /\ pc' = [pc EXCEPT ![p] = "copy"] /\ sema = p /\ sema' = p
    BY <1>7 DEF Wrap, Goto, Mutex, Copying
  <2>2. Mutex'  BY <2>1, Roles, MutexCopies
  <2>3. \A q \in Processes : pc[q] = "wrap" => q = p  BY <2>1 DEF Mutex, Copying
  <2>4. ir' # N /\ iw' # N
    BY <1>7, <2>3, Roles, NType DEF Wrap, Indices
  <2> QED  BY <2>2, <2>4 DEF Indices
<1>8. ASSUME NEW p \in Processes, FullLoad(p) \/ FullStore(p) PROVE Mutex' /\ Indices'
  <2>1. UNCHANGED <<ir, iw, sema, pc>>  BY <1>8 DEF FullLoad, FullStore, ring
  <2> QED  BY <2>1 DEF Mutex, Copying, Indices
<1>9. CASE UNCHANGED vars  BY <1>9 DEF vars, ring, Mutex, Copying, Indices
<1> QED  BY <1>1, <1>2, <1>3, <1>4, <1>5, <1>6, <1>7, <1>8, <1>9 DEF Next, Step

-----------------------------------------------------------------------------
(* The writer's room *)

\* p moves, the ring and the test for room stay as they are, and the writer
\* comes no nearer to the copy.
LEMMA RoomQuiet ==
  ASSUME OneWriter, IInv, NEW p \in Processes, NEW l, pc' = [pc EXCEPT ![p] = l], full[p] = "load",
         p \in Readers \/ pc[p] \in {"down", "copy", "wrap"} \/ l \notin {"down", "copy", "wrap"},
         UNCHANGED <<ir, iw, ih, full, reg>>
  PROVE  Room'
<1> USE DEF IInv
<1>1. \A q \in Processes : full'[q] # "load" => q \in Writers /\ pc'[q] \in {"first", "event"}
  BY DEF Room, TypeOK
<1>2. ASSUME NEW w \in Writers
      PROVE  /\ full'[w] \in {"store", "answer"} => Fits(reg[w])'
             /\ full'[w] = "answer" => ih' = reg'[w]
             /\ pc'[w] \in {"down", "copy", "wrap"} => ih' \in 0 .. (N - 1) /\ Fits(ih)'
  <2>1. /\ full'[w] \in {"store", "answer"} => Fits(reg[w])'
        /\ full'[w] = "answer" => ih' = reg'[w]
    BY DEF Room, Fits, Rem
  <2>2. pc'[w] \in {"down", "copy", "wrap"} => pc[w] \in {"down", "copy", "wrap"}
    BY Roles DEF TypeOK
  <2>3. pc[w] \in {"down", "copy", "wrap"} => ih \in 0 .. (N - 1) /\ Fits(ih)  BY DEF Room
  <2> QED  BY <2>1, <2>2, <2>3 DEF Fits, Rem
<1> QED  BY <1>1, <1>2 DEF Room

\* A writer outside the copy sees its own index inside the ring.
LEMMA WriterIndex ==
  ASSUME OneWriter, IInv, NEW w \in Writers, pc[w] # "wrap"
  PROVE  iw \in 0 .. (N - 1) /\ ir \in 0 .. N
BY Roles, NType DEF IInv, Indices, TypeOK

\* While the first process opens, all are closed.
LEMMA FirstOpen ==
  ASSUME OneWriter, IInv, use_count = 0
  PROVE  \A q \in Processes : pc[q] = "closed" /\ full[q] = "load"
<1>1. Users = {}
  <2>1. Users \in SUBSET Processes  BY DEF Users
  <2> QED  BY <2>1, UsersCounted DEF IInv, Opened
<1> QED  BY <1>1 DEF Users, IInv, Room

LEMMA RoomStep == ASSUME OneWriter, IInv, [Next]_vars PROVE Room'
<1> USE DEF IInv
<1>1. ASSUME NEW p \in Processes, Open(p) PROVE Room'
  <2>1. pc' = [pc EXCEPT ![p] = "open"] /\ UNCHANGED <<ih, full, reg>> /\ full[p] = "load"
    BY <1>1 DEF Open, Goto, tests, Room
  <2>2. CASE use_count = 0
    <3>1. \A q \in Processes : full'[q] = "load" /\ pc'[q] \in {"closed", "open"}
      BY <2>1, <2>2, FirstOpen DEF TypeOK
    <3> QED  BY <3>1, Roles DEF Room
  <2>3. CASE use_count # 0
    <3>1. UNCHANGED <<ir, iw>>  BY <1>1, <2>3 DEF Open
    <3> QED  BY <2>1, <3>1, RoomQuiet
  <2> QED  BY <2>2, <2>3
<1>2. ASSUME NEW p \in Processes, Release(p) \/ Interrupted(p) \/ Awake(p) \/ Wake(p) PROVE Room'
  <2>1. UNCHANGED <<ir, iw, ih, full, reg>> /\ full[p] = "load"
    BY <1>2 DEF Release, Interrupted, Awake, Wake, ring, tests, Room
  <2>2. CASE pc' = [pc EXCEPT ![p] = "open"]  BY <2>1, <2>2, RoomQuiet
  <2>3. CASE pc' = [pc EXCEPT ![p] = "event"]  BY <2>1, <2>3, RoomQuiet
  <2>4. CASE pc' = [pc EXCEPT ![p] = "closed"]  BY <2>1, <2>4, RoomQuiet
  <2> QED  BY <1>2, <2>2, <2>3, <2>4 DEF Release, Interrupted, Wake, Awake, Goto, Return
<1>3. ASSUME NEW p \in Processes, Call(p) PROVE Room'
  <2>1. UNCHANGED <<ir, iw, ih, full, reg>> /\ full[p] = "load"  BY <1>3 DEF Call, ring, tests, Room
  <2>2. pc' = [pc EXCEPT ![p] = "first"]  BY <1>3 DEF Call, OneWriter
  <2> QED  BY <2>1, <2>2, RoomQuiet
<1>4. ASSUME NEW p \in Processes, EmptyTest(p) PROVE Room'
  <2>1. p \in Readers /\ Tests(p) /\ UNCHANGED <<ih, full, reg>> /\ \E l, o : Decision(p, ir = iw, l, o)
    BY <1>4, TestForms
  <2>2. PICK l : pc' = [pc EXCEPT ![p] = l]  BY <2>1 DEF Decision
  <2>3. full[p] = "load"  BY <2>1, Roles DEF Room
  <2> QED  BY <2>1, <2>2, <2>3, RoomQuiet DEF Tests
<1>5. ASSUME NEW p \in Processes, FullLoad(p) PROVE Room'
  <2>1. p \in Writers /\ Testing(p)  BY <1>5, Roles DEF FullLoad
  <2>2. iw \in 0 .. (N - 1) /\ ir \in 0 .. N  BY <2>1, WriterIndex DEF Testing
  <2>3. reg' = [reg EXCEPT ![p] = ir - 1] /\ full' = [full EXCEPT ![p] = "store"]
        /\ UNCHANGED <<ir, iw, ih, pc>>
    BY <1>5 DEF FullLoad, ring
  <2>4. Rem(ir - 1 - iw) + Rem(iw - ir) <= N - 1  BY <2>2, NType DEF Rem
  <2>5. reg'[p] = ir - 1 /\ full'[p] = "store"  BY <2>3 DEF TypeOK
  <2>6. Fits(reg[p])'  BY <2>3, <2>4, <2>5 DEF Fits, Rem
  <2>7. p \in Writers /\ pc'[p] \in {"first", "event"}  BY <2>1, <2>3 DEF Testing, NoPoll
  <2>8. \A q \in Processes \ {p} : full'[q] = full[q]  BY <2>3 DEF TypeOK
  <2> QED  BY <2>1, <2>3, <2>5, <2>6, <2>7, <2>8, Roles DEF Room
<1>6. ASSUME NEW p \in Processes, FullStore(p) PROVE Room'
  <2>1. p \in Writers /\ pc[p] \in {"first", "event"}  BY <1>6 DEF FullStore, Room
  <2>2. ih' = reg[p] /\ full' = [full EXCEPT ![p] = "answer"] /\ UNCHANGED <<ir, iw, pc, reg>>
    BY <1>6 DEF FullStore, ring
  <2>3. full[p] = "store" /\ full'[p] = "answer" /\ Fits(reg[p])'
    BY <1>6, <2>1, <2>2 DEF FullStore, Room, Fits, Rem, TypeOK
  <2>4. \A q \in Processes \ {p} : full'[q] = full[q]  BY <2>2 DEF TypeOK
  <2> QED  BY <2>1, <2>2, <2>3, <2>4, Roles DEF Room
<1>7. ASSUME NEW p \in Processes, FullAnswer(p) PROVE Room'
  <2>1. /\ p \in Writers /\ Tests(p) /\ full[p] = "answer"
        /\ ih' = (IF reg[p] < 0 THEN reg[p] + N ELSE reg[p])
        /\ full' = [full EXCEPT ![p] = "load"]
        /\ \E l, o : Decision(p, iw = ih', l, o)
    BY <1>7, TestForms
  <2>2. iw \in 0 .. (N - 1) /\ ir \in 0 .. N  BY <2>1, WriterIndex DEF Tests, Testing
  <2>3. reg[p] \in -1 .. (N - 1) /\ Fits(reg[p])  BY <2>1 DEF TypeOK, Room
  <2>4. UNCHANGED <<ir, iw>>  BY <2>1 DEF Tests
  <2>5. ih' \in 0 .. (N - 1)  BY <2>1, <2>3, NType
  <2>6. Rem(ih' - iw) = Rem(reg[p] - iw)  BY <2>1, <2>2, <2>3, NType DEF Rem
  <2>7. Fits(ih)'  BY <2>3, <2>4, <2>6 DEF Fits, Rem
  <2>8. \A q \in Processes : q # p => full'[q] = full[q]  BY <2>1 DEF TypeOK
  <2>9. full'[p] = "load" /\ \A q \in Processes : q # p => pc'[q] = pc[q]
    BY <2>1 DEF TypeOK, Decision
  <2> QED  BY <2>1, <2>5, <2>7, <2>8, <2>9, Roles DEF Room
<1>8. ASSUME NEW p \in Processes, Down(p) PROVE Room'
  <2>1. /\ UNCHANGED <<ir, iw, ih, full, reg>> /\ full[p] = "load"
        /\ pc' = [pc EXCEPT ![p] = "copy"] /\ pc[p] = "down"
    BY <1>8 DEF Down, Goto, ring, tests, Room
  <2> QED  BY <2>1, RoomQuiet
<1>9. ASSUME NEW p \in Processes, Up(p), pc[p] = "copy" PROVE Room'
  <2>1. /\ UNCHANGED <<ir, iw, ih, full, reg>> /\ full[p] = "load"
        /\ pc' = [pc EXCEPT ![p] = "wake"]
    BY <1>9 DEF Up, Goto, ring, tests, Room
  <2> QED  BY <2>1, RoomQuiet
<1>10. ASSUME NEW p \in Processes, Read(p), ~Up(p) PROVE Room'
  <2>1. /\ p \in Readers /\ pc[p] = "copy" /\ ir # iw /\ ir' = ir + 1
        /\ pc' = [pc EXCEPT ![p] = "wrap"] /\ UNCHANGED <<iw, ih, full, reg>>
    BY <1>10 DEF Read, Copied, tests
  <2>2. ir \in 0 .. (N - 1) /\ iw \in 0 .. (N - 1)  BY <2>1, CopyIndices
  <2>3. Rem(iw - ir') <= Rem(iw - ir) /\ Rem(iw - ir') \in Int /\ Rem(iw - ir) \in Int
    BY <2>1, <2>2, NType DEF Rem
  <2>4. \A h \in Int : Rem(h - iw) \in Int  BY <2>2, NType DEF Rem
  <2>5. \A w \in Writers : pc'[w] = pc[w] /\ reg[w] \in Int /\ ih \in Int  BY <2>1, Roles DEF TypeOK
  <2>6. \A h \in Int : Fits(h) => Rem(h - iw) + Rem(iw - ir') <= N - 1
    BY <2>3, <2>4, NType DEF Fits
  <2>7. \A w \in Writers : (Fits(reg[w]) => Fits(reg[w])') /\ (Fits(ih) => Fits(ih)')
    BY <2>1, <2>5, <2>6 DEF Fits, Rem
  <2>8. \A q \in Processes : full[q] # "load" => pc'[q] = pc[q]  BY <2>1 DEF TypeOK, Room
  <2> QED  BY <2>1, <2>5, <2>7, <2>8 DEF Room
<1>11. ASSUME NEW p \in Processes, Write(p), ~Up(p) PROVE Room'
  <2>1. /\ p \in Writers /\ pc[p] = "copy" /\ iw # ih /\ iw' = iw + 1
        /\ pc' = [pc EXCEPT ![p] = "wrap"] /\ UNCHANGED <<ir, ih, full, reg>>
    BY <1>11 DEF Write, Copied, tests
  <2>2. ir \in 0 .. (N - 1) /\ iw \in 0 .. (N - 1)  BY <2>1, CopyIndices
  <2>3. ih \in 0 .. (N - 1) /\ Fits(ih) /\ full[p] = "load"  BY <2>1 DEF Room
  <2>4. Rem(ih - iw') + Rem(iw' - ir) <= N - 1  BY <2>1, <2>2, <2>3, NType DEF Rem, Fits
  <2>5. Fits(ih)'  BY <2>1, <2>4 DEF Fits, Rem
  <2>6. \A q \in Processes : full[q] # "load" => pc'[q] = pc[q]  BY <2>1 DEF TypeOK, Room
  <2> QED  BY <2>1, <2>3, <2>5, <2>6, Roles DEF Room
<1>12. ASSUME NEW p \in Processes, Wrap(p) PROVE Room'
  <2>1. /\ pc[p] = "wrap" /\ pc' = [pc EXCEPT ![p] = "copy"] /\ UNCHANGED <<ih, full, reg>>
        /\ full[p] = "load"
    BY <1>12 DEF Wrap, Goto, tests, Room
  <2>2. \A q \in Processes : q # p => pc[q] # "wrap" /\ pc[q] # "copy"  BY <2>1 DEF Mutex, Copying
  <2>3. ASSUME NEW h \in -1 .. (N - 1), Fits(h), p \in Readers \/ h >= 0
        PROVE  Rem(h - iw') + Rem(iw' - ir') <= N - 1
    <3>1. CASE p \in Readers
      <4>1. iw \in 0 .. (N - 1) /\ iw' = iw  BY <1>12, <2>2, <3>1, Roles, NType DEF Wrap, Indices, TypeOK
      <4>2. ir' = (IF ir = N THEN 0 ELSE ir) /\ ir \in 0 .. N  BY <1>12, <3>1 DEF Wrap, TypeOK
      <4>3. Rem(iw' - ir') = Rem(iw - ir)  BY <4>1, <4>2, NType DEF Rem
      <4> QED  BY <2>3, <4>1, <4>3 DEF Fits
    <3>2. CASE p \in Writers
      <4>1. ir \in 0 .. (N - 1) /\ ir' = ir  BY <1>12, <2>2, <3>2, Roles, NType DEF Wrap, Indices, TypeOK
      <4>2. iw' = (IF iw = N THEN 0 ELSE iw) /\ iw \in 0 .. N  BY <1>12, <3>2, Roles DEF Wrap, TypeOK
      <4>3. Rem(iw' - ir') = Rem(iw - ir)  BY <4>1, <4>2, NType DEF Rem
      <4>4. Rem(h - iw') = Rem(h - iw)  BY <2>3, <3>2, <4>2, Roles, NType DEF Rem
      <4> QED  BY <2>3, <4>3, <4>4 DEF Fits
    <3> QED  BY <3>1, <3>2, Roles
  <2>4. \A q \in Processes : full[q] # "load" => q # p /\ pc'[q] = pc[q]  BY <2>1 DEF TypeOK
  <2>5. ASSUME NEW w \in Writers, full'[w] \in {"store", "answer"} PROVE Fits(reg[w])' /\ p \in Readers
    <3>1. w # p /\ p \in Readers /\ Fits(reg[w]) /\ reg[w] \in -1 .. (N - 1)
      BY <2>1, <2>4, <2>5, Roles DEF Room, TypeOK
    <3> QED  BY <2>1, <2>3, <3>1 DEF Fits, Rem
  <2>6. ASSUME NEW w \in Writers, pc'[w] \in {"down", "copy", "wrap"} PROVE ih' \in 0 .. (N - 1) /\ Fits(ih)'
    <3>1. pc[w] \in {"down", "copy", "wrap"}  BY <2>1, <2>6 DEF TypeOK
    <3>2. ih \in 0 .. (N - 1) /\ Fits(ih)  BY <3>1 DEF Room
    <3> QED  BY <2>1, <2>3, <3>2, NType DEF Fits, Rem
  <2> QED  BY <2>1, <2>4, <2>5, <2>6 DEF Room
<1>13. CASE UNCHANGED vars  BY <1>13 DEF vars, ring, tests, Room, Fits, Rem
<1>14. ASSUME NEW p \in Processes, Read(p) \/ Write(p) PROVE Room'
  BY <1>9, <1>10, <1>11, <1>14 DEF Read, Write
<1> QED  BY <1>1, <1>2, <1>3, <1>4, <1>5, <1>6, <1>7, <1>8, <1>12, <1>13, <1>14 DEF Next, Step

-----------------------------------------------------------------------------
(* The sleepers *)

\* p moves, does not fall asleep, and is still there to wake whom it had to.
LEMMA SleepersQuiet ==
  ASSUME OneWriter, IInv, NEW p \in Processes, NEW l, pc' = [pc EXCEPT ![p] = l], l # "asleep",
         Active(p) => l \in {"copy", "wrap", "wake"}, full[p] = "load",
         \A q \in Processes : q # p => onq'[q] = onq[q],
         UNCHANGED <<ir, iw, full, reg>>
  PROVE  Sleepers'
<1> USE DEF IInv
<1>1. /\ pc'[p] = l /\ full'[p] = "load"
      /\ \A q \in Processes : q # p => pc'[q] = pc[q] /\ onq'[q] = onq[q]
  BY DEF TypeOK
<1>2. \A q \in Processes : Active(q) => Active(q)'  BY <1>1 DEF Active
<1>3. ASSUME NEW r \in Readers, pc'[r] = "asleep", onq'[r] = "queued", ir' # iw'
      PROVE  \E w \in Writers : Active(w)'
  <2>1. pc[r] = "asleep" /\ onq[r] = "queued" /\ ir # iw  BY <1>1, <1>3, Roles
  <2> QED  BY <1>2, <2>1, Roles DEF Sleepers
<1>4. ASSUME NEW w \in Writers, onq'[w] = "queued", pc'[w] = "event", full'[w] \in {"store", "answer"}, Moved(w)'
      PROVE  \E r \in Readers : Active(r)'
  <2>1. onq[w] = "queued" /\ pc[w] = "event" /\ full[w] \in {"store", "answer"}  BY <1>1, <1>4, Roles
  <2>2. Moved(w)  BY <1>4 DEF Moved, Rem
  <2> QED  BY <1>2, <2>1, <2>2, Roles DEF Sleepers
<1>5. ASSUME NEW w \in Writers, onq'[w] = "queued", pc'[w] = "asleep", Rem(iw - ir)' # N - 1
      PROVE  \E r \in Readers : Active(r)'
  <2>1. onq[w] = "queued" /\ pc[w] = "asleep"  BY <1>1, <1>5, Roles
  <2>2. Rem(iw - ir) # N - 1  BY <1>5 DEF Rem
  <2> QED  BY <1>2, <2>1, <2>2, Roles DEF Sleepers
<1> QED  BY <1>3, <1>4, <1>5 DEF Sleepers, Active

\* A writer that is copying, or has just copied, wakes the readers; a reader the writer.
LEMMA SleepersActive ==
  ASSUME OneWriter, NEW p \in Processes, Active(p)',
         p \in Readers => ~\E r \in Readers : pc'[r] = "asleep" /\ onq'[r] = "queued" /\ ir' # iw' /\ ~\E w \in Writers : Active(w)'
  PROVE  Sleepers'
<1>1. CASE p \in Readers  BY <1>1 DEF Sleepers, Active
<1>2. CASE p \in Writers
  <2>1. \A w \in Writers : pc'[w] \in {"copy", "wrap", "wake"}  BY <1>2, Roles DEF Active
  <2> QED  BY <1>2, <2>1 DEF Sleepers, Active
<1> QED  BY <1>1, <1>2, Roles

LEMMA SleepersStep == ASSUME OneWriter, IInv, [Next]_vars PROVE Sleepers'
<1> USE DEF IInv
<1>1. ASSUME NEW p \in Processes, Open(p) PROVE Sleepers'
  <2>1. /\ pc' = [pc EXCEPT ![p] = "open"] /\ UNCHANGED <<onq, full, reg>> /\ full[p] = "load" /\ ~Active(p)
    BY <1>1 DEF Open, Goto, tests, Room, Active
  <2>2. CASE use_count = 0
    <3>1. \A q \in Processes : pc'[q] \in {"closed", "open"}  BY <2>1, <2>2, FirstOpen DEF TypeOK
    <3> QED  BY <3>1, Roles DEF Sleepers
  <2>3. CASE use_count # 0
    <3>1. UNCHANGED <<ir, iw>>  BY <1>1, <2>3 DEF Open
    <3> QED  BY <2>1, <3>1, SleepersQuiet
  <2> QED  BY <2>2, <2>3
<1>2. ASSUME NEW p \in Processes, Release(p) \/ Interrupted(p) \/ Awake(p) \/ Call(p) \/ Down(p) PROVE Sleepers'
  <2>1. UNCHANGED <<ir, iw, full, reg>> /\ full[p] = "load" /\ ~Active(p)
    BY <1>2 DEF Release, Interrupted, Awake, Call, Down, ring, tests, Room, Active
  <2>2. \A q \in Processes : q # p => onq'[q] = onq[q]
    BY <1>2 DEF Release, Interrupted, Awake, Call, Down, TypeOK
  <2>3. \E l \in {"open", "event", "closed", "first", "copy"} : pc' = [pc EXCEPT ![p] = l]
    BY <1>2 DEF Release, Interrupted, Awake, Call, Down, Goto, Return, OneWriter
  <2>4. PICK l \in {"open", "event", "closed", "first", "copy"} : pc' = [pc EXCEPT ![p] = l]  BY <2>3
  <2>5. l # "asleep"  BY <2>4
  <2> QED  BY <2>1, <2>2, <2>4, <2>5, SleepersQuiet
<1>3. ASSUME NEW p \in Processes, Wake(p) PROVE Sleepers'
  <2>1. /\ pc' = [pc EXCEPT ![p] = "open"] /\ UNCHANGED <<ir, iw, full, reg>>
        /\ wake_up(IF p \in Readers THEN Writers ELSE Readers)
    BY <1>3 DEF Wake, Return, ring, tests
  <2>2. \A q \in Processes : onq'[q] = "queued" => onq[q] = "queued" /\ ~(q \in Writers /\ p \in Readers) /\ ~(q \in Readers /\ p \in Writers)
    BY <2>1, Roles DEF wake_up, TypeOK
  <2>3. /\ pc'[p] = "open" /\ (\A q \in Processes : q # p => pc'[q] = pc[q])
        /\ (\A q \in Processes : q # p /\ Active(q) => Active(q)')
    BY <2>1 DEF TypeOK, Active
  <2>4. CASE p \in Readers
    <3>1. ASSUME NEW r \in Readers, pc'[r] = "asleep", onq'[r] = "queued", ir' # iw'
          PROVE  \E w \in Writers : Active(w)'
      <4>1. pc[r] = "asleep" /\ onq[r] = "queued" /\ ir # iw  BY <2>1, <2>2, <2>3, <3>1, Roles
      <4> QED  BY <2>3, <2>4, <4>1, Roles DEF Sleepers
    <3>2. \A w \in Writers : onq'[w] # "queued"  BY <2>2, <2>4, Roles
    <3> QED  BY <3>1, <3>2 DEF Sleepers, Active
  <2>5. CASE p \in Writers
    <3>1. \A w \in Writers : pc'[w] = "open"  BY <2>3, <2>5, Roles
    <3>2. \A r \in Readers : onq'[r] # "queued"  BY <2>2, <2>5, Roles
    <3> QED  BY <3>1, <3>2 DEF Sleepers
  <2> QED  BY <2>4, <2>5, Roles
<1>4. ASSUME NEW p \in Processes, EmptyTest(p) PROVE Sleepers'
  <2>1. p \in Readers /\ Tests(p) /\ UNCHANGED <<ih, full, reg>> /\ \E l, o : Decision(p, ir = iw, l, o)
    BY <1>4, TestForms
  <2>2. PICK l, o : Decision(p, ir = iw, l, o)  BY <2>1
  <2>3. /\ UNCHANGED <<ir, iw, full, reg>> /\ full[p] = "load" /\ ~Active(p)
        /\ \A q \in Processes : q # p => onq'[q] = onq[q] /\ pc'[q] = pc[q]
    BY <2>1, <2>2, Roles DEF Tests, Testing, Active, Room, Decision, TypeOK
  <2>4. CASE l # "asleep"  BY <2>2, <2>3, <2>4, SleepersQuiet DEF Decision
  <2>5. CASE l = "asleep"
    <3>1. ir' = iw'  BY <2>2, <2>3, <2>5 DEF Decision
    <3>2. \A q \in Processes : Active(q) => Active(q)'  BY <2>3 DEF Active
    <3>3. ASSUME NEW w \in Writers PROVE pc'[w] = pc[w] /\ onq'[w] = onq[w]  BY <2>1, <2>3, Roles
    <3>4. ASSUME NEW w \in Writers PROVE (Moved(w)' <=> Moved(w)) /\ (Rem(iw - ir)' = Rem(iw - ir))
      BY <2>3 DEF Moved, Rem
    <3>5. (\E r \in Readers : Active(r)) => \E r \in Readers : Active(r)'  BY <3>2, Roles
    <3> QED  BY <2>3, <3>1, <3>3, <3>4, <3>5 DEF Sleepers
  <2> QED  BY <2>4, <2>5
<1>5. ASSUME NEW p \in Processes, FullAnswer(p) PROVE Sleepers'
  <2>1. /\ p \in Writers /\ Tests(p) /\ full[p] = "answer"
        /\ ih' = (IF reg[p] < 0 THEN reg[p] + N ELSE reg[p])
        /\ full' = [full EXCEPT ![p] = "load"]
        /\ \E l, o : Decision(p, iw = ih', l, o)
    BY <1>5, TestForms
  <2>2. PICK l, o : Decision(p, iw = ih', l, o)  BY <2>1
  <2>3. iw \in 0 .. (N - 1) /\ ir \in 0 .. N /\ reg[p] \in -1 .. (N - 1)
    BY <2>1, WriterIndex DEF Tests, Testing, TypeOK
  <2>4. /\ UNCHANGED <<ir, iw>> /\ full'[p] = "load" /\ ~Active(p) /\ pc'[p] = l
        /\ \A q \in Processes : q # p => onq'[q] = onq[q] /\ pc'[q] = pc[q]
    BY <2>1, <2>2 DEF Tests, Testing, Active, Decision, TypeOK
  <2>5. \A q \in Processes : Active(q) => Active(q)'  BY <2>4 DEF Active
  <2>6. ASSUME NEW r \in Readers, pc'[r] = "asleep", onq'[r] = "queued", ir' # iw'
        PROVE  \E w \in Writers : Active(w)'
    <3>1. pc[r] = "asleep" /\ onq[r] = "queued" /\ ir # iw  BY <2>1, <2>4, <2>6, Roles
    <3> QED  BY <2>5, <3>1, Roles DEF Sleepers
  <2>7. ASSUME l = "asleep", Rem(iw - ir) # N - 1 PROVE \E r \in Readers : Active(r)'
    <3>1. pc[p] = "event" /\ onq[p] = "queued" /\ iw = ih'  BY <2>2, <2>7 DEF Decision
    <3>2. Rem(ir) # Rem(reg[p] + 1)  BY <2>1, <2>3, <2>7, <3>1, NType DEF Rem
    <3> QED  BY <2>1, <2>5, <3>1, <3>2, Roles DEF Sleepers, Moved
  <2>8. \A w \in Writers : w = p  BY <2>1, Roles
  <2>9. Rem(iw - ir)' = Rem(iw - ir)  BY <2>4 DEF Rem
  <2> QED  BY <2>4, <2>6, <2>7, <2>8, <2>9 DEF Sleepers, Active
<1>6. ASSUME NEW p \in Processes, FullLoad(p) PROVE Sleepers'
  <2>1. p \in Writers /\ reg' = [reg EXCEPT ![p] = ir - 1] /\ UNCHANGED <<ir, iw, pc, onq>>
    BY <1>6, Roles DEF FullLoad, ring
  <2>2. \A w \in Writers : ~Moved(w)'
    <3>1. reg'[p] + 1 = ir'  BY <2>1, NType DEF TypeOK
    <3> QED  BY <2>1, <3>1, Roles DEF Moved, Rem
  <2>3. Rem(iw - ir)' = Rem(iw - ir) /\ \A q \in Processes : Active(q)' <=> Active(q)  BY <2>1 DEF Rem, Active
  <2> QED  BY <2>1, <2>2, <2>3, Roles DEF Sleepers, Active
<1>7. ASSUME NEW p \in Processes, FullStore(p) PROVE Sleepers'
  <2>1. full[p] = "store" /\ full' = [full EXCEPT ![p] = "answer"] /\ UNCHANGED <<ir, iw, pc, onq, reg>>
    BY <1>7 DEF FullStore, ring
  <2>2. \A q \in Processes : full'[q] \in {"store", "answer"} => full[q] \in {"store", "answer"}
    BY <2>1 DEF TypeOK
  <2>3. /\ Rem(iw - ir)' = Rem(iw - ir) /\ (\A q \in Processes : Active(q)' <=> Active(q))
        /\ \A q \in Processes : Moved(q)' <=> Moved(q)
    BY <2>1 DEF Rem, Active, Moved
  <2> QED  BY <2>1, <2>2, <2>3, Roles DEF Sleepers, Active
<1>8. ASSUME NEW p \in Processes, Up(p), pc[p] = "copy" PROVE Sleepers'
  <2>1. /\ UNCHANGED <<ir, iw, full, reg, onq>> /\ full[p] = "load"
        /\ pc' = [pc EXCEPT ![p] = "wake"]
    BY <1>8 DEF Up, Goto, ring, tests, Room
  <2> QED  BY <2>1, SleepersQuiet
<1>9. ASSUME NEW p \in Processes, Read(p), ~Up(p) PROVE Sleepers'
  <2>1. p \in Readers /\ ir # iw /\ pc' = [pc EXCEPT ![p] = "wrap"] /\ UNCHANGED onq
    BY <1>9 DEF Read, Copied, tests
  <2>2. Active(p)' /\ \A q \in Processes : q # p => pc'[q] = pc[q]  BY <2>1 DEF Active, TypeOK
  <2>3. \A w \in Writers : Active(w) => Active(w)'  BY <2>1, <2>2, Roles DEF Active
  <2>4. \A r \in Readers : pc'[r] = "asleep" => pc[r] = "asleep"  BY <2>1, Roles DEF TypeOK
  <2>5. ~\E r \in Readers : pc'[r] = "asleep" /\ onq'[r] = "queued" /\ ~\E w \in Writers : Active(w)'
    BY <2>1, <2>3, <2>4 DEF Sleepers
  <2> QED  BY <2>2, <2>5, SleepersActive
<1>10. ASSUME NEW p \in Processes, Write(p), ~Up(p) PROVE Sleepers'
  <2>1. p \in Writers /\ pc' = [pc EXCEPT ![p] = "wrap"]  BY <1>10 DEF Write, Copied
  <2>2. Active(p)'  BY <2>1 DEF Active, TypeOK
  <2> QED  BY <2>1, <2>2, Roles, SleepersActive
<1>11. ASSUME NEW p \in Processes, Wrap(p) PROVE Sleepers'
  <2>1. pc[p] = "wrap" /\ pc' = [pc EXCEPT ![p] = "copy"] /\ UNCHANGED onq  BY <1>11 DEF Wrap, Goto
  <2>2. Active(p)' /\ \A q \in Processes : q # p => pc'[q] = pc[q] /\ ~Copying(q)
    BY <2>1 DEF Active, TypeOK, Mutex, Copying
  <2>3. CASE p \in Readers
    <3>1. UNCHANGED iw /\ ir' = (IF ir = N THEN 0 ELSE ir)  BY <1>11, <2>3 DEF Wrap
    <3>2. iw # N  BY <2>2, <2>3, Roles DEF Indices, Copying
    <3>3. \A w \in Writers : Active(w) => Active(w)'  BY <2>2, <2>3, Roles DEF Active
    <3>4. ASSUME NEW r \in Readers, pc'[r] = "asleep", onq'[r] = "queued", ir' # iw'
          PROVE  \E w \in Writers : Active(w)'
      <4>1. pc[r] = "asleep" /\ onq[r] = "queued"  BY <2>1, <2>2, <3>4, Roles DEF Active
      <4>2. ir # iw  BY <3>1, <3>2, <3>4
      <4> QED  BY <3>3, <4>1, <4>2 DEF Sleepers
    <3> QED  BY <2>2, <3>4, SleepersActive
  <2>4. CASE p \in Writers  BY <2>2, <2>4, Roles, SleepersActive
  <2> QED  BY <2>3, <2>4, Roles
<1>12. ASSUME NEW p \in Processes, Read(p) \/ Write(p) PROVE Sleepers'
  BY <1>8, <1>9, <1>10, <1>12 DEF Read, Write
<1>13. CASE UNCHANGED vars  BY <1>13 DEF vars, ring, tests, Sleepers, Active, Moved, Rem
<1> QED  BY <1>1, <1>2, <1>3, <1>4, <1>5, <1>6, <1>7, <1>11, <1>12, <1>13 DEF Next, Step

LEMMA NextIInv == ASSUME OneWriter, IInv, [Next]_vars PROVE IInv'
BY TypeStep, NoPollStep, MutexStep, OpenedStep, RoomStep, SleepersStep DEF IInv

-----------------------------------------------------------------------------
(* What the device promises *)

\* Every variable keeps its type.
THEOREM DeviceTypeCorrect == OneWriter => (Spec => []TypeOK)
<1>1. ASSUME OneWriter PROVE Spec => []TypeOK
  <2>1. Init => IInv  BY <1>1, InitIInv
  <2>2. IInv /\ [Next]_vars => IInv'  BY <1>1, NextIInv
  <2>3. IInv => TypeOK  BY DEF IInv
  <2> QED  BY <2>1, <2>2, <2>3, PTL DEF Spec
<1> QED  BY <1>1

\* A reader that sleeps beside data, or a writer beside room, is about to be
\* woken: device_read() and device_write() lose no wake-up.
THEOREM SleepersWoken == OneWriter => (Spec => []NoSleeperForgotten)
<1>1. ASSUME OneWriter PROVE Spec => []NoSleeperForgotten
  <2>1. Init => IInv  BY <1>1, InitIInv
  <2>2. IInv /\ [Next]_vars => IInv'  BY <1>1, NextIInv
  <2>3. ASSUME IInv PROVE NoSleeperForgotten
    <3>1. Stored = Span(rbuf, ir, iw)  BY DEF Stored, Span
    <3>2. Spans(Span(rbuf, ir, iw), Bytes \cup {None}, rbuf, ir, iw)  BY <2>3, SpanIs DEF IInv, TypeOK
    <3>3. Len(Stored) = Rem(iw - ir) /\ Rem(iw - ir) \in 0 .. (N - 1)  BY <3>1, <3>2 DEF Spans
    <3>4. Len(Stored) < N - 1 => Rem(iw - ir) # N - 1  BY <3>3, NType
    <3> QED  BY <2>3, <3>4 DEF IInv, Sleepers, Active, NoSleeperForgotten
  <2> QED  BY <2>1, <2>2, <2>3, PTL DEF Spec
<1> QED  BY <1>1

\* What is stored depends on the indices up to a turn of the ring.
LEMMA StoredIs == Stored = Span(rbuf, ir, iw) /\ Stored' = Span(rbuf', ir', iw')
BY DEF Stored, Span

\* Whoever is inside a call has the device open.
LEMMA InUse ==
  ASSUME OneWriter, IInv, NEW p \in Processes, pc[p] # "closed"
  PROVE  use_count > 0
<1>1. Users \in SUBSET Processes /\ Users # {}  BY DEF Users
<1> QED  BY <1>1, UsersCounted DEF IInv, Opened

LEMMA StepIsFifo == ASSUME OneWriter, IInv, [Next]_vars PROVE [Device!Next]_(Device!vars)
<1> USE DEF IInv
<1> DEFINE B == Bytes \cup {None}
<1>t. rbuf \in [0 .. (N - 1) -> B] /\ ir \in 0 .. N /\ iw \in 0 .. N /\ use_count \in Nat
  <2>1. Cardinality(Processes) \in Nat  BY Roles, FS_CardinalityType
  <2> QED  BY <2>1 DEF TypeOK
<1>1. ASSUME NEW p \in Processes, Open(p) PROVE Device!Open
  <2>1. use_count' = use_count + 1 /\ UNCHANGED rbuf  BY <1>1 DEF Open
  <2>2. CASE use_count = 0
    <3>1. Stored' = <<>>  BY <1>1, <2>2, StoredIs, SpanEmpty DEF Open
    <3> QED  BY <2>1, <2>2, <3>1 DEF Device!Open
  <2>3. CASE use_count # 0
    <3>1. Stored' = Stored  BY <1>1, <2>1, <2>3, StoredIs DEF Open
    <3> QED  BY <2>1, <2>3, <3>1 DEF Device!Open
  <2> QED  BY <2>2, <2>3
<1>2. ASSUME NEW p \in Processes, Release(p) PROVE Device!Release
  <2>1. use_count' = use_count - 1 /\ UNCHANGED <<rbuf, ir, iw>> /\ use_count > 0
    BY <1>2, InUse DEF Release, ring
  <2> QED  BY <2>1, StoredIs DEF Device!Release
<1>3. ASSUME UNCHANGED <<rbuf, ir, iw, use_count>> PROVE UNCHANGED Device!vars
  BY <1>3, StoredIs DEF Device!vars
<1>4. ASSUME NEW p \in Processes,
             Call(p) \/ Interrupted(p) \/ Down(p) \/ FullLoad(p) \/ FullStore(p) \/ Awake(p) \/ Wake(p) \/ Up(p)
      PROVE  UNCHANGED Device!vars
  BY <1>3, <1>4 DEF Call, Interrupted, Down, FullLoad, FullStore, Awake, Wake, Up, ring
<1>5. ASSUME NEW p \in Processes, EmptyTest(p) \/ FullAnswer(p) PROVE UNCHANGED Device!vars
  <2>1. Tests(p)
    <3>1. CASE EmptyTest(p)  BY <3>1, TestForms
    <3>2. CASE FullAnswer(p)  BY <3>2, TestForms
    <3> QED  BY <1>5, <3>1, <3>2
  <2> QED  BY <1>3, <2>1 DEF Tests
<1>6. ASSUME NEW p \in Processes, Read(p), ~Up(p) PROVE Device!Get
  <2>1. ir # iw /\ ir' = ir + 1 /\ UNCHANGED <<rbuf, iw, use_count>> /\ pc[p] = "copy"  BY <1>6 DEF Read
  <2>2. ir \in 0 .. (N - 1) /\ iw \in 0 .. (N - 1) /\ use_count > 0  BY <2>1, CopyIndices, InUse
  <2>3. Span(rbuf, ir, iw) # <<>> /\ Span(rbuf, ir + 1, iw) = Tail(Span(rbuf, ir, iw))
    BY <1>t, <2>1, <2>2, SpanGet
  <2>4. Stored # <<>> /\ Stored' = Tail(Stored)  BY <2>1, <2>3, StoredIs
  <2> QED  BY <2>1, <2>2, <2>4 DEF Device!Get
<1>7. ASSUME NEW p \in Processes, Write(p), ~Up(p) PROVE \E x \in Bytes : Device!Put(x)
  <2>1. p \in Writers /\ pc[p] = "copy" /\ iw # ih /\ iw' = iw + 1 /\ UNCHANGED <<ir, use_count>>
    BY <1>7 DEF Write
  <2>2. PICK x \in Bytes : rbuf' = [rbuf EXCEPT ![iw] = x]  BY <1>7 DEF Write
  <2>3. ir \in 0 .. (N - 1) /\ iw \in 0 .. (N - 1) /\ use_count > 0  BY <2>1, CopyIndices, InUse
  <2>4. Rem(iw - ir) < N - 1
    <3>1. ih \in 0 .. (N - 1) /\ Fits(ih)  BY <2>1 DEF Room
    <3> QED  BY <2>1, <2>3, <3>1, NType DEF Fits, Rem
  <2>5. Span(rbuf', ir, iw + 1) = Append(Span(rbuf, ir, iw), x)
    <3>1. x \in B  OBVIOUS
    <3> HIDE DEF B
    <3>2. Longer(rbuf', rbuf, ir, iw, x)  BY <1>t, <2>2, <2>3, <2>4, <3>1, SpanPut
    <3> QED  BY <3>2 DEF Longer
  <2>6. Stored' = Append(Stored, x)  BY <2>1, <2>5, StoredIs
  <2>7. Len(Stored) = Rem(iw - ir)
    <3>1. Spans(Span(rbuf, ir, iw), B, rbuf, ir, iw)  BY <1>t, SpanIs
    <3> QED  BY <3>1, StoredIs DEF Spans
  <2>8. Device!Put(x)  BY <2>1, <2>3, <2>4, <2>6, <2>7 DEF Device!Put
  <2> QED  BY <2>8
<1>8. ASSUME NEW p \in Processes, Wrap(p) PROVE UNCHANGED Device!vars
  <2>1. pc[p] = "wrap" /\ UNCHANGED <<rbuf, use_count>>  BY <1>8 DEF Wrap
  <2>2. \A q \in Processes : q # p => pc[q] # "wrap"  BY <2>1 DEF Mutex, Copying
  <2>3. Stored' = Stored
    <3>1. CASE p \in Readers
      <4>1. iw \in 0 .. (N - 1)  BY <1>t, <2>2, <3>1, Roles, NType DEF Indices
      <4>2. UNCHANGED iw /\ ir' = (IF ir = N THEN 0 ELSE ir)  BY <1>8, <3>1 DEF Wrap
      <4>3. Span(rbuf, N, iw) = Span(rbuf, 0, iw)  BY <1>t, <4>1, SpanWrap
      <4> QED  BY <2>1, <4>2, <4>3, StoredIs
    <3>2. CASE p \in Writers
      <4>1. ir \in 0 .. (N - 1)  BY <1>t, <2>2, <3>2, Roles, NType DEF Indices
      <4>2. UNCHANGED ir /\ iw' = (IF iw = N THEN 0 ELSE iw)  BY <1>8, <3>2, Roles DEF Wrap
      <4>3. Span(rbuf, ir, N) = Span(rbuf, ir, 0)  BY <1>t, <4>1, SpanWrap
      <4> QED  BY <2>1, <4>2, <4>3, StoredIs
    <3> QED  BY <3>1, <3>2, Roles
  <2> QED  BY <2>1, <2>3 DEF Device!vars
<1>9. CASE UNCHANGED vars  BY <1>3, <1>9 DEF vars, ring
<1>10. ASSUME NEW p \in Processes, Read(p) \/ Write(p) PROVE [Device!Next]_(Device!vars)
  BY <1>4, <1>6, <1>7, <1>10 DEF Device!Next
<1> QED  BY <1>1, <1>2, <1>4, <1>5, <1>8, <1>9, <1>10 DEF Next, Step, Device!Next

\* The device is one first in, first out queue of N - 1 bytes.
THEOREM DeviceIsFifo == OneWriter => (Spec => IsSharedFifo)
<1>1. ASSUME OneWriter PROVE Spec => IsSharedFifo
  <2>1. Init => IInv  BY <1>1, InitIInv
  <2>2. IInv /\ [Next]_vars => IInv'  BY <1>1, NextIInv
  <2>3. Init => Device!Init  BY StoredIs, SpanEmpty DEF Init, Device!Init
  <2>4. IInv /\ [Next]_vars => [Device!Next]_(Device!vars)  BY <1>1, StepIsFifo
  <2> QED  BY <2>1, <2>2, <2>3, <2>4, PTL DEF Spec, IsSharedFifo, Device!Spec
<1> QED  BY <1>1

=============================================================================
