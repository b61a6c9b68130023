------------------------------- MODULE Sorting -------------------------------
(***************************************************************************)
(* The sorts of sorting.c, each one step of a state that holds the array,  *)
(* a function from 0.  mergesort() also reaches the cell before the array. *)
(* insertionsort() names an array it does not have and is left out.        *)
(***************************************************************************)
EXTENDS Integers, FiniteSetsExt, SequencesExt

CONSTANTS
  Values, MaxSize,  \* the elements and, a bound, the length of arrays
  Junk              \* what is in memory that nobody has written

VARIABLES
  input, sequence,
  before,   \* the cell before the array
  sorted_by

sortVars == <<input, sequence, before, sorted_by>>

Init ==
  /\ \E size \in 1 .. MaxSize : input \in [0 .. size - 1 -> Values]
  /\ sequence = input /\ before = 0 /\ sorted_by = "none"

Size(s) == Cardinality(DOMAIN s)

\* The arrays, and the memory that mergesort() works in
Arrays == UNION {[0 .. size - 1 -> Values] : size \in 1 .. MaxSize}
Cells  == UNION {[-1 .. size - 1 -> Values \cup {Junk, 0}] : size \in 1 .. MaxSize}

swap(s, i, j) == [s EXCEPT ![i] = s[j], ![j] = s[i]]

UpTo(from, to)   == [k \in 1 .. to - from + 1 |-> from + k - 1]
DownTo(from, to) == [k \in 1 .. from - to + 1 |-> from - k + 1]

-----------------------------------------------------------------------------

Pass(s) ==
  FoldLeft(LAMBDA a, i : IF a[i] > a[i + 1] THEN swap(a, i, i + 1) ELSE a, s, UpTo(0, Size(s) - 2))

bubblesort(s) == FoldLeft(LAMBDA a, pass : Pass(a), s, UpTo(1, Size(s) - 1))

Least(s, i) == CHOOSE m \in i .. Size(s) - 1 :
  \A j \in i .. Size(s) - 1 : s[m] < s[j] \/ (s[m] = s[j] /\ m <= j)

selectionsort(s) == FoldLeft(LAMBDA a, i : swap(a, i, Least(a, i)), s, UpTo(0, Size(s) - 2))

\* Down by the gap, until the order is right
Sink[s \in Arrays, i \in Int, m \in Nat] ==
  IF i < 0 \/ s[i + m] >= s[i] THEN s ELSE Sink[swap(s, i, i + m), i - m, m]

Gapped(s, m) == FoldLeft(LAMBDA a, j : Sink[a, j - m, m], s, UpTo(m, Size(s) - 1))

Gaps[m \in Nat] == IF m = 0 THEN <<>> ELSE <<m>> \o Gaps[m \div 2]

shellsort(s) == FoldLeft(Gapped, s, Gaps[Size(s) \div 2])

-----------------------------------------------------------------------------
(* quicksort: the hole moves from one side to the other *)

Partition[s \in Arrays, left \in Nat, right \in Nat, pivot_value \in Values] ==
  IF left >= right THEN [seq |-> [s EXCEPT ![left] = pivot_value], pivot |-> left]
  ELSE LET r  == Max({left} \cup {k \in left + 1 .. right : s[k] < pivot_value})
           s1 == [s EXCEPT ![left] = s[r]]
           l1 == IF left # r THEN left + 1 ELSE left
           l  == Min({r} \cup {k \in l1 .. r - 1 : s1[k] > pivot_value})
           s2 == [s1 EXCEPT ![r] = s1[l]] IN
       Partition[s2, l, IF l # r THEN r - 1 ELSE r, pivot_value]

quicksortroutine[s \in Arrays, left \in Nat, right \in Nat] ==
  LET p == Partition[s, left, right, s[left]]
      a == IF left < p.pivot THEN quicksortroutine[p.seq, left, p.pivot - 1] ELSE p.seq IN
  IF right > p.pivot THEN quicksortroutine[a, p.pivot + 1, right] ELSE a

quicksort(s) == quicksortroutine[s, 0, Size(s) - 1]

-----------------------------------------------------------------------------

MaxChild_left(s, root, bottom) == 2 * root + 1    \* mutant: the left child always

\* The biggest child
MaxChild(s, root, bottom) ==
  LET left == 2 * root + 1 IN
  IF left < bottom /\ s[left + 1] > s[left] THEN left + 1 ELSE left

siftDown[s \in Arrays, root \in Nat, bottom \in Int] ==
  IF 2 * root + 1 > bottom THEN s
  ELSE LET child == MaxChild(s, root, bottom) IN
       IF s[root] >= s[child] THEN s ELSE siftDown[swap(s, root, child), child, bottom]

heapsort(s) ==
  LET heap == FoldLeft(LAMBDA a, i : siftDown[a, i, Size(s) - 1], s, DownTo(Size(s) \div 2, 0)) IN
  FoldLeft(LAMBDA a, i : siftDown[swap(a, 0, i), 0, i - 1], heap, DownTo(Size(s) - 1, 1))

-----------------------------------------------------------------------------
(* mergesort: m holds numbers and temp, from the cell before each *)

Merged[l \in Seq(Values), r \in Seq(Values)] ==
  IF l = <<>> THEN r ELSE IF r = <<>> THEN l
  ELSE IF Head(l) <= Head(r) THEN <<Head(l)>> \o Merged[Tail(l), r]
                             ELSE <<Head(r)>> \o Merged[l, Tail(r)]

\* One more is copied back than was merged: i <= num_elements
merge(m, left, mid, right) ==
  LET both == Merged[[k \in 1 .. mid - left |-> m.numbers[left + k - 1]],
                     [k \in 1 .. right - mid + 1 |-> m.numbers[mid + k - 1]]]
      temp == [k \in DOMAIN m.temp |-> IF k \in left .. right THEN both[k - left + 1] ELSE m.temp[k]] IN
  [temp |-> temp,
   numbers |-> [k \in DOMAIN m.numbers |-> IF k \in left - 1 .. right THEN temp[k] ELSE m.numbers[k]]]

Work == [numbers : Cells, temp : Cells]

m_sort[m \in Work, left \in Nat, right \in Int] ==
  LET mid == (right + left) \div 2 IN
  IF right > left THEN merge(m_sort[m_sort[m, left, mid], mid + 1, right], left, mid + 1, right)
  ELSE m

mergesort(s) ==
  m_sort[[numbers |-> [k \in -1 .. Size(s) - 1 |-> IF k = -1 THEN before ELSE s[k]],
          temp    |-> [k \in -1 .. Size(s) - 1 |-> Junk]],
         0, Size(s) - 1].numbers

-----------------------------------------------------------------------------

Sort(name, result) ==
  /\ sorted_by = "none" /\ sorted_by' = name
  /\ sequence' = [k \in DOMAIN input |-> result[k]]
  /\ before' = IF -1 \in DOMAIN result THEN result[-1] ELSE before
  /\ UNCHANGED input

Next ==
  \/ Sort("bubblesort", bubblesort(input)) \/ Sort("selectionsort", selectionsort(input))
  \/ Sort("shellsort", shellsort(input)) \/ Sort("quicksort", quicksort(input))
  \/ Sort("heapsort", heapsort(input)) \/ Sort("mergesort", mergesort(input))

Spec == Init /\ [][Next]_sortVars

-----------------------------------------------------------------------------
(* Properties *)

Count(s, v) == Cardinality({k \in DOMAIN s : s[k] = v})

\* sorting.c: each sort orders the array and keeps its elements, and none but
\* mergesort() touches what is outside of it.
Sorted ==
  sorted_by # "none" =>
    /\ \A i, j \in DOMAIN sequence : i <= j => sequence[i] <= sequence[j]
    /\ \A v \in Values : Count(sequence, v) = Count(input, v)
    /\ sorted_by # "mergesort" => before = 0
=============================================================================
