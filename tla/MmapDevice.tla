------------------------------ MODULE MmapDevice ------------------------------
(***************************************************************************)
(* kernel/mmap/mmap.c: a page that each open file of a debugfs entry has   *)
(* for itself, mapped into processes by page faults.  One open file is     *)
(* modelled.  A VMA holds the file, as mmap() and fork() of the kernel do; *)
(* the page is counted for the driver and for each VMA it was faulted in.  *)
(***************************************************************************)
EXTENDS Integers, FiniteSets

CONSTANTS
  VMAs,
  Garbage   \* what the memory of kmalloc() can hold

VARIABLES
  file,       \* "closed", "open", "released"
  fds,        \* descriptors that share the open file
  vmas,       \* those that exist; with the page faulted in, or not
  page_count, \* references to the page; 0: freed
  reference,  \* info->reference
  info        \* whether the struct is allocated

mmapVars == <<file, fds, vmas, page_count, reference, info>>

Init ==
  /\ file = "closed" /\ fds = 0 /\ vmas = [v \in VMAs |-> "none"]
  /\ page_count = 0 /\ reference = 0 /\ info = FALSE

Mapped == {v \in VMAs : vmas[v] # "none"}

\* reference is not set
MyOpen ==
  /\ file = "closed" /\ file' = "open" /\ fds' = 1
  /\ info' = TRUE /\ page_count' = 1 /\ reference' \in Garbage
  /\ UNCHANGED vmas

\* my_mmap() of a process that has the file
MyMmap(v) ==
  /\ fds > 0 /\ vmas[v] = "none"
  /\ vmas' = [vmas EXCEPT ![v] = "mapped"]
  /\ reference' = reference + 1
  /\ UNCHANGED <<file, fds, page_count, info>>

\* mmap_open(): fork() or a split copies a VMA, with what was faulted in
MmapOpen(v, w) ==
  /\ vmas[v] # "none" /\ vmas[w] = "none"
  /\ vmas' = [vmas EXCEPT ![w] = vmas[v]]
  /\ page_count' = page_count + (IF vmas[v] = "faulted" THEN 1 ELSE 0)
  /\ reference' = reference + 1
  /\ fds' \in {fds, IF fds \in {1, 2} THEN fds + 1 ELSE fds}
  /\ UNCHANGED <<file, info>>

Faulted_uncounted == page_count             \* mutant: without get_page()

Faulted == page_count + 1

MmapFault(v) ==
  /\ vmas[v] = "mapped"
  /\ vmas' = [vmas EXCEPT ![v] = "faulted"]
  /\ page_count' = Faulted
  /\ UNCHANGED <<file, fds, reference, info>>

\* The kernel drops the page of the VMA, and later the file
MmapClose(v) ==
  /\ vmas[v] # "none"
  /\ vmas' = [vmas EXCEPT ![v] = "none"]
  /\ page_count' = page_count - (IF vmas[v] = "faulted" THEN 1 ELSE 0)
  /\ reference' = reference - 1
  /\ UNCHANGED <<file, fds, info>>

Close ==
  /\ fds > 0 /\ fds' = fds - 1
  /\ UNCHANGED <<file, vmas, page_count, reference, info>>

\* my_close(), when neither a descriptor nor a VMA is left
MyClose ==
  /\ file = "open" /\ fds = 0 /\ Mapped = {}
  /\ file' = "released" /\ page_count' = page_count - 1 /\ info' = FALSE
  /\ UNCHANGED <<fds, vmas, reference>>

Next ==
  \/ MyOpen \/ Close \/ MyClose
  \/ \E v \in VMAs : MyMmap(v) \/ MmapFault(v) \/ MmapClose(v) \/ \E w \in VMAs : MmapOpen(v, w)

Spec == Init /\ [][Next]_mmapVars

-----------------------------------------------------------------------------
(* Properties *)

\* Each variable has its type.
TypeOK ==
  /\ file \in {"closed", "open", "released"} /\ fds \in 0 .. 3
  /\ vmas \in [VMAs -> {"none", "mapped", "faulted"}] /\ page_count \in Nat

\* mmap_fault(), my_close(): through forks, splits and closes in any order the
\* page is freed once, after the last VMA that maps it, and the struct that
\* VMAs point to is there as long as one of them is.
PageKeptWhileMapped ==
  /\ page_count = Cardinality({v \in VMAs : vmas[v] = "faulted"}) + (IF info THEN 1 ELSE 0)
  /\ Mapped # {} => info
  /\ file = "released" => page_count = 0
=============================================================================
