---------------------------- MODULE DriversProofs ----------------------------
(***************************************************************************)
(* NVMe set-up, PCI Ethernet, the USB probe, the mapped page, the          *)
(* character device and the task schedulers among the parts of MCDrivers:  *)
(* an inductive invariant of each, for any values of its constants, and    *)
(* what it gives of the specification that runs one of the parts.          *)
(***************************************************************************)
EXTENDS MCDrivers, FiniteSetTheorems, WellFoundedInduction, TLAPS

-----------------------------------------------------------------------------
(* The page of a mapped file *)

HasPage == {v \in VMAs : vmas[v] = "faulted"}

\* The struct is there while the file is open, and the file is open while a
\* descriptor or a VMA refers to it.
MmapInv ==
  /\ fds \in Nat /\ vmas \in [VMAs -> {"none", "mapped", "faulted"}] /\ info \in BOOLEAN
  /\ file \in {"closed", "open", "released"} /\ (info <=> file = "open")
  /\ fds > 0 \/ Mmap!Mapped # {} => file = "open"
  /\ page_count = Cardinality(HasPage) + (IF info THEN 1 ELSE 0)

MmapConstants == IsFiniteSet(VMAs)

\* MmapDevice counts as FiniteSets does.
LEMMA SameCount == \A S : Mmap!Cardinality(S) = Cardinality(S)
BY DEF Mmap!Cardinality, Cardinality

LEMMA PagesCounted ==
  ASSUME MmapConstants
  PROVE  IsFiniteSet(HasPage) /\ Cardinality(HasPage) \in Nat
  BY FS_Subset, FS_CardinalityType DEF MmapConstants, HasPage

\* Cardinality(HasPage) changes by the VMA that gets or loses the page.
LEMMA PageGained ==
  ASSUME MmapConstants, NEW v \in VMAs, vmas[v] # "faulted", HasPage' = HasPage \cup {v}
  PROVE  Cardinality(HasPage') = Cardinality(HasPage) + 1
  BY PagesCounted, FS_AddElement DEF HasPage

LEMMA PageLost ==
  ASSUME MmapConstants, NEW v \in VMAs, vmas[v] = "faulted", HasPage' = HasPage \ {v}
  PROVE  Cardinality(HasPage') = Cardinality(HasPage) - 1
<1>1. v \in HasPage  BY DEF HasPage
<1> QED  BY <1>1, PagesCounted, FS_RemoveElement

LEMMA MmapInit == ASSUME MmapConstants, Mmap!Init PROVE MmapInv
<1>1. HasPage = {} /\ Mmap!Mapped = {}  BY DEF Mmap!Init, HasPage, Mmap!Mapped
<1>2. vmas \in [VMAs -> {"none", "mapped", "faulted"}]  BY DEF Mmap!Init
<1>3. Cardinality(HasPage) = 0  BY <1>1, FS_EmptySet
<1>4. info = FALSE /\ page_count = 0 /\ fds = 0 /\ file = "closed"  BY DEF Mmap!Init
<1>5. page_count = Cardinality(HasPage) + (IF info THEN 1 ELSE 0)  BY <1>3, <1>4
<1>6. fds \in Nat /\ ~(fds > 0) /\ Mmap!Mapped = {}  BY <1>1, <1>4
<1>7. ~info /\ info \in BOOLEAN  BY <1>4, Zenon
<1> QED  BY <1>2, <1>4, <1>5, <1>6, <1>7, Zenon DEF MmapInv

LEMMA MmapNext == ASSUME MmapConstants, MmapInv, [Mmap!Next]_Mmap!mmapVars PROVE MmapInv'
<1>0. Cardinality(HasPage) \in Nat  BY PagesCounted
<1>1. CASE Mmap!MyOpen
  <2>1. HasPage' = HasPage /\ Mmap!Mapped' = Mmap!Mapped  BY <1>1 DEF Mmap!MyOpen, HasPage, Mmap!Mapped
  <2>2. \A v \in VMAs : vmas[v] = "none"  BY <1>1 DEF Mmap!MyOpen, MmapInv, Mmap!Mapped
  <2>3. HasPage = {}  BY <2>2 DEF HasPage
  <2>4. page_count' = 1 /\ info' = TRUE /\ Cardinality(HasPage') = 0
    BY <1>1, <2>1, <2>3, FS_EmptySet DEF Mmap!MyOpen
  <2> QED  BY <1>1, <2>1, <2>4 DEF Mmap!MyOpen, MmapInv
<1>2. CASE Mmap!Close
  <2>1. HasPage' = HasPage /\ Mmap!Mapped' = Mmap!Mapped  BY <1>2 DEF Mmap!Close, HasPage, Mmap!Mapped
  <2> QED  BY <1>2, <2>1 DEF Mmap!Close, MmapInv
<1>3. CASE Mmap!MyClose
  <2>1. HasPage' = HasPage /\ Mmap!Mapped' = Mmap!Mapped  BY <1>3 DEF Mmap!MyClose, HasPage, Mmap!Mapped
  <2>2. page_count = Cardinality(HasPage) + 1  BY <1>3 DEF Mmap!MyClose, MmapInv
  <2>3. page_count' = Cardinality(HasPage') /\ info' = FALSE  BY <1>0, <1>3, <2>1, <2>2 DEF Mmap!MyClose
  <2>4. page_count' = Cardinality(HasPage') + (IF info' THEN 1 ELSE 0)  BY <1>0, <2>1, <2>3
  <2>5. /\ fds' \in Nat /\ ~(fds' > 0) /\ Mmap!Mapped' = {} /\ file' = "released"
        /\ vmas' \in [VMAs -> {"none", "mapped", "faulted"}]
    BY <1>3, <2>1 DEF Mmap!MyClose, MmapInv
  <2>6. ~info' /\ info' \in BOOLEAN  BY <2>3, Zenon
  <2> QED  BY <2>4, <2>5, <2>6, Zenon DEF MmapInv
<1>4. ASSUME NEW v \in VMAs, Mmap!MyMmap(v) PROVE MmapInv'
  <2>1. HasPage' = HasPage  BY <1>4 DEF Mmap!MyMmap, HasPage, MmapInv
  <2>2. vmas' \in [VMAs -> {"none", "mapped", "faulted"}]  BY <1>4 DEF Mmap!MyMmap, MmapInv
  <2> QED  BY <1>4, <2>1, <2>2 DEF Mmap!MyMmap, MmapInv
<1>5. ASSUME NEW v \in VMAs, Mmap!MmapFault(v) PROVE MmapInv'
  <2>1. HasPage' = HasPage \cup {v} /\ vmas[v] = "mapped"  BY <1>5 DEF Mmap!MmapFault, HasPage, MmapInv
  <2>2. Cardinality(HasPage') = Cardinality(HasPage) + 1  BY <2>1, PageGained
  <2>3. vmas' \in [VMAs -> {"none", "mapped", "faulted"}] /\ Mmap!Mapped # {}
    BY <1>5, <2>1 DEF Mmap!MmapFault, MmapInv, Mmap!Mapped
  <2> QED  BY <1>0, <1>5, <2>2, <2>3 DEF Mmap!MmapFault, Mmap!Faulted, MmapInv
<1>6. ASSUME NEW v \in VMAs, Mmap!MmapClose(v) PROVE MmapInv'
  <2>1. vmas' \in [VMAs -> {"none", "mapped", "faulted"}] /\ Mmap!Mapped # {}
    BY <1>6 DEF Mmap!MmapClose, MmapInv, Mmap!Mapped
  <2>2. CASE vmas[v] = "faulted"
    <3>1. HasPage' = HasPage \ {v}  BY <1>6, <2>2 DEF Mmap!MmapClose, HasPage, MmapInv
    <3>2. Cardinality(HasPage') = Cardinality(HasPage) - 1  BY <2>2, <3>1, PageLost
    <3> QED  BY <1>0, <1>6, <2>1, <2>2, <3>2 DEF Mmap!MmapClose, MmapInv
  <2>3. CASE vmas[v] # "faulted"
    <3>1. HasPage' = HasPage  BY <1>6, <2>3 DEF Mmap!MmapClose, HasPage, MmapInv
    <3> QED  BY <1>0, <1>6, <2>1, <2>3, <3>1 DEF Mmap!MmapClose, MmapInv
  <2> QED  BY <2>2, <2>3
<1>7. ASSUME NEW v \in VMAs, NEW w \in VMAs, Mmap!MmapOpen(v, w) PROVE MmapInv'
  <2>1. vmas' \in [VMAs -> {"none", "mapped", "faulted"}] /\ Mmap!Mapped # {} /\ fds' \in Nat
    BY <1>7 DEF Mmap!MmapOpen, MmapInv, Mmap!Mapped
  <2>2. CASE vmas[v] = "faulted"
    <3>1. HasPage' = HasPage \cup {w}  BY <1>7, <2>2 DEF Mmap!MmapOpen, HasPage, MmapInv
    <3>2. vmas[w] # "faulted"  BY <1>7 DEF Mmap!MmapOpen
    <3>3. Cardinality(HasPage') = Cardinality(HasPage) + 1  BY <3>1, <3>2, PageGained
    <3> QED  BY <1>0, <1>7, <2>1, <2>2, <3>3 DEF Mmap!MmapOpen, MmapInv
  <2>3. CASE vmas[v] # "faulted"
    <3>1. HasPage' = HasPage  BY <1>7, <2>3 DEF Mmap!MmapOpen, HasPage, MmapInv
    <3> QED  BY <1>0, <1>7, <2>1, <2>3, <3>1 DEF Mmap!MmapOpen, MmapInv
  <2> QED  BY <2>2, <2>3
<1>8. CASE UNCHANGED Mmap!mmapVars
  BY <1>8 DEF Mmap!mmapVars, MmapInv, HasPage, Mmap!Mapped
<1> QED  BY <1>1, <1>2, <1>3, <1>4, <1>5, <1>6, <1>7, <1>8 DEF Mmap!Next

LEMMA MmapKeepsPage == ASSUME MmapConstants, MmapInv PROVE Mmap!PageKeptWhileMapped
<1>1. page_count = Cardinality({v \in VMAs : vmas[v] = "faulted"}) + (IF info THEN 1 ELSE 0)
  BY DEF MmapInv, HasPage
<1>2. ASSUME file = "released" PROVE page_count = 0
  <2>1. ~info /\ Mmap!Mapped = {}  BY <1>2 DEF MmapInv
  <2>2. HasPage = {}  BY <2>1 DEF HasPage, Mmap!Mapped
  <2> QED  BY <2>1, <2>2, FS_EmptySet DEF MmapInv
<1>3. Mmap!Mapped # {} => info  BY DEF MmapInv
<1> QED  BY <1>1, <1>2, <1>3, SameCount DEF Mmap!PageKeptWhileMapped

\* mmap_fault(), my_close(): with any number of VMAs, faults, forks and closes
\* in any order free the page once, after the last VMA that has it.
LEMMA MmapPageKept == ASSUME MmapConstants PROVE Mmap!Spec => []Mmap!PageKeptWhileMapped
<1>1. Mmap!Init => MmapInv  BY MmapInit
<1>2. MmapInv /\ [Mmap!Next]_Mmap!mmapVars => MmapInv'  BY MmapNext
<1>3. MmapInv => Mmap!PageKeptWhileMapped  BY MmapKeepsPage
<1> QED  BY <1>1, <1>2, <1>3, PTL DEF Mmap!Spec

-----------------------------------------------------------------------------
(* The contexts of the tasks *)

\* PendSV is pending only for another task than the one that runs, and the
\* entry after the last task points nowhere until somebody runs from it.
SchedInv ==
  /\ Sched!TypeOK /\ Sched!ContextSaved
  /\ ~fault => curr_task \in Sched!Tasks
  /\ pendsv => next_task # curr_task /\ ~fault
  /\ ~fault => PSP_array[NUMB_TASKS] = Sched!NoStack

SchedConstants == NUMB_TASKS \in Nat \ {0}

LEMMA SchedInit == ASSUME SchedConstants, Sched!Init PROVE SchedInv
<1> USE DEF SchedConstants, Sched!Init, Sched!Tasks, Sched!NoStack
<1>1. PSP_array \in [0 .. NUMB_TASKS -> Sched!Tasks \cup {Sched!NoStack}]  OBVIOUS
<1>2. frames \in [Sched!Tasks -> Nat] /\ work \in [Sched!Tasks -> Nat]  OBVIOUS
<1>3. regs \in [stack : Sched!Tasks, count : Nat]  OBVIOUS
<1>4. pendsv \in BOOLEAN /\ fault \in BOOLEAN /\ ~fault /\ ~pendsv  OBVIOUS
<1>5. curr_task \in 0 .. NUMB_TASKS /\ next_task \in 0 .. NUMB_TASKS /\ curr_task \in Sched!Tasks  OBVIOUS
<1>6. \A t \in Sched!Tasks \ {curr_task} : PSP_array[t] = t /\ frames[t] = work[t]  OBVIOUS
<1>7. regs = [stack |-> curr_task, count |-> work[curr_task]] /\ curr_task # NUMB_TASKS  OBVIOUS
<1>8. PSP_array[NUMB_TASKS] = Sched!NoStack  OBVIOUS
<1> HIDE DEF SchedConstants, Sched!Init, Sched!Tasks, Sched!NoStack
<1> QED  BY <1>1, <1>2, <1>3, <1>4, <1>5, <1>6, <1>7, <1>8 DEF SchedInv, Sched!TypeOK, Sched!ContextSaved

LEMMA SchedNext == ASSUME SchedConstants, SchedInv, [Sched!Next]_Sched!schedVars PROVE SchedInv'
<1> USE DEF SchedConstants, SchedInv, Sched!TypeOK, Sched!ContextSaved, Sched!Tasks, Sched!NoStack
<1>1. CASE Sched!Work
  <2>1. ~fault /\ curr_task \in Sched!Tasks /\ regs = [stack |-> curr_task, count |-> work[curr_task]]
    BY <1>1 DEF Sched!Work
  <2>2. /\ regs' = [stack |-> curr_task, count |-> work'[curr_task]]
        /\ work' = [work EXCEPT ![curr_task] = work[curr_task] + 1]
        /\ UNCHANGED <<curr_task, next_task, pendsv, PSP_array, frames, fault>>
    BY <1>1, <2>1 DEF Sched!Work
  <2>3. work' \in [Sched!Tasks -> Nat]  BY <2>1, <2>2
  <2>4. regs' \in [stack : Sched!Tasks, count : Nat]  BY <2>1, <2>2, <2>3
  <2>5. Sched!ContextSaved'  BY <2>1, <2>2
  <2> QED  BY <2>2, <2>3, <2>4, <2>5
<1>2. CASE Sched!SysTick_Handler
  <2>1. CASE curr_task = next_task'  BY <1>2, <2>1 DEF Sched!SysTick_Handler
  <2>2. CASE curr_task # next_task'  BY <1>2, <2>2 DEF Sched!SysTick_Handler
  <2> QED  BY <2>1, <2>2
<1>3. CASE Sched!PendSV_Handler
  \* The task that leaves is one of the tasks, and not the one that comes.
  <2>1. /\ curr_task \in Sched!Tasks /\ next_task # curr_task /\ ~fault
        /\ regs.stack = curr_task /\ regs.count = work[curr_task]
        /\ PSP_array' = [PSP_array EXCEPT ![curr_task] = curr_task]
        /\ frames' = [frames EXCEPT ![curr_task] = work[curr_task]]
        /\ curr_task' = next_task /\ work' = work
    <3>1. ~fault /\ next_task # curr_task /\ curr_task \in Sched!Tasks  BY <1>3 DEF Sched!PendSV_Handler
    <3>2. regs.stack = curr_task /\ regs.count = work[curr_task]  BY <3>1
    <3> QED  BY <1>3, <3>1, <3>2 DEF Sched!PendSV_Handler
  <2>2. /\ PSP_array' \in [0 .. NUMB_TASKS -> Sched!Tasks \cup {Sched!NoStack}]
        /\ frames' \in [Sched!Tasks -> Nat]
        /\ \A t \in Sched!Tasks \ {next_task} : PSP_array'[t] = t /\ frames'[t] = work'[t]
        /\ PSP_array'[NUMB_TASKS] = Sched!NoStack
    BY <2>1
  <2>3. CASE next_task = NUMB_TASKS
    <3>1. fault' = TRUE /\ regs' = regs  BY <1>3, <2>1, <2>3 DEF Sched!PendSV_Handler
    <3>2. pendsv' = FALSE /\ UNCHANGED <<next_task, work>>  BY <1>3 DEF Sched!PendSV_Handler
    <3>3. Sched!TypeOK'
      <4>1. pendsv' \in BOOLEAN /\ fault' \in BOOLEAN  BY <3>1, <3>2
      <4> QED  BY <2>1, <2>2, <2>3, <3>1, <3>2, <4>1
    <3>4. Sched!ContextSaved'  BY <2>1, <2>2, <2>3
    <3> QED  BY <3>1, <3>2, <3>3, <3>4
  <2>4. CASE next_task \in Sched!Tasks
    <3>1. PSP_array[next_task] = next_task /\ next_task # Sched!NoStack /\ frames[next_task] = work[next_task]
      BY <2>1, <2>4
    <3>2. fault' = FALSE /\ regs' = [stack |-> next_task, count |-> work'[next_task]]
      BY <1>3, <2>1, <3>1 DEF Sched!PendSV_Handler
    <3>3. work[next_task] \in Nat  BY <2>4
    <3> QED  BY <1>3, <2>1, <2>2, <2>4, <3>2, <3>3 DEF Sched!PendSV_Handler
  <2>5. next_task = NUMB_TASKS \/ next_task \in Sched!Tasks  OBVIOUS
  <2> QED  BY <2>3, <2>4, <2>5
<1>4. CASE UNCHANGED Sched!schedVars  BY <1>4 DEF Sched!schedVars
<1> QED  BY <1>1, <1>2, <1>3, <1>4 DEF Sched!Next

\* PendSV_Handler(): with any number of tasks, what each has counted is on its
\* own stack, in the processor or in the frame its entry points to.
LEMMA SchedContextSaved == ASSUME SchedConstants PROVE Sched!Spec => [](Sched!TypeOK /\ Sched!ContextSaved)
<1>1. Sched!Init => SchedInv  BY SchedInit
<1>2. SchedInv /\ [Sched!Next]_Sched!schedVars => SchedInv'  BY SchedNext
<1>3. SchedInv => Sched!TypeOK /\ Sched!ContextSaved  BY DEF SchedInv
<1> QED  BY <1>1, <1>2, <1>3, PTL DEF Sched!Spec

-----------------------------------------------------------------------------
(* Set-up and removal of the NVMe device *)

Creating == {"create_cq", "create_sq", "request_irq", "release_sq", "release_cq", "free_nvmeq"}
Sharing  == {"share", "identify", "namespace", "up"}
Early    == {"list_add", "set_queue_count", "enable_msix"}
Probing  == Early \cup Sharing \cup Creating \cup {"delete"}
Freeing  == {"free_ns", "free_irq", "delete_sq", "delete_cq", "free_memory"}

SetupTypes ==
  /\ at \in {"configure_admin_queue", "oops", "gone"} \cup Probing \cup Freeing
  /\ queues \in [0 .. CPUS -> Int] /\ queue_count \in 0 .. CPUS + 1 /\ nr \in 0 .. ONLINE /\ qid \in 0 .. CPUS
  /\ mem \subseteq 0 .. CPUS /\ irq \subseteq 0 .. CPUS /\ res \in {"0", "error"}
  /\ thread \in Int /\ listed \in BOOLEAN

\* The queues below k are there in all their parts.
Complete(k) == \A i \in 1 .. k - 1 : queues[i] = i /\ i \in mem /\ i \in irq /\ i \in cqs /\ i \in sqs

\* How many queues there are at each point; queue_count says only complete ones.
Counted ==
  /\ at = "configure_admin_queue" => queue_count = 0 /\ mem = {} /\ irq = {}
  /\ at \in Early \cup {"oops"} => queue_count = 1
  /\ at \in {"enable_msix"} \cup Creating => nr >= 1
  /\ at \in Creating => qid \in 1 .. nr /\ queue_count = qid
  /\ at \in Sharing => queue_count = nr + 1 /\ nr >= 1
  /\ at \in Probing => queue_count >= 1 /\ Complete(queue_count)
  /\ at \in Freeing => Complete(qid) /\ queues[qid] = qid /\ qid \in mem
  /\ at \in {"delete_sq", "delete_cq"} => qid # 0

\* The admin queue may be missing until a first command was answered.
Admin ==
  /\ queues[0] \in {NULL, 0}
  /\ queues[0] = 0 /\ at # "gone" => 0 \in mem
  /\ at \in Probing \cup Freeing => queues[0] = 0 \/ at \in {"list_add", "set_queue_count"}

\* Nothing is held beyond the queues counted and the one being made or freed.
Holding ==
  /\ at \in Probing => \A q \in mem : q < queue_count \/ (q = qid /\ at \in Creating \ {"create_cq"})
  /\ at \in Probing => \A q \in irq : q < queue_count
  /\ at \in Creating \ {"create_cq"} => qid \in mem
  /\ at \in Freeing => \A q \in mem \cup irq : q <= qid
  /\ at \in {"delete_sq", "delete_cq", "free_memory"} => qid \notin irq
  /\ at = "gone" => mem = {} /\ irq = {}

\* What the controller still has of the queue being made or freed.
Controlled ==
  /\ ControllerUsesMemory /\ 0 \notin cqs \cup sqs
  /\ at = "request_irq" => qid \in cqs /\ qid \in sqs
  /\ at = "create_sq" => qid \in cqs
  /\ at \in {"create_sq", "release_cq", "free_nvmeq", "delete_cq", "free_memory"} /\ qid \in sqs => qid \in unsure
  /\ at \in {"free_nvmeq", "free_memory"} /\ qid \in cqs => qid \in unsure

\* The polling thread is at a counted queue of a listed device.
Walking ==
  /\ thread # Idle => listed /\ thread \in 0 .. queue_count - 1
  /\ listed => at \in Probing \cup {"oops"}

Shared == at \in Sharing \ {"share"} => \A cpu \in 1 .. CPUS : queues[cpu] \in sqs \cap cqs \cap mem \cap irq

Disked ==
  /\ at \in {"configure_admin_queue", "oops"} \cup (Probing \ {"up", "delete"}) => disks = {}
  /\ at \in {"up", "free_ns"} => disks \subseteq DOMAIN ns
  /\ at = "delete" => res = "error"
  /\ at \in (Freeing \ {"free_ns"}) \cup {"gone"} => disks = {} \/ res = "error"

SetupInv == SetupTypes /\ Counted /\ Admin /\ Holding /\ Controlled /\ Walking /\ Shared /\ Disked
LEMMA Rounded == ASSUME NEW n \in Nat \ {0} PROVE RoundDown(n) \in 1 .. n
<1> DEFINE S == {p \in {1, 2, 4, 8} : p <= n}
<1>1. \E x \in S : \A y \in S : y <= x
  <2>1. CASE n >= 8  BY <2>1
  <2>2. CASE n < 8 /\ n >= 4  BY <2>2
  <2>3. CASE n < 4 /\ n >= 2  BY <2>3
  <2>4. CASE n = 1  BY <2>4
  <2> QED  BY <2>1, <2>2, <2>3, <2>4
<1>2. PICK x \in S : x = RoundDown(n)  BY <1>1 DEF RoundDown, Max
<1> QED  BY <1>2

LEMMA Remainder == ASSUME NEW i \in Nat, NEW d \in Nat \ {0} PROVE i % d \in 0 .. d - 1
OBVIOUS

LEMMA Targets == ASSUME NEW i \in Nat, queue_count \in Nat, queue_count > 1 PROVE Target(i) \in 0 .. queue_count - 2
<1>1. RoundDown(queue_count - 1) \in 1 .. queue_count - 1  BY Rounded
<1>2. Target(i) \in 0 .. RoundDown(queue_count - 1) - 1  BY <1>1, Remainder DEF Target
<1> QED  BY <1>1, <1>2

LEMMA SetupGives == ASSUME SetupInv PROVE
   ThreadWalksLiveQueues /\ FreesLiveQueues /\ ControllerUsesMemory /\ ProcessorsServed /\ NothingLeft
<1> USE CpusAssumption DEF SetupInv, SetupTypes, Probing, Early, Creating, Sharing, Freeing
<1>1. ThreadWalksLiveQueues
  <2> SUFFICES ASSUME thread # Idle PROVE queues[thread] = NULL \/ queues[thread] \in mem \cap (sqs \cup {0})
    BY DEF ThreadWalksLiveQueues
  <2>1. thread \in 0 .. queue_count - 1 /\ at \in Probing \cup {"oops"}  BY DEF Walking
  <2>2. CASE thread = 0  BY <2>1, <2>2 DEF Admin
  <2>3. CASE thread # 0
    <3>1. Complete(queue_count)  BY <2>1, <2>3 DEF Counted
    <3> QED  BY <2>1, <2>3, <3>1 DEF Complete
  <2> QED  BY <2>2, <2>3
<1>2. FreesLiveQueues  BY DEF FreesLiveQueues, Counted, Admin
<1>3. ControllerUsesMemory  BY DEF Controlled
<1>4. ProcessorsServed  BY DEF ProcessorsServed, Shared
<1>5. NothingLeft  BY DEF NothingLeft, Holding, Walking, Disked
<1> QED  BY <1>1, <1>2, <1>3, <1>4, <1>5

LEMMA SetupStep == ASSUME SetupInv, [Next]_setupVars PROVE SetupInv'
<1> USE CpusAssumption DEF SetupInv, SetupTypes, Probing, Early, Creating, Sharing, Freeing, queueVars, nsVars, NULL, ERR, Idle
<1>1. CASE KthreadStart
  BY <1>1 DEF KthreadStart, Counted, Complete, Admin, Holding, Controlled, ControllerUsesMemory, Walking, Shared, Disked
<1>2. CASE KthreadNext
  BY <1>2 DEF KthreadNext, Counted, Complete, Admin, Holding, Controlled, ControllerUsesMemory, Walking, Shared, Disked
<1>3. CASE ConfigureAdminQueue
  <2>0. /\ mem' \in {{}, {0}} /\ irq' \in {{}, {0}} /\ queue_count' = 1
        /\ queues' = queues \/ (mem' = {0} /\ queues' = [queues EXCEPT ![0] = 0])
        /\ at = "configure_admin_queue" /\ at' = "list_add"
    <3>1. mem = {} /\ irq = {} /\ queue_count = 0  BY <1>3 DEF ConfigureAdminQueue, Counted
    <3>2. mem \cup {0} = {0} /\ irq \cup {0} = {0}  BY <3>1
    <3> QED  BY <1>3, <3>1, <3>2 DEF ConfigureAdminQueue
  <2>1. SetupTypes'
    <3>1. queues' \in [0 .. CPUS -> Int]  BY <2>0
    <3>2. mem' \subseteq 0 .. CPUS /\ irq' \subseteq 0 .. CPUS  BY <2>0
    <3> QED  BY <1>3, <2>0, <3>1, <3>2 DEF ConfigureAdminQueue
  <2>4. Holding'
    <3>1. \A q \in mem' \cup irq' : q = 0  BY <2>0
    <3> QED  BY <2>0, <3>1 DEF Holding
  <2>2. Counted'  BY <1>3, <2>0 DEF ConfigureAdminQueue, Counted, Complete
  <2>3. Admin'  BY <1>3, <2>0 DEF ConfigureAdminQueue, Admin, Counted, Complete
  <2>5. Controlled'  BY <1>3, <2>0 DEF ConfigureAdminQueue, Controlled, Counted, Complete, ControllerUsesMemory
  <2>6. Walking'  BY <1>3, <2>0 DEF ConfigureAdminQueue, Walking, Counted, Complete
  <2>7. Shared'  BY <1>3, <2>0 DEF ConfigureAdminQueue, Shared, Counted, Complete
  <2>8. Disked'  BY <1>3, <2>0 DEF ConfigureAdminQueue, Disked, Counted, Complete
  <2> QED  BY <2>1, <2>2, <2>3, <2>4, <2>5, <2>6, <2>7, <2>8
<1>4. CASE ListAdd
  BY <1>4 DEF ListAdd, Unlocked, Counted, Complete, Admin, Holding, Controlled, ControllerUsesMemory, Walking, Shared, Disked
<1>5. CASE SetQueueCount
  <2>1. SetupTypes'
    <3>1. queues' \in [0 .. CPUS -> Int]  BY <1>5 DEF SetQueueCount, SetupTypes, Counted, Complete, Holding
    <3>2. mem' \subseteq 0 .. CPUS  BY <1>5 DEF SetQueueCount, SetupTypes, Counted, Complete, Holding
    <3>3. irq' \subseteq 0 .. CPUS  BY <1>5 DEF SetQueueCount, SetupTypes, Counted, Complete, Holding
    <3>4. queue_count' \in 0 .. CPUS + 1 /\ nr' \in 0 .. ONLINE /\ qid' \in 0 .. CPUS  BY <1>5 DEF SetQueueCount, SetupTypes, Counted, Complete, Holding
    <3>5. at' \in {"configure_admin_queue", "oops", "gone"} \cup Probing \cup Freeing  BY <1>5 DEF SetQueueCount, SetupTypes, Counted, Complete, Holding
    <3>6. res' \in {"0", "error"} /\ thread' \in Int /\ listed' \in BOOLEAN  BY <1>5 DEF SetQueueCount, SetupTypes, Counted, Complete, Holding
    <3> QED  BY <3>1, <3>2, <3>3, <3>4, <3>5, <3>6 DEF SetupTypes
  <2>2. Counted'  BY <1>5 DEF SetQueueCount, Counted, Holding, Complete
  <2>3. Admin'  BY <1>5 DEF SetQueueCount, Admin, Counted, Complete, Holding
  <2>4. Holding'  BY <1>5 DEF SetQueueCount, Holding, Counted, Complete
  <2>5. Controlled'  BY <1>5 DEF SetQueueCount, Controlled, Counted, Complete, Holding, ControllerUsesMemory
  <2>6. Walking'  BY <1>5 DEF SetQueueCount, Walking, Counted, Complete, Holding
  <2>7. Shared'  BY <1>5 DEF SetQueueCount, Shared, Counted, Complete, Holding
  <2>8. Disked'  BY <1>5 DEF SetQueueCount, Disked, Counted, Complete, Holding
  <2> QED  BY <2>1, <2>2, <2>3, <2>4, <2>5, <2>6, <2>7, <2>8
<1>6. CASE EnableMsix
  <2>0. /\ at = "enable_msix" /\ queue_count = 1 /\ UNCHANGED <<queue_count, mem, queues>>
        /\ irq' \in {irq, irq \cup {0}}
        /\ (at' = at /\ qid' = qid) \/ (at' = "create_cq" /\ qid' = 1)
        /\ nr \in Nat /\ nr' \in 1 .. nr
    BY <1>6 DEF EnableMsix, Counted
  <2>1. SetupTypes'
    <3>1. irq' \subseteq 0 .. CPUS  BY <2>0
    <3> QED  BY <1>6, <2>0, <3>1 DEF EnableMsix
  <2>4. Holding'
    <3>1. \A q \in irq' : q \in irq \/ q = 0  BY <2>0
    <3> QED  BY <2>0, <3>1 DEF Holding
  <2>2. Counted'
    <3>1. at' \in {"enable_msix", "create_cq"} /\ nr' >= 1 /\ (at' = "create_cq" => qid' = 1)  BY <2>0
    <3>2. Complete(queue_count)'  BY <2>0 DEF Complete
    <3>3. at' \in Creating => qid' \in 1 .. nr' /\ queue_count' = qid'  BY <2>0, <3>1
    <3>4. at' \notin Sharing \cup Freeing \cup {"oops", "list_add", "configure_admin_queue"}  BY <3>1
    <3> QED  BY <2>0, <3>1, <3>2, <3>3, <3>4 DEF Counted
  <2>3. Admin'  BY <1>6, <2>0 DEF EnableMsix, Admin, Counted, Complete
  <2>5. Controlled'  BY <1>6, <2>0 DEF EnableMsix, Controlled, Counted, Complete, ControllerUsesMemory
  <2>6. Walking'  BY <1>6, <2>0 DEF EnableMsix, Walking, Counted, Complete
  <2>7. Shared'  BY <1>6, <2>0 DEF EnableMsix, Shared, Counted, Complete
  <2>8. Disked'  BY <1>6, <2>0 DEF EnableMsix, Disked, Counted, Complete
  <2> QED  BY <2>1, <2>2, <2>3, <2>4, <2>5, <2>6, <2>7, <2>8
<1>7. CASE CreateCq
  <2>1. SetupTypes'
    <3>1. queues' \in [0 .. CPUS -> Int]  BY <1>7 DEF CreateCq, Lost, Create, SetupTypes, Counted, Complete, Holding
    <3>2. mem' \subseteq 0 .. CPUS  BY <1>7 DEF CreateCq, Lost, Create, SetupTypes, Counted, Complete, Holding
    <3>3. irq' \subseteq 0 .. CPUS  BY <1>7 DEF CreateCq, Lost, Create, SetupTypes, Counted, Complete, Holding
    <3>4. queue_count' \in 0 .. CPUS + 1 /\ nr' \in 0 .. ONLINE /\ qid' \in 0 .. CPUS  BY <1>7 DEF CreateCq, Lost, Create, SetupTypes, Counted, Complete, Holding
    <3>5. at' \in {"configure_admin_queue", "oops", "gone"} \cup Probing \cup Freeing  BY <1>7 DEF CreateCq, Lost, Create, SetupTypes, Counted, Complete, Holding
    <3>6. res' \in {"0", "error"} /\ thread' \in Int /\ listed' \in BOOLEAN  BY <1>7 DEF CreateCq, Lost, Create, SetupTypes, Counted, Complete, Holding
    <3> QED  BY <3>1, <3>2, <3>3, <3>4, <3>5, <3>6 DEF SetupTypes
  <2>2. Counted'  BY <1>7 DEF CreateCq, Lost, Create, Counted, Holding, Complete
  <2>3. Admin'  BY <1>7 DEF CreateCq, Lost, Create, Admin, Counted, Complete, Holding
  <2>4. Holding'  BY <1>7 DEF CreateCq, Lost, Create, Holding, Counted, Complete
  <2>5. Controlled'  BY <1>7 DEF CreateCq, Lost, Create, Controlled, Counted, Complete, Holding, ControllerUsesMemory
  <2>6. Walking'  BY <1>7 DEF CreateCq, Lost, Create, Walking, Counted, Complete, Holding
  <2>7. Shared'  BY <1>7 DEF CreateCq, Lost, Create, Shared, Counted, Complete, Holding
  <2>8. Disked'  BY <1>7 DEF CreateCq, Lost, Create, Disked, Counted, Complete, Holding
  <2> QED  BY <2>1, <2>2, <2>3, <2>4, <2>5, <2>6, <2>7, <2>8
<1>8. CASE CreateSq
  BY <1>8 DEF CreateSq, Create, Unwind, Counted, Complete, Admin, Holding, Controlled, ControllerUsesMemory, Walking, Shared, Disked
<1>9. CASE RequestIrq
  <2>1. CASE irq' = irq
    <3>1. /\ at = "request_irq" /\ at' = "release_sq" /\ res' = "error"
          /\ UNCHANGED <<queues, queue_count, qid, irq, nr, mem, cqs, sqs, unsure, listed, nsVars, thread>>
      BY <1>9, <2>1 DEF RequestIrq, Counted, Holding
    <3> QED  BY <3>1 DEF Counted, Complete, Admin, Holding, Controlled, ControllerUsesMemory, Walking, Shared, Disked
  <2>2. CASE irq' # irq
    <3>1. /\ at = "request_irq" /\ irq' = irq \cup {qid} /\ queues' = [queues EXCEPT ![qid] = qid]
          /\ queue_count' = queue_count + 1 /\ qid \in 1 .. nr /\ queue_count = qid
          /\ UNCHANGED <<res, nr, mem, cqs, sqs, unsure, listed, nsVars, thread>>
      BY <1>9, <2>2 DEF RequestIrq, Counted
    <3>2. \/ qid = nr /\ at' = "share" /\ qid' = qid
          \/ qid < nr /\ at' = "create_cq" /\ qid' = qid + 1
      BY <1>9, <2>2, <3>1 DEF RequestIrq
    <3>3. qid \in mem /\ qid \in cqs /\ qid \in sqs  BY <3>1 DEF Holding, Controlled
    <3>4. Complete(queue_count)'
      <4>1. Complete(queue_count)  BY <3>1 DEF Counted
      <4> QED  BY <3>1, <3>3, <4>1 DEF Complete
    <3>5. SetupTypes'
      <4>1. queues' \in [0 .. CPUS -> Int] /\ irq' \subseteq 0 .. CPUS  BY <3>1
      <4> QED  BY <3>1, <3>2, <4>1
    <3>6. Counted'  BY <3>1, <3>2, <3>4 DEF Counted
    <3>7. Holding'
      <4>1. \A q \in mem' \cup irq' : q < queue_count'  BY <3>1 DEF Holding
      <4> QED  BY <3>1, <3>2, <4>1 DEF Holding
    <3> QED  BY <3>1, <3>2, <3>3, <3>5, <3>6, <3>7 DEF Admin, Controlled, ControllerUsesMemory, Walking, Shared, Disked
  <2> QED  BY <2>1, <2>2
<1>10. CASE ReleaseSq
  BY <1>10 DEF ReleaseSq, Delete, Counted, Complete, Admin, Holding, Controlled, ControllerUsesMemory, Walking, Shared, Disked
<1>11. CASE ReleaseCq
  BY <1>11 DEF ReleaseCq, Delete, Counted, Complete, Admin, Holding, Controlled, ControllerUsesMemory, Walking, Shared, Disked
<1>12. CASE FreeNvmeq
  BY <1>12 DEF FreeNvmeq, Lost, Counted, Complete, Admin, Holding, Controlled, ControllerUsesMemory, Walking, Shared, Disked
<1>13. CASE Share
  <2>0. /\ at = "share" /\ at' = "identify" /\ queue_count = nr + 1 /\ nr \in 1 .. CPUS /\ Complete(nr + 1)
        /\ UNCHANGED <<queue_count, nr, qid, mem, irq, cqs, sqs, unsure, listed, nsVars, res, thread>>
    BY <1>13 DEF Share, Counted
  <2>a. ASSUME NEW i \in nr + 1 .. CPUS PROVE Target(i - 1) + 1 \in 1 .. nr
    <3>1. i - 1 \in Nat /\ queue_count \in Nat /\ queue_count > 1  BY <2>0
    <3>2. Target(i - 1) \in 0 .. queue_count - 2  BY <3>1, Targets
    <3> QED  BY <2>0, <3>2
  <2>b. /\ DOMAIN queues' = 0 .. CPUS
        /\ \A i \in 0 .. nr : queues'[i] = queues[i]
        /\ \A i \in nr + 1 .. CPUS : queues'[i] = queues[Target(i - 1) + 1]
    BY <1>13, <2>0 DEF Share
  <2>c. \A i \in 1 .. nr : queues[i] = i /\ i \in sqs /\ i \in cqs /\ i \in mem /\ i \in irq  BY <2>0 DEF Complete
  <2>d. \A i \in 1 .. CPUS : queues'[i] \in 1 .. nr
    <3> SUFFICES ASSUME NEW i \in 1 .. CPUS PROVE queues'[i] \in 1 .. nr
      OBVIOUS
    <3>1. CASE i <= nr  BY <2>0, <2>b, <2>c, <3>1
    <3>2. CASE i > nr  BY <2>0, <2>a, <2>b, <2>c, <3>2
    <3> QED  BY <2>0, <3>1, <3>2
  <2>e. queues'[0] = queues[0]  BY <2>0, <2>b
  <2>1. SetupTypes'
    <3>1. \A i \in 0 .. CPUS : queues'[i] \in Int  BY <2>d, <2>e
    <3>2. queues' = [i \in 0 .. CPUS |-> queues'[i]]  BY <1>13 DEF Share
    <3>3. queues' \in [0 .. CPUS -> Int]  BY <3>1, <3>2
    <3> QED  BY <2>0, <3>3
  <2>2. Counted'  BY <2>0, <2>b DEF Counted, Complete
  <2>3. Admin'  BY <2>0, <2>e DEF Admin
  <2>4. Holding'  BY <2>0 DEF Holding
  <2>5. Controlled'  BY <2>0 DEF Controlled, ControllerUsesMemory
  <2>6. Walking'  BY <2>0 DEF Walking
  <2>7. Shared'  BY <2>0, <2>c, <2>d DEF Shared
  <2>8. Disked'  BY <2>0 DEF Disked
  <2> QED  BY <2>1, <2>2, <2>3, <2>4, <2>5, <2>6, <2>7, <2>8
<1>14. CASE Identify
  BY <1>14 DEF Identify, Counted, Complete, Admin, Holding, Controlled, ControllerUsesMemory, Walking, Shared, Disked
<1>15. CASE SkipNs
  BY <1>15 DEF SkipNs, Counted, Complete, Admin, Holding, Controlled, ControllerUsesMemory, Walking, Shared, Disked
<1>16. CASE AllocNs
  BY <1>16 DEF AllocNs, Unlocked, Counted, Complete, Admin, Holding, Controlled, ControllerUsesMemory, Walking, Shared, Disked
<1>17. CASE AddDisks
  BY <1>17 DEF AddDisks, Counted, Complete, Admin, Holding, Controlled, ControllerUsesMemory, Walking, Shared, Disked
<1>18. CASE ListDel
  <2>0. /\ at \in {"up", "delete"} /\ at' = IF at = "up" THEN "free_ns" ELSE "free_irq"
        /\ listed' = FALSE /\ thread = Idle /\ qid' = queue_count - 1
        /\ UNCHANGED <<queues, queue_count, nr, mem, irq, cqs, sqs, unsure, nsVars, res, thread>>
    BY <1>18 DEF ListDel, ListDelReady, LastQueue, Unlocked
  <2>a. /\ queue_count >= 1 /\ Complete(queue_count)
        /\ queues[0] = 0 /\ 0 \in mem
    BY <2>0 DEF Counted, Admin
  <2>b. qid' \in 0 .. CPUS  BY <2>0, <2>a
  <2>1. SetupTypes'  BY <2>0, <2>b
  <2>2. Counted'
    <3>1. queues[qid'] = qid' /\ qid' \in mem
      <4>1. CASE qid' = 0  BY <2>a, <4>1
      <4>2. CASE qid' # 0  BY <2>0, <2>a, <2>b, <4>2 DEF Complete
      <4> QED  BY <4>1, <4>2
    <3>2. Complete(qid)'  BY <2>0, <2>a, <2>b DEF Complete
    <3> QED  BY <2>0, <3>1, <3>2 DEF Counted
  <2>3. Admin'  BY <2>0, <2>a DEF Admin
  <2>4. Holding'  BY <2>0, <2>a DEF Holding
  <2>5. Controlled'  BY <2>0 DEF Controlled, ControllerUsesMemory
  <2>6. Walking'  BY <2>0 DEF Walking
  <2>7. Shared'  BY <2>0 DEF Shared
  <2>8. Disked'  BY <2>0 DEF Disked
  <2> QED  BY <2>1, <2>2, <2>3, <2>4, <2>5, <2>6, <2>7, <2>8
<1>19. CASE FreeNs
  BY <1>19 DEF FreeNs, Unlocked, Counted, Complete, Admin, Holding, Controlled, ControllerUsesMemory, Walking, Shared, Disked
<1>20. CASE NsFreed
  BY <1>20 DEF NsFreed, Counted, Complete, Admin, Holding, Controlled, ControllerUsesMemory, Walking, Shared, Disked
<1>21. CASE FreeIrq
  BY <1>21 DEF FreeIrq, FreedIrq, Counted, Complete, Admin, Holding, Controlled, ControllerUsesMemory, Walking, Shared, Disked
<1>22. CASE DeleteSq
  BY <1>22 DEF DeleteSq, Delete, Counted, Complete, Admin, Holding, Controlled, ControllerUsesMemory, Walking, Shared, Disked
<1>23. CASE DeleteCq
  BY <1>23 DEF DeleteCq, Delete, Counted, Complete, Admin, Holding, Controlled, ControllerUsesMemory, Walking, Shared, Disked
<1>24. CASE FreeMemory
  <2>0. /\ at = "free_memory" /\ queues[qid] = qid /\ qid \in mem /\ Complete(qid) /\ mem' = mem \ {qid}
        /\ (\A q \in mem \cup irq : q <= qid) /\ qid \notin irq
        /\ UNCHANGED <<queues, queue_count, nr, irq, cqs, sqs, unsure, listed, nsVars, res, thread>>
    BY <1>24 DEF FreeMemory, Counted, Holding
  <2>1. CASE qid = 0
    <3>1. at' = "gone" /\ qid' = qid  BY <1>24, <2>1 DEF FreeMemory
    <3>2. mem' = {} /\ irq' = {}
      <4>1. \A q \in mem \cup irq : q \in 0 .. 0  BY <2>0, <2>1
      <4> QED  BY <2>0, <2>1, <4>1
    <3>3. ControllerUsesMemory' /\ ~listed
      BY <2>0, <2>1, <3>2 DEF Controlled, ControllerUsesMemory, Walking
    <3> QED  BY <2>0, <2>1, <3>1, <3>2, <3>3 DEF Counted, Admin, Holding, Controlled, Walking, Shared, Disked
  <2>2. CASE qid # 0
    <3>1. at' = "free_irq" /\ qid' = qid - 1 /\ qid' \in 0 .. CPUS  BY <1>24, <2>2 DEF FreeMemory
    <3>2. queues[0] = 0 /\ 0 \in mem  BY <2>0 DEF Admin
    <3>3. Counted'
      <4>1. queues[qid'] = qid' /\ qid' \in mem'
        <5>1. CASE qid' = 0  BY <2>0, <2>2, <3>2, <5>1
        <5>2. CASE qid' # 0  BY <2>0, <2>2, <3>1, <5>2 DEF Complete
        <5> QED  BY <5>1, <5>2
      <4>2. Complete(qid)'  BY <2>0, <3>1 DEF Complete
      <4> QED  BY <2>0, <3>1, <4>1, <4>2 DEF Counted
    <3>4. Holding'
      <4>1. \A q \in mem' \cup irq' : q <= qid'  BY <2>0, <3>1
      <4> QED  BY <2>0, <3>1, <4>1 DEF Holding
    <3>5. Controlled'  BY <2>0, <3>1 DEF Controlled, ControllerUsesMemory
    <3> QED  BY <2>0, <2>2, <3>1, <3>2, <3>3, <3>4, <3>5 DEF Admin, Walking, Shared, Disked
  <2> QED  BY <2>1, <2>2
<1>25. CASE UNCHANGED setupVars  BY <1>25 DEF setupVars, Counted, Complete, Admin, Holding, Controlled, ControllerUsesMemory, Walking, Shared, Disked
<1> QED  BY <1>1, <1>2, <1>3, <1>4, <1>5, <1>6, <1>7, <1>8, <1>9, <1>10, <1>11, <1>12, <1>13, <1>14, <1>15, <1>16, <1>17, <1>18, <1>19, <1>20, <1>21, <1>22, <1>23, <1>24, <1>25 DEF Next

LEMMA SetupInit == ASSUME Init PROVE SetupInv
<1>1. queues = [i \in 0 .. CPUS |-> -1]  BY DEF Init, NULL
<1>2. queues \in [0 .. CPUS -> Int] /\ queues[0] = -1  BY <1>1, CpusAssumption
<1> QED
  BY <1>2, CpusAssumption DEF Init, SetupInv, SetupTypes, Counted, Admin, Holding, Controlled,
     ControllerUsesMemory, Walking, Shared, Disked, Probing, Early, Creating, Sharing, Freeing, NULL, Idle

\* nvme_probe(), nvme_remove(): what holds of the queues, and what is left.
LEMMA SetupCorrect == Spec => [](QueuesAreLive /\ NothingLeft)
<1>1. Init => SetupInv  BY SetupInit
<1>2. SetupInv /\ [Next]_setupVars => SetupInv'  BY SetupStep
<1>3. SetupInv => QueuesAreLive /\ NothingLeft  BY SetupGives DEF QueuesAreLive
<1> QED  BY <1>1, <1>2, <1>3, PTL DEF Spec

-----------------------------------------------------------------------------
(* The probe of a USB mass storage device *)

\* Entries only hold flags that the parameter replaces.
ProbeConstants ==
  \A q \in Quirks : q \in Seq([vid : Int, flags : SUBSET Probe!Mask])

\* Neither transport nor protocol is known yet.
Undetermined == {"storage_probe", "associate_dev", "get_device_info", "get_transport"}

\* us has the fields it began with.
Fields(u) ==
  u = [fflags |-> u.fflags, subclass |-> u.subclass, protocol |-> u.protocol, transport |-> u.transport,
       handler |-> u.handler, max_lun |-> u.max_lun, iobuf |-> u.iobuf,
       current_urb |-> u.current_urb, redo |-> u.redo]

\* usb_stor_probe2() has gone through: what is left is memory, threads, the host.
Passed == {"acquire", "scsi_add_host", "added"}

\* The highest LUN, by the functions that have had their say.
Lun ==
  CASE probe_at = "get_protocol" -> IF us.transport = "CB" THEN 7 ELSE 0
    [] probe_at = "usb_stor_probe2" ->
         IF us.transport = "CB" /\ us.handler # "pad12" THEN 7 ELSE 0
    [] probe_at \in Passed ->
         IF "SINGLE_LUN" \in us.fflags \/ us.handler = "pad12" \/ us.transport = "Bulk" THEN 0 ELSE 7
    [] OTHER -> us.max_lun

ProbeInv ==
  /\ intf \in Devices /\ quirks \in Quirks /\ Fields(us)
  /\ us.transport \in {"", "CB", "Bulk"} /\ us.max_lun = Lun
  /\ probe_at \in Undetermined => us.max_lun = 0 /\ us.transport = "" /\ us.handler = ""
  /\ probe_at = "get_protocol" => us.handler = ""
  /\ probe_at \notin {"scsi_add_host", "added", "BadDevice"} => threads = 0
  /\ probe_at \in Passed => Probe!Settled /\ (us.redo <=> "INITIAL_READ10" \in us.fflags)
  /\ Probe!QuirksDecide

\* A non-empty set of natural numbers has a least element.
LEMMA Smallest ==
  ASSUME NEW T \in SUBSET Nat, T # {}
  PROVE  \E m \in T : \A k \in T : m <= k
<1>1. IsWellFoundedOn(OpToRel(<, Nat), Nat)  BY NatLessThanWellFounded, Zenon
<1>2. PICK m \in T : \A k \in T : <<k, m>> \notin OpToRel(<, Nat)  BY <1>1, WFMin, Zenon
<1>3. \A k \in T : ~(k < m)  BY <1>2 DEF OpToRel
<1> QED  BY <1>3

LEMMA Adjusted ==
  ASSUME ProbeConstants, ProbeInv, NEW f
  PROVE  LET mine == {i \in DOMAIN quirks : quirks[i].vid = intf.vid} IN
         /\ Probe!adjust_quirks(f) \ Probe!Mask \subseteq f
         /\ Probe!adjust_quirks(f) \cap Probe!Mask =
              IF mine = {} THEN f \cap Probe!Mask
              ELSE quirks[CHOOSE i \in mine : \A j \in mine : i <= j].flags
<1> DEFINE mine == {i \in DOMAIN quirks : quirks[i].vid = intf.vid}
           first == CHOOSE i \in mine : \A j \in mine : i <= j
           sel == Probe!SelectInSeq(quirks, LAMBDA e : e.vid = intf.vid)
<1>0. quirks \in Seq([vid : Int, flags : SUBSET Probe!Mask])  BY DEF ProbeInv, ProbeConstants
<1>1. {i \in 1 .. Len(quirks) : quirks[i].vid = intf.vid} = mine  BY <1>0
<1>2. sel = IF mine # {} THEN Probe!Min(mine) ELSE 0  BY <1>1 DEF Probe!SelectInSeq
<1>3. Probe!Min(mine) = first  BY DEF Probe!Min
<1>4. CASE mine = {}
  <2>1. Probe!adjust_quirks(f) = f  BY <1>2, <1>4 DEF Probe!adjust_quirks
  <2> QED  BY <1>4, <2>1
<1>5. CASE mine # {}
  <2>1. first \in mine
    <3>1. mine \in SUBSET Nat  BY <1>0
    <3>2. \E i \in mine : \A j \in mine : i <= j
      <4> HIDE DEF mine
      <4> QED  BY <1>5, <3>1, Smallest
    <3> QED  BY <3>2
  <2>2. first # 0 /\ sel = first /\ quirks[first].flags \subseteq Probe!Mask
    <3>1. sel = first  BY <1>2, <1>3, <1>5, Zenon
    <3>2. first \in 1 .. Len(quirks)  BY <1>0, <2>1
    <3> HIDE DEF first
    <3>3. quirks[first].flags \subseteq Probe!Mask
      <4> DEFINE R == [vid : Int, flags : SUBSET Probe!Mask]
      <4>1. quirks \in Seq(R)  BY <1>0
      <4> HIDE DEF R
      <4>2. quirks[first] \in R  BY <3>2, <4>1
      <4> QED  BY <4>2 DEF R
    <3> QED  BY <3>1, <3>2, <3>3
  <2>3. Probe!adjust_quirks(f) = (f \ Probe!Mask) \cup quirks[first].flags
    BY <2>2 DEF Probe!adjust_quirks
  <2> QED  BY <1>5, <2>2, <2>3
<1> QED  BY <1>4, <1>5

LEMMA ProbeInit == ASSUME Probe!Init PROVE ProbeInv
BY DEF Probe!Init, Probe!Unset, ProbeInv, Fields, Undetermined, Lun, Passed, Probe!QuirksDecide, Probe!Unread

\* An action that leaves the flags leaves what has decided them.
LEMMA StillDecided ==
  ASSUME ProbeInv, probe_at \notin Probe!Unread, UNCHANGED <<intf, quirks>>, us'.fflags = us.fflags
  PROVE  Probe!QuirksDecide'
BY DEF Probe!QuirksDecide, ProbeInv

LEMMA ProbeStep == ASSUME ProbeConstants, ProbeInv, [Probe!Next]_Probe!probeVars PROVE ProbeInv'
<1> USE DEF Passed, Undetermined, Probe!Go
<1>1. CASE Probe!StorageProbe
  BY <1>1 DEF Probe!StorageProbe, Probe!QuirksDecide, Probe!Unread, ProbeInv, Lun
<1>2. CASE Probe!AssociateDev
  <2>1. Fields(us')  BY <1>2 DEF Probe!AssociateDev, ProbeInv, Fields
  <2>2. /\ us'.transport = us.transport /\ us'.handler = us.handler /\ us'.max_lun = us.max_lun
        /\ us'.redo = us.redo
    BY <1>2 DEF Probe!AssociateDev, ProbeInv, Fields
  <2> QED  BY <1>2, <2>1, <2>2 DEF Probe!AssociateDev, Probe!QuirksDecide, Probe!Unread, ProbeInv, Lun
<1>3. CASE Probe!GetDeviceInfo
  <2> DEFINE fflags == Probe!adjust_quirks(intf.driver_info)
  <2>0. /\ Fields(us) /\ probe_at = "get_device_info" /\ probe_at' = "get_transport"
        /\ UNCHANGED <<intf, quirks, threads>>
    BY <1>3 DEF Probe!GetDeviceInfo, ProbeInv
  <2>1. /\ us'.transport = us.transport /\ us'.handler = us.handler /\ us'.max_lun = us.max_lun
        /\ us'.redo = us.redo
    BY <1>3, <2>0 DEF Probe!GetDeviceInfo, Fields
  <2>3. Fields(us')  BY <1>3 DEF Probe!GetDeviceInfo, ProbeInv, Fields
  <2>4. us'.fflags \in {fflags, fflags \ {"GO_SLOW"}}  BY <1>3, <2>0 DEF Probe!GetDeviceInfo, Fields
  <2>5. us'.fflags \cap Probe!Mask = fflags \cap Probe!Mask /\ us'.fflags \ Probe!Mask \subseteq intf.driver_info
    <3>1. "GO_SLOW" \notin Probe!Mask  BY DEF Probe!Mask
    <3> QED  BY <2>4, <3>1, Adjusted
  <2>6. Probe!QuirksDecide'  BY <2>0, <2>5, Adjusted DEF Probe!QuirksDecide
  <2> QED  BY <2>0, <2>1, <2>3, <2>6 DEF ProbeInv, Lun
<1>4. CASE Probe!GetTransport
  <2>1. Fields(us')  BY <1>4 DEF Probe!GetTransport, ProbeInv, Fields
  <2>2. us'.fflags = us.fflags /\ us'.handler = us.handler  BY <1>4 DEF Probe!GetTransport, ProbeInv, Fields
  <2>3. /\ us'.transport \in {"", "CB", "Bulk"}
        /\ us'.max_lun = IF us'.transport = "CB" THEN 7 ELSE 0
    BY <1>4 DEF Probe!GetTransport, ProbeInv, Fields
  <2>4. Probe!QuirksDecide'  BY <1>4, <2>2, StillDecided DEF Probe!GetTransport, Probe!Unread
  <2> QED  BY <1>4, <2>1, <2>2, <2>3, <2>4 DEF Probe!GetTransport, ProbeInv, Lun
<1>5. CASE Probe!GetProtocol
  <2>1. Fields(us')  BY <1>5 DEF Probe!GetProtocol, ProbeInv, Fields
  <2>2. us'.fflags = us.fflags /\ us'.transport = us.transport  BY <1>5 DEF Probe!GetProtocol, ProbeInv, Fields
  <2>3. us'.max_lun = IF us'.transport = "CB" /\ us'.handler # "pad12" THEN 7 ELSE 0
    BY <1>5 DEF Probe!GetProtocol, ProbeInv, Fields, Lun
  <2>4. Probe!QuirksDecide'  BY <1>5, <2>2, StillDecided DEF Probe!GetProtocol, Probe!Unread
  <2> QED  BY <1>5, <2>1, <2>2, <2>3, <2>4 DEF Probe!GetProtocol, ProbeInv, Lun
<1>6. CASE Probe!Probe2
  <2>1. Fields(us')  BY <1>6 DEF Probe!Probe2, ProbeInv, Fields
  <2>2. us'.fflags = us.fflags /\ us'.transport = us.transport /\ us'.handler = us.handler
    BY <1>6 DEF Probe!Probe2, ProbeInv, Fields
  <2>3. Probe!QuirksDecide'  BY <1>6, <2>2, StillDecided DEF Probe!Probe2, Probe!Unread
  <2>4. /\ us'.max_lun = IF Probe!Settled /\ "SINGLE_LUN" \in us.fflags THEN 0 ELSE us.max_lun
        /\ probe_at' = "acquire" => (us'.redo <=> "INITIAL_READ10" \in us.fflags) /\ Probe!Settled
        /\ probe_at = "usb_stor_probe2" /\ probe_at' \in {"BadDevice", "oops: endpoint", "acquire"}
        /\ UNCHANGED <<intf, quirks, threads>>
    BY <1>6 DEF Probe!Probe2, ProbeInv, Fields
  <2> QED  BY <2>1, <2>2, <2>3, <2>4 DEF Probe!Settled, ProbeInv, Lun
<1>7. CASE Probe!AcquireResources
  <2>1. Fields(us')  BY <1>7 DEF Probe!AcquireResources, ProbeInv, Fields
  <2>2. /\ us'.fflags = us.fflags /\ us'.transport = us.transport /\ us'.handler = us.handler
        /\ us'.max_lun = us.max_lun /\ us'.redo = us.redo
    BY <1>7 DEF Probe!AcquireResources, ProbeInv, Fields
  <2>3. Probe!QuirksDecide'  BY <1>7, <2>2, StillDecided DEF Probe!AcquireResources, Probe!Unread
  <2> QED  BY <1>7, <2>1, <2>2, <2>3 DEF Probe!AcquireResources, Probe!Settled, ProbeInv, Lun
<1>8. CASE Probe!AddHost
  BY <1>8 DEF Probe!AddHost, Probe!Settled, Probe!QuirksDecide, Probe!Unread, ProbeInv, Lun
<1>9. CASE UNCHANGED Probe!probeVars
  BY <1>9 DEF Probe!probeVars, Probe!Settled, Probe!QuirksDecide, ProbeInv, Lun
<1> QED  BY <1>1, <1>2, <1>3, <1>4, <1>5, <1>6, <1>7, <1>8, <1>9 DEF Probe!Next

LEMMA ProbeCorrect == ASSUME ProbeConstants PROVE Probe!Spec => []HostIsAsProbed
<1>1. Probe!Init => ProbeInv  BY ProbeInit
<1>2. ProbeInv /\ [Probe!Next]_Probe!probeVars => ProbeInv'  BY ProbeStep
<1>3. ProbeInv => HostIsAsProbed
  BY DEF ProbeInv, HostIsAsProbed, Probe!HostAsAsked, Probe!Settled, Passed, Lun
<1> QED  BY <1>1, <1>2, <1>3, PTL DEF Probe!Spec

-----------------------------------------------------------------------------
(* The PCI Ethernet driver *)

PciConstants ==
  /\ NUM_TX_DESC \in Nat \ {0} /\ RX_BUF_LEN \in Nat \ {0} /\ RxSizes \subseteq Nat

NetTypes ==
  /\ queue \in {"started", "stopped"} /\ cur_tx \in Nat /\ dirty_tx \in Net!Descriptors /\ tx_done \in Nat
  /\ tsd \in [Net!Descriptors -> {"reset", "given", "TxStatOK", "TxAborted"}]
  /\ xmit \in {"idle", "kick", "bump", "compare", "stop"} /\ irqpc \in {"idle", "ack", "tx", "rx"}
  /\ cur_rx \in Nat /\ net_at \in 0 .. RX_BUF_LEN - 1
  /\ ring \in Seq([at : 0 .. RX_BUF_LEN - 1, size : RxSizes])

\* Until the last descriptor was used, those before dirty_tx are finished and
\* those from cur_tx on have not been touched; nobody sends into a stopped queue.
Sending ==
  /\ xmit # "idle" => up /\ queue = "started"
  /\ up /\ cur_tx < NUM_TX_DESC =>
       /\ tx_done = dirty_tx /\ dirty_tx <= cur_tx
       /\ \A d \in 0 .. dirty_tx - 1 : Net!Finished(d)
       /\ \A d \in Net!Descriptors : d > cur_tx \/ (d = cur_tx /\ xmit # "bump") => tsd[d] = "reset"

\* A bit that brings a stored frame back is pending, in the handler's copy or
\* lost between the two accesses.
Signalled ==
  up /\ ring # <<>> =>
    \/ "RxOK" \in isr \/ "RxOK" \in net_lost
    \/ irqpc \in {"tx", "rx"} /\ "RxOK" \in seen

After(f) == Net!Align(f.at + f.size + 4 + 3) % RX_BUF_LEN

\* Each frame lies where the one before it ends, the first where the driver
\* reads next.
Linked ==
  /\ \A k \in 1 .. Len(ring) - 1 : ring[k + 1].at = After(ring[k])
  /\ ring = <<>> => net_at = cur_rx % RX_BUF_LEN
  /\ ring # <<>> => ring[1].at = cur_rx % RX_BUF_LEN /\ net_at = After(ring[Len(ring)])
  /\ Net!RxInStep

NetInv == NetTypes /\ Sending /\ Signalled /\ Linked /\ Net!FailedProbeHoldsNothing

LEMMA Aligned == ASSUME PciConstants, NEW n \in Nat PROVE Net!Align(n) \in Nat /\ Net!Align(n) % RX_BUF_LEN \in 0 .. RX_BUF_LEN - 1
<1>1. n % 4 \in 0 .. 3 /\ n % 4 <= n  OBVIOUS
<1>2. Net!Align(n) \in Nat  BY <1>1 DEF Net!Align
<1> QED  BY <1>2, Remainder DEF PciConstants

LEMMA Numbers ==
  ASSUME PciConstants
  PROVE  (\A a \in 0 .. RX_BUF_LEN - 1 : a \in Nat) /\ (\A n \in RxSizes : n \in Nat)
BY DEF PciConstants

LEMMA AfterType ==
  ASSUME PciConstants, NEW f \in [at : 0 .. RX_BUF_LEN - 1, size : RxSizes]
  PROVE  After(f) \in 0 .. RX_BUF_LEN - 1
<1>0. f.at \in 0 .. RX_BUF_LEN - 1 /\ f.size \in RxSizes  OBVIOUS
<1>1. f.at \in Nat /\ f.size \in Nat  BY <1>0, Numbers, Zenon
<1>2. f.at + f.size + 4 + 3 \in Nat  BY <1>1
<1> QED  BY <1>2, Aligned DEF After

LEMMA Small == ASSUME NEW d \in Nat \ {0}, NEW n \in 0 .. d - 1 PROVE n % d = n
OBVIOUS

LEMMA NetInit == ASSUME PciConstants, Net!Init PROVE NetInv
<1>1. 0 % RX_BUF_LEN = 0  BY Small DEF PciConstants
<1>2. NetTypes  BY DEF Net!Init, NetTypes, PciConstants, Net!Descriptors
<1>3. Sending  BY DEF Net!Init, Sending, Net!Descriptors
<1>4. Signalled  BY DEF Net!Init, Signalled
<1>5. Linked  BY <1>1 DEF Net!Init, Linked, Net!RxInStep
<1>6. Net!FailedProbeHoldsNothing  BY DEF Net!Init, Net!FailedProbeHoldsNothing
<1> QED  BY <1>2, <1>3, <1>4, <1>5, <1>6 DEF NetInv

\* Behind the last frame, or where the driver reads next.
LEMMA Received ==
  ASSUME PciConstants, NetInv, NEW size \in RxSizes,
         ring' = Append(ring, [at |-> net_at, size |-> size]),
         net_at' = Net!Align(net_at + size + 4 + 3) % RX_BUF_LEN,
         UNCHANGED <<cur_rx, misread>>
  PROVE  Linked' /\ net_at' \in 0 .. RX_BUF_LEN - 1 /\ ring' \in Seq([at : 0 .. RX_BUF_LEN - 1, size : RxSizes])
<1> DEFINE f == [at |-> net_at, size |-> size]
           R == [at : 0 .. RX_BUF_LEN - 1, size : RxSizes]
           n == Len(ring)
<1>1. f \in R /\ ring \in Seq(R) /\ n \in Nat  BY DEF NetInv, NetTypes
<1>2. net_at' = After(f)  BY DEF After
<1>3. After(f) \in 0 .. RX_BUF_LEN - 1  BY <1>1, AfterType
<1> HIDE DEF f, R
<1>4. /\ ring' \in Seq(R) /\ Len(ring') = n + 1 /\ ring' # <<>> /\ ring'[n + 1] = f
      /\ \A k \in 1 .. n : ring'[k] = ring[k]
  BY <1>1 DEF f
<1>5. f.at = net_at  BY DEF f
<1>6. ring = <<>> => n = 0  OBVIOUS
<1>7. ring # <<>> => n >= 1  BY <1>1
<1>8. \A k \in 1 .. Len(ring') - 1 : ring'[k + 1].at = After(ring'[k])
  <2> SUFFICES ASSUME NEW k \in 1 .. n PROVE ring'[k + 1].at = After(ring'[k])
    BY <1>4
  <2>1. CASE k < n
    <3>1. k \in 1 .. n - 1 /\ k + 1 \in 1 .. n  BY <1>1, <2>1
    <3>2. ring[k + 1].at = After(ring[k])  BY <3>1 DEF NetInv, Linked
    <3> QED  BY <1>4, <3>1, <3>2
  <2>2. CASE k = n
    <3>1. ring # <<>>  BY <1>6, <2>2
    <3>2. net_at = After(ring[n])  BY <3>1 DEF NetInv, Linked
    <3> QED  BY <1>4, <1>5, <2>2, <3>2
  <2> QED  BY <1>1, <2>1, <2>2
<1>9. ring'[1].at = cur_rx' % RX_BUF_LEN
  <2>1. CASE ring = <<>>  BY <1>4, <1>5, <1>6, <2>1 DEF NetInv, Linked
  <2>2. CASE ring # <<>>  BY <1>1, <1>4, <1>7, <2>2 DEF NetInv, Linked
  <2> QED  BY <2>1, <2>2
<1>10. Net!RxInStep'  BY DEF NetInv, Linked, Net!RxInStep
<1>11. net_at' = After(ring'[Len(ring')])  BY <1>1, <1>2, <1>4
<1> QED  BY <1>2, <1>3, <1>4, <1>8, <1>9, <1>10, <1>11 DEF Linked, R

\* The position that is read is where the first frame lies, or the ring's end.
LEMMA Positioned ==
  ASSUME PciConstants, NetInv, ring # <<>>, Net!Position # Head(ring).at
  PROVE  cur_rx = RX_BUF_LEN
<1>1. Head(ring).at = cur_rx % RX_BUF_LEN  BY DEF NetInv, NetTypes, Linked
<1>2. CASE cur_rx < RX_BUF_LEN
  <2>1. cur_rx \in 0 .. RX_BUF_LEN - 1  BY <1>2 DEF NetInv, NetTypes, PciConstants
  <2>2. cur_rx % RX_BUF_LEN = cur_rx  BY <2>1, Small DEF PciConstants
  <2> QED  BY <1>1, <1>2, <2>2 DEF Net!Position, PciConstants, NetInv, NetTypes
<1>3. CASE cur_rx > RX_BUF_LEN  BY <1>1, <1>3 DEF Net!Position
<1> QED  BY <1>2, <1>3 DEF PciConstants, NetInv, NetTypes

LEMMA Consumed ==
  ASSUME PciConstants, NetInv, ring # <<>>, Net!Position = Head(ring).at, ring' = Tail(ring),
         cur_rx' = Net!Align(Net!Position + Head(ring).size + 4 + 3), UNCHANGED net_at, misread' = FALSE
  PROVE  Linked' /\ cur_rx' \in Nat /\ ring' \in Seq([at : 0 .. RX_BUF_LEN - 1, size : RxSizes])
<1> DEFINE R == [at : 0 .. RX_BUF_LEN - 1, size : RxSizes]
           n == Len(ring)
           f == ring[1]
<1>1. ring \in Seq(R) /\ n \in Nat \ {0}  BY DEF NetInv, NetTypes
<1>2. f \in R /\ f = Head(ring)
  <2> HIDE DEF R
  <2> QED  BY <1>1
<1>3. f.at \in Nat /\ f.size \in Nat
  <2>1. f.at \in 0 .. RX_BUF_LEN - 1 /\ f.size \in RxSizes  BY <1>2
  <2> QED  BY <2>1, Numbers, Zenon
<1>4. cur_rx' \in Nat
  <2>1. f.at + f.size + 4 + 3 \in Nat  BY <1>3
  <2> QED  BY <1>2, <2>1, Aligned
<1>5. cur_rx' % RX_BUF_LEN = After(f)  BY <1>2 DEF After
<1> HIDE DEF R, f
<1>6. /\ ring' \in Seq(R) /\ Len(ring') = n - 1
      /\ \A k \in 1 .. n - 1 : ring'[k] = ring[k + 1]
  BY <1>1
<1>7. \A k \in 1 .. Len(ring') - 1 : ring'[k + 1].at = After(ring'[k])
  <2> SUFFICES ASSUME NEW k \in 1 .. n - 2 PROVE ring'[k + 1].at = After(ring'[k])
    BY <1>1, <1>6
  <2>1. k + 1 \in 1 .. n - 1 /\ k \in 1 .. n - 1  BY <1>1
  <2>2. ring[(k + 1) + 1].at = After(ring[k + 1])  BY <2>1 DEF NetInv, Linked
  <2> QED  BY <1>6, <2>1, <2>2
<1>8. CASE n = 1
  <2>1. ring' = <<>>  BY <1>6, <1>8
  <2>2. net_at' = cur_rx' % RX_BUF_LEN  BY <1>5, <1>8 DEF NetInv, Linked, f
  <2> QED  BY <1>4, <1>6, <1>7, <2>1, <2>2 DEF Linked, Net!RxInStep, R
<1>9. CASE n > 1
  <2>1. ring' # <<>>
    <3>1. Len(ring') # 0  BY <1>1, <1>6, <1>9
    <3> QED  BY <3>1
  <2>2. 1 \in 1 .. n - 1 /\ n - 1 \in 1 .. n - 1 /\ (n - 1) + 1 = n  BY <1>1, <1>9
  <2>3. ring'[1].at = cur_rx' % RX_BUF_LEN
    <3>1. ring[1 + 1].at = After(ring[1])  BY <2>2 DEF NetInv, Linked
    <3> QED  BY <1>5, <1>6, <2>2, <3>1 DEF f
  <2>4. net_at' = After(ring'[Len(ring')])  BY <1>6, <2>2 DEF NetInv, Linked
  <2> QED  BY <1>4, <1>6, <1>7, <2>1, <2>3, <2>4 DEF Linked, Net!RxInStep, R
<1>10. n = 1 \/ n > 1
  <2> HIDE DEF n
  <2> QED  BY <1>1
<1> QED  BY <1>8, <1>9, <1>10

\* What an action has to leave alone for each part to hold on.
LEMMA Still ==
  ASSUME NetInv
  PROVE  /\ UNCHANGED <<ring, net_at, cur_rx, misread>> => Linked'
         /\ UNCHANGED <<up, cur_tx, dirty_tx, tx_done, queue, tsd, xmit>> => Sending'
         /\ UNCHANGED net_held => Net!FailedProbeHoldsNothing'
<1>1. UNCHANGED <<ring, net_at, cur_rx, misread>> => Linked'  BY DEF NetInv, Linked, Net!RxInStep, After
<1>2. UNCHANGED <<up, cur_tx, dirty_tx, tx_done, queue, tsd, xmit>> => Sending'
  BY DEF NetInv, Sending, Net!Finished
<1>3. UNCHANGED net_held => Net!FailedProbeHoldsNothing'  BY DEF NetInv, Net!FailedProbeHoldsNothing
<1> QED  BY <1>1, <1>2, <1>3

LEMMA NetStep == ASSUME PciConstants, NetInv, [Net!Next]_Net!rtl8139Vars PROVE NetInv'
<1> USE DEF NetInv, Net!Runs
<1> USE DEF Net!pciVars, Net!txVars, Net!rxVars, Net!irqVars
<1>1. CASE Net!Probe
  <2>1. Net!FailedProbeHoldsNothing'  BY <1>1 DEF Net!Probe, Net!Undo, Net!FailedProbeHoldsNothing
  <2>2. UNCHANGED <<up, queue, cur_tx, dirty_tx, tsd, xmit, tx_done, cur_rx, net_at, ring, misread, isr, irqpc, seen, net_lost>>
    BY <1>1 DEF Net!Probe
  <2>3. NetTypes' /\ Sending' /\ Linked'  BY <2>2, Still DEF NetTypes
  <2> QED  BY <2>1, <2>2, <2>3 DEF Signalled
<1>2. CASE Net!Remove
  BY <1>2 DEF Net!Remove, Net!FailedProbeHoldsNothing, NetTypes, Sending, Net!Finished, Signalled, Linked, Net!RxInStep
<1>3. CASE Net!Open
  <2>1. CASE up' = up
    BY <1>3, <2>1 DEF Net!Open, Net!FailedProbeHoldsNothing, NetTypes, Sending, Net!Finished, Signalled, Linked, Net!RxInStep
  <2>2. CASE up' # up
    <3>0. /\ net_held' = net_held \cup {"irq"} /\ up' = TRUE /\ queue' = "started"
          /\ cur_rx' = 0 /\ dirty_tx' = 0 /\ cur_tx' = 0 /\ tx_done' = 0
          /\ ring' = <<>> /\ net_at' = 0 /\ tsd' = [d \in Net!Descriptors |-> "reset"]
          /\ UNCHANGED <<xmit, irqpc, misread>> /\ ~up /\ ~misread
      BY <1>3, <2>2 DEF Net!Open
    <3>1. 0 % RX_BUF_LEN = 0  BY Small DEF PciConstants
    <3>2. NetTypes'  BY <3>0 DEF NetTypes, PciConstants, Net!Descriptors
    <3>3. Sending'  BY <3>0 DEF Sending, Net!Descriptors
    <3>4. Signalled'  BY <3>0 DEF Signalled
    <3>5. Linked'  BY <3>0, <3>1 DEF Linked, Net!RxInStep
    <3>6. Net!FailedProbeHoldsNothing'  BY <3>0 DEF Net!FailedProbeHoldsNothing
    <3> QED  BY <3>2, <3>3, <3>4, <3>5, <3>6
  <2> QED  BY <2>1, <2>2
<1>4. CASE Net!StopChip
  BY <1>4 DEF Net!StopChip, Net!FailedProbeHoldsNothing, NetTypes, Sending, Net!Finished, Signalled, Linked, Net!RxInStep
<1>5. CASE Net!StopFree
  BY <1>5 DEF Net!StopFree, Net!FailedProbeHoldsNothing, NetTypes, Sending, Net!Finished, Signalled, Linked, Net!RxInStep
<1>6. CASE Net!Copy
  <2>1. /\ UNCHANGED <<net_held, up, queue, cur_tx, dirty_tx, tsd, tx_done, cur_rx, net_at, ring, misread>>
        /\ UNCHANGED <<isr, irqpc, seen, net_lost>> /\ up /\ queue = "started" /\ xmit' = "kick" /\ xmit = "idle"
    BY <1>6 DEF Net!Copy
  <2>2. NetTypes' /\ Linked' /\ Net!FailedProbeHoldsNothing'  BY <2>1, Still DEF NetTypes
  <2>3. Sending'  BY <2>1 DEF Sending, Net!Finished
  <2>4. Signalled'  BY <2>1 DEF Signalled
  <2> QED  BY <2>2, <2>3, <2>4
<1>7. CASE Net!Kick
  <2>1. Net!Entry \in Net!Descriptors  BY Remainder DEF Net!Entry, Net!Descriptors, NetTypes, PciConstants
  <2>2. cur_tx < NUM_TX_DESC => Net!Entry = cur_tx
    <3> SUFFICES ASSUME cur_tx < NUM_TX_DESC PROVE Net!Entry = cur_tx
      OBVIOUS
    <3>1. cur_tx \in 0 .. NUM_TX_DESC - 1  BY DEF NetTypes, PciConstants
    <3> QED  BY <3>1, Small DEF Net!Entry, PciConstants
  <2>3. NetTypes'  BY <1>7, <2>1 DEF Net!Kick, NetTypes
  <2>4. Sending'  BY <1>7, <2>1, <2>2 DEF Net!Kick, Sending, NetTypes, Net!Finished, Net!Descriptors, PciConstants
  <2>5. UNCHANGED <<net_held, up, ring, net_at, cur_rx, misread, irqpc, seen, net_lost>> /\ isr \subseteq isr'
    BY <1>7 DEF Net!Kick
  <2>6. Linked' /\ Net!FailedProbeHoldsNothing'  BY <2>5, Still
  <2>7. Signalled'  BY <2>5 DEF Signalled
  <2> QED  BY <2>3, <2>4, <2>6, <2>7
<1>8. CASE Net!Bump
  <2>1. NetTypes'  BY <1>8 DEF Net!Bump, NetTypes
  <2>2. Sending'  BY <1>8 DEF Net!Bump, Sending, NetTypes, Net!Finished, Net!Descriptors, PciConstants
  <2>5. UNCHANGED <<net_held, up, ring, net_at, cur_rx, misread, irqpc, seen, net_lost>> /\ isr \subseteq isr'
    BY <1>8 DEF Net!Bump
  <2>6. Linked' /\ Net!FailedProbeHoldsNothing'  BY <2>5, Still
  <2>7. Signalled'  BY <2>5 DEF Signalled
  <2> QED  BY <2>1, <2>2, <2>6, <2>7
<1>9. CASE Net!Send
  <2>1. PICK d \in Net!Descriptors : /\ tsd[d] = "given"
                                     /\ \E x \in {"TxStatOK", "TxAborted"} : tsd' = [tsd EXCEPT ![d] = x]
                                     /\ isr \subseteq isr'
    BY <1>9 DEF Net!Send, Net!Raise
  <2>2. NetTypes'  BY <1>9, <2>1 DEF Net!Send, NetTypes
  <2>3. Sending'  BY <1>9, <2>1 DEF Net!Send, Sending, NetTypes, Net!Finished, Net!Descriptors, PciConstants
  <2>5. UNCHANGED <<net_held, up, ring, net_at, cur_rx, misread, irqpc, seen, net_lost>> /\ isr \subseteq isr'
    BY <1>9, <2>1 DEF Net!Send
  <2>6. Linked' /\ Net!FailedProbeHoldsNothing'  BY <2>5, Still
  <2>7. Signalled'  BY <2>5 DEF Signalled
  <2> QED  BY <2>1, <2>2, <2>3, <2>6, <2>7
<1>10. CASE Net!Receive
  <2>1. PICK size \in RxSizes : /\ ring' = Append(ring, [at |-> net_at, size |-> size])
                                /\ net_at' = Net!Align(net_at + size + 4 + 3) % RX_BUF_LEN
    BY <1>10 DEF Net!Receive
  <2>2. UNCHANGED <<cur_rx, misread>> /\ "RxOK" \in isr'  BY <1>10 DEF Net!Receive, Net!Raise
  <2>3. Linked' /\ net_at' \in 0 .. RX_BUF_LEN - 1 /\ ring' \in Seq([at : 0 .. RX_BUF_LEN - 1, size : RxSizes])
    BY <2>1, <2>2, Received
  <2>4. NetTypes'  BY <1>10, <2>3 DEF Net!Receive, NetTypes
  <2> QED  BY <1>10, <2>2, <2>3, <2>4 DEF Net!Receive, Net!FailedProbeHoldsNothing, Signalled, Sending, Net!Finished
<1>11. CASE Net!Read
  <2>1. UNCHANGED <<net_held, up, queue, cur_tx, dirty_tx, tsd, xmit, tx_done, cur_rx, net_at, ring, misread>> /\ irqpc' = "ack"
    BY <1>11 DEF Net!Read
  <2>2. NetTypes' /\ Sending' /\ Linked' /\ Net!FailedProbeHoldsNothing'  BY <2>1, Still DEF NetTypes
  <2>3. Signalled'  BY <1>11, <2>1 DEF Net!Read, Signalled, NetTypes
  <2> QED  BY <2>2, <2>3
<1>12. CASE Net!Ack
  <2>1. UNCHANGED <<net_held, up, queue, cur_tx, dirty_tx, tsd, xmit, tx_done, cur_rx, net_at, ring, misread>> /\ irqpc' \in {"idle", "tx"}
    BY <1>12 DEF Net!Ack
  <2>2. NetTypes' /\ Sending' /\ Linked' /\ Net!FailedProbeHoldsNothing'  BY <2>1, Still DEF NetTypes
  <2>3. Signalled'  BY <1>12, <2>1 DEF Net!Ack, Signalled, NetTypes
  <2> QED  BY <2>2, <2>3
<1>13. CASE Net!TxLoop
  <2>1. CASE irqpc' = "tx"
    <3>1. /\ dirty_tx # cur_tx \/ queue = "stopped"
          /\ Net!Finished(dirty_tx) /\ tx_done' = tx_done + 1
          /\ dirty_tx' = (dirty_tx + 1) % NUM_TX_DESC
          /\ queue' = IF dirty_tx' = cur_tx /\ queue = "stopped" THEN "started" ELSE queue
          /\ UNCHANGED <<net_held, up, irqpc, cur_tx, tsd, xmit, cur_rx, net_at, ring, misread, isr, seen, net_lost>>
      BY <1>13, <2>1 DEF Net!TxLoop
    <3>2. dirty_tx' \in Net!Descriptors  BY <3>1, Remainder DEF NetTypes, Net!Descriptors, PciConstants
    <3>3. up /\ cur_tx < NUM_TX_DESC => dirty_tx' = dirty_tx + 1 /\ dirty_tx + 1 <= cur_tx
      <4> SUFFICES ASSUME up, cur_tx < NUM_TX_DESC PROVE dirty_tx' = dirty_tx + 1 /\ dirty_tx + 1 <= cur_tx
        OBVIOUS
      <4>0. dirty_tx = cur_tx => queue = "started"
        <5>1. dirty_tx = cur_tx => tsd[cur_tx] # "reset"  BY <3>1 DEF Net!Finished
        <5> QED  BY <5>1 DEF Sending, NetTypes, Net!Descriptors
      <4>1. dirty_tx < cur_tx  BY <3>1, <4>0 DEF Sending, NetTypes, Net!Descriptors
      <4>2. dirty_tx + 1 \in 0 .. NUM_TX_DESC - 1  BY <4>1 DEF NetTypes, Net!Descriptors, PciConstants
      <4>3. (dirty_tx + 1) % NUM_TX_DESC = dirty_tx + 1  BY <4>2, Small DEF PciConstants
      <4> QED  BY <3>1, <4>1, <4>3 DEF NetTypes, Net!Descriptors
    <3>4. NetTypes'  BY <3>1, <3>2 DEF NetTypes
    <3>5. Sending'
      <4>1. up' /\ cur_tx' < NUM_TX_DESC => \A d \in 0 .. dirty_tx' - 1 : d \in 0 .. dirty_tx - 1 \/ d = dirty_tx
        BY <3>1, <3>3 DEF NetTypes, Net!Descriptors
      <4> QED  BY <3>1, <3>3, <4>1 DEF Sending, NetTypes, Net!Finished
    <3> QED  BY <3>1, <3>4, <3>5 DEF Net!FailedProbeHoldsNothing, Signalled, Linked, Net!RxInStep
  <2>2. CASE irqpc' # "tx"
    <3>1. /\ UNCHANGED <<net_held, up, queue, cur_tx, dirty_tx, tsd, xmit, tx_done, cur_rx, net_at, ring, misread>>
          /\ UNCHANGED <<isr, seen, net_lost>> /\ irqpc = "tx" /\ irqpc' = "rx"
      BY <1>13, <2>2 DEF Net!TxLoop
    <3>2. NetTypes' /\ Sending' /\ Linked' /\ Net!FailedProbeHoldsNothing'  BY <3>1, Still DEF NetTypes
    <3> QED  BY <2>2, <3>1, <3>2 DEF Signalled
  <2> QED  BY <2>1, <2>2
<1>14. CASE Net!RxLoop
  <2>1. CASE "RxOK" \notin seen \/ ring = <<>>
    <3>1. /\ UNCHANGED <<net_held, up, queue, cur_tx, dirty_tx, tsd, xmit, tx_done, cur_rx, net_at, ring, misread>>
          /\ UNCHANGED <<isr, seen, net_lost>> /\ irqpc = "rx" /\ irqpc' = "idle"
      BY <1>14, <2>1 DEF Net!RxLoop
    <3>2. NetTypes' /\ Sending' /\ Linked' /\ Net!FailedProbeHoldsNothing'  BY <3>1, Still DEF NetTypes
    <3> QED  BY <2>1, <3>1, <3>2 DEF Signalled
  <2>2. CASE ~("RxOK" \notin seen \/ ring = <<>>)
    <3>0. /\ irqpc = "rx" /\ irqpc' = "rx" /\ "RxOK" \in seen /\ ring # <<>>
          /\ UNCHANGED <<net_held, up, queue, cur_tx, dirty_tx, tsd, xmit, tx_done, net_at, isr, seen, net_lost>>
      BY <1>14, <2>2 DEF Net!RxLoop, Net!AfterFrame
    <3>1. /\ oops' = (bufs = "freed") /\ misread' = (bufs # "freed" /\ Net!Position # Head(ring).at)
          /\ IF oops' \/ misread' THEN UNCHANGED <<cur_rx, ring>>
             ELSE /\ cur_rx' = Net!Align(Net!Position + Head(ring).size + 4 + 3) /\ ring' = Tail(ring)
      BY <1>14, <2>2 DEF Net!RxLoop
    <3>2. Linked' /\ cur_rx' \in Nat /\ ring' \in Seq([at : 0 .. RX_BUF_LEN - 1, size : RxSizes])
      <4>1. CASE oops' \/ misread'
        <5>1. UNCHANGED <<cur_rx, ring>>  BY <3>1, <4>1
        <5>2. misread' => Net!Position # Head(ring).at  BY <3>1
        <5>3. Net!RxInStep'  BY <3>0, <5>1, <5>2, Positioned DEF Net!RxInStep
        <5> QED  BY <3>0, <5>1, <5>3 DEF Linked, NetTypes
      <4>2. CASE ~oops' /\ ~misread'
        <5>1. Net!Position = Head(ring).at /\ misread' = FALSE  BY <3>1, <4>2
        <5>2. cur_rx' = Net!Align(Net!Position + Head(ring).size + 4 + 3) /\ ring' = Tail(ring)  BY <3>1, <4>2
        <5> QED  BY <3>0, <5>1, <5>2, Consumed
      <4> QED  BY <4>1, <4>2
    <3>3. NetTypes'  BY <3>0, <3>2 DEF NetTypes
    <3> QED  BY <3>0, <3>2, <3>3 DEF Net!FailedProbeHoldsNothing, Sending, Net!Finished, Signalled
  <2> QED  BY <2>1, <2>2
<1>15. CASE UNCHANGED Net!rtl8139Vars
  <2>1. UNCHANGED <<net_held, up, queue, cur_tx, dirty_tx, tsd, xmit, tx_done, cur_rx, net_at, ring, misread>> /\ UNCHANGED <<isr, irqpc, seen, net_lost>>
    BY <1>15 DEF Net!rtl8139Vars
  <2>2. NetTypes' /\ Sending' /\ Linked' /\ Net!FailedProbeHoldsNothing'  BY <2>1, Still DEF NetTypes
  <2> QED  BY <2>1, <2>2 DEF Signalled
<1>16. CASE Net!Compare
  <2>1. /\ UNCHANGED <<net_held, up, queue, cur_tx, dirty_tx, tsd, tx_done, cur_rx, net_at, ring, misread>>
        /\ UNCHANGED <<isr, irqpc, seen, net_lost>> /\ xmit = "compare" /\ xmit' \in {"idle", "stop"}
    BY <1>16 DEF Net!Compare
  <2>2. NetTypes' /\ Linked' /\ Net!FailedProbeHoldsNothing'  BY <2>1, Still DEF NetTypes
  <2>3. Sending'  BY <2>1 DEF Sending, Net!Finished
  <2>4. Signalled'  BY <2>1 DEF Signalled
  <2> QED  BY <2>2, <2>3, <2>4
<1>17. CASE Net!StopQueue
  <2>1. /\ UNCHANGED <<net_held, up, cur_tx, dirty_tx, tsd, tx_done, cur_rx, net_at, ring, misread>>
        /\ UNCHANGED <<isr, irqpc, seen, net_lost>> /\ xmit = "stop" /\ xmit' = "idle" /\ queue' = "stopped"
    BY <1>17 DEF Net!StopQueue
  <2>2. NetTypes' /\ Linked' /\ Net!FailedProbeHoldsNothing'  BY <2>1, Still DEF NetTypes
  <2>3. Sending'  BY <2>1 DEF Sending, Net!Finished
  <2>4. Signalled'  BY <2>1 DEF Signalled
  <2> QED  BY <2>2, <2>3, <2>4
<1> QED
  BY <1>1, <1>2, <1>3, <1>4, <1>5, <1>6, <1>7, <1>8, <1>9, <1>10, <1>11, <1>12, <1>13, <1>14, <1>15,
     <1>16, <1>17
  DEF Net!Next, Net!Xmit, Net!Chip, Net!Handler

\* netdev_start_xmit(), interrupt_method(), my_pci_probe(): for any number of
\* descriptors and any size of the ring.
LEMMA NetCorrect ==
  ASSUME PciConstants
  PROVE  Net!Spec => [](FramesAccounted /\ Net!FailedProbeHoldsNothing)
<1>1. Net!Init => NetInv  BY NetInit
<1>2. NetInv /\ [Net!Next]_Net!rtl8139Vars => NetInv'  BY NetStep
<1>3. ASSUME NetInv PROVE FramesAccounted /\ Net!FailedProbeHoldsNothing
  <2>1. Net!TxCountedOnce  BY <1>3 DEF NetInv, NetTypes, Sending, Net!TxCountedOnce, Net!Finished
  <2>2. Net!NoFrameForgotten  BY <1>3 DEF NetInv, Signalled, Net!NoFrameForgotten
  <2> QED  BY <1>3, <2>1, <2>2 DEF NetInv, Linked, FramesAccounted
<1> QED  BY <1>1, <1>2, <1>3, PTL DEF Net!Spec

-----------------------------------------------------------------------------
(* Types: what TypeOK of a part says beyond its invariant *)

\* The namespaces have an index each.
Indexed ==
  /\ nsid \in Nat \ {0} /\ nsid <= NN + 1
  /\ ns = [n \in DOMAIN ns |-> ns[n]] /\ DOMAIN ns \subseteq 1 .. nsid - 1
  /\ ida = {ns[n] : n \in DOMAIN ns} /\ ida \subseteq 0 .. NN
  /\ \A m, n \in DOMAIN ns : ns[m] = ns[n] => m = n
  /\ disks \subseteq DOMAIN ns /\ Cardinality(ida) = Cardinality(DOMAIN ns)

SetupTyped == queues \in [0 .. CPUS -> -2 .. CPUS] /\ Indexed

LEMMA SetupTypedInit == ASSUME Init PROVE SetupTyped
<1> USE CpusAssumption DEF Init, NULL
<1>1. queues \in [0 .. CPUS -> -2 .. CPUS]  OBVIOUS
<1>2. DOMAIN ns = {} /\ ns = [n \in {} |-> ns[n]]  OBVIOUS
<1>3. ida = {} /\ ida = {ns[n] : n \in DOMAIN ns}  BY <1>2
<1> QED  BY <1>1, <1>2, <1>3 DEF SetupTyped, Indexed

LEMMA AllocIndexed == ASSUME Indexed, AllocNs PROVE Indexed'
<1> DEFINE free == (0 .. NN) \ ida
           index == Min(free)
           dom == DOMAIN ns
<1>0. NN \in Nat  BY CpusAssumption
<1>1. /\ nsid <= NN /\ nsid' = nsid + 1 /\ disks' = disks
      /\ ns' = [n \in dom \cup {nsid} |-> IF n = nsid THEN index ELSE ns[n]]
      /\ ida' = ida \cup {index}
  BY DEF AllocNs
<1>2. /\ nsid \in Nat \ {0} /\ dom \subseteq 1 .. nsid - 1 /\ ida = {ns[n] : n \in dom} /\ ida \subseteq 0 .. NN
      /\ \A m, n \in dom : ns[m] = ns[n] => m = n
      /\ disks \subseteq dom /\ Cardinality(ida) = Cardinality(dom)
  BY DEF Indexed
<1>3. IsFiniteSet(dom) /\ Cardinality(dom) <= nsid - 1 /\ Cardinality(dom) \in Nat
  <2>1. IsFiniteSet(1 .. nsid - 1) /\ Cardinality(1 .. nsid - 1) = nsid - 1
    <3>1. 1 \in Int /\ nsid - 1 \in Int /\ nsid - 1 >= 0  BY <1>2
    <3> QED  BY <3>1, FS_Interval
  <2> QED  BY <1>2, <2>1, FS_Subset, FS_CardinalityType
<1>4. IsFiniteSet(0 .. NN) /\ Cardinality(0 .. NN) = NN + 1
  <2>1. 0 \in Int /\ NN \in Int /\ 0 <= NN  BY <1>0
  <2> QED  BY <1>0, <2>1, FS_Interval
<1>5. IsFiniteSet(ida)  BY <1>2, <1>4, FS_Subset
<1>6. free # {}
  <2>1. ASSUME free = {} PROVE FALSE
    <3>1. ida = 0 .. NN  BY <1>2, <2>1
    <3>2. Cardinality(ida) = NN + 1  BY <1>4, <3>1, Zenon
    <3>3. Cardinality(dom) = NN + 1 /\ nsid \in Nat  BY <1>2, <3>2, Zenon
    <3> HIDE DEF dom
    <3> QED  BY <1>0, <1>1, <1>3, <3>3
  <2> QED  BY <2>1
<1>7. index \in free
  <2>1. free \in SUBSET Nat  BY <1>0
  <2>2. \E m \in free : \A k \in free : m <= k
    <3> HIDE DEF free
    <3> QED  BY <1>6, <2>1, Smallest
  <2> QED  BY <2>2 DEF Min
<1>8. index \in 0 .. NN /\ index \notin ida  BY <1>7
<1> HIDE DEF index
<1>9. nsid \notin dom  BY <1>2
<1>10. DOMAIN ns' = dom \cup {nsid} /\ ns' = [n \in DOMAIN ns' |-> ns'[n]]  BY <1>1
<1>11. ns'[nsid] = index /\ \A n \in dom : ns'[n] = ns[n]  BY <1>1, <1>9
<1>12. ida' = {ns'[n] : n \in DOMAIN ns'} /\ ida' \subseteq 0 .. NN
  <2>1. ida' = ida \cup {index}  BY <1>1
  <2>2. ida' \subseteq 0 .. NN  BY <1>2, <1>8, <2>1
  <2>3. DOMAIN ns' = dom \cup {nsid} /\ ida = {ns[n] : n \in dom}  BY <1>2, <1>10
  <2> HIDE DEF dom
  <2>4. {ns'[n] : n \in DOMAIN ns'} = ida \cup {index}  BY <1>11, <2>3
  <2> QED  BY <2>1, <2>2, <2>4
<1>13. \A m, n \in DOMAIN ns' : ns'[m] = ns'[n] => m = n
  <2>1. \A n \in dom : ns[n] # index  BY <1>2, <1>8
  <2> QED  BY <1>2, <1>10, <1>11, <2>1
<1>14. Cardinality(ida') = Cardinality(ida) + 1  BY <1>1, <1>5, <1>8, FS_AddElement
<1>15. Cardinality(DOMAIN ns') = Cardinality(dom) + 1  BY <1>3, <1>9, <1>10, FS_AddElement
<1>16. nsid' \in Nat \ {0} /\ nsid' <= NN + 1 /\ DOMAIN ns' \subseteq 1 .. nsid' - 1 /\ disks' \subseteq DOMAIN ns'
  BY <1>0, <1>1, <1>2, <1>10
<1> QED  BY <1>2, <1>10, <1>12, <1>13, <1>14, <1>15, <1>16 DEF Indexed

LEMMA FreeIndexed == ASSUME Indexed, FreeNs PROVE Indexed'
<1> DEFINE dom == DOMAIN ns
           n0 == Min(dom)
<1>1. /\ disks' = disks \ {n0} /\ ida' = ida \ {ns[n0]} /\ nsid' = nsid
      /\ ns' = [m \in dom \ {n0} |-> ns[m]] /\ ns # <<>>
  BY DEF FreeNs
<1>2. /\ nsid \in Nat \ {0} /\ nsid <= NN + 1 /\ dom \subseteq 1 .. nsid - 1
      /\ ns = [n \in dom |-> ns[n]] /\ ida = {ns[n] : n \in dom} /\ ida \subseteq 0 .. NN
      /\ \A m, n \in dom : ns[m] = ns[n] => m = n
      /\ disks \subseteq dom /\ Cardinality(ida) = Cardinality(dom)
  BY DEF Indexed
<1>3. dom # {}
  <2>1. ASSUME dom = {} PROVE FALSE
    <3>1. ns = [i \in {} |-> ns[i]] /\ <<>> = [i \in {} |-> <<>>[i]]  BY <1>2, <2>1
    <3> QED  BY <1>1, <3>1
  <2> QED  BY <2>1
<1>4. n0 \in dom
  <2>1. dom \in SUBSET Nat  BY <1>2
  <2>2. \E m \in dom : \A k \in dom : m <= k
    <3> HIDE DEF dom
    <3> QED  BY <1>3, <2>1, Smallest
  <2> QED  BY <2>2 DEF Min
<1> HIDE DEF n0
<1>5. IsFiniteSet(dom)
  <2>1. 1 \in Int /\ nsid - 1 \in Int  BY <1>2
  <2>2. IsFiniteSet(1 .. nsid - 1)  BY <2>1, FS_Interval
  <2> QED  BY <1>2, <2>2, FS_Subset
<1>6. IsFiniteSet(ida)
  <2>1. 0 \in Int /\ NN \in Int  BY CpusAssumption
  <2>2. IsFiniteSet(0 .. NN)  BY <2>1, FS_Interval
  <2> QED  BY <1>2, <2>2, FS_Subset
<1>7. DOMAIN ns' = dom \ {n0} /\ \A m \in dom \ {n0} : ns'[m] = ns[m]  BY <1>1
<1>8. ida' = {ns'[n] : n \in DOMAIN ns'}
  <2>1. \A m \in dom : m # n0 => ns[m] # ns[n0]  BY <1>2, <1>4
  <2> QED  BY <1>1, <1>2, <1>4, <1>7, <2>1
<1>9. Cardinality(ida') = Cardinality(ida) - 1
  <2> DEFINE x == ns[n0]
  <2>1. x \in ida /\ ida' = ida \ {x}  BY <1>1, <1>2, <1>4
  <2> HIDE DEF x
  <2> QED  BY <1>6, <2>1, FS_RemoveElement
<1>10. Cardinality(DOMAIN ns') = Cardinality(dom) - 1  BY <1>4, <1>5, <1>7, FS_RemoveElement
<1>11. ns' = [n \in DOMAIN ns' |-> ns'[n]]  BY <1>1
<1> QED  BY <1>1, <1>2, <1>7, <1>8, <1>9, <1>10, <1>11 DEF Indexed

LEMMA SetupTypedStep == ASSUME SetupInv, SetupTyped, [Next]_setupVars PROVE SetupTyped'
<1>0. CPUS \in Nat /\ ONLINE \in 1 .. CPUS /\ NN \in Nat  BY CpusAssumption
<1>1. queues' \in [0 .. CPUS -> -2 .. CPUS]
  <2>1. queues \in [0 .. CPUS -> -2 .. CPUS] /\ qid \in 0 .. CPUS  BY DEF SetupTyped, SetupInv, SetupTypes
  <2>2. CASE queues' = [queues EXCEPT ![qid] = ERR]  BY <1>0, <2>1, <2>2 DEF ERR
  <2>3. CASE queues' = [queues EXCEPT ![qid] = qid]  BY <1>0, <2>1, <2>3
  <2>4. CASE queues' = [queues EXCEPT ![0] = 0]  BY <1>0, <2>1, <2>4
  <2>5. CASE Share
    <3>1. queue_count = nr + 1 /\ nr >= 1 /\ nr \in 0 .. ONLINE  BY <2>5 DEF Share, SetupInv, SetupTypes, Counted, Sharing
    <3> DEFINE n == queue_count - 1
    <3>2. n \in Nat \ {0} /\ n <= CPUS  BY <1>0, <3>1
    <3>3. RoundDown(n) \in 1 .. n
      <4> HIDE DEF n
      <4> QED  BY <3>2, Rounded
    <3>4. ASSUME NEW i \in 0 .. CPUS, i > nr PROVE Target(i - 1) + 1 \in 0 .. CPUS
      <4>1. i - 1 \in Nat /\ RoundDown(n) \in Nat \ {0}  BY <3>1, <3>2, <3>3, <3>4
      <4>2. (i - 1) % RoundDown(n) \in 0 .. RoundDown(n) - 1
        <5> DEFINE d == RoundDown(n)
                   k == i - 1
        <5>1. k \in Nat /\ d \in Nat \ {0}  BY <4>1
        <5> HIDE DEF d, k
        <5>2. k % d \in 0 .. d - 1  BY <5>1, Remainder
        <5> QED  BY <5>2 DEF d, k
      <4> DEFINE t == Target(i - 1)
      <4>3. t \in 0 .. RoundDown(n) - 1  BY <4>2 DEF Target
      <4> HIDE DEF t, n
      <4>4. t + 1 \in 0 .. CPUS  BY <1>0, <3>2, <3>3, <4>3
      <4> QED  BY <4>4 DEF t
    <3>5. queues' = [i \in 0 .. CPUS |-> IF i > nr THEN queues[Target(i - 1) + 1] ELSE queues[i]]  BY <2>5 DEF Share
    <3>6. \A i \in 0 .. CPUS : (IF i > nr THEN queues[Target(i - 1) + 1] ELSE queues[i]) \in -2 .. CPUS
      BY <2>1, <3>4
    <3> QED  BY <3>5, <3>6
  <2>6. queues' = queues \/ queues' = [queues EXCEPT ![qid] = ERR] \/ queues' = [queues EXCEPT ![qid] = qid]
        \/ queues' = [queues EXCEPT ![0] = 0] \/ Share
    BY DEF Next, setupVars, KthreadStart, KthreadNext, ConfigureAdminQueue, ListAdd, SetQueueCount, EnableMsix,
           CreateCq, CreateSq, RequestIrq, ReleaseSq, ReleaseCq, FreeNvmeq, Lost, Identify, SkipNs, AllocNs, AddDisks,
           ListDel, FreeNs, NsFreed, FreeIrq, DeleteSq, DeleteCq, FreeMemory, queueVars
  <2> QED  BY <2>1, <2>2, <2>3, <2>4, <2>5, <2>6
<1>2. Indexed'
  <2>1. CASE UNCHANGED nsVars  BY <2>1 DEF nsVars, SetupTyped, Indexed
  <2>2. CASE SkipNs  BY <1>0, <2>2 DEF SkipNs, SetupTyped, Indexed
  <2>3. CASE AllocNs  BY <2>3, AllocIndexed DEF SetupTyped
  <2>4. CASE AddDisks  BY <2>4 DEF AddDisks, SetupTyped, Indexed
  <2>5. CASE FreeNs  BY <2>5, FreeIndexed DEF SetupTyped
  <2>6. UNCHANGED nsVars \/ SkipNs \/ AllocNs \/ AddDisks \/ FreeNs
    BY DEF Next, setupVars, KthreadStart, KthreadNext, ConfigureAdminQueue, ListAdd, SetQueueCount, EnableMsix,
           CreateCq, CreateSq, RequestIrq, ReleaseSq, ReleaseCq, FreeNvmeq, Share, Identify,
           ListDel, NsFreed, FreeIrq, DeleteSq, DeleteCq, FreeMemory, nsVars
  <2> QED  BY <2>1, <2>2, <2>3, <2>4, <2>5, <2>6
<1> QED  BY <1>1, <1>2 DEF SetupTyped

LEMMA SetupTypeOK == Spec => []TypeOK
<1>1. Init => SetupInv /\ SetupTyped  BY SetupInit, SetupTypedInit
<1>2. (SetupInv /\ SetupTyped) /\ [Next]_setupVars => (SetupInv /\ SetupTyped)'
  BY SetupStep, SetupTypedStep
<1>3. SetupInv /\ SetupTyped => TypeOK  BY DEF SetupInv, SetupTypes, SetupTyped, Indexed, TypeOK
<1> QED  BY <1>1, <1>2, <1>3, PTL DEF Spec

-----------------------------------------------------------------------------

MmapTyped == fds \in 0 .. 3

LEMMA MmapTypeOK == ASSUME MmapConstants PROVE Mmap!Spec => []Mmap!TypeOK
<1>1. Mmap!Init => MmapInv /\ MmapTyped
  <2>1. Mmap!Init => MmapTyped  BY DEF Mmap!Init, MmapTyped
  <2> QED  BY <2>1, MmapInit
<1>2. (MmapInv /\ MmapTyped) /\ [Mmap!Next]_Mmap!mmapVars => (MmapInv /\ MmapTyped)'
  <2>1. ASSUME MmapTyped, [Mmap!Next]_Mmap!mmapVars PROVE MmapTyped'
    BY <2>1 DEF MmapTyped, Mmap!Next, Mmap!mmapVars, Mmap!MyOpen, Mmap!Close, Mmap!MyClose, Mmap!MyMmap,
                Mmap!MmapFault, Mmap!MmapClose, Mmap!MmapOpen
  <2> QED  BY <2>1, MmapNext
<1>3. MmapInv /\ MmapTyped => Mmap!TypeOK
  <2> SUFFICES ASSUME MmapInv, MmapTyped PROVE Mmap!TypeOK  OBVIOUS
  <2>1. Cardinality(HasPage) + (IF info THEN 1 ELSE 0) \in Nat  BY PagesCounted
  <2>2. page_count \in Nat  BY <2>1 DEF MmapInv
  <2> QED  BY <2>2 DEF MmapInv, MmapTyped, Mmap!TypeOK
<1> QED  BY <1>1, <1>2, <1>3, PTL DEF Mmap!Spec

\* Every flag is one of interest.
FlagConstants == Probe!Mask \subseteq Flags /\ \A d \in Devices : d.driver_info \subseteq Flags

ProbeTyped == threads \in 0 .. 1 /\ us.fflags \subseteq Flags /\ us.max_lun \in {0, 7}

LEMMA ProbeTypedStep ==
  ASSUME ProbeConstants, FlagConstants, ProbeInv, ProbeTyped, [Probe!Next]_Probe!probeVars PROVE ProbeTyped'
<1>1. CASE Probe!GetDeviceInfo
  <2> DEFINE fflags == Probe!adjust_quirks(intf.driver_info)
  <2>1. fflags \ Probe!Mask \subseteq intf.driver_info /\ intf \in Devices  BY Adjusted DEF ProbeInv
  <2>2. fflags \subseteq Flags  BY <2>1 DEF FlagConstants
  <2>3. us'.fflags \in {fflags, fflags \ {"GO_SLOW"}} /\ us'.max_lun = us.max_lun /\ threads' = threads
    BY <1>1 DEF Probe!GetDeviceInfo, ProbeInv, Fields
  <2> QED  BY <2>2, <2>3 DEF ProbeTyped
<1>2. CASE Probe!AcquireResources
  <2>0. threads = 0  BY <1>2 DEF Probe!AcquireResources, Probe!Go, ProbeInv
  <2>1. threads' \in 0 .. 1  BY <1>2, <2>0 DEF Probe!AcquireResources
  <2>2. us'.fflags = us.fflags /\ us'.max_lun = us.max_lun
    BY <1>2 DEF Probe!AcquireResources, Probe!Go, ProbeInv, Fields
  <2> QED  BY <2>1, <2>2 DEF ProbeTyped
<1>3. CASE Probe!GetTransport  BY <1>3 DEF Probe!GetTransport, ProbeInv, Fields, ProbeTyped
<1>4. CASE Probe!GetProtocol  BY <1>4 DEF Probe!GetProtocol, ProbeInv, Fields, ProbeTyped
<1>5. CASE Probe!Probe2  BY <1>5 DEF Probe!Probe2, ProbeInv, Fields, ProbeTyped
<1>6. CASE Probe!AssociateDev  BY <1>6 DEF Probe!AssociateDev, ProbeInv, Fields, ProbeTyped
<1>7. CASE Probe!StorageProbe \/ Probe!AddHost \/ UNCHANGED Probe!probeVars
  BY <1>7 DEF Probe!StorageProbe, Probe!AddHost, Probe!probeVars, ProbeTyped
<1> QED  BY <1>1, <1>2, <1>3, <1>4, <1>5, <1>6, <1>7 DEF Probe!Next

LEMMA ProbeTypeOK == ASSUME ProbeConstants, FlagConstants PROVE Probe!Spec => []Probe!TypeOK
<1>1. Probe!Init => ProbeInv /\ ProbeTyped
  <2>1. ASSUME Probe!Init PROVE ProbeTyped
    <3>1. threads = 0 /\ us.fflags = {} /\ us.max_lun = 0  BY <2>1 DEF Probe!Init, Probe!Unset
    <3> QED  BY <3>1 DEF ProbeTyped
  <2> QED  BY <2>1, ProbeInit
<1>2. (ProbeInv /\ ProbeTyped) /\ [Probe!Next]_Probe!probeVars => (ProbeInv /\ ProbeTyped)'
  BY ProbeStep, ProbeTypedStep
<1>3. ProbeInv /\ ProbeTyped => Probe!TypeOK  BY DEF ProbeInv, ProbeTyped, Probe!TypeOK
<1> QED  BY <1>1, <1>2, <1>3, PTL DEF Probe!Spec

-----------------------------------------------------------------------------

FrameConstants == MaxTx \in Nat /\ MaxRx \in Nat

NetBits == {"TxOK", "TxErr", "RxOK"}

NetTyped ==
  /\ net_held \subseteq {"enabled", "region", "iomap", "netdev", "registered", "irq"}
  /\ up \in BOOLEAN /\ net_chip \in {"on", "off"} /\ bufs \in {"none", "live", "freed"}
  /\ cur_tx \in 0 .. MaxTx /\ (xmit \in {"kick", "bump"} => cur_tx < MaxTx) /\ tx_done \in 0 .. MaxTx + 1
  /\ isr \subseteq NetBits /\ seen \subseteq NetBits /\ net_lost \subseteq NetBits
  /\ net_got \in 0 .. MaxRx

LEMMA NetTypedStep ==
  ASSUME FrameConstants, NetInv, NetTyped, [Net!Next]_Net!rtl8139Vars PROVE NetTyped'
<1> USE DEF NetTyped, Net!Runs, Net!pciVars, Net!txVars, Net!rxVars, Net!irqVars, FrameConstants
<1>1. CASE Net!Probe  BY <1>1 DEF Net!Probe, Net!Undo
<1>2. CASE Net!Remove  BY <1>2 DEF Net!Remove
<1>3. CASE Net!Open
  <2>1. ~up /\ xmit = "idle"  BY <1>3 DEF Net!Open, NetInv, Sending
  <2>2. UNCHANGED <<xmit, seen, net_got>>  BY <1>3 DEF Net!Open
  <2>3. \/ UNCHANGED <<net_held, up, net_chip, bufs, cur_tx, tx_done, isr, net_lost>>
        \/ /\ net_held' = net_held \cup {"irq"} /\ up' = TRUE /\ bufs' = "live" /\ cur_tx' = 0 /\ tx_done' = 0
           /\ isr' = {} /\ net_lost' = {} /\ net_chip' \in {"on", "off"}
    BY <1>3 DEF Net!Open
  <2>4. up' \in BOOLEAN  BY <2>3, Zenon
  <2>5. net_held' \in SUBSET {"enabled", "region", "iomap", "netdev", "registered", "irq"}
    <3>1. net_held' \in {net_held, net_held \cup {"irq"}}  BY <2>3
    <3> QED  BY <3>1
  <2>6. cur_tx' \in 0 .. MaxTx /\ (xmit' \in {"kick", "bump"} => cur_tx' < MaxTx) /\ tx_done' \in 0 .. MaxTx + 1
    BY <2>1, <2>2, <2>3
  <2>7. isr' \subseteq NetBits /\ seen' \subseteq NetBits /\ net_lost' \subseteq NetBits /\ net_got' \in 0 .. MaxRx
    BY <2>2, <2>3
  <2>8. net_chip' \in {"on", "off"} /\ bufs' \in {"none", "live", "freed"}  BY <2>3
  <2> QED  BY <2>4, <2>5, <2>6, <2>7, <2>8, Zenon
<1>4. CASE Net!StopChip  BY <1>4 DEF Net!StopChip
<1>5. CASE Net!StopFree  BY <1>5 DEF Net!StopFree
<1>6. CASE Net!Copy  BY <1>6 DEF Net!Copy
<1>7. CASE Net!Kick  BY <1>7 DEF Net!Kick
<1>8. CASE Net!Bump  BY <1>8 DEF Net!Bump
<1>9. CASE Net!Send  BY <1>9 DEF Net!Send, Net!Raise, NetBits
<1>10. CASE Net!Receive  BY <1>10 DEF Net!Receive, Net!Raise, NetBits
<1>11. CASE Net!Read  BY <1>11 DEF Net!Read
<1>12. CASE Net!Ack  BY <1>12 DEF Net!Ack
<1>13. CASE Net!TxLoop
  <2>1. tx_done' = tx_done \/ (tx_done <= MaxTx /\ tx_done' = tx_done + 1)  BY <1>13 DEF Net!TxLoop
  <2>2. tx_done' \in 0 .. MaxTx + 1  BY <2>1
  <2>3. UNCHANGED <<net_held, up, net_chip, bufs, cur_tx, xmit, isr, seen, net_lost, net_got>>  BY <1>13 DEF Net!TxLoop
  <2> QED  BY <2>2, <2>3
<1>14. CASE Net!RxLoop
  <2>1. UNCHANGED <<net_held, up, net_chip, bufs, cur_tx, xmit, tx_done, isr, seen, net_lost, net_got>>
    BY <1>14 DEF Net!RxLoop
  <2> QED  BY <2>1
<1>15. CASE UNCHANGED Net!rtl8139Vars  BY <1>15 DEF Net!rtl8139Vars
<1>16. CASE Net!Compare  BY <1>16 DEF Net!Compare
<1>17. CASE Net!StopQueue  BY <1>17 DEF Net!StopQueue
<1> QED
  BY <1>1, <1>2, <1>3, <1>4, <1>5, <1>6, <1>7, <1>8, <1>9, <1>10, <1>11, <1>12, <1>13, <1>14, <1>15,
     <1>16, <1>17
  DEF Net!Next, Net!Xmit, Net!Chip, Net!Handler

LEMMA NetTypeOK == ASSUME PciConstants, FrameConstants PROVE Net!Spec => []Net!TypeOK
<1>1. Net!Init => NetInv /\ NetTyped
  <2>1. ASSUME Net!Init PROVE NetTyped
    <3>1. up = FALSE /\ up \in BOOLEAN  BY <2>1, Zenon DEF Net!Init
    <3> QED  BY <2>1, <3>1 DEF Net!Init, NetTyped, FrameConstants
  <2> QED  BY <2>1, NetInit
<1>2. (NetInv /\ NetTyped) /\ [Net!Next]_Net!rtl8139Vars => (NetInv /\ NetTyped)'
  BY NetStep, NetTypedStep
<1>3. NetInv /\ NetTyped => Net!TypeOK  BY DEF NetInv, NetTypes, NetTyped, NetBits, Net!TypeOK
<1> QED  BY <1>1, <1>2, <1>3, PTL DEF Net!Spec

-----------------------------------------------------------------------------
(* The character device *)

CharConstants == IsFiniteSet(Processes) /\ DRIVER_BUFFER_SIZE \in Nat /\ Counts \subseteq Nat

Opened == {p \in Processes : pc[p] # "closed"}
Gone   == {p \in Processes : pc[p] \in {"closing", "done"}}

\* The count may be reset under those who have opened, so a close can take it
\* below zero, but not by more than have closed.
CharInv ==
  /\ registered \subseteq {"region", "class", "cdev", "node"}
  /\ pc \in [Processes -> {"closed", "open", "closing", "done"}]
  /\ position \in [Processes -> 0 .. DRIVER_BUFFER_SIZE]
  /\ told \in [Processes -> Int] /\ \A p \in Processes : told[p] >= -1 - Cardinality(Processes)
  /\ currently_opened \in Int /\ currently_opened >= -Cardinality(Gone)
  /\ times_opened = Cardinality(Opened)

LEMMA CharCount == \A S : Char!Cardinality(S) = Cardinality(S)
BY DEF Char!Cardinality, Cardinality

LEMMA CharCounted ==
  ASSUME CharConstants, NEW S \in SUBSET Processes
  PROVE  IsFiniteSet(S) /\ Cardinality(S) \in Nat /\ Cardinality(S) <= Cardinality(Processes)
         /\ Cardinality(Processes) \in Nat
BY FS_Subset, FS_CardinalityType DEF CharConstants

\* Nothing is copied from behind the buffer.
LEMMA ClippedIs ==
  ASSUME CharConstants, NEW p \in Processes, NEW count \in Counts,
         position \in [Processes -> 0 .. DRIVER_BUFFER_SIZE], NEW n \in 0 .. Char!Clipped(p, count)
  PROVE  position[p] + n \in 0 .. DRIVER_BUFFER_SIZE
<1> DEFINE rest == DRIVER_BUFFER_SIZE - position[p]
           T == {count, rest}
<1>1. rest \in Nat /\ count \in Nat  BY DEF CharConstants
<1>2. T \in SUBSET Nat /\ T # {}  BY <1>1
<1>3. \E m \in T : \A k \in T : m <= k
  <2> HIDE DEF T
  <2> QED  BY <1>2, Smallest
<1>4. Char!Clipped(p, count) \in T /\ Char!Clipped(p, count) <= rest
  <2>1. Char!Clipped(p, count) = CHOOSE m \in T : \A k \in T : m <= k  BY DEF Char!Clipped, Char!Min
  <2> QED  BY <1>3, <2>1
<1>5. position[p] \in 0 .. DRIVER_BUFFER_SIZE  OBVIOUS
<1> DEFINE c == Char!Clipped(p, count)
<1>6. c \in Nat /\ n \in 0 .. c /\ c <= rest  BY <1>1, <1>4
<1> HIDE DEF c
<1> QED  BY <1>1, <1>5, <1>6 DEF CharConstants

LEMMA CharInit == ASSUME CharConstants, Char!Init PROVE CharInv
<1>1. Opened = {} /\ Gone = {}  BY DEF Char!Init, Opened, Gone
<1>2. Cardinality(Opened) = 0 /\ Cardinality(Gone) = 0  BY <1>1, FS_EmptySet
<1>3. Cardinality(Processes) \in Nat  BY CharCounted
<1>4. /\ registered = {} /\ currently_opened = 0 /\ times_opened = 0
      /\ pc = [p \in Processes |-> "closed"] /\ position = [p \in Processes |-> 0]
      /\ told = [p \in Processes |-> -1]
  BY DEF Char!Init
<1> QED  BY <1>2, <1>3, <1>4 DEF CharInv, CharConstants

LEMMA CharStep == ASSUME CharConstants, CharInv, [Char!Next]_Char!charVars PROVE CharInv'
<1>0. /\ IsFiniteSet(Opened) /\ Cardinality(Opened) \in Nat
      /\ IsFiniteSet(Gone) /\ Cardinality(Gone) \in Nat /\ Cardinality(Gone) <= Cardinality(Processes)
      /\ Cardinality(Processes) \in Nat
  BY CharCounted DEF Opened, Gone
<1> DEFINE Same == UNCHANGED <<pc, currently_opened, times_opened, told>>
<1>1. ASSUME Same PROVE Opened' = Opened /\ Gone' = Gone  BY <1>1 DEF Opened, Gone
<1>2. CASE Char!DevInit
  <2>1. registered' \subseteq {"region", "class", "cdev", "node"} /\ Same /\ position' = position
    BY <1>2 DEF Char!DevInit, Char!bufVars, Char!procVars
  <2> QED  BY <1>1, <2>1 DEF CharInv
<1>3. CASE Char!InitCount
  <2>1. /\ UNCHANGED <<registered, pc, times_opened, told, position>> /\ currently_opened' = 0
    BY <1>3 DEF Char!InitCount, Char!bufVars, Char!procVars
  <2>2. Opened' = Opened /\ Gone' = Gone  BY <2>1 DEF Opened, Gone
  <2> QED  BY <1>0, <2>1, <2>2 DEF CharInv
<1>4. CASE Char!DevExit
  <2>1. registered' \subseteq {"region", "class", "cdev", "node"} /\ Same /\ position' = position
    BY <1>4 DEF Char!DevExit, Char!bufVars, Char!procVars
  <2> QED  BY <1>1, <2>1 DEF CharInv
<1>5. ASSUME NEW p \in Processes, Char!DevOpen(p) PROVE CharInv'
  <2>1. /\ pc[p] = "closed" /\ pc' = [pc EXCEPT ![p] = "open"] /\ UNCHANGED <<registered, position, told>>
        /\ times_opened' = times_opened + 1 /\ currently_opened' = currently_opened + 1
    BY <1>5 DEF Char!DevOpen
  <2>2. Opened' = Opened \cup {p} /\ p \notin Opened /\ Gone' = Gone
    BY <2>1 DEF Opened, Gone, CharInv
  <2>3. Cardinality(Opened') = Cardinality(Opened) + 1  BY <1>0, <2>2, FS_AddElement
  <2>4. pc' \in [Processes -> {"closed", "open", "closing", "done"}]  BY <2>1 DEF CharInv
  <2> QED  BY <1>0, <2>1, <2>2, <2>3, <2>4 DEF CharInv
<1>6. ASSUME NEW p \in Processes, Char!DevClose(p) PROVE CharInv'
  <2>1. /\ pc[p] = "open" /\ pc' = [pc EXCEPT ![p] = "closing"]
        /\ UNCHANGED <<registered, position, told, times_opened>> /\ currently_opened' = currently_opened - 1
    BY <1>6 DEF Char!DevClose
  <2>2. Gone' = Gone \cup {p} /\ p \notin Gone /\ Opened' = Opened
    BY <2>1 DEF Opened, Gone, CharInv
  <2>3. Cardinality(Gone') = Cardinality(Gone) + 1  BY <1>0, <2>2, FS_AddElement
  <2>4. pc' \in [Processes -> {"closed", "open", "closing", "done"}]  BY <2>1 DEF CharInv
  <2> QED  BY <1>0, <2>1, <2>2, <2>3, <2>4 DEF CharInv
<1>7. ASSUME NEW p \in Processes, Char!ClosePrints(p) PROVE CharInv'
  <2>1. /\ pc[p] = "closing" /\ pc' = [pc EXCEPT ![p] = "done"] /\ told' = [told EXCEPT ![p] = currently_opened]
        /\ UNCHANGED <<registered, position, times_opened, currently_opened>>
    BY <1>7 DEF Char!ClosePrints, Char!bufVars
  <2>2. Gone' = Gone /\ Opened' = Opened  BY <2>1 DEF Opened, Gone, CharInv
  <2>3. pc' \in [Processes -> {"closed", "open", "closing", "done"}]  BY <2>1 DEF CharInv
  <2>4. currently_opened >= -1 - Cardinality(Processes)  BY <1>0 DEF CharInv
  <2>5. told' \in [Processes -> Int] /\ \A q \in Processes : told'[q] >= -1 - Cardinality(Processes)
    BY <2>1, <2>4 DEF CharInv
  <2> QED  BY <2>1, <2>2, <2>3, <2>5 DEF CharInv
<1>8. ASSUME NEW p \in Processes, Char!DevRead(p) \/ Char!DevWrite(p) PROVE CharInv'
  <2>1. Same /\ registered' = registered  BY <1>8 DEF Char!DevRead, Char!DevWrite, Char!bufVars
  <2>2. PICK count \in Counts : \E n \in 0 .. Char!Clipped(p, count) :
           position' = [position EXCEPT ![p] = position[p] + n]
    BY <1>8 DEF Char!DevRead, Char!DevWrite
  <2>3. PICK n \in 0 .. Char!Clipped(p, count) : position' = [position EXCEPT ![p] = position[p] + n]  BY <2>2
  <2>4. position[p] + n \in 0 .. DRIVER_BUFFER_SIZE  BY ClippedIs DEF CharInv
  <2>5. position' \in [Processes -> 0 .. DRIVER_BUFFER_SIZE]  BY <2>3, <2>4 DEF CharInv
  <2> QED  BY <1>1, <2>1, <2>5 DEF CharInv
<1>9. CASE UNCHANGED Char!charVars
  <2>1. Same /\ UNCHANGED <<registered, position>>  BY <1>9 DEF Char!charVars
  <2> QED  BY <1>1, <2>1 DEF CharInv
<1> QED  BY <1>2, <1>3, <1>4, <1>5, <1>6, <1>7, <1>8, <1>9 DEF Char!Next

LEMMA CharTypeOK == ASSUME CharConstants PROVE Char!Spec => []Char!TypeOK
<1>1. Char!Init => CharInv  BY CharInit
<1>2. CharInv /\ [Char!Next]_Char!charVars => CharInv'  BY CharStep
<1>3. CharInv => Char!TypeOK
  <2> SUFFICES ASSUME CharInv PROVE Char!TypeOK  OBVIOUS
  <2>1. Cardinality(Opened) \in 0 .. Cardinality(Processes)  BY CharCounted DEF Opened
  <2> QED  BY <2>1, CharCount DEF CharInv, Char!TypeOK
<1> QED  BY <1>1, <1>2, <1>3, PTL DEF Char!Spec

-----------------------------------------------------------------------------
(* Side by side *)

\* A step of the composition is one of each part, or leaves it alone.
LEMMA EachRuns ==
  DriversSpec => /\ Spec /\ Iod!Spec /\ Net!Spec /\ Probe!Spec /\ Cafe!Spec /\ Bf!Spec
                 /\ Char!Spec /\ Mmap!Spec /\ Sched!Spec /\ Heap!Spec
<1>1. DriversInit => /\ Init /\ Iod!Init /\ Net!Init /\ Probe!Init /\ Cafe!Init /\ Bf!Init
                     /\ Char!Init /\ Mmap!Init /\ Sched!Init /\ Heap!Init
  BY DEF DriversInit
<1> DEFINE v == <<driver, setupVars, iodVars, netVars, probeVars, cafeVars, bfVars, charVars, mmapVars,
                  schedVars, heapVars, sortVars>>
<1>2. [DriversNext]_v => [Mmap!Next]_Mmap!mmapVars  BY DEF DriversNext, mmapVars, Mmap!mmapVars
<1>3. [DriversNext]_v => [Sched!Next]_Sched!schedVars  BY DEF DriversNext, schedVars, Sched!schedVars
<1>4. [DriversNext]_v => [Next]_setupVars  BY DEF DriversNext, setupVars, queueVars
<1>5. [DriversNext]_v => [Probe!Next]_Probe!probeVars  BY DEF DriversNext, probeVars, Probe!probeVars
<1>6. [DriversNext]_v => [Net!Next]_Net!rtl8139Vars
  BY DEF DriversNext, netVars, Net!rtl8139Vars, Net!pciVars, Net!txVars, Net!rxVars, Net!irqVars
<1>7. [DriversNext]_v => [Cafe!Next]_Cafe!cafeVars  BY DEF DriversNext, cafeVars, Cafe!cafeVars
<1>8. [DriversNext]_v => [Iod!Next]_Iod!iodVars  BY DEF DriversNext, iodVars, Iod!iodVars
<1>9. [DriversNext]_v => [Bf!Next]_Bf!bfVars  BY DEF DriversNext, bfVars, Bf!bfVars
<1>10. [DriversNext]_v => [Char!Next]_Char!charVars  BY DEF DriversNext, charVars, Char!charVars
<1>11. [DriversNext]_v => [Heap!Next]_Heap!pqVars  BY DEF DriversNext, heapVars, Heap!pqVars
<1> QED
  BY <1>1, <1>2, <1>3, <1>4, <1>5, <1>6, <1>7, <1>8, <1>9, <1>10, <1>11, PTL
  DEF DriversSpec, Spec, Iod!Spec, Net!Spec, Probe!Spec, Cafe!Spec, Bf!Spec, Char!Spec, Mmap!Spec,
      Sched!Spec, Heap!Spec

\* nvme_probe(), nvme_remove(), nvme_kthread(): with any number of processors,
\* and whatever fails on the way, the polling thread, nvme_free_queues() and
\* the controller use only queues that exist, and each processor has one once
\* the device is up.
THEOREM QueuesLive == DriversSpec => []QueuesAreLive
BY EachRuns, SetupCorrect, PTL

\* netdev_start_xmit() against interrupt_method(): with any number of
\* descriptors and any ring, a frame sent is counted once, and none received is
\* forgotten or misread, but in the cases named.
THEOREM FramesCounted == ASSUME PciConstants PROVE DriversSpec => []FramesAccounted
BY EachRuns, NetCorrect, PTL

\* adjust_quirks(), get_transport(), get_protocol(), usb_stor_probe2(): with any
\* devices and any entries, the first entry for a device has decided its flags,
\* and a host that is added has a transport and a protocol and the number of LUNs
\* they and the flags call for.  (Nothing is said of its buffer, URB and thread.)
THEOREM HostsAsProbed == ASSUME ProbeConstants PROVE DriversSpec => []HostIsAsProbed
BY EachRuns, ProbeCorrect, PTL

\* mmap_fault(), my_close(): with any number of VMAs, faults, forks and closes
\* in any order free the page once, after the last VMA that has it.
THEOREM PageKept == ASSUME MmapConstants PROVE DriversSpec => []PageKeptWhileMapped
<1>1. Mmap!PageKeptWhileMapped => PageKeptWhileMapped  BY DEF PageKeptWhileMapped
<1> QED  BY <1>1, EachRuns, MmapPageKept, PTL

\* PendSV_Handler(): with any number of tasks, what each has counted is on its
\* own stack: in the processor while it runs, from the switch on in the frame that
\* its entry points to.  (It does not say that a task is resumed: none is.)
THEOREM ContextsSaved == ASSUME SchedConstants PROVE DriversSpec => []ContextSaved
<1>1. Sched!ContextSaved => ContextSaved  BY DEF ContextSaved
<1> QED  BY <1>1, EachRuns, SchedContextSaved, PTL
=============================================================================
