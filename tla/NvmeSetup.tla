------------------------------ MODULE NvmeSetup ------------------------------
(***************************************************************************)
(* nvme_probe() and nvme_remove() of kernel/nvme.c: the admin queue, one   *)
(* I/O queue for each vector, shared queues for the other processors, the  *)
(* namespaces and their disks, and taking all of it down, while the        *)
(* polling thread walks the queues of the devices on dev_list.             *)
(***************************************************************************)
EXTENDS Integers, FiniteSets, FiniteSetsExt

CONSTANTS
  CPUS, ONLINE,  \* num_possible_cpus(), num_online_cpus()
  NN             \* the namespaces the controller reports

ASSUME CpusAssumption == CPUS \in Nat /\ ONLINE \in 1 .. CPUS /\ NN \in Nat

VARIABLES
  at,               \* what nvme_probe() or nvme_remove() does next
  queues,           \* dev->queues: NULL, ERR (an ERR_PTR) or a queue's number
  queue_count, nr,  \* nr: nr_io_queues
  qid,              \* the queue that is created or freed
  mem, irq,         \* queues with memory; queues with an interrupt handler
  cqs, sqs, unsure, \* what the controller has; where the driver cannot tell
  listed,           \* the device is on dev_list
  nsid, ns, disks,  \* dev->namespaces: its index for each; those with add_disk()
  ida,              \* nvme_index_ida
  res,              \* "0" or "error"
  thread            \* of the polling thread: the queue it is at, or Idle

setupVars == <<at, queues, queue_count, nr, qid, mem, irq, cqs, sqs, unsure,
               listed, nsid, ns, disks, ida, res, thread>>
queueVars == <<queues, queue_count, nr, qid, mem, irq, cqs, sqs, unsure>>
nsVars    == <<nsid, ns, disks, ida>>

NULL == -1
ERR  == -2
Idle == -1

Init ==
  /\ at = "configure_admin_queue"
  /\ queues = [i \in 0 .. CPUS |-> NULL] /\ queue_count = 0 /\ nr = 0 /\ qid = 0
  /\ mem = {} /\ irq = {} /\ cqs = {} /\ sqs = {} /\ unsure = {}
  /\ listed = FALSE /\ nsid = 1 /\ ns = <<>> /\ disks = {} /\ ida = {}
  /\ res = "0" /\ thread = Idle

\* dev_list_lock, which the thread holds for a whole walk
Unlocked == thread = Idle

-----------------------------------------------------------------------------
(* The polling thread *)

KthreadStart ==
  /\ thread = Idle /\ listed /\ thread' = 0
  /\ UNCHANGED <<at, queueVars, listed, nsVars, res>>

KthreadNext ==
  /\ thread # Idle
  /\ thread' = IF thread + 1 < queue_count THEN thread + 1 ELSE Idle
  /\ UNCHANGED <<at, queueVars, listed, nsVars, res>>

-----------------------------------------------------------------------------
(* Commands of the admin queue *)

\* A command is carried out and answered; or refused; or it times out or its
\* caller is killed, and it may yet have been carried out.
Create(set, new) ==
  \/ new = set \cup {qid} /\ res' = "0" /\ UNCHANGED unsure
  \/ new = set /\ res' = "error" /\ UNCHANGED unsure
  \/ new = set \cup {qid} /\ res' = "error" /\ unsure' = unsure \cup {qid}

Delete(set, new) ==
  \/ new = set \ {qid} /\ UNCHANGED unsure
  \/ new = set /\ unsure' = unsure \cup {qid}

-----------------------------------------------------------------------------
(* nvme_configure_admin_queue(), nvme_probe() *)

\* Its result is not looked at.  Without memory, or when the controller does
\* not become ready in time, queues[0] stays NULL.
ConfigureAdminQueue ==
  /\ at = "configure_admin_queue"
  /\ \/ UNCHANGED <<queues, mem, irq>>
     \/ mem' = mem \cup {0} /\ UNCHANGED <<queues, irq>>
     \/ /\ mem' = mem \cup {0} /\ queues' = [queues EXCEPT ![0] = 0]
        /\ irq' \in {irq, irq \cup {0}}
  /\ queue_count' = queue_count + 1
  /\ at' = "list_add"
  /\ UNCHANGED <<nr, qid, cqs, sqs, unsure, listed, nsVars, res, thread>>

ListAdd ==
  /\ at = "list_add" /\ Unlocked
  /\ listed' = TRUE /\ at' = "set_queue_count"
  /\ UNCHANGED <<queueVars, nsVars, res, thread>>

\* The first admin command: an oops if there is no admin queue
SetQueueCount ==
  /\ at = "set_queue_count"
  /\ \/ queues[0] = NULL /\ at' = "oops" /\ UNCHANGED <<nr, irq, res>>
     \/ queues[0] # NULL /\ res' = "error" /\ at' = "delete" /\ UNCHANGED <<nr, irq>>
     \/ /\ queues[0] # NULL /\ at' = "enable_msix"
        /\ nr' \in 1 .. ONLINE
        /\ irq' = irq \ {0}
        /\ UNCHANGED res
  /\ UNCHANGED <<queues, queue_count, qid, mem, cqs, sqs, unsure, listed, nsVars, thread>>

\* All vectors; or fewer, and it is tried again; or none, and one queue.
\* Failing to get the admin queue's interrupt again is not handled.
EnableMsix ==
  /\ at = "enable_msix"
  /\ \/ nr' \in {nr, 1} /\ irq' \in {irq, irq \cup {0}} /\ qid' = 1 /\ at' = "create_cq"
     \/ nr' \in 1 .. nr - 1 /\ UNCHANGED <<irq, qid, at>>
  /\ UNCHANGED <<queues, queue_count, mem, cqs, sqs, unsure, listed, nsVars, res, thread>>

-----------------------------------------------------------------------------
(* nvme_create_queue() *)

\* The queue cannot be had: an ERR_PTR is left, nvme_setup_io_queues() returns
Lost == queues' = [queues EXCEPT ![qid] = ERR] /\ at' = "delete" /\ res' = "error"

CreateCq ==
  /\ at = "create_cq"
  /\ \/ Lost /\ UNCHANGED <<mem, cqs, unsure>>
     \/ /\ mem' = mem \cup {qid}
        /\ Create(cqs, cqs')
        /\ at' = IF res' = "0" THEN "create_sq" ELSE "free_nvmeq"
        /\ UNCHANGED queues
  /\ UNCHANGED <<queue_count, nr, qid, irq, sqs, listed, nsVars, thread>>

Unwind_all == "free_nvmeq"                  \* mutant: the completion queue stays

Unwind == "release_cq"

CreateSq ==
  /\ at = "create_sq"
  /\ Create(sqs, sqs')
  /\ at' = IF res' = "0" THEN "request_irq" ELSE Unwind
  /\ UNCHANGED <<queues, queue_count, nr, qid, mem, irq, cqs, listed, nsVars, thread>>

\* A queue is counted, and so walked and freed, only when it is complete
RequestIrq ==
  /\ at = "request_irq"
  /\ \/ res' = "error" /\ at' = "release_sq" /\ UNCHANGED <<queues, queue_count, qid, irq>>
     \/ /\ irq' = irq \cup {qid}
        /\ queues' = [queues EXCEPT ![qid] = qid]
        /\ queue_count' = queue_count + 1
        /\ IF qid = nr THEN at' = "share" /\ UNCHANGED qid
                       ELSE at' = "create_cq" /\ qid' = qid + 1
        /\ UNCHANGED res
  /\ UNCHANGED <<nr, mem, cqs, sqs, unsure, listed, nsVars, thread>>

ReleaseSq ==
  /\ at = "release_sq" /\ Delete(sqs, sqs') /\ at' = "release_cq"
  /\ UNCHANGED <<queues, queue_count, nr, qid, mem, irq, cqs, listed, nsVars, res, thread>>

ReleaseCq ==
  /\ at = "release_cq" /\ Delete(cqs, cqs') /\ at' = "free_nvmeq"
  /\ UNCHANGED <<queues, queue_count, nr, qid, mem, irq, sqs, listed, nsVars, res, thread>>

FreeNvmeq ==
  /\ at = "free_nvmeq" /\ mem' = mem \ {qid} /\ Lost
  /\ UNCHANGED <<queue_count, nr, qid, irq, cqs, sqs, unsure, listed, nsVars, thread>>

Target_any(i) == i % queue_count            \* mutant: the admin queue is counted

RoundDown(n) == Max({p \in {1, 2, 4, 8} : p <= n})

Target(i) == i % RoundDown(queue_count - 1)

\* Processors without a queue of their own share one
Share ==
  /\ at = "share"
  /\ queues' = [i \in 0 .. CPUS |-> IF i > nr THEN queues[Target(i - 1) + 1] ELSE queues[i]]
  /\ at' = "identify"
  /\ UNCHANGED <<queue_count, nr, qid, mem, irq, cqs, sqs, unsure, listed, nsVars, res, thread>>

-----------------------------------------------------------------------------
(* nvme_dev_add(), nvme_alloc_ns() *)

Identify ==
  /\ at = "identify"
  /\ \/ res' = "error" /\ at' = "delete"
     \/ res' = "0" /\ at' = "namespace"
  /\ UNCHANGED <<queueVars, listed, nsVars, thread>>

\* The namespace is skipped: an error stays in res, an empty or hidden one
\* does not
SkipNs ==
  /\ at = "namespace" /\ nsid <= NN
  /\ res' \in {"0", "error"}
  /\ nsid' = nsid + 1
  /\ UNCHANGED <<at, queueVars, ns, disks, ida, listed, thread>>

\* The index is taken under dev_list_lock
AllocNs ==
  /\ at = "namespace" /\ nsid <= NN /\ Unlocked
  /\ LET index == Min((0 .. NN) \ ida) IN
     /\ ns' = [n \in DOMAIN ns \cup {nsid} |-> IF n = nsid THEN index ELSE ns[n]]
     /\ ida' = ida \cup {index}
  /\ res' = "0"
  /\ nsid' = nsid + 1
  /\ UNCHANGED <<at, queueVars, disks, listed, thread>>

\* res is what the last namespace left
AddDisks ==
  /\ at = "namespace" /\ nsid > NN
  /\ disks' = DOMAIN ns
  /\ at' = IF res = "0" THEN "up" ELSE "delete"
  /\ UNCHANGED <<queueVars, nsid, ns, ida, listed, res, thread>>

-----------------------------------------------------------------------------
(* nvme_remove(), the label delete, nvme_free_queues() *)

ListDel_unlocked == TRUE                    \* mutant: without dev_list_lock

ListDelReady == Unlocked

LastQueue_slot == CPUS                      \* mutant: the shared slots too

\* What nvme_free_queues() begins with
LastQueue == queue_count - 1

\* Both leave the list first
ListDel ==
  /\ at \in {"delete", "up"} /\ ListDelReady
  /\ listed' = FALSE
  /\ at' = IF at = "up" THEN "free_ns" ELSE "free_irq"
  /\ qid' = LastQueue
  /\ UNCHANGED <<queues, queue_count, nr, mem, irq, cqs, sqs, unsure, nsVars, res, thread>>

FreeNs ==
  /\ at = "free_ns" /\ ns # <<>> /\ Unlocked
  /\ LET n == Min(DOMAIN ns) IN
     /\ disks' = disks \ {n} /\ ida' = ida \ {ns[n]}
     /\ ns' = [m \in DOMAIN ns \ {n} |-> ns[m]]
  /\ UNCHANGED <<at, queueVars, listed, nsid, res, thread>>

NsFreed ==
  /\ at = "free_ns" /\ DOMAIN ns = {} /\ at' = "free_irq"
  /\ UNCHANGED <<queueVars, listed, nsVars, res, thread>>

FreedIrq_io == irq \ (IF qid = 0 THEN {} ELSE {qid})   \* mutant: the first handler stays

FreedIrq == irq \ {qid}

\* nvme_free_queue() of the last queue that is left
FreeIrq ==
  /\ at = "free_irq"
  /\ irq' = FreedIrq
  /\ at' = IF qid = 0 THEN "free_memory" ELSE "delete_sq"
  /\ UNCHANGED <<queues, queue_count, nr, qid, mem, cqs, sqs, unsure, listed, nsVars, res, thread>>

DeleteSq ==
  /\ at = "delete_sq" /\ Delete(sqs, sqs') /\ at' = "delete_cq"
  /\ UNCHANGED <<queues, queue_count, nr, qid, mem, irq, cqs, listed, nsVars, res, thread>>

DeleteCq ==
  /\ at = "delete_cq" /\ Delete(cqs, cqs') /\ at' = "free_memory"
  /\ UNCHANGED <<queues, queue_count, nr, qid, mem, irq, sqs, listed, nsVars, res, thread>>

FreeMemory ==
  /\ at = "free_memory"
  /\ mem' = mem \ {queues[qid]}
  /\ IF qid = 0 THEN at' = "gone" /\ UNCHANGED qid
                ELSE at' = "free_irq" /\ qid' = qid - 1
  /\ UNCHANGED <<queues, queue_count, nr, irq, cqs, sqs, unsure, listed, nsVars, res, thread>>

-----------------------------------------------------------------------------

Next ==
  \/ KthreadStart \/ KthreadNext
  \/ ConfigureAdminQueue \/ ListAdd \/ SetQueueCount \/ EnableMsix
  \/ CreateCq \/ CreateSq \/ RequestIrq \/ ReleaseSq \/ ReleaseCq \/ FreeNvmeq \/ Share
  \/ Identify \/ SkipNs \/ AllocNs \/ AddDisks
  \/ ListDel \/ FreeNs \/ NsFreed \/ FreeIrq \/ DeleteSq \/ DeleteCq \/ FreeMemory

Spec == Init /\ [][Next]_setupVars

-----------------------------------------------------------------------------
(* Properties *)

\* Each variable has its type.
TypeOK ==
  /\ queues \in [0 .. CPUS -> -2 .. CPUS] /\ queue_count \in 0 .. CPUS + 1
  /\ nr \in 0 .. ONLINE /\ qid \in 0 .. CPUS
  /\ mem \subseteq 0 .. CPUS /\ irq \subseteq 0 .. CPUS
  /\ disks \subseteq DOMAIN ns /\ Cardinality(ida) = Cardinality(DOMAIN ns)

\* nvme_kthread(): the polling thread only meets queues that are complete and
\* not yet freed, or NULL, through any failed probe and any remove.
ThreadWalksLiveQueues ==
  thread # Idle => queues[thread] = NULL \/ queues[thread] \in mem \cap (sqs \cup {0})

\* nvme_free_queues(): each queue is freed once, an ERR_PTR never, and as long
\* as there are commands to send the admin queue is there to take them.
FreesLiveQueues ==
  /\ at = "free_irq" => queues[qid] = qid /\ qid \in mem
  /\ at \in {"create_cq", "create_sq", "release_sq", "release_cq", "identify", "namespace",
             "delete_sq", "delete_cq"} => queues[0] = 0 /\ 0 \in mem

\* The controller is left with no queue whose memory was freed, but one whose
\* command was not answered.
ControllerUsesMemory == cqs \cup sqs \subseteq mem \cup unsure

\* nvme_setup_io_queues(): once the device is up each processor finds, where
\* get_nvmeq() looks, a queue that the controller has and whose interrupt is
\* handled.
ProcessorsServed ==
  at = "up" => \A cpu \in 1 .. CPUS : queues[cpu] \in sqs \cap cqs \cap mem \cap irq

\* A probe that fails and a remove give everything back; disks can be left
\* only by a probe that failed because of its last namespace.
NothingLeft ==
  at = "gone" => /\ mem = {} /\ irq = {} /\ ~listed
                 /\ disks # {} => res = "error"
=============================================================================
