------------------------------- MODULE MCCalls -------------------------------
(***************************************************************************)
(* Calls that several processes make of one driver, for TLC: read() and    *)
(* write() of the character device, and ioctls of an NVMe queue, which     *)
(* take their command ID without the lock.  The first state picks one of   *)
(* the two drivers, and the other stays as it is.                          *)
(***************************************************************************)
EXTENDS PollDevice, TLC

CONSTANTS Depth, Bios, FlushBios, SplitBios, Tasks, MapMayFail

VARIABLES
  driver,
  cmdid_data, info, sq_cmds, sq_tail, cqes, cq_head, cq_phase, q_lock, stage, head,
  phase, scan, sq_cong, cong_wait, bio, runs, nvme_pc, slot, status, woken, oops,
  dev_head, dev_cmds, dev_tail, dev_phase

Nvme == INSTANCE NvmeQueue WITH pc <- nvme_pc

nvmeVars == <<cmdid_data, info, sq_cmds, sq_tail, cqes, cq_head, cq_phase, q_lock, stage, head,
              phase, scan, sq_cong, cong_wait, bio, runs, nvme_pc, slot, status, woken,
              oops, dev_head, dev_cmds, dev_tail, dev_phase>>

CallsInit == driver \in {"device", "nvme"} /\ Init /\ Nvme!Init

CallsNext ==
  \/ driver = "device" /\ Next /\ UNCHANGED <<driver, nvmeVars>>
  \/ driver = "nvme" /\ Nvme!Next /\ UNCHANGED <<driver, vars>>
  \/ oops /\ UNCHANGED <<driver, vars, nvmeVars>>   \* nothing runs any more

CallsSpec == CallsInit /\ [][CallsNext]_<<driver, vars, nvmeVars>>

\* Processes that make the same call, and bytes, can be exchanged.
CallersSymmetry ==
  Permutations(Readers) \cup Permutations(Writers) \cup Permutations(Bytes) \cup Permutations(Tasks)

\* alloc_cmdid(), "with interrupts enabled and no locks held": no ID is prepared
\* by two callers at once.
PreparingIsPrivate == Nvme!PreparingIsPrivate
=============================================================================
