----------------------------- MODULE NvmeQueue -----------------------------
(***************************************************************************)
(* One I/O queue pair of the NVM Express driver (kernel/nvme.c): the       *)
(* command-ID bitmap and its completion contexts, the submission and       *)
(* completion rings with their doorbells and phase tag, the bios of the    *)
(* block layer, the synchronous commands of ioctl callers, the interrupt   *)
(* handler, the polling kernel thread, and the controller (external).      *)
(*                                                                         *)
(* q_lock sections that run to their end without meeting the controller    *)
(* or a caller that holds no lock are one action.  The interrupt handler   *)
(* and the kernel thread hold q_lock over many steps, because commands     *)
(* complete, and alloc_cmdid() runs without the lock, in between.          *)
(***************************************************************************)
EXTENDS Integers, Sequences, FiniteSets

CONSTANTS
  Depth,       \* q_depth: entries of each ring; Depth - 1 command IDs
  Bios,        \* bio objects; the block layer reuses one after bio_endio()
  FlushBios,   \* those with REQ_FLUSH and data: a flush precedes every command
  SplitBios,   \* those nvme_map_bio() cannot map at once: two commands each
  Tasks,       \* callers of nvme_submit_sync_cmd() on this queue
  MapMayFail   \* whether dma_map_sg() can return 0

\* __u16 command_id of a command whose alloc_cmdid() returned -EBUSY
BusyId == 65536 - 16

ASSUME DepthAssumption == Depth \in Nat /\ Depth >= 2 /\ Depth <= BusyId
ASSUME BioAssumption ==
  /\ FlushBios \subseteq Bios
  /\ SplitBios \subseteq Bios
  /\ MapMayFail \in BOOLEAN

\* ctx of struct nvme_cmd_info: NULL before first use, CMD_CTX_*, an iod, a stack frame
SpecialCtx == {"NULL", "CANCELLED", "COMPLETED", "FLUSH"}

ASSUME CtxAssumption ==
  /\ Bios \cap Tasks = {}
  /\ SpecialCtx \cap (Bios \cup Tasks) = {}

VARIABLES
  cmdid_data,  \* command IDs whose bit is set
  info,        \* struct nvme_cmd_info of each ID; expired: its deadline has passed
  sq_cmds,     \* command_id in each slot of the submission ring
  sq_tail,     \* also the value of the SQ tail doorbell
  cqes,        \* completion ring, written by the controller
  cq_head,     \* also the value of the CQ head doorbell
  cq_phase,
  q_lock,      \* "free", or its long-term holder: "irq" or "kthread"
  stage,       \* what the long-term holder is doing
  head,        \* locals head and phase of nvme_process_cq()
  phase,
  scan,        \* local cmdid of nvme_timeout_ios()
  sq_cong,     \* bios waiting for a command ID
  cong_wait,   \* sq_cong_wait is linked in sq_full
  bio,         \* "idle": with the block layer; "issued": an ID carries it;
               \* "cong": in sq_cong; "lost": submitted under BusyId
  runs,        \* mergeable runs of the bio not mapped yet (bi_vcnt > bi_idx)
  pc,          \* where each task is in nvme_submit_sync_cmd()
  slot,        \* local cmdid of each task
  status,      \* cmdinfo.status on each task's stack
  woken,       \* wake_up_process() since the task set TASK_KILLABLE
  oops,        \* a handler was called through NULL or on a pointer it does not own
  dev_head,    \* controller: next submission slot to fetch
  dev_cmds,    \* controller: fetched commands not completed, counted per ID
  dev_tail,    \* controller: next completion slot to write
  dev_phase    \* controller: phase tag it writes

cmdVars  == <<cmdid_data, info>>
sqVars   == <<sq_cmds, sq_tail>>
cqVars   == <<cq_head, cq_phase, head, phase>>
lockVars == <<q_lock, stage, scan>>
bioVars  == <<sq_cong, cong_wait, bio, runs>>
taskVars == <<pc, slot, status, woken>>
devVars  == <<dev_head, dev_cmds, dev_tail, dev_phase, cqes>>
vars == <<cmdVars, sqVars, cqVars, lockVars, bioVars, taskVars, oops, devVars>>

CmdIds == 0 .. (Depth - 2)
Slots  == 0 .. (Depth - 1)
NextSlot_late(i) == IF i = Depth THEN 0 ELSE i + 1                    \* mutant
NextSlot(i) == IF i + 1 = Depth THEN 0 ELSE i + 1
NextPhase_same(p, i) == p                                             \* mutant
\* phase after moving to slot i: it flips when the ring wraps
NextPhase(p, i) == IF i = 0 THEN 1 - p ELSE p
RunsOf(b) == IF b \in SplitBios THEN 2 ELSE 1

\* Slots a reader at h has still to read when the writer is at t.
Between(h, t) == {i \in Slots : IF h <= t THEN h <= i /\ i < t ELSE h <= i \/ i < t}

Init ==
  /\ cmdid_data = {}
  /\ info = [c \in CmdIds |-> [fn |-> "none", ctx |-> "NULL", expired |-> FALSE]]
  /\ sq_cmds = [i \in Slots |-> 0] /\ sq_tail = 0
  /\ cqes = [i \in Slots |-> [id |-> 0, phase |-> 0]]
  /\ cq_head = 0 /\ cq_phase = 1 /\ head = 0 /\ phase = 1
  /\ q_lock = "free" /\ stage = "none" /\ scan = 0
  /\ sq_cong = <<>> /\ cong_wait = FALSE
  /\ bio = [b \in Bios |-> "idle"] /\ runs = [b \in Bios |-> RunsOf(b)]
  /\ pc = [t \in Tasks |-> "idle"] /\ slot = [t \in Tasks |-> 0]
  /\ status = [t \in Tasks |-> "EINTR"] /\ woken = [t \in Tasks |-> FALSE]
  /\ oops = FALSE
  /\ dev_head = 0 /\ dev_cmds = [c \in CmdIds \cup {BusyId} |-> 0]
  /\ dev_tail = 0 /\ dev_phase = 1

-----------------------------------------------------------------------------
(* Command IDs *)

\* find_first_zero_bit() over the bitmap: c is the lowest clear bit
FirstZero(bits, c) == c \in CmdIds \ bits /\ \A d \in CmdIds \ bits : c <= d

\* What alloc_cmdid() returns under q_lock.  No bit is cleared without the
\* lock, so the bit found is still the lowest clear one when it is set.
alloc_cmdid(bits, c) ==
  \/ CmdIds \subseteq bits /\ c = BusyId
  \/ FirstZero(bits, c)

free_cmdid_stale(c) ==                      \* mutant: the context is not reset
  /\ UNCHANGED info
  /\ cmdid_data' = cmdid_data \ {c}
  /\ pc' = [t \in Tasks |-> IF pc[t] = "wait" THEN "find" ELSE pc[t]]

free_cmdid_leak(c) ==                       \* mutant: the bit is not cleared
  /\ info' = [info EXCEPT ![c].fn = "special", ![c].ctx = "COMPLETED"]
  /\ UNCHANGED <<cmdid_data, pc>>

\* free_cmdid(): the ID returns to the pool and whoever waits for one wakes
free_cmdid(c) ==
  /\ info' = [info EXCEPT ![c].fn = "special", ![c].ctx = "COMPLETED"]
  /\ cmdid_data' = cmdid_data \ {c}
  /\ pc' = [t \in Tasks |-> IF pc[t] = "wait" THEN "find" ELSE pc[t]]

cancel_cmdid_free(c) ==                     \* mutant: the ID is given back
  /\ info' = [info EXCEPT ![c].fn = "special", ![c].ctx = "CANCELLED"]
  /\ cmdid_data' = cmdid_data \ {c}

\* cancel_cmdid(): the handler is detached, the ID stays taken
cancel_cmdid(c) ==
  /\ info' = [info EXCEPT ![c].fn = "special", ![c].ctx = "CANCELLED"]
  /\ UNCHANGED cmdid_data

-----------------------------------------------------------------------------
(* Bios *)

Congest_unregistered(b) ==                  \* mutant: no add_wait_queue()
  /\ sq_cong' = Append(sq_cong, b)
  /\ UNCHANGED cong_wait
  /\ bio' = [bio EXCEPT ![b] = "cong"]

\* requeue_bio() and the tail of nvme_make_request()
Congest(b) ==
  /\ sq_cong' = Append(sq_cong, b)
  /\ cong_wait' = (cong_wait \/ sq_cong = <<>>)
  /\ bio' = [bio EXCEPT ![b] = "cong"]

\* bio_endio()
EndBio(b) ==
  /\ bio' = [bio EXCEPT ![b] = "idle"]
  /\ runs' = [runs EXCEPT ![b] = RunsOf(b)]
  /\ UNCHANGED <<sq_cong, cong_wait>>

bio_completion(b, ok) ==
  IF ok /\ runs[b] > 0
    THEN Congest(b) /\ UNCHANGED runs
    ELSE EndBio(b)

\* wake_up_process() is lost on a task that is not in TASK_KILLABLE yet: it
\* clears woken when it enters that state
sync_completion(t) ==
  /\ status' = [status EXCEPT ![t] = "answered"]
  /\ woken' = [woken EXCEPT ![t] = TRUE]

\* fn(nvmeq->dev, ctx, &cqe)
CallHandler(fn, ctx, ok) ==
  /\ oops' = (oops \/ fn = "none" \/ (fn = "bio" /\ ctx \notin Bios)
                   \/ (fn = "sync" /\ (ctx \notin Tasks \/ pc[ctx] = "idle")))
  /\ IF fn = "sync" /\ ctx \in Tasks THEN sync_completion(ctx) ELSE UNCHANGED <<status, woken>>
  /\ IF fn = "bio" /\ ctx \in Bios THEN bio_completion(ctx, ok) ELSE UNCHANGED bioVars

\* nvme_submit_flush_data() finds no ID: nvme_submit_bio_queue() returns -EBUSY
FlushBusy(b) == b \in FlushBios /\ CmdIds \subseteq cmdid_data

\* nvme_submit_bio_queue() returning 0: f is the ID of the flush that goes
\* first, if any, c the ID of the read or write.  The return value of the
\* second alloc_cmdid() is not tested: the command goes out as BusyId.
nvme_submit_bio_queue(b) ==
  \E f, c \in CmdIds \cup {BusyId} :
    LET flush == b \in FlushBios
        taken == IF flush THEN cmdid_data \cup {f} ELSE cmdid_data
        at    == IF flush THEN NextSlot(sq_tail) ELSE sq_tail
    IN /\ IF flush THEN FirstZero(cmdid_data, f) ELSE f = BusyId
       /\ alloc_cmdid(taken, c)
       /\ cmdid_data' = taken \cup (IF c = BusyId THEN {} ELSE {c})
       /\ info' = [i \in CmdIds |->
            CASE i = c -> [fn |-> "bio", ctx |-> b, expired |-> FALSE]
              [] i = f -> [fn |-> "special", ctx |-> "FLUSH", expired |-> FALSE]
              [] OTHER -> info[i]]
       /\ sq_cmds' = [i \in Slots |->
            IF i = at THEN c ELSE IF flush /\ i = sq_tail THEN f ELSE sq_cmds[i]]
       /\ sq_tail' = NextSlot(at)
       /\ \/ runs' = [runs EXCEPT ![b] = @ - 1]
          \/ MapMayFail /\ UNCHANGED runs
       /\ bio' = [bio EXCEPT ![b] = IF c = BusyId THEN "lost" ELSE "issued"]

nvme_make_request(b) ==
  /\ q_lock = "free"
  /\ bio[b] = "idle"
  /\ \/ /\ sq_cong = <<>> /\ ~FlushBusy(b)
        /\ nvme_submit_bio_queue(b)
        /\ UNCHANGED <<sq_cong, cong_wait>>
     \/ /\ sq_cong # <<>> \/ FlushBusy(b)
        /\ Congest(b)
        /\ UNCHANGED <<runs, cmdVars, sqVars>>
  /\ UNCHANGED <<cqVars, lockVars, taskVars, oops, devVars>>

-----------------------------------------------------------------------------
(* The interrupt handler and the kernel thread *)

\* The line is shared (IRQF_SHARED): the handler can run at any time.
nvme_irq ==
  /\ q_lock = "free"
  /\ q_lock' = "irq" /\ stage' = "cq"
  /\ head' = cq_head /\ phase' = cq_phase
  /\ UNCHANGED <<cmdVars, sqVars, cq_head, cq_phase, scan, bioVars, taskVars, oops, devVars>>

nvme_kthread ==
  /\ q_lock = "free"
  /\ q_lock' = "kthread" /\ stage' = "cq"
  /\ head' = cq_head /\ phase' = cq_phase
  /\ UNCHANGED <<cmdVars, sqVars, cq_head, cq_phase, scan, bioVars, taskVars, oops, devVars>>

\* An entry is new when it carries the expected phase tag.
CqeIsNew == cqes[head].phase = phase

\* One turn of the loop of nvme_process_cq(); ok: the status is 0
ProcessCqe ==
  /\ stage = "cq" /\ CqeIsNew
  /\ head' = NextSlot(head)
  /\ phase' = NextPhase(phase, head')
  /\ LET c == cqes[head].id
     IN IF c >= Depth
          THEN UNCHANGED <<cmdVars, bioVars, taskVars, oops>>
          ELSE /\ free_cmdid(c)
               /\ \E ok \in BOOLEAN : CallHandler(info[c].fn, info[c].ctx, ok)
               /\ UNCHANGED slot
  /\ UNCHANGED <<sqVars, cq_head, cq_phase, lockVars, devVars>>

\* The loop is over: ring the CQ head doorbell; the handler unlocks
ProcessCqDone ==
  /\ stage = "cq" /\ ~CqeIsNew
  /\ cq_head' = head /\ cq_phase' = phase
  /\ IF q_lock = "irq" THEN q_lock' = "free" /\ stage' = "none"
                       ELSE q_lock' = q_lock /\ stage' = "timeout"
  /\ scan' = 0
  /\ UNCHANGED <<cmdVars, sqVars, head, phase, bioVars, taskVars, oops, devVars>>

\* The next bit for_each_set_bit() finds, if any
NextSetBit(c) == c \in cmdid_data /\ c >= scan /\ \A d \in cmdid_data : d >= scan => c <= d

TimeOut_silent(c) ==                        \* mutant: the handler is not called
  cancel_cmdid(c) /\ UNCHANGED <<bioVars, taskVars, oops>>

TimeOut(c) ==
  /\ cancel_cmdid(c)
  /\ CallHandler(info[c].fn, info[c].ctx, FALSE)
  /\ UNCHANGED <<pc, slot>>

nvme_timeout_ios ==
  /\ stage = "timeout"
  /\ \/ /\ \A d \in cmdid_data : d < scan
        /\ stage' = "resubmit" /\ scan' = 0
        /\ UNCHANGED <<cmdVars, bioVars, taskVars, oops>>
     \/ \E c \in CmdIds :
        /\ NextSetBit(c)
        /\ scan' = c + 1 /\ stage' = stage
        /\ IF info[c].expired
             THEN TimeOut(c)
             ELSE UNCHANGED <<cmdVars, bioVars, taskVars, oops>>
  /\ UNCHANGED <<sqVars, cqVars, q_lock, devVars>>

\* A bio popped and refused goes back to the front: the list is as it was.
nvme_resubmit_bios ==
  /\ stage = "resubmit"
  /\ IF sq_cong = <<>> \/ FlushBusy(Head(sq_cong))
       THEN /\ q_lock' = "free" /\ stage' = "none"
            /\ UNCHANGED <<cmdVars, sqVars, bioVars>>
       ELSE /\ nvme_submit_bio_queue(Head(sq_cong))
            /\ sq_cong' = Tail(sq_cong)
            /\ cong_wait' = (cong_wait /\ sq_cong' # <<>>)
            /\ UNCHANGED <<q_lock, stage>>
  /\ UNCHANGED <<cqVars, scan, taskVars, oops, devVars>>

-----------------------------------------------------------------------------
(* nvme_submit_sync_cmd().  Its alloc_cmdid() runs without q_lock: the      *)
(* search, the test-and-set and each store to cmd_info are separate steps.  *)

Goto(t, l) == pc' = [pc EXCEPT ![t] = l]

\* The stack frame is fresh: Init and Return leave it so.
SyncCall(t) ==
  /\ pc[t] = "idle" /\ Goto(t, "find")
  /\ UNCHANGED <<cmdVars, sqVars, cqVars, lockVars, bioVars, slot, status, woken, oops, devVars>>

Return(t) ==
  /\ Goto(t, "idle")
  /\ slot' = [slot EXCEPT ![t] = 0]
  /\ status' = [status EXCEPT ![t] = "EINTR"]
  /\ woken' = [woken EXCEPT ![t] = FALSE]

\* find_first_zero_bit(), or a wait on sq_full that a fatal signal ends
AllocFind(t) ==
  /\ pc[t] = "find"
  /\ IF CmdIds \subseteq cmdid_data
       THEN Goto(t, "wait") /\ UNCHANGED slot
       ELSE /\ \E c \in CmdIds : FirstZero(cmdid_data, c) /\ slot' = [slot EXCEPT ![t] = c]
            /\ Goto(t, "set")
  /\ UNCHANGED <<cmdVars, sqVars, cqVars, lockVars, bioVars, status, woken, oops, devVars>>

AllocKilled(t) ==
  /\ pc[t] = "wait" /\ Return(t)
  /\ UNCHANGED <<cmdVars, sqVars, cqVars, lockVars, bioVars, oops, devVars>>

AllocSet_blind(t) ==                        \* mutant: set_bit(), nothing tested
  /\ pc[t] = "set" /\ Goto(t, "fn")
  /\ cmdid_data' = cmdid_data \cup {slot[t]}
  /\ UNCHANGED <<info, sqVars, cqVars, lockVars, bioVars, slot, status, woken, oops, devVars>>

\* test_and_set_bit()
AllocSet(t) ==
  /\ pc[t] = "set"
  /\ Goto(t, IF slot[t] \in cmdid_data THEN "find" ELSE "fn")
  /\ cmdid_data' = cmdid_data \cup {slot[t]}
  /\ UNCHANGED <<info, sqVars, cqVars, lockVars, bioVars, slot, status, woken, oops, devVars>>

AllocFn(t) ==
  /\ pc[t] = "fn" /\ Goto(t, "ctx")
  /\ info' = [info EXCEPT ![slot[t]].fn = "sync"]
  /\ UNCHANGED <<cmdid_data, sqVars, cqVars, lockVars, bioVars, slot, status, woken, oops, devVars>>

AllocCtx(t) ==
  /\ pc[t] = "ctx" /\ Goto(t, "timeout")
  /\ info' = [info EXCEPT ![slot[t]].ctx = t]
  /\ UNCHANGED <<cmdid_data, sqVars, cqVars, lockVars, bioVars, slot, status, woken, oops, devVars>>

\* The deadline, and then set_current_state(TASK_KILLABLE)
AllocTimeout(t) ==
  /\ pc[t] = "timeout" /\ Goto(t, "submit")
  /\ info' = [info EXCEPT ![slot[t]].expired = FALSE]
  /\ woken' = [woken EXCEPT ![t] = FALSE]
  /\ UNCHANGED <<cmdid_data, sqVars, cqVars, lockVars, bioVars, slot, status, oops, devVars>>

nvme_submit_cmd(t) ==
  /\ pc[t] = "submit" /\ Goto(t, "sleep")
  /\ q_lock = "free"
  /\ sq_cmds' = [sq_cmds EXCEPT ![sq_tail] = slot[t]]
  /\ sq_tail' = NextSlot(sq_tail)
  /\ UNCHANGED <<cmdVars, cqVars, lockVars, bioVars, slot, status, woken, oops, devVars>>

SyncWake_noabort(t, killed) ==              \* mutant: a killed caller just leaves
  /\ pc[t] = "sleep" /\ (woken[t] \/ killed) /\ Return(t)
  /\ UNCHANGED <<cmdVars, sqVars, cqVars, lockVars, bioVars, oops, devVars>>

\* schedule() returns when the task is woken or killed: then status is read
SyncWake(t, killed) ==
  /\ pc[t] = "sleep" /\ (woken[t] \/ killed)
  /\ IF status[t] = "EINTR" THEN Goto(t, "abort") /\ UNCHANGED <<slot, status, woken>>
                             ELSE Return(t)
  /\ UNCHANGED <<cmdVars, sqVars, cqVars, lockVars, bioVars, oops, devVars>>

nvme_abort_command(t) ==
  /\ pc[t] = "abort" /\ Return(t)
  /\ q_lock = "free"
  /\ cancel_cmdid(slot[t])
  /\ UNCHANGED <<sqVars, cqVars, lockVars, bioVars, oops, devVars>>

-----------------------------------------------------------------------------
(* The controller and the clock (external) *)

DevFetch ==
  /\ dev_head # sq_tail
  /\ dev_cmds' = [dev_cmds EXCEPT ![sq_cmds[dev_head]] = @ + 1]
  /\ dev_head' = NextSlot(dev_head)
  /\ UNCHANGED <<cmdVars, sqVars, cqVars, lockVars, bioVars, taskVars, oops,
                 dev_tail, dev_phase, cqes>>

DevPost(c) ==
  /\ dev_cmds[c] > 0
  /\ NextSlot(dev_tail) # cq_head
  /\ dev_cmds' = [dev_cmds EXCEPT ![c] = @ - 1]
  /\ cqes' = [cqes EXCEPT ![dev_tail] = [id |-> c, phase |-> dev_phase]]
  /\ dev_tail' = NextSlot(dev_tail)
  /\ dev_phase' = NextPhase(dev_phase, dev_tail')
  /\ UNCHANGED <<cmdVars, sqVars, cqVars, lockVars, bioVars, taskVars, oops, dev_head>>

\* jiffies passes info[c].timeout
Expire(c) ==
  /\ ~info[c].expired
  /\ info' = [info EXCEPT ![c].expired = TRUE]
  /\ UNCHANGED <<cmdid_data, sqVars, cqVars, lockVars, bioVars, taskVars, oops, devVars>>

-----------------------------------------------------------------------------

Interrupt == nvme_irq \/ nvme_kthread \/ ProcessCqe \/ ProcessCqDone
Thread    == nvme_timeout_ios \/ nvme_resubmit_bios
Sync(t)   == \/ SyncCall(t) \/ AllocFind(t) \/ AllocKilled(t) \/ AllocSet(t)
             \/ AllocFn(t) \/ AllocCtx(t) \/ AllocTimeout(t) \/ nvme_submit_cmd(t)
             \/ (\E killed \in BOOLEAN : SyncWake(t, killed)) \/ nvme_abort_command(t)
Controller == DevFetch \/ \E c \in CmdIds \cup {BusyId} : DevPost(c)

\* The kernel is dead after an oops.
Next ==
  /\ ~oops
  /\ \/ \E b \in Bios : nvme_make_request(b)
     \/ Interrupt \/ Thread \/ Controller
     \/ \E t \in Tasks : Sync(t)
     \/ \E c \in CmdIds : Expire(c)

Spec == Init /\ [][Next]_vars

\* The kernel thread runs every second and waits its turn for the spin lock;
\* a handler that holds the lock does not sleep; time passes.
DriverFairness ==
  /\ SF_vars(nvme_kthread)
  /\ WF_vars(ProcessCqe) /\ WF_vars(ProcessCqDone)
  /\ WF_vars(nvme_timeout_ios) /\ WF_vars(nvme_resubmit_bios)
  /\ \A c \in CmdIds : WF_vars(Expire(c))

\* A controller that answers every command
ControllerFairness == WF_vars(DevFetch) /\ \A c \in CmdIds \cup {BusyId} : SF_vars(DevPost(c))

FairSpec == Spec /\ DriverFairness

-----------------------------------------------------------------------------
(* Properties *)

CmdInfo == [fn : {"none", "special", "bio", "sync"}, ctx : SpecialCtx \cup Bios \cup Tasks,
            expired : BOOLEAN]
Locs == {"idle", "find", "wait", "set", "fn", "ctx", "timeout", "submit", "sleep", "abort"}

\* The values each field and local can hold.
TypeOK ==
  /\ cmdid_data \subseteq CmdIds
  /\ info \in [CmdIds -> CmdInfo]
  /\ sq_cmds \in [Slots -> CmdIds \cup {BusyId}] /\ sq_tail \in Slots
  /\ cqes \in [Slots -> [id : CmdIds \cup {BusyId}, phase : {0, 1}]]
  /\ cq_head \in Slots /\ cq_phase \in {0, 1} /\ head \in Slots /\ phase \in {0, 1}
  /\ q_lock \in {"free", "irq", "kthread"}
  /\ stage \in {"none", "cq", "timeout", "resubmit"} /\ scan \in Slots
  /\ sq_cong \in Seq(Bios) /\ cong_wait \in BOOLEAN
  /\ bio \in [Bios -> {"idle", "issued", "cong", "lost"}] /\ runs \in [Bios -> Int]
  /\ pc \in [Tasks -> Locs] /\ slot \in [Tasks -> CmdIds]
  /\ status \in [Tasks -> {"EINTR", "answered"}] /\ woken \in [Tasks -> BOOLEAN]
  /\ oops \in BOOLEAN
  /\ dev_head \in Slots /\ dev_cmds \in [CmdIds \cup {BusyId} -> Nat]
  /\ dev_tail \in Slots /\ dev_phase \in {0, 1}

\* Where a command ID can be outside the driver: in a submission slot not yet
\* fetched, inside the controller, in a completion slot not yet read.
LiveSq  == Between(dev_head, sq_tail)
LiveCq  == Between(head, dev_tail)
Queued  == {sq_cmds[i] : i \in LiveSq} \cap CmdIds
Fetched == {c \in CmdIds : dev_cmds[c] > 0}
Posted  == {cqes[i].id : i \in LiveCq} \cap CmdIds
Held    == Queued \cup Fetched \cup Posted

\* IDs a task has taken and not submitted yet
Unsubmitted(t) == pc[t] \in {"fn", "ctx", "timeout", "submit"}
Preparing == {slot[t] : t \in {u \in Tasks : Unsubmitted(u)}}

\* alloc_cmdid(): two commands outstanding at the controller never carry the
\* same ID, and an ID the controller may still answer is never handed out
\* again, whatever was timed out, aborted or allocated without the lock.
CmdIdNotReused ==
  /\ \A i, j \in LiveSq : sq_cmds[i] = sq_cmds[j] /\ sq_cmds[i] \in CmdIds => i = j
  /\ \A c \in CmdIds : dev_cmds[c] <= 1
  /\ \A i, j \in LiveCq : cqes[i].id = cqes[j].id /\ cqes[i].id \in CmdIds => i = j
  /\ Queued \cap Fetched = {} /\ Queued \cap Posted = {} /\ Fetched \cap Posted = {}
  /\ Held \subseteq cmdid_data

\* Two lockless alloc_cmdid() never return the same ID, nor one in use.
PreparingIsPrivate ==
  /\ \A t, u \in Tasks : Unsubmitted(t) /\ Unsubmitted(u) /\ slot[t] = slot[u] => t = u
  /\ Preparing \subseteq cmdid_data
  /\ Preparing \cap Held = {}

\* nvme_process_cq(): the phase tag matches exactly when an entry is unread,
\* so no completion is handled twice and none is passed over, also across
\* wraps of the ring and while the controller writes during the loop.
PhaseTagExact == CqeIsNew <=> head # dev_tail

\* Entries of the completion ring still to read, oldest first
Wrap(i) == IF i < Depth THEN i ELSE i - Depth
CqUnread == IF head <= dev_tail THEN dev_tail - head ELSE dev_tail - head + Depth
CqContents == [i \in 1 .. CqUnread |-> cqes[Wrap(head + i - 1)].id]

Cq == INSTANCE BoundedFifo
        WITH Items <- CmdIds \cup {BusyId}, Capacity <- Depth - 1, queue <- CqContents

\* The completion ring, with its lagging head doorbell and no index shared in
\* memory, is a queue: the driver reads what the controller wrote, in that order.
CqIsFifo == Cq!Spec

\* A context a completion or a timeout will use is alive: its bio is issued and
\* has one ID, its stack frame belongs to a call in progress, and an ID in the
\* pool carries no context at all.
NoDanglingCtx ==
  /\ \A c \in CmdIds : info[c].fn = "bio" => info[c].ctx \in Bios /\ bio[info[c].ctx] = "issued"
  /\ \A c, d \in CmdIds : info[c].fn = "bio" /\ info[c].ctx = info[d].ctx => c = d
  /\ \A c \in CmdIds : info[c].ctx \in Tasks =>
       pc[info[c].ctx] \in {"timeout", "submit", "sleep", "abort"}
  /\ \A c \in CmdIds \ cmdid_data : info[c].ctx \in SpecialCtx

SomeBioLost == \E b \in Bios : bio[b] = "lost"

\* Timeouts and aborts leave the ID taken, and the answer gives it back: as long
\* as every bio got an ID, each ID taken is the controller's or a task's.
IdsAccounted ==
  ~SomeBioLost => cmdid_data = Held \cup Preparing

\* requeue_bio(), nvme_make_request(), nvme_resubmit_bios(): the thread is on
\* sq_full exactly while bios wait, and a bio waits at most once.
CongestionRegistered ==
  /\ cong_wait <=> sq_cong # <<>>
  /\ \A b \in Bios : bio[b] = "cong" <=> \E i \in DOMAIN sq_cong : sq_cong[i] = b
  /\ \A i, j \in DOMAIN sq_cong : sq_cong[i] = sq_cong[j] => i = j

\* nvme_timeout_ios(): a bio the controller holds comes back to the block layer
\* or to sq_cong, even when the controller never answers.
IssuedBioLeaves == \A b \in Bios : bio[b] = "issued" ~> bio[b] # "issued"

\* nvme_resubmit_bios(): with a controller that answers, a bio does not wait for
\* an ID for ever.  A bio that was lost may have filled the submission ring,
\* which then reads as empty.
CongestedBioLeaves ==
  ControllerFairness => \A b \in Bios : bio[b] = "cong" ~> bio[b] # "cong" \/ SomeBioLost

\* alloc_cmdid(), "The data passed in will be passed to the completion
\* handler": no handler runs through NULL or on a pointer it was not given, and
\* some ID leads the completion, or the timeout, to each issued bio.
HandlerGetsItsData ==
  /\ ~oops
  /\ \A b \in Bios : bio[b] = "issued" => \E c \in CmdIds : info[c].fn = "bio" /\ info[c].ctx = b

=============================================================================
