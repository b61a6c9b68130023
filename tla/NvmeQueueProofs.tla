-------------------------- MODULE NvmeQueueProofs --------------------------
(***************************************************************************)
(* Theorems about NvmeQueue, for every depth, set of bios and set of tasks.*)
(***************************************************************************)
EXTENDS NvmeQueue, FiniteSetTheorems, TLAPS

USE DepthAssumption, BioAssumption, CtxAssumption

LEMMA NextSlotType == \A i \in Slots : NextSlot(i) \in Slots
  BY DEF NextSlot, Slots

LEMMA NextPhaseType == \A p \in {0, 1}, i \in Slots : NextPhase(p, i) \in {0, 1}
  BY DEF NextPhase, Slots

\* The initial state has the types of the declarations.
LEMMA TypeInit == Init => TypeOK
<1> SUFFICES ASSUME Init PROVE TypeOK
  OBVIOUS
<1>1. 0 \in Slots /\ 0 \in CmdIds
  BY DEF Slots, CmdIds
<1>2. info \in [CmdIds -> CmdInfo]
  BY DEF Init, CmdInfo, SpecialCtx
<1>3. /\ sq_cmds \in [Slots -> CmdIds \cup {BusyId}]
      /\ cqes \in [Slots -> [id : CmdIds \cup {BusyId}, phase : {0, 1}]]
      /\ dev_cmds \in [CmdIds \cup {BusyId} -> Nat]
  BY <1>1 DEF Init
<1>4. sq_cong \in Seq(Bios) /\ runs \in [Bios -> Int]
  BY DEF Init, RunsOf
<1> QED  BY <1>1, <1>2, <1>3, <1>4 DEF Init, TypeOK, Locs

LEMMA CongestType ==
  ASSUME TypeOK, NEW b \in Bios, Congest(b)
  PROVE  sq_cong' \in Seq(Bios) /\ cong_wait' \in BOOLEAN
         /\ bio' \in [Bios -> {"idle", "issued", "cong", "lost"}]
  BY DEF TypeOK, Congest

LEMMA CallHandlerType ==
  ASSUME TypeOK, NEW fn, NEW ctx, NEW ok \in BOOLEAN, CallHandler(fn, ctx, ok)
  PROVE  /\ oops' \in BOOLEAN
         /\ sq_cong' \in Seq(Bios) /\ cong_wait' \in BOOLEAN
         /\ bio' \in [Bios -> {"idle", "issued", "cong", "lost"}] /\ runs' \in [Bios -> Int]
         /\ status' \in [Tasks -> {"EINTR", "answered"}] /\ woken' \in [Tasks -> BOOLEAN]
<1>1. oops' \in BOOLEAN
  BY DEF CallHandler, TypeOK
<1>2. status' \in [Tasks -> {"EINTR", "answered"}] /\ woken' \in [Tasks -> BOOLEAN]
  BY DEF CallHandler, TypeOK, sync_completion
<1>3. CASE fn = "bio" /\ ctx \in Bios
  <2>1. bio_completion(ctx, ok)
    BY <1>3 DEF CallHandler
  <2>2. CASE Congest(ctx) /\ UNCHANGED runs
    BY <2>2, <1>1, <1>2, <1>3, CongestType DEF TypeOK
  <2>3. CASE EndBio(ctx)
    BY <2>3, <1>1, <1>2, <1>3 DEF TypeOK, EndBio, RunsOf
  <2> QED  BY <2>1, <2>2, <2>3 DEF bio_completion
<1>4. CASE ~(fn = "bio" /\ ctx \in Bios)
  BY <1>1, <1>2, <1>4 DEF CallHandler, TypeOK, bioVars
<1> QED  BY <1>3, <1>4

LEMMA SetInfoType ==
  ASSUME info \in [CmdIds -> CmdInfo], NEW c \in CmdIds, NEW x \in SpecialCtx
  PROVE  [info EXCEPT ![c].fn = "special", ![c].ctx = x] \in [CmdIds -> CmdInfo]
  BY DEF CmdInfo

LEMMA StoreType ==
  ASSUME info \in [CmdIds -> CmdInfo], NEW c \in CmdIds
  PROVE  /\ [info EXCEPT ![c].fn = "sync"] \in [CmdIds -> CmdInfo]
         /\ \A t \in Tasks : [info EXCEPT ![c].ctx = t] \in [CmdIds -> CmdInfo]
         /\ \A e \in BOOLEAN : [info EXCEPT ![c].expired = e] \in [CmdIds -> CmdInfo]
  BY DEF CmdInfo

LEMMA FreeType ==
  ASSUME TypeOK, NEW c \in CmdIds, free_cmdid(c)
  PROVE  cmdid_data' \subseteq CmdIds /\ pc' \in [Tasks -> Locs]
         /\ info' \in [CmdIds -> CmdInfo]
<1>1. info' \in [CmdIds -> CmdInfo]
  BY SetInfoType DEF TypeOK, free_cmdid, SpecialCtx
<1>2. pc' \in [Tasks -> Locs]
  BY DEF TypeOK, free_cmdid, Locs
<1> QED  BY <1>1, <1>2 DEF TypeOK, free_cmdid

LEMMA CancelType ==
  ASSUME TypeOK, NEW c \in CmdIds, cancel_cmdid(c)
  PROVE  cmdid_data' \subseteq CmdIds
         /\ info' \in [CmdIds -> CmdInfo]
  BY SetInfoType DEF TypeOK, cancel_cmdid, SpecialCtx

LEMMA SubmitBioType ==
  ASSUME TypeOK, NEW b \in Bios, nvme_submit_bio_queue(b)
  PROVE  /\ cmdid_data' \subseteq CmdIds
         /\ info' \in [CmdIds -> CmdInfo]
         /\ sq_cmds' \in [Slots -> CmdIds \cup {BusyId}] /\ sq_tail' \in Slots
         /\ bio' \in [Bios -> {"idle", "issued", "cong", "lost"}] /\ runs' \in [Bios -> Int]
<1> DEFINE at == IF b \in FlushBios THEN NextSlot(sq_tail) ELSE sq_tail
<1>1. at \in Slots /\ NextSlot(at) \in Slots
  BY NextSlotType DEF TypeOK
<1> PICK f \in CmdIds \cup {BusyId}, c \in CmdIds \cup {BusyId} :
      LET flush == b \in FlushBios
          taken == IF flush THEN cmdid_data \cup {f} ELSE cmdid_data
      IN /\ IF flush THEN FirstZero(cmdid_data, f) ELSE f = BusyId
         /\ alloc_cmdid(taken, c)
         /\ cmdid_data' = taken \cup (IF c = BusyId THEN {} ELSE {c})
         /\ info' = [i \in CmdIds |->
              CASE i = c -> [fn |-> "bio", ctx |-> b, expired |-> FALSE]
                [] i = f -> [fn |-> "special", ctx |-> "FLUSH", expired |-> FALSE]
                [] OTHER -> info[i]]
         /\ sq_cmds' = [i \in Slots |->
              IF i = at THEN c ELSE IF flush /\ i = sq_tail THEN f ELSE sq_cmds[i]]
         /\ sq_tail' = NextSlot(at)
         /\ \/ runs' = [runs EXCEPT ![b] = @ - 1]
            \/ MapMayFail /\ UNCHANGED runs
         /\ bio' = [bio EXCEPT ![b] = IF c = BusyId THEN "lost" ELSE "issued"]
  BY DEF nvme_submit_bio_queue
<1>2. cmdid_data' \subseteq CmdIds
  BY DEF TypeOK, FirstZero
<1>3. info' \in [CmdIds -> CmdInfo]
  BY DEF TypeOK, CmdInfo, SpecialCtx
<1>4. sq_cmds' \in [Slots -> CmdIds \cup {BusyId}] /\ sq_tail' \in Slots
  BY <1>1 DEF TypeOK
<1>5. bio' \in [Bios -> {"idle", "issued", "cong", "lost"}] /\ runs' \in [Bios -> Int]
  BY DEF TypeOK
<1> QED  BY <1>2, <1>3, <1>4, <1>5


\* Every step keeps the types.
LEMMA TypeStep == TypeOK /\ [Next]_vars => TypeOK'
<1> SUFFICES ASSUME TypeOK, [Next]_vars PROVE TypeOK'
  OBVIOUS
<1> USE DEF cmdVars, sqVars, cqVars, lockVars, bioVars, taskVars, devVars
<1>1. ASSUME NEW b \in Bios, nvme_make_request(b) PROVE TypeOK'
  <2>1. CASE /\ nvme_submit_bio_queue(b) /\ UNCHANGED <<sq_cong, cong_wait>>
    BY <1>1, <2>1, SubmitBioType DEF TypeOK, nvme_make_request
  <2>2. CASE Congest(b) /\ UNCHANGED <<runs, cmdVars, sqVars>>
    BY <1>1, <2>2, CongestType DEF TypeOK, nvme_make_request
  <2> QED  BY <1>1, <2>1, <2>2 DEF nvme_make_request
<1>2. CASE nvme_irq
  BY <1>2 DEF TypeOK, nvme_irq
<1>3. CASE nvme_kthread
  BY <1>3 DEF TypeOK, nvme_kthread
<1>4. CASE ProcessCqe
  <2> DEFINE c == cqes[head].id
  <2>1. head' \in Slots /\ phase' \in {0, 1} /\ c \in CmdIds \cup {BusyId}
    BY <1>4, NextSlotType, NextPhaseType DEF TypeOK, ProcessCqe
  <2>2. CASE c >= Depth
    BY <1>4, <2>1, <2>2 DEF TypeOK, ProcessCqe
  <2>3. CASE ~(c >= Depth)
    <3>1. c \in CmdIds
      BY <2>1, <2>3 DEF BusyId
    <3>2. free_cmdid(c) /\ UNCHANGED <<slot, sqVars, cq_head, cq_phase, lockVars, devVars>>
      BY <1>4, <2>3 DEF ProcessCqe
    <3>3. PICK ok \in BOOLEAN : CallHandler(info[c].fn, info[c].ctx, ok)
      BY <1>4, <2>3 DEF ProcessCqe
    <3>4. cmdid_data' \subseteq CmdIds /\ pc' \in [Tasks -> Locs] /\ info' \in [CmdIds -> CmdInfo]
      BY <3>1, <3>2, FreeType
    <3>5. /\ oops' \in BOOLEAN
          /\ sq_cong' \in Seq(Bios) /\ cong_wait' \in BOOLEAN
          /\ bio' \in [Bios -> {"idle", "issued", "cong", "lost"}] /\ runs' \in [Bios -> Int]
          /\ status' \in [Tasks -> {"EINTR", "answered"}] /\ woken' \in [Tasks -> BOOLEAN]
      BY <3>3, CallHandlerType
    <3> QED  BY <2>1, <3>2, <3>4, <3>5 DEF TypeOK
  <2> QED  BY <2>2, <2>3
<1>5. CASE ProcessCqDone
  BY <1>5 DEF TypeOK, ProcessCqDone, Slots
<1>6. CASE nvme_timeout_ios
  <2>1. CASE stage' = "resubmit" /\ scan' = 0 /\ UNCHANGED <<cmdVars, bioVars, taskVars, oops>>
    BY <1>6, <2>1 DEF TypeOK, nvme_timeout_ios, Slots
  <2>2. ASSUME NEW c \in CmdIds, scan' = c + 1, stage' = stage,
               IF info[c].expired THEN TimeOut(c)
                                  ELSE UNCHANGED <<cmdVars, bioVars, taskVars, oops>>
        PROVE TypeOK'
    <3>1. scan' \in Slots
      BY <2>2 DEF Slots, CmdIds
    <3>2. CASE TimeOut(c)
      <4>1. cmdid_data' \subseteq CmdIds /\ info' \in [CmdIds -> CmdInfo]
        BY <3>2, CancelType DEF TimeOut
      <4>2. CallHandler(info[c].fn, info[c].ctx, FALSE)
        BY <3>2 DEF TimeOut
      <4>3. /\ oops' \in BOOLEAN
            /\ sq_cong' \in Seq(Bios) /\ cong_wait' \in BOOLEAN
            /\ bio' \in [Bios -> {"idle", "issued", "cong", "lost"}] /\ runs' \in [Bios -> Int]
            /\ status' \in [Tasks -> {"EINTR", "answered"}] /\ woken' \in [Tasks -> BOOLEAN]
        BY <4>2, CallHandlerType
      <4> QED  BY <1>6, <2>2, <3>1, <3>2, <4>1, <4>3 DEF TypeOK, nvme_timeout_ios, TimeOut
    <3>3. CASE UNCHANGED <<cmdVars, bioVars, taskVars, oops>>
      BY <1>6, <2>2, <3>1, <3>3 DEF TypeOK, nvme_timeout_ios
    <3> QED  BY <2>2, <3>2, <3>3
  <2> QED  BY <1>6, <2>1, <2>2 DEF nvme_timeout_ios
<1>7. CASE nvme_resubmit_bios
  <2>1. CASE sq_cong = <<>> \/ FlushBusy(Head(sq_cong))
    BY <1>7, <2>1 DEF TypeOK, nvme_resubmit_bios
  <2>2. CASE ~(sq_cong = <<>> \/ FlushBusy(Head(sq_cong)))
    <3>1. Head(sq_cong) \in Bios /\ Tail(sq_cong) \in Seq(Bios)
      BY <2>2 DEF TypeOK
    <3>2. nvme_submit_bio_queue(Head(sq_cong)) /\ sq_cong' = Tail(sq_cong)
          /\ cong_wait' = (cong_wait /\ sq_cong' # <<>>)
          /\ UNCHANGED <<q_lock, stage, cqVars, scan, taskVars, oops, devVars>>
      BY <1>7, <2>2 DEF nvme_resubmit_bios
    <3> HIDE DEF cmdVars
    <3> QED  BY <3>1, <3>2, SubmitBioType DEF TypeOK
  <2> QED  BY <2>1, <2>2
<1>8. ASSUME NEW t \in Tasks, Sync(t) PROVE TypeOK'
  <2> USE DEF Goto, Return, Locs
  <2>0. 0 \in CmdIds
    BY DEF CmdIds
  <2>1. CASE SyncCall(t)
    BY <2>1 DEF TypeOK, SyncCall
  <2>2. CASE AllocFind(t)
    <3>1. slot' \in [Tasks -> CmdIds] /\ pc' \in [Tasks -> Locs]
      <4>1. CASE CmdIds \subseteq cmdid_data
        BY <2>2, <4>1 DEF TypeOK, AllocFind
      <4>2. CASE ~(CmdIds \subseteq cmdid_data)
        <5>1. PICK c \in CmdIds : slot' = [slot EXCEPT ![t] = c]
          BY <2>2, <4>2 DEF AllocFind
        <5>2. pc' = [pc EXCEPT ![t] = "set"]
          BY <2>2, <4>2 DEF AllocFind
        <5> QED  BY <5>1, <5>2 DEF TypeOK
      <4> QED  BY <4>1, <4>2
    <3> QED  BY <2>2, <3>1 DEF TypeOK, AllocFind
  <2>3. CASE AllocKilled(t)
    BY <2>0, <2>3 DEF TypeOK, AllocKilled
  <2>4. CASE AllocSet(t)
    BY <2>4 DEF TypeOK, AllocSet
  <2>5. CASE AllocFn(t)
    <3>1. slot[t] \in CmdIds /\ info \in [CmdIds -> CmdInfo]
      BY DEF TypeOK
    <3>2. info' \in [CmdIds -> CmdInfo]
      BY <2>5, <3>1, StoreType DEF AllocFn
    <3> QED  BY <2>5, <3>2 DEF TypeOK, AllocFn
  <2>6. CASE AllocCtx(t)
    <3>1. slot[t] \in CmdIds /\ info \in [CmdIds -> CmdInfo]
      BY DEF TypeOK
    <3>2. info' \in [CmdIds -> CmdInfo]
      BY <2>6, <3>1, StoreType DEF AllocCtx
    <3> QED  BY <2>6, <3>2 DEF TypeOK, AllocCtx
  <2>7. CASE AllocTimeout(t)
    <3>1. slot[t] \in CmdIds /\ info \in [CmdIds -> CmdInfo]
      BY DEF TypeOK
    <3>2. info' \in [CmdIds -> CmdInfo]
      BY <2>7, <3>1, StoreType DEF AllocTimeout
    <3> QED  BY <2>7, <3>2 DEF TypeOK, AllocTimeout
  <2>8. CASE nvme_submit_cmd(t)
    BY <2>8, NextSlotType DEF TypeOK, nvme_submit_cmd
  <2>9. ASSUME NEW killed \in BOOLEAN, SyncWake(t, killed) PROVE TypeOK'
    <3>1. CASE Goto(t, "abort") /\ UNCHANGED <<slot, status, woken>>
      BY <2>9, <3>1 DEF TypeOK, SyncWake
    <3>2. CASE Return(t)
      BY <2>0, <2>9, <3>2 DEF TypeOK, SyncWake
    <3> QED  BY <2>9, <3>1, <3>2 DEF SyncWake
  <2>10. CASE nvme_abort_command(t)
    <3>1. slot[t] \in CmdIds
      BY DEF TypeOK
    <3>2. cmdid_data' \subseteq CmdIds /\ info' \in [CmdIds -> CmdInfo]
      BY <2>10, <3>1, CancelType DEF nvme_abort_command
    <3> QED  BY <2>0, <2>10, <3>2 DEF TypeOK, nvme_abort_command
  <2> QED  BY <1>8, <2>1, <2>2, <2>3, <2>4, <2>5, <2>6, <2>7, <2>8, <2>9, <2>10 DEF Sync
<1>9. CASE DevFetch
  BY <1>9, NextSlotType DEF TypeOK, DevFetch
<1>10. ASSUME NEW c \in CmdIds \cup {BusyId}, DevPost(c) PROVE TypeOK'
  BY <1>10, NextSlotType, NextPhaseType DEF TypeOK, DevPost
<1>11. ASSUME NEW c \in CmdIds, Expire(c) PROVE TypeOK'
  <2>1. info' \in [CmdIds -> CmdInfo]
    BY <1>11, StoreType DEF TypeOK, Expire
  <2> QED  BY <1>11, <2>1 DEF TypeOK, Expire
<1>12. CASE UNCHANGED vars
  BY <1>12 DEF TypeOK, vars
<1> QED
  BY <1>1, <1>2, <1>3, <1>4, <1>5, <1>6, <1>7, <1>8, <1>9, <1>10, <1>11, <1>12
     DEF Next, Interrupt, Thread, Controller

\* Every reachable state has the types of the declarations.
THEOREM TypeCorrect == Spec => []TypeOK
  BY TypeInit, TypeStep, PTL DEF Spec

-----------------------------------------------------------------------------
(* The phase tag.  The reader at (h, hp) is at most one lap behind the      *)
(* writer at (t, tp), and a slot's tag says in which lap it was written.    *)

InLap(h, hp, t, tp) == (hp = tp /\ h <= t) \/ (hp # tp /\ t < h)

PhaseInv ==
  /\ \A i \in Slots : cqes[i].phase = IF i < dev_tail THEN dev_phase ELSE 1 - dev_phase
  /\ InLap(head, phase, dev_tail, dev_phase)
  /\ InLap(cq_head, cq_phase, dev_tail, dev_phase)
  /\ InLap(cq_head, cq_phase, head, phase)
  /\ stage # "cq" => head = cq_head
  /\ q_lock = "free" => stage = "none"

\* What one turn of the loop finds: the tag is right.
LEMMA PhaseExact == TypeOK /\ PhaseInv => PhaseTagExact
  BY DEF TypeOK, PhaseInv, PhaseTagExact, CqeIsNew, InLap, Slots

LEMMA PhaseInit == Init => PhaseInv
  BY DEF Init, PhaseInv, InLap, Slots

\* The controller leaves a slot free between its tail and the head doorbell,
\* which is at or before the driver's head: it never catches up with the driver.
LEMMA NeverFull ==
  ASSUME TypeOK, PhaseInv, NextSlot(dev_tail) # cq_head
  PROVE  NextSlot(dev_tail) # head
  BY DEF TypeOK, PhaseInv, InLap, NextSlot, Slots

LEMMA PhaseStep == TypeOK /\ PhaseInv /\ [Next]_vars => PhaseInv'
<1> SUFFICES ASSUME TypeOK, PhaseInv, [Next]_vars PROVE PhaseInv'
  OBVIOUS
<1> USE DEF cqVars, devVars, lockVars
<1> DEFINE tagVars == <<cqVars, cqes, dev_tail, dev_phase, stage, q_lock>>
<1>1. CASE nvme_irq \/ nvme_kthread
  BY <1>1 DEF PhaseInv, InLap, nvme_irq, nvme_kthread, TypeOK, Slots
<1>2. CASE ProcessCqe
  <2>1. head # dev_tail /\ cqes[head].phase = phase
    BY <1>2, PhaseExact DEF ProcessCqe, PhaseTagExact, CqeIsNew
  <2>2. /\ head' = NextSlot(head) /\ phase' = NextPhase(phase, head')
        /\ UNCHANGED <<cqes, dev_tail, dev_phase, cq_head, cq_phase>>
    BY <1>2 DEF ProcessCqe
  <2>3. InLap(head', phase', dev_tail, dev_phase)
    BY <2>1, <2>2 DEF PhaseInv, InLap, NextSlot, NextPhase, TypeOK, Slots
  <2>4. InLap(cq_head, cq_phase, head', phase')
    BY <2>1, <2>2 DEF PhaseInv, InLap, NextSlot, NextPhase, TypeOK, Slots
  <2>5. stage' = "cq" /\ q_lock' # "free"
    BY <1>2 DEF ProcessCqe, lockVars, PhaseInv
  <2> QED  BY <2>2, <2>3, <2>4, <2>5 DEF PhaseInv
<1>3. CASE ProcessCqDone
  BY <1>3 DEF PhaseInv, InLap, ProcessCqDone, TypeOK, Slots
<1>4. ASSUME NEW c \in CmdIds \cup {BusyId}, DevPost(c) PROVE PhaseInv'
  <2>1. /\ dev_tail' = NextSlot(dev_tail) /\ dev_phase' = NextPhase(dev_phase, dev_tail')
        /\ cqes' = [cqes EXCEPT ![dev_tail] = [id |-> c, phase |-> dev_phase]]
        /\ UNCHANGED <<head, phase, cq_head, cq_phase, stage, q_lock>>
        /\ dev_tail' # cq_head /\ dev_tail' # head
    BY <1>4, NeverFull DEF DevPost, lockVars
  <2>2. \A i \in Slots : cqes'[i].phase = IF i < dev_tail' THEN dev_phase' ELSE 1 - dev_phase'
    BY <2>1 DEF PhaseInv, NextSlot, NextPhase, TypeOK, Slots
  <2>3. InLap(head, phase, dev_tail', dev_phase') /\ InLap(cq_head, cq_phase, dev_tail', dev_phase')
    BY <2>1 DEF PhaseInv, InLap, NextSlot, NextPhase, TypeOK, Slots
  <2> QED  BY <2>1, <2>2, <2>3 DEF PhaseInv
<1>5. CASE UNCHANGED tagVars
  BY <1>5 DEF PhaseInv
<1>6. ASSUME NEW b \in Bios, nvme_make_request(b) PROVE UNCHANGED tagVars
  BY <1>6 DEF nvme_make_request
<1>7. CASE Thread
  BY <1>7 DEF PhaseInv, Thread, nvme_timeout_ios, nvme_resubmit_bios
<1>8. ASSUME NEW t \in Tasks, Sync(t) PROVE UNCHANGED tagVars
  BY <1>8 DEF Sync, SyncCall, AllocFind, AllocKilled, AllocSet, AllocFn, AllocCtx,
     AllocTimeout, nvme_submit_cmd, SyncWake, nvme_abort_command
<1>9. ASSUME NEW c \in CmdIds, Expire(c) PROVE UNCHANGED tagVars
  BY <1>9 DEF Expire
<1>10. CASE UNCHANGED vars
  BY <1>5, <1>10 DEF vars
<1>11. CASE DevFetch
  BY <1>5, <1>11 DEF DevFetch
<1> QED
  BY <1>1, <1>2, <1>3, <1>4, <1>5, <1>6, <1>7, <1>8, <1>9, <1>10, <1>11
     DEF Next, Interrupt, Controller

\* nvme_process_cq() takes an entry exactly when it is unread.
THEOREM PhaseTagCorrect == Spec => []PhaseTagExact
<1>1. Init => TypeOK /\ PhaseInv
  BY TypeInit, PhaseInit
<1>2. TypeOK /\ PhaseInv /\ [Next]_vars => TypeOK' /\ PhaseInv'
  BY TypeStep, PhaseStep
<1> QED  BY <1>1, <1>2, PhaseExact, PTL DEF Spec

-----------------------------------------------------------------------------
(* Command IDs.  An ID has at most one owner: a live submission slot, the   *)
(* controller, a live completion slot, or a task that has not submitted     *)
(* yet; and its bit is set as long as it has one.                           *)

Fresh(c) ==
  /\ \A i \in LiveSq : sq_cmds[i] # c
  /\ dev_cmds[c] = 0
  /\ \A i \in LiveCq : cqes[i].id # c
  /\ \A t \in Tasks : Unsubmitted(t) => slot[t] # c

IdInv ==
  /\ \A c \in CmdIds \ cmdid_data : Fresh(c)
  /\ \A c \in CmdIds :
       /\ dev_cmds[c] <= 1
       /\ \A i, j \in LiveSq : sq_cmds[i] = c /\ sq_cmds[j] = c => i = j
       /\ \A i, j \in LiveCq : cqes[i].id = c /\ cqes[j].id = c => i = j
       /\ \A t, u \in Tasks :
            Unsubmitted(t) /\ Unsubmitted(u) /\ slot[t] = c /\ slot[u] = c => t = u
       /\ \A i \in LiveSq : sq_cmds[i] = c =>
            dev_cmds[c] = 0 /\ \A j \in LiveCq : cqes[j].id # c
       /\ \A j \in LiveCq : cqes[j].id = c => dev_cmds[c] = 0
       /\ \A t \in Tasks : Unsubmitted(t) /\ slot[t] = c =>
            /\ dev_cmds[c] = 0
            /\ \A i \in LiveSq : sq_cmds[i] # c
            /\ \A j \in LiveCq : cqes[j].id # c

LEMMA BetweenPut ==
  ASSUME NEW h \in Slots, NEW t \in Slots
  PROVE  t \notin Between(h, t) /\ Between(h, NextSlot(t)) \subseteq Between(h, t) \cup {t}
  BY DEF Between, NextSlot, Slots

LEMMA BetweenGet ==
  ASSUME NEW h \in Slots, NEW t \in Slots, h # t
  PROVE  h \in Between(h, t) /\ Between(NextSlot(h), t) = Between(h, t) \ {h}
  BY DEF Between, NextSlot, Slots

LEMMA IdInit == Init => IdInv
<1> SUFFICES ASSUME Init PROVE IdInv
  OBVIOUS
<1>1. LiveSq = {} /\ LiveCq = {}
  BY DEF Init, LiveSq, LiveCq, Between, Slots
<1>2. \A c \in CmdIds : dev_cmds[c] = 0
  BY DEF Init
<1>3. \A t \in Tasks : ~Unsubmitted(t)
  BY DEF Init, Unsubmitted
<1> QED  BY <1>1, <1>2, <1>3 DEF IdInv, Fresh

LEMMA IdInvMeaning ==
  ASSUME TypeOK, IdInv
  PROVE  CmdIdNotReused /\ PreparingIsPrivate
<1>1. LiveSq \subseteq Slots /\ LiveCq \subseteq Slots
  BY DEF LiveSq, LiveCq, Between
<1>2. CmdIdNotReused
  <2>1. Queued \cap Fetched = {} /\ Queued \cap Posted = {} /\ Fetched \cap Posted = {}
    BY DEF IdInv, Queued, Fetched, Posted
  <2>2. Held \subseteq cmdid_data
    BY DEF IdInv, Fresh, Held, Queued, Fetched, Posted
  <2>3. \A c \in CmdIds : dev_cmds[c] <= 1
    BY DEF IdInv
  <2>4. \A i, j \in LiveSq : sq_cmds[i] = sq_cmds[j] /\ sq_cmds[i] \in CmdIds => i = j
    BY DEF IdInv
  <2>5. \A i, j \in LiveCq : cqes[i].id = cqes[j].id /\ cqes[i].id \in CmdIds => i = j
    BY DEF IdInv
  <2> QED  BY <2>1, <2>2, <2>3, <2>4, <2>5 DEF CmdIdNotReused
<1>3. PreparingIsPrivate
  <2>1. \A t \in Tasks : slot[t] \in CmdIds
    BY DEF TypeOK
  <2>2. \A t, u \in Tasks : Unsubmitted(t) /\ Unsubmitted(u) /\ slot[t] = slot[u] => t = u
    BY <2>1 DEF IdInv
  <2>3. Preparing \subseteq cmdid_data
    BY <2>1 DEF IdInv, Fresh, Preparing
  <2>4. Preparing \cap Held = {}
    BY <2>1 DEF IdInv, Preparing, Held, Queued, Fetched, Posted
  <2> QED  BY <2>2, <2>3, <2>4 DEF PreparingIsPrivate
<1> QED  BY <1>2, <1>3

\* A step that leaves the rings and the bitmap alone and takes no task into or
\* out of the span where it owns an ID.
LEMMA IdFrame ==
  ASSUME IdInv,
         UNCHANGED <<sqVars, devVars, head, cmdid_data>>,
         \A t \in Tasks : Unsubmitted(t)' => Unsubmitted(t) /\ slot'[t] = slot[t]
  PROVE  IdInv'
<1>1. LiveSq' = LiveSq /\ LiveCq' = LiveCq
  BY DEF LiveSq, LiveCq, Between, sqVars, devVars
<1> QED  BY <1>1 DEF IdInv, Fresh, sqVars, devVars

\* A command written to the submission ring, or two, with IDs nobody owns.
LEMMA IdSubmitBio ==
  ASSUME TypeOK, IdInv, NEW b \in Bios, nvme_submit_bio_queue(b),
         UNCHANGED <<devVars, head, taskVars>>
  PROVE  IdInv'
<1> DEFINE at == IF b \in FlushBios THEN NextSlot(sq_tail) ELSE sq_tail
<1> PICK f \in CmdIds \cup {BusyId}, c \in CmdIds \cup {BusyId} :
      LET flush == b \in FlushBios
          taken == IF flush THEN cmdid_data \cup {f} ELSE cmdid_data
      IN /\ IF flush THEN FirstZero(cmdid_data, f) ELSE f = BusyId
         /\ alloc_cmdid(taken, c)
         /\ cmdid_data' = taken \cup (IF c = BusyId THEN {} ELSE {c})
         /\ sq_cmds' = [i \in Slots |->
              IF i = at THEN c ELSE IF flush /\ i = sq_tail THEN f ELSE sq_cmds[i]]
         /\ sq_tail' = NextSlot(at)
  BY ZenonT(90) DEF nvme_submit_bio_queue
<1>1. sq_tail \in Slots /\ at \in Slots /\ dev_head \in Slots
  BY NextSlotType DEF TypeOK
<1>2. LiveSq' \subseteq LiveSq \cup {sq_tail, at} /\ LiveSq \subseteq Slots /\ sq_tail \notin LiveSq
  BY <1>1, BetweenPut DEF LiveSq, Between, devVars
<1>3. BusyId \notin CmdIds
  BY DEF CmdIds, BusyId
<1>4. /\ b \in FlushBios => f \in CmdIds \ cmdid_data /\ f # c
      /\ c \in CmdIds => c \notin cmdid_data
  BY <1>3 DEF FirstZero, alloc_cmdid
<1>5. cmdid_data' = cmdid_data \cup ({f, c} \cap CmdIds)
  BY <1>3, <1>4 DEF alloc_cmdid, FirstZero
<1>6. LiveCq' = LiveCq /\ UNCHANGED <<dev_cmds, cqes, pc, slot>>
  BY DEF LiveCq, Between, devVars, taskVars
<1>7. at # sq_tail \/ b \notin FlushBios
  BY <1>1 DEF NextSlot, Slots
<1>8. \A i \in LiveSq' : \A x \in CmdIds : sq_cmds'[i] = x =>
        \/ x \in {f, c} /\ x \notin cmdid_data /\ (x = c => i = at) /\ (x # c => i = sq_tail)
        \/ x \notin {f, c} /\ i \in LiveSq /\ sq_cmds[i] = x
  <2> SUFFICES ASSUME NEW i \in LiveSq', NEW x \in CmdIds, sq_cmds'[i] = x
               PROVE  \/ x \in {f, c} /\ x \notin cmdid_data /\ (x = c => i = at) /\ (x # c => i = sq_tail)
                      \/ x \notin {f, c} /\ i \in LiveSq /\ sq_cmds[i] = x
    OBVIOUS
  <2>1. i \in Slots
    BY <1>1, <1>2
  <2>2. CASE i = at
    BY <1>3, <1>4, <2>1, <2>2
  <2>3. CASE i # at /\ i = sq_tail
    BY <1>3, <1>4, <2>1, <2>3
  <2>4. CASE i # at /\ i # sq_tail
    <3>1. i \in LiveSq /\ sq_cmds[i] = x
      BY <1>2, <2>1, <2>4
    <3>2. x \in cmdid_data
      BY <3>1 DEF IdInv, Fresh
    <3>3. x \notin {f, c}
      BY <1>3, <1>4, <3>2
    <3> QED  BY <3>1, <3>3
  <2> QED  BY <2>2, <2>3, <2>4
<1>9. ASSUME NEW x \in CmdIds \ cmdid_data' PROVE Fresh(x)'
  BY <1>5, <1>6, <1>8 DEF IdInv, Fresh, Unsubmitted
<1>10. ASSUME NEW x \in CmdIds
       PROVE  /\ \A i, j \in LiveSq' : sq_cmds'[i] = x /\ sq_cmds'[j] = x => i = j
              /\ \A i \in LiveSq' : sq_cmds'[i] = x =>
                   dev_cmds[x] = 0 /\ \A j \in LiveCq : cqes[j].id # x
              /\ \A t \in Tasks : Unsubmitted(t) /\ slot[t] = x => \A i \in LiveSq' : sq_cmds'[i] # x
  BY <1>8 DEF IdInv, Fresh
<1>11. ASSUME NEW x \in CmdIds
       PROVE  /\ dev_cmds[x] <= 1
              /\ \A i, j \in LiveCq : cqes[i].id = x /\ cqes[j].id = x => i = j
              /\ \A t, u \in Tasks :
                   Unsubmitted(t) /\ Unsubmitted(u) /\ slot[t] = x /\ slot[u] = x => t = u
              /\ \A j \in LiveCq : cqes[j].id = x => dev_cmds[x] = 0
              /\ \A t \in Tasks : Unsubmitted(t) /\ slot[t] = x =>
                   dev_cmds[x] = 0 /\ \A j \in LiveCq : cqes[j].id # x
  BY DEF IdInv
<1>12. \A t \in Tasks : Unsubmitted(t)' = Unsubmitted(t)
  BY <1>6 DEF Unsubmitted
<1> QED  BY <1>6, <1>9, <1>10, <1>11, <1>12 DEF IdInv

\* A completion: the entry is unread, so its ID leaves its only owner.
LEMMA IdProcessCqe ==
  ASSUME TypeOK, PhaseInv, IdInv, ProcessCqe
  PROVE  IdInv'
<1> PICK c \in CmdIds \cup {BusyId} : c = cqes[head].id
  BY DEF TypeOK
<1>1. head # dev_tail /\ head \in Slots /\ dev_tail \in Slots
  BY PhaseExact DEF ProcessCqe, PhaseTagExact, TypeOK
<1>2. head \in LiveCq /\ LiveCq' = LiveCq \ {head}
  BY <1>1, BetweenGet DEF LiveCq, ProcessCqe, devVars, Between
<1>3. LiveSq' = LiveSq /\ UNCHANGED <<sq_cmds, dev_cmds, cqes, slot>>
  BY DEF ProcessCqe, LiveSq, Between, sqVars, devVars, taskVars
<1>4. \A t \in Tasks : Unsubmitted(t)' = Unsubmitted(t)
  BY DEF ProcessCqe, free_cmdid, Unsubmitted, taskVars, TypeOK
<1>5. CASE c >= Depth
  <2>1. cmdid_data' = cmdid_data
    BY <1>5 DEF ProcessCqe, cmdVars
  <2> QED  BY <1>2, <1>3, <1>4, <2>1 DEF IdInv, Fresh
<1>6. CASE ~(c >= Depth)
  <2>1. cmdid_data' = cmdid_data \ {c} /\ c \in CmdIds
    BY <1>1, <1>6 DEF ProcessCqe, free_cmdid, TypeOK, BusyId
  <2>2. Fresh(c)'
    <3>1. dev_cmds[c] = 0 /\ \A i \in LiveSq : sq_cmds[i] # c
      BY <1>2, <2>1 DEF IdInv
    <3>2. \A i \in LiveCq \ {head} : cqes[i].id # c
      BY <1>2, <2>1 DEF IdInv
    <3>3. \A t \in Tasks : Unsubmitted(t) => slot[t] # c
      BY <1>2, <2>1 DEF IdInv
    <3> QED  BY <1>2, <1>3, <1>4, <3>1, <3>2, <3>3 DEF Fresh
  <2>3. ASSUME NEW x \in CmdIds \ cmdid_data, x # c PROVE Fresh(x)'
    BY <1>2, <1>3, <1>4, <2>3 DEF IdInv, Fresh
  <2>4. \A x \in CmdIds \ cmdid_data' : Fresh(x)'
    BY <2>1, <2>2, <2>3
  <2> QED  BY <1>2, <1>3, <1>4, <2>4 DEF IdInv
<1> QED  BY <1>5, <1>6

\* test_and_set_bit(): the ID had no owner, now it is the task's.
LEMMA IdAllocSet ==
  ASSUME TypeOK, IdInv, NEW t \in Tasks, AllocSet(t)
  PROVE  IdInv'
<1>1. LiveSq' = LiveSq /\ LiveCq' = LiveCq /\ UNCHANGED <<sq_cmds, dev_cmds, cqes, slot>>
  BY DEF AllocSet, LiveSq, LiveCq, Between, sqVars, devVars, cqVars
<1>2. cmdid_data' = cmdid_data \cup {slot[t]} /\ slot[t] \in CmdIds
  BY DEF AllocSet, TypeOK
<1>3. CASE slot[t] \in cmdid_data
  <2>1. \A u \in Tasks : Unsubmitted(u)' = Unsubmitted(u)
    BY <1>3 DEF AllocSet, Goto, Unsubmitted, TypeOK
  <2> QED  BY <1>1, <1>2, <1>3, <2>1 DEF IdInv, Fresh
<1>4. CASE slot[t] \notin cmdid_data
  <2>1. \A u \in Tasks : Unsubmitted(u)' <=> Unsubmitted(u) \/ u = t
    BY <1>4 DEF AllocSet, Goto, Unsubmitted, TypeOK
  <2>2. Fresh(slot[t])
    BY <1>2, <1>4 DEF IdInv
  <2> QED  BY <1>1, <1>2, <2>1, <2>2 DEF IdInv, Fresh
<1> QED  BY <1>3, <1>4

\* nvme_submit_cmd(): the task hands its ID to the ring.
LEMMA IdSubmitCmd ==
  ASSUME TypeOK, IdInv, NEW t \in Tasks, nvme_submit_cmd(t)
  PROVE  IdInv'
<1>1. LiveCq' = LiveCq /\ UNCHANGED <<dev_cmds, cqes, slot, cmdid_data>>
  BY DEF nvme_submit_cmd, LiveCq, Between, devVars, cqVars, cmdVars
<1>2. /\ sq_cmds' = [sq_cmds EXCEPT ![sq_tail] = slot[t]] /\ slot[t] \in CmdIds
      /\ sq_tail \in Slots /\ Unsubmitted(t)
  BY DEF nvme_submit_cmd, TypeOK, Unsubmitted
<1>3. LiveSq' \subseteq LiveSq \cup {sq_tail} /\ LiveSq \subseteq Slots /\ sq_tail \notin LiveSq
  BY BetweenPut DEF nvme_submit_cmd, LiveSq, Between, devVars, TypeOK
<1>4. \A u \in Tasks : Unsubmitted(u)' <=> Unsubmitted(u) /\ u # t
  BY DEF nvme_submit_cmd, Goto, Unsubmitted, TypeOK
<1>5. \A i \in LiveSq' : \/ i = sq_tail /\ sq_cmds'[i] = slot[t]
                         \/ i \in LiveSq /\ sq_cmds'[i] = sq_cmds[i]
  BY <1>2, <1>3 DEF TypeOK
<1>6. /\ slot[t] \in cmdid_data /\ dev_cmds[slot[t]] = 0
      /\ \A i \in LiveSq : sq_cmds[i] # slot[t]
      /\ \A j \in LiveCq : cqes[j].id # slot[t]
      /\ \A u \in Tasks : Unsubmitted(u) /\ slot[u] = slot[t] => u = t
  BY <1>2 DEF IdInv, Fresh
<1>7. ASSUME NEW x \in CmdIds \ cmdid_data' PROVE Fresh(x)'
  BY <1>1, <1>4, <1>5, <1>6 DEF IdInv, Fresh
<1>8. ASSUME NEW x \in CmdIds
      PROVE  /\ \A i, j \in LiveSq' : sq_cmds'[i] = x /\ sq_cmds'[j] = x => i = j
             /\ \A i \in LiveSq' : sq_cmds'[i] = x =>
                  dev_cmds[x] = 0 /\ \A j \in LiveCq : cqes[j].id # x
             /\ \A u \in Tasks : Unsubmitted(u)' /\ slot[u] = x => \A i \in LiveSq' : sq_cmds'[i] # x
  BY <1>4, <1>5, <1>6 DEF IdInv
<1>9. ASSUME NEW x \in CmdIds
      PROVE  /\ dev_cmds[x] <= 1
             /\ \A i, j \in LiveCq : cqes[i].id = x /\ cqes[j].id = x => i = j
             /\ \A u, v \in Tasks :
                  Unsubmitted(u)' /\ Unsubmitted(v)' /\ slot[u] = x /\ slot[v] = x => u = v
             /\ \A j \in LiveCq : cqes[j].id = x => dev_cmds[x] = 0
             /\ \A u \in Tasks : Unsubmitted(u)' /\ slot[u] = x =>
                  dev_cmds[x] = 0 /\ \A j \in LiveCq : cqes[j].id # x
  BY <1>4 DEF IdInv
<1> QED  BY <1>1, <1>7, <1>8, <1>9 DEF IdInv

\* The controller takes the oldest submission.
LEMMA IdDevFetch ==
  ASSUME TypeOK, IdInv, DevFetch
  PROVE  IdInv'
<1> DEFINE c == sq_cmds[dev_head]
<1>1. /\ dev_head \in Slots /\ c \in CmdIds \cup {BusyId} /\ dev_cmds[c] \in Nat
      /\ dev_cmds' = [dev_cmds EXCEPT ![c] = dev_cmds[c] + 1]
  BY DEF DevFetch, TypeOK
<1>2. dev_head \in LiveSq /\ LiveSq' = LiveSq \ {dev_head}
  BY BetweenGet DEF DevFetch, LiveSq, Between, TypeOK, sqVars
<1>3. LiveCq' = LiveCq /\ UNCHANGED <<sq_cmds, cqes, slot, cmdid_data>>
  BY DEF DevFetch, LiveCq, Between, sqVars, cqVars, cmdVars, taskVars
<1>4. \A t \in Tasks : Unsubmitted(t)' = Unsubmitted(t)
  BY DEF DevFetch, Unsubmitted, taskVars
<1>5. \A x \in CmdIds : x # c => dev_cmds'[x] = dev_cmds[x]
  BY <1>1 DEF TypeOK
<1>6. c \in CmdIds =>
        /\ dev_cmds[c] = 0 /\ dev_cmds'[c] = 1 /\ c \in cmdid_data
        /\ \A i \in LiveSq' : sq_cmds[i] # c
        /\ \A j \in LiveCq : cqes[j].id # c
        /\ \A t \in Tasks : Unsubmitted(t) => slot[t] # c
  <2> SUFFICES ASSUME c \in CmdIds
               PROVE  /\ dev_cmds[c] = 0 /\ dev_cmds'[c] = 1 /\ c \in cmdid_data
                      /\ \A i \in LiveSq' : sq_cmds[i] # c
                      /\ \A j \in LiveCq : cqes[j].id # c
                      /\ \A t \in Tasks : Unsubmitted(t) => slot[t] # c
    OBVIOUS
  <2>1. dev_cmds[c] = 0 /\ c \in cmdid_data /\ \A j \in LiveCq : cqes[j].id # c
    BY <1>2 DEF IdInv, Fresh
  <2>2. dev_cmds'[c] = 1
    BY <1>1, <2>1 DEF TypeOK
  <2>3. \A i \in LiveSq' : sq_cmds[i] # c
    BY <1>2 DEF IdInv
  <2>4. \A t \in Tasks : Unsubmitted(t) => slot[t] # c
    BY <1>2 DEF IdInv
  <2> QED  BY <2>1, <2>2, <2>3, <2>4
<1> HIDE DEF c
<1> QED  BY <1>2, <1>3, <1>4, <1>5, <1>6 DEF IdInv, Fresh

\* The controller answers a command it holds.
LEMMA IdDevPost ==
  ASSUME TypeOK, IdInv, NEW c \in CmdIds \cup {BusyId}, DevPost(c)
  PROVE  IdInv'
<1>1. /\ dev_cmds[c] \in Nat /\ dev_cmds[c] > 0
      /\ dev_cmds' = [dev_cmds EXCEPT ![c] = dev_cmds[c] - 1]
      /\ cqes' = [cqes EXCEPT ![dev_tail] = [id |-> c, phase |-> dev_phase]]
      /\ head \in Slots /\ dev_tail \in Slots
  BY DEF DevPost, TypeOK
<1>2. /\ LiveCq' \subseteq LiveCq \cup {dev_tail} /\ LiveCq \subseteq Slots
      /\ dev_tail \notin LiveCq
  BY BetweenPut DEF DevPost, LiveCq, Between, TypeOK, cqVars
<1>3. LiveSq' = LiveSq /\ UNCHANGED <<sq_cmds, slot, cmdid_data>>
  BY DEF DevPost, LiveSq, Between, sqVars, cmdVars, taskVars
<1>4. \A t \in Tasks : Unsubmitted(t)' = Unsubmitted(t)
  BY DEF DevPost, Unsubmitted, taskVars
<1>5. \A x \in CmdIds : x # c => dev_cmds'[x] = dev_cmds[x]
  BY <1>1 DEF TypeOK
<1>6. \A j \in LiveCq' : \/ j = dev_tail /\ cqes'[j].id = c
                         \/ j \in LiveCq /\ cqes'[j].id = cqes[j].id
  BY <1>1, <1>2 DEF TypeOK
<1>7. c \in CmdIds =>
        /\ dev_cmds'[c] = 0 /\ c \in cmdid_data
        /\ \A i \in LiveSq : sq_cmds[i] # c
        /\ \A j \in LiveCq : cqes[j].id # c
        /\ \A t \in Tasks : Unsubmitted(t) => slot[t] # c
  <2> SUFFICES ASSUME c \in CmdIds
               PROVE  /\ dev_cmds'[c] = 0 /\ c \in cmdid_data
                      /\ \A i \in LiveSq : sq_cmds[i] # c
                      /\ \A j \in LiveCq : cqes[j].id # c
                      /\ \A t \in Tasks : Unsubmitted(t) => slot[t] # c
    OBVIOUS
  <2>1. dev_cmds[c] = 1
    BY <1>1 DEF IdInv
  <2>2. dev_cmds'[c] = 0
    BY <1>1, <2>1 DEF TypeOK
  <2> QED  BY <2>1, <2>2 DEF IdInv, Fresh
<1>8. ASSUME NEW x \in CmdIds \ cmdid_data PROVE Fresh(x)'
  BY <1>3, <1>4, <1>5, <1>6, <1>7 DEF IdInv, Fresh
<1>9. ASSUME NEW x \in CmdIds
      PROVE  /\ dev_cmds'[x] <= 1
             /\ \A i, j \in LiveCq' : cqes'[i].id = x /\ cqes'[j].id = x => i = j
             /\ \A i \in LiveSq : sq_cmds[i] = x =>
                  dev_cmds'[x] = 0 /\ \A j \in LiveCq' : cqes'[j].id # x
             /\ \A j \in LiveCq' : cqes'[j].id = x => dev_cmds'[x] = 0
             /\ \A t \in Tasks : Unsubmitted(t) /\ slot[t] = x =>
                  /\ dev_cmds'[x] = 0
                  /\ \A j \in LiveCq' : cqes'[j].id # x
  <2>1. CASE x = c
    BY <1>6, <1>7, <2>1
  <2>2. CASE x # c
    BY <1>5, <1>6, <2>2 DEF IdInv
  <2> QED  BY <2>1, <2>2
<1> QED  BY <1>3, <1>4, <1>8, <1>9 DEF IdInv

LEMMA IdStep == TypeOK /\ PhaseInv /\ IdInv /\ [Next]_vars => IdInv'
<1> SUFFICES ASSUME TypeOK, PhaseInv, IdInv, [Next]_vars PROVE IdInv'
  OBVIOUS
<1> DEFINE Frame == /\ UNCHANGED <<sqVars, devVars, head, cmdid_data>>
                    /\ \A t \in Tasks : Unsubmitted(t)' => Unsubmitted(t) /\ slot'[t] = slot[t]
<1>0. ASSUME Frame PROVE IdInv'
  BY <1>0, IdFrame
<1>1. ASSUME NEW b \in Bios, nvme_make_request(b) PROVE IdInv'
  <2>1. CASE nvme_submit_bio_queue(b)
    BY <1>1, <2>1, IdSubmitBio DEF nvme_make_request, cqVars
  <2>2. CASE ~nvme_submit_bio_queue(b)
    BY <1>0, <1>1, <2>2 DEF nvme_make_request, cmdVars, cqVars, taskVars, Unsubmitted
  <2> QED  BY <2>1, <2>2
<1>2. CASE nvme_irq \/ nvme_kthread
  <2>1. UNCHANGED <<sqVars, devVars, cmdVars, taskVars>> /\ head' = cq_head
    BY <1>2 DEF nvme_irq, nvme_kthread
  <2>2. head = cq_head
    BY <1>2 DEF nvme_irq, nvme_kthread, PhaseInv
  <2> QED  BY <2>2, <1>0, <1>2, <2>1 DEF cmdVars, taskVars, Unsubmitted
<1>3. CASE ProcessCqe
  BY <1>3, IdProcessCqe
<1>4. CASE ProcessCqDone
  BY <1>0, <1>4 DEF ProcessCqDone, cmdVars, taskVars, Unsubmitted
<1>5. CASE nvme_timeout_ios
  BY <1>0, <1>5 DEF nvme_timeout_ios, TimeOut, cancel_cmdid, cmdVars, cqVars, taskVars, Unsubmitted
<1>6. CASE nvme_resubmit_bios
  <2>1. CASE sq_cong = <<>> \/ FlushBusy(Head(sq_cong))
    BY <1>0, <1>6, <2>1 DEF nvme_resubmit_bios, cmdVars, cqVars, taskVars, Unsubmitted
  <2>2. CASE ~(sq_cong = <<>> \/ FlushBusy(Head(sq_cong)))
    <3>1. Head(sq_cong) \in Bios /\ nvme_submit_bio_queue(Head(sq_cong))
      BY <1>6, <2>2 DEF nvme_resubmit_bios, TypeOK
    <3> QED  BY <1>6, <3>1, IdSubmitBio DEF nvme_resubmit_bios, cqVars
  <2> QED  BY <2>1, <2>2
<1>7. ASSUME NEW t \in Tasks, Sync(t) PROVE IdInv'
  <2> USE DEF cmdVars, cqVars, Goto, Unsubmitted, TypeOK
  <2>1. CASE SyncCall(t) \/ AllocFind(t)
    BY <1>0, <2>1 DEF SyncCall, AllocFind
  <2>2. CASE AllocKilled(t) \/ nvme_abort_command(t) \/ \E killed \in BOOLEAN : SyncWake(t, killed)
    BY <1>0, <2>2 DEF AllocKilled, nvme_abort_command, cancel_cmdid, SyncWake, Return
  <2>3. CASE AllocFn(t) \/ AllocCtx(t) \/ AllocTimeout(t)
    BY <1>0, <2>3 DEF AllocFn, AllocCtx, AllocTimeout
  <2> QED  BY <1>7, <2>1, <2>2, <2>3, IdAllocSet, IdSubmitCmd DEF Sync
<1>8. CASE DevFetch
  BY <1>8, IdDevFetch
<1>9. ASSUME NEW c \in CmdIds \cup {BusyId}, DevPost(c) PROVE IdInv'
  BY <1>9, IdDevPost
<1>10. ASSUME NEW c \in CmdIds, Expire(c) PROVE IdInv'
  BY <1>0, <1>10 DEF Expire, cqVars, taskVars, Unsubmitted
<1>11. CASE UNCHANGED vars
  BY <1>0, <1>11 DEF vars, cmdVars, cqVars, taskVars, Unsubmitted
<1> QED
  BY <1>1, <1>2, <1>3, <1>4, <1>5, <1>6, <1>7, <1>8, <1>9, <1>10, <1>11
     DEF Next, Interrupt, Thread, Controller

\* No two outstanding commands carry the same ID, whatever is timed out, aborted
\* or allocated without the lock.
THEOREM CmdIdsCorrect == Spec => [](CmdIdNotReused /\ PreparingIsPrivate)
<1>1. Init => TypeOK /\ PhaseInv /\ IdInv
  BY TypeInit, PhaseInit, IdInit
<1>2. TypeOK /\ PhaseInv /\ IdInv /\ [Next]_vars => (TypeOK /\ PhaseInv /\ IdInv)'
  BY TypeStep, PhaseStep, IdStep
<1>3. TypeOK /\ PhaseInv /\ IdInv => CmdIdNotReused /\ PreparingIsPrivate
  BY IdInvMeaning
<1> QED  BY <1>1, <1>2, <1>3, PTL DEF Spec

\* Two lockless alloc_cmdid() never return the same ID, nor one in use.
THEOREM PreparingCorrect == Spec => []PreparingIsPrivate
<1>1. CmdIdNotReused /\ PreparingIsPrivate => PreparingIsPrivate
  OBVIOUS
<1> QED  BY <1>1, CmdIdsCorrect, PTL

-----------------------------------------------------------------------------
(* Contexts.  A bio is the context of one ID while it is issued, a stack    *)
(* frame that of the ID its task took, and only before it was answered; a   *)
(* free ID, and one that a task has taken and not filled in, has none.      *)

Vacant(c) == info[c].ctx \in SpecialCtx /\ info[c].fn # "bio"

Unfilled(t) == pc[t] \in {"idle", "find", "wait", "set", "fn", "ctx"}

BioHandled == \A c \in CmdIds : info[c].fn = "bio" <=> info[c].ctx \in Bios
BioIssued  == \A c \in CmdIds : info[c].ctx \in Bios => bio[info[c].ctx] = "issued"
BioOnce    == \A c, d \in CmdIds : info[c].ctx \in Bios /\ info[c].ctx = info[d].ctx => c = d
FrameOwner ==
  \A c \in CmdIds : info[c].ctx \in Tasks =>
    /\ pc[info[c].ctx] \in {"timeout", "submit", "sleep", "abort"}
    /\ slot[info[c].ctx] = c /\ status[info[c].ctx] = "EINTR"
FreeVacant == \A c \in CmdIds \ cmdid_data : Vacant(c)
NewVacant  == \A t \in Tasks : pc[t] \in {"fn", "ctx"} => Vacant(slot[t]) /\ slot[t] \in cmdid_data
NotAnswered == \A t \in Tasks : Unfilled(t) => status[t] = "EINTR"

CtxInv == BioHandled /\ BioIssued /\ BioOnce /\ FrameOwner /\ FreeVacant /\ NewVacant /\ NotAnswered

LEMMA CtxInit == Init => CtxInv
<1> SUFFICES ASSUME Init PROVE CtxInv  OBVIOUS
<1>1. \A c \in CmdIds : info[c].fn = "none" /\ info[c].ctx = "NULL"
  BY DEF Init
<1>2. "NULL" \in SpecialCtx /\ "NULL" \notin Bios /\ "NULL" \notin Tasks
  BY CtxAssumption DEF SpecialCtx
<1>3. \A t \in Tasks : pc[t] = "idle" /\ status[t] = "EINTR"
  BY DEF Init
<1> QED
  BY <1>1, <1>2, <1>3
     DEF CtxInv, BioHandled, BioIssued, BioOnce, FrameOwner, FreeVacant, NewVacant, NotAnswered, Vacant

LEMMA CtxMeaning == TypeOK /\ CtxInv => NoDanglingCtx
  BY DEF CtxInv, BioHandled, BioIssued, BioOnce, FrameOwner, FreeVacant, Vacant, NoDanglingCtx

\* An ID loses its context, and the handler of that context runs: free_cmdid()
\* in nvme_process_cq(), or cancel_cmdid() in nvme_timeout_ios().
LEMMA CtxCall ==
  ASSUME TypeOK, CtxInv, NEW c \in CmdIds, NEW x \in SpecialCtx, NEW ok \in BOOLEAN,
         info' = [info EXCEPT ![c].fn = "special", ![c].ctx = x],
         CallHandler(info[c].fn, info[c].ctx, ok), slot' = slot,
         cmdid_data' \in {cmdid_data, cmdid_data \ {c}},
         \A t \in Tasks : pc'[t] = pc[t] \/ (pc[t] = "wait" /\ pc'[t] = "find"),
         \A t \in Tasks : pc[t] \in {"fn", "ctx"} /\ slot[t] = c => c \in cmdid_data'
  PROVE  CtxInv'
<1>1. /\ info'[c].fn = "special" /\ info'[c].ctx = x
      /\ \A d \in CmdIds \ {c} : info'[d] = info[d]
  BY DEF TypeOK, CmdInfo
<1>2. x \notin Bios /\ x \notin Tasks /\ Vacant(c)'
  BY <1>1, CtxAssumption DEF Vacant
<1>3. \A b \in Bios : b # info[c].ctx => bio'[b] = bio[b]
  BY DEF CallHandler, bio_completion, Congest, EndBio, bioVars, TypeOK
<1>4. \A t \in Tasks : t # info[c].ctx => status'[t] = status[t]
  BY DEF CallHandler, sync_completion, TypeOK
<1>5. BioHandled'
  BY <1>1, <1>2 DEF CtxInv, BioHandled
<1>6. BioIssued'
  <2> SUFFICES ASSUME NEW d \in CmdIds, info'[d].ctx \in Bios PROVE bio'[info'[d].ctx] = "issued"
    BY DEF BioIssued
  <2>1. d # c /\ info'[d] = info[d]  BY <1>1, <1>2
  <2>2. bio[info[d].ctx] = "issued"  BY <2>1 DEF CtxInv, BioIssued
  <2>3. info[d].ctx # info[c].ctx  BY <2>1 DEF CtxInv, BioOnce
  <2> QED  BY <1>3, <2>1, <2>2, <2>3
<1>7. BioOnce'
  <2> SUFFICES ASSUME NEW d \in CmdIds, NEW e \in CmdIds, info'[d].ctx \in Bios, info'[d].ctx = info'[e].ctx
               PROVE  d = e
    BY DEF BioOnce
  <2>1. info'[d] = info[d] /\ info'[e] = info[e]  BY <1>1, <1>2
  <2> QED  BY <2>1 DEF CtxInv, BioOnce
<1>8. FrameOwner'
  <2> SUFFICES ASSUME NEW d \in CmdIds, info'[d].ctx \in Tasks
               PROVE  /\ pc'[info'[d].ctx] \in {"timeout", "submit", "sleep", "abort"}
                      /\ slot'[info'[d].ctx] = d /\ status'[info'[d].ctx] = "EINTR"
    BY DEF FrameOwner
  <2>1. d # c /\ info'[d] = info[d]  BY <1>1, <1>2
  <2>2. info[d].ctx # info[c].ctx  BY <2>1 DEF CtxInv, FrameOwner
  <2> QED  BY <1>4, <2>1, <2>2 DEF CtxInv, FrameOwner
<1>9. FreeVacant'
  <2> SUFFICES ASSUME NEW d \in CmdIds \ cmdid_data' PROVE Vacant(d)'
    BY DEF FreeVacant
  <2>1. CASE d = c  BY <1>2, <2>1
  <2>2. CASE d # c  BY <1>1, <2>2 DEF CtxInv, FreeVacant, Vacant
  <2> QED  BY <2>1, <2>2
<1>10. NewVacant'
  <2> SUFFICES ASSUME NEW t \in Tasks, pc'[t] \in {"fn", "ctx"} PROVE Vacant(slot[t])' /\ slot[t] \in cmdid_data'
    BY DEF NewVacant
  <2>1. pc[t] \in {"fn", "ctx"}  OBVIOUS
  <2>2. Vacant(slot[t]) /\ slot[t] \in cmdid_data  BY <2>1 DEF CtxInv, NewVacant
  <2>3. CASE slot[t] = c  BY <1>2, <2>1, <2>3 DEF Vacant
  <2>4. CASE slot[t] # c
    <3>1. info'[slot[t]] = info[slot[t]]  BY <1>1, <2>2, <2>4 DEF TypeOK
    <3> QED  BY <2>2, <2>4, <3>1 DEF Vacant
  <2> QED  BY <2>3, <2>4
<1>11. NotAnswered'
  <2> SUFFICES ASSUME NEW t \in Tasks, Unfilled(t)' PROVE status'[t] = "EINTR"
    BY DEF NotAnswered
  <2>1. Unfilled(t)  BY DEF Unfilled
  <2>2. t # info[c].ctx  BY <2>1 DEF CtxInv, FrameOwner, Unfilled
  <2> QED  BY <1>4, <2>1, <2>2 DEF CtxInv, NotAnswered
<1> QED  BY <1>5, <1>6, <1>7, <1>8, <1>9, <1>10, <1>11 DEF CtxInv

\* The IDs of a bio were free, and the bio was not issued.
LEMMA CtxSubmitBio ==
  ASSUME TypeOK, CtxInv, NEW b \in Bios, bio[b] # "issued", nvme_submit_bio_queue(b), UNCHANGED taskVars
  PROVE  CtxInv'
<1>0. BusyId \notin CmdIds  BY DepthAssumption DEF BusyId, CmdIds
<1>1. PICK f, c \in CmdIds \cup {BusyId} :
        /\ IF b \in FlushBios THEN FirstZero(cmdid_data, f) ELSE f = BusyId
        /\ alloc_cmdid(IF b \in FlushBios THEN cmdid_data \cup {f} ELSE cmdid_data, c)
        /\ cmdid_data' = (IF b \in FlushBios THEN cmdid_data \cup {f} ELSE cmdid_data)
                           \cup (IF c = BusyId THEN {} ELSE {c})
        /\ info' = [i \in CmdIds |->
              CASE i = c -> [fn |-> "bio", ctx |-> b, expired |-> FALSE]
                [] i = f -> [fn |-> "special", ctx |-> "FLUSH", expired |-> FALSE]
                [] OTHER -> info[i]]
        /\ bio' = [bio EXCEPT ![b] = IF c = BusyId THEN "lost" ELSE "issued"]
  BY DEF nvme_submit_bio_queue
<1>2. f \in CmdIds => f \notin cmdid_data
  BY <1>0, <1>1 DEF FirstZero
<1>3. c \in CmdIds => c \notin cmdid_data /\ c # f
  BY <1>0, <1>1 DEF FirstZero, alloc_cmdid
<1>4. /\ cmdid_data \subseteq cmdid_data'
      /\ c \in CmdIds => c \in cmdid_data'
      /\ f \in CmdIds => f \in cmdid_data'
  BY <1>0, <1>1
<1>5. /\ c \in CmdIds => info'[c] = [fn |-> "bio", ctx |-> b, expired |-> FALSE]
      /\ f \in CmdIds => info'[f] = [fn |-> "special", ctx |-> "FLUSH", expired |-> FALSE]
      /\ \A d \in CmdIds : d # c /\ d # f => info'[d] = info[d]
  BY <1>1, <1>3
<1>6. \A a \in Bios : a # b => bio'[a] = bio[a]  BY <1>1 DEF TypeOK
<1>7. c \in CmdIds => bio'[b] = "issued"  BY <1>0, <1>1 DEF TypeOK
<1>8. "FLUSH" \notin Bios /\ "FLUSH" \notin Tasks /\ "FLUSH" \in SpecialCtx /\ b \notin Tasks
  BY CtxAssumption DEF SpecialCtx
<1>9. \A d \in CmdIds : info[d].ctx # b  BY DEF CtxInv, BioIssued
<1>10. BioHandled'
  BY <1>5, <1>8 DEF CtxInv, BioHandled
<1>11. BioIssued'
  <2> SUFFICES ASSUME NEW d \in CmdIds, info'[d].ctx \in Bios PROVE bio'[info'[d].ctx] = "issued"
    BY DEF BioIssued
  <2>1. CASE d = c  BY <1>5, <1>7, <2>1
  <2>2. CASE d # c
    <3>1. info'[d] = info[d]  BY <1>5, <1>8, <2>2
    <3> QED  BY <1>6, <1>9, <3>1 DEF CtxInv, BioIssued
  <2> QED  BY <2>1, <2>2
<1>12. BioOnce'
  <2> SUFFICES ASSUME NEW d \in CmdIds, NEW e \in CmdIds, info'[d].ctx \in Bios, info'[d].ctx = info'[e].ctx
               PROVE  d = e
    BY DEF BioOnce
  <2>1. \A g \in {d, e} : g # c => info'[g] = info[g] /\ info'[g].ctx # b
    BY <1>5, <1>8, <1>9
  <2>2. CASE d = c \/ e = c  BY <1>5, <2>1, <2>2
  <2>3. CASE d # c /\ e # c  BY <2>1, <2>3 DEF CtxInv, BioOnce
  <2> QED  BY <2>2, <2>3
<1>13. FrameOwner'
  <2> SUFFICES ASSUME NEW d \in CmdIds, info'[d].ctx \in Tasks
               PROVE  /\ pc'[info'[d].ctx] \in {"timeout", "submit", "sleep", "abort"}
                      /\ slot'[info'[d].ctx] = d /\ status'[info'[d].ctx] = "EINTR"
    BY DEF FrameOwner
  <2>1. info'[d] = info[d]  BY <1>5, <1>8
  <2> QED  BY <2>1 DEF CtxInv, FrameOwner, taskVars
<1>14. FreeVacant'
  BY <1>4, <1>5 DEF CtxInv, FreeVacant, Vacant
<1>15. NewVacant'
  <2> SUFFICES ASSUME NEW t \in Tasks, pc'[t] \in {"fn", "ctx"}
               PROVE  Vacant(slot[t])' /\ slot'[t] \in cmdid_data'
    BY DEF NewVacant, taskVars
  <2>1. Vacant(slot[t]) /\ slot[t] \in cmdid_data /\ slot'[t] = slot[t]
    BY DEF CtxInv, NewVacant, taskVars
  <2>2. info'[slot[t]] = info[slot[t]]  BY <1>2, <1>3, <1>5, <2>1 DEF TypeOK
  <2> QED  BY <1>4, <2>1, <2>2 DEF Vacant
<1>16. NotAnswered'
  BY DEF CtxInv, NotAnswered, Unfilled, taskVars
<1> QED  BY <1>10, <1>11, <1>12, <1>13, <1>14, <1>15, <1>16 DEF CtxInv

\* A step that leaves contexts and bios alone, and calls where they were or on
\* the way to or from the places where they own a context.
LEMMA CtxFrame ==
  ASSUME TypeOK, CtxInv, UNCHANGED <<cmdid_data, bio, slot, status>>,
         \A c \in CmdIds : info'[c].fn = info[c].fn /\ info'[c].ctx = info[c].ctx,
         \A t \in Tasks : \/ pc'[t] = pc[t]
                          \/ pc[t] \in {"timeout", "submit", "sleep"} /\ pc'[t] \in {"submit", "sleep", "abort"}
  PROVE  CtxInv'
<1>1. BioHandled'  BY DEF CtxInv, BioHandled
<1>2. BioIssued'  BY DEF CtxInv, BioIssued
<1>3. BioOnce'  BY DEF CtxInv, BioOnce
<1>4. FrameOwner'  BY DEF CtxInv, FrameOwner
<1>5. FreeVacant'  BY DEF CtxInv, FreeVacant, Vacant
<1>6. NewVacant'
  <2> SUFFICES ASSUME NEW t \in Tasks, pc'[t] \in {"fn", "ctx"} PROVE Vacant(slot[t])' /\ slot[t] \in cmdid_data
    BY DEF NewVacant
  <2>1. pc[t] \in {"fn", "ctx"}  OBVIOUS
  <2>2. Vacant(slot[t]) /\ slot[t] \in cmdid_data /\ slot[t] \in CmdIds
    BY <2>1 DEF CtxInv, NewVacant, TypeOK
  <2>3. Vacant(slot[t])'
    BY <2>2 DEF Vacant
  <2> QED  BY <2>2, <2>3
<1>7. NotAnswered'  BY DEF CtxInv, NotAnswered, Unfilled
<1> QED  BY <1>1, <1>2, <1>3, <1>4, <1>5, <1>6, <1>7 DEF CtxInv

\* A step of a task that owns no context, and takes no ID.
LEMMA CtxIdle ==
  ASSUME TypeOK, CtxInv, NEW t \in Tasks, UNCHANGED <<info, cmdid_data, bio>>,
         \A c \in CmdIds : info[c].ctx # t, pc'[t] \notin {"fn", "ctx"}, Unfilled(t)' => status'[t] = "EINTR",
         \A u \in Tasks \ {t} : pc'[u] = pc[u] /\ slot'[u] = slot[u] /\ status'[u] = status[u]
  PROVE  CtxInv'
<1>1. BioHandled'  BY DEF CtxInv, BioHandled
<1>2. BioIssued'  BY DEF CtxInv, BioIssued
<1>3. BioOnce'  BY DEF CtxInv, BioOnce
<1>4. FrameOwner'  BY DEF CtxInv, FrameOwner
<1>5. FreeVacant'  BY DEF CtxInv, FreeVacant, Vacant
<1>6. NewVacant'
  <2> SUFFICES ASSUME NEW u \in Tasks, pc'[u] \in {"fn", "ctx"}
               PROVE  Vacant(slot[u])' /\ slot'[u] \in cmdid_data
    BY DEF NewVacant
  <2>1. u # t /\ pc[u] \in {"fn", "ctx"} /\ slot'[u] = slot[u]  OBVIOUS
  <2> QED  BY <2>1 DEF CtxInv, NewVacant, Vacant
<1>7. NotAnswered'  BY DEF CtxInv, NotAnswered, Unfilled
<1> QED  BY <1>1, <1>2, <1>3, <1>4, <1>5, <1>6, <1>7 DEF CtxInv

\* nvme_submit_sync_cmd(), step by step.
LEMMA CtxSync == ASSUME TypeOK, IdInv, CtxInv, NEW t \in Tasks, Sync(t) PROVE CtxInv'
<1> USE DEF cmdVars, bioVars
<1>1. /\ \A l : Goto(t, l) => pc'[t] = l /\ \A u \in Tasks \ {t} : pc'[u] = pc[u]
      /\ Return(t) => /\ pc'[t] = "idle" /\ status'[t] = "EINTR"
                      /\ \A u \in Tasks \ {t} : pc'[u] = pc[u] /\ slot'[u] = slot[u] /\ status'[u] = status[u]
  BY DEF Goto, Return, TypeOK
<1>2. Unfilled(t) => status[t] = "EINTR" /\ \A c \in CmdIds : info[c].ctx # t
  BY DEF CtxInv, FrameOwner, NotAnswered, Unfilled
<1>3. CASE SyncCall(t)
  <2>1. UNCHANGED <<info, cmdid_data, bio, slot, status>> /\ pc[t] = "idle" /\ Goto(t, "find")
    BY <1>3 DEF SyncCall
  <2> QED  BY <1>1, <1>2, <2>1, CtxIdle DEF Unfilled
<1>4. CASE AllocFind(t)
  <2>1. /\ UNCHANGED <<info, cmdid_data, bio, status>> /\ pc[t] = "find"
        /\ Goto(t, "wait") \/ Goto(t, "set")
        /\ \A u \in Tasks \ {t} : slot'[u] = slot[u]
    BY <1>4 DEF AllocFind, TypeOK
  <2> QED  BY <1>1, <1>2, <2>1, CtxIdle DEF Unfilled
<1>5. CASE AllocKilled(t)
  <2>1. UNCHANGED <<info, cmdid_data, bio>> /\ pc[t] = "wait" /\ Return(t)
    BY <1>5 DEF AllocKilled
  <2> QED  BY <1>1, <1>2, <2>1, CtxIdle DEF Unfilled
<1>6. CASE AllocSet(t)
  <2>1. /\ UNCHANGED <<info, bio, slot, status>> /\ pc[t] = "set"
        /\ Goto(t, IF slot[t] \in cmdid_data THEN "find" ELSE "fn")
        /\ cmdid_data' = cmdid_data \cup {slot[t]}
    BY <1>6 DEF AllocSet
  <2>2. /\ pc'[t] = IF slot[t] \in cmdid_data THEN "find" ELSE "fn"
        /\ \A u \in Tasks \ {t} : pc'[u] = pc[u]
    BY <1>1, <2>1
  <2>3. slot[t] \in CmdIds  BY DEF TypeOK
  <2>4. status[t] = "EINTR" /\ \A c \in CmdIds : info[c].ctx # t  BY <1>2, <2>1 DEF Unfilled
  <2> QED  BY <2>1, <2>2, <2>3, <2>4 DEF CtxInv, BioHandled, BioIssued, BioOnce, FrameOwner, FreeVacant, NewVacant, NotAnswered, Vacant, Unfilled
<1>7. CASE AllocFn(t)
  <2>1. /\ UNCHANGED <<cmdid_data, bio, slot, status>> /\ pc[t] = "fn" /\ Goto(t, "ctx")
        /\ info' = [info EXCEPT ![slot[t]].fn = "sync"]
    BY <1>7 DEF AllocFn
  <2>2. slot[t] \in CmdIds /\ Vacant(slot[t])  BY <2>1 DEF TypeOK, CtxInv, NewVacant
  <2>3. /\ info'[slot[t]].fn = "sync" /\ info'[slot[t]].ctx = info[slot[t]].ctx
        /\ \A c \in CmdIds \ {slot[t]} : info'[c] = info[c]
    BY <2>1, <2>2 DEF TypeOK, CmdInfo
  <2>4. info[slot[t]].ctx \in SpecialCtx \ (Bios \cup Tasks)
    BY <2>2, CtxAssumption DEF Vacant
  <2>5. pc'[t] = "ctx" /\ \A u \in Tasks \ {t} : pc'[u] = pc[u]  BY <1>1, <2>1
  <2>6. status[t] = "EINTR" /\ \A c \in CmdIds : info[c].ctx # t  BY <1>2, <2>1 DEF Unfilled
  <2> QED  BY <2>1, <2>2, <2>3, <2>4, <2>5, <2>6 DEF CtxInv, BioHandled, BioIssued, BioOnce, FrameOwner, FreeVacant, NewVacant, NotAnswered, Vacant, Unfilled
<1>8. CASE AllocCtx(t)
  <2>1. /\ UNCHANGED <<cmdid_data, bio, slot, status>> /\ pc[t] = "ctx" /\ Goto(t, "timeout")
        /\ info' = [info EXCEPT ![slot[t]].ctx = t]
    BY <1>8 DEF AllocCtx
  <2>2. slot[t] \in CmdIds /\ Vacant(slot[t]) /\ slot[t] \in cmdid_data  BY <2>1 DEF TypeOK, CtxInv, NewVacant
  <2>3. /\ info'[slot[t]].fn = info[slot[t]].fn /\ info'[slot[t]].ctx = t
        /\ \A c \in CmdIds \ {slot[t]} : info'[c] = info[c]
    BY <2>1, <2>2 DEF TypeOK, CmdInfo
  <2>4. t \notin Bios /\ t \notin SpecialCtx  BY CtxAssumption
  <2>5. pc'[t] = "timeout" /\ \A u \in Tasks \ {t} : pc'[u] = pc[u]  BY <1>1, <2>1
  <2>6. status[t] = "EINTR" /\ \A c \in CmdIds : info[c].ctx # t  BY <1>2, <2>1 DEF Unfilled
  <2>7. \A u \in Tasks : u # t /\ pc[u] \in {"fn", "ctx"} => slot[u] # slot[t]
    BY <2>1, <2>2 DEF IdInv, Unsubmitted
  <2> QED  BY <2>1, <2>2, <2>3, <2>4, <2>5, <2>6, <2>7 DEF CtxInv, BioHandled, BioIssued, BioOnce, FrameOwner, FreeVacant, NewVacant, NotAnswered, Vacant, Unfilled
<1>9. CASE AllocTimeout(t) \/ nvme_submit_cmd(t)
  <2>1. /\ UNCHANGED <<cmdid_data, bio, slot, status>>
        /\ info' = info \/ info' = [info EXCEPT ![slot[t]].expired = FALSE]
        /\ \/ pc[t] = "timeout" /\ Goto(t, "submit")
           \/ pc[t] = "submit" /\ Goto(t, "sleep")
    BY <1>9 DEF AllocTimeout, nvme_submit_cmd
  <2>2. slot[t] \in CmdIds  BY DEF TypeOK
  <2>3. \A c \in CmdIds : info'[c].fn = info[c].fn /\ info'[c].ctx = info[c].ctx
    <3>1. CASE info' = info  BY <3>1
    <3>2. CASE info' = [info EXCEPT ![slot[t]].expired = FALSE]
      BY <2>2, <3>2 DEF TypeOK, CmdInfo
    <3> QED  BY <2>1, <3>1, <3>2
  <2> QED  BY <1>1, <2>1, <2>3, CtxFrame
<1>10. ASSUME NEW killed \in BOOLEAN, SyncWake(t, killed) PROVE CtxInv'
  <2>1. UNCHANGED <<info, cmdid_data, bio>> /\ pc[t] = "sleep"
    BY <1>10 DEF SyncWake
  <2>2. CASE status[t] = "EINTR"
    <3>1. Goto(t, "abort") /\ UNCHANGED <<slot, status>>  BY <1>10, <2>2 DEF SyncWake
    <3> QED  BY <1>1, <2>1, <3>1, CtxFrame
  <2>3. CASE status[t] # "EINTR"
    <3>1. Return(t)  BY <1>10, <2>3 DEF SyncWake
    <3>2. \A c \in CmdIds : info[c].ctx # t  BY <2>3 DEF CtxInv, FrameOwner
    <3> QED  BY <1>1, <2>1, <3>1, <3>2, CtxIdle
  <2> QED  BY <2>2, <2>3
<1>11. CASE nvme_abort_command(t)
  <2>1. /\ UNCHANGED <<cmdid_data, bio>> /\ pc[t] = "abort" /\ Return(t)
        /\ info' = [info EXCEPT ![slot[t]].fn = "special", ![slot[t]].ctx = "CANCELLED"]
    BY <1>11 DEF nvme_abort_command, cancel_cmdid
  <2>2. slot[t] \in CmdIds  BY DEF TypeOK
  <2>3. /\ info'[slot[t]].fn = "special" /\ info'[slot[t]].ctx = "CANCELLED"
        /\ \A c \in CmdIds \ {slot[t]} : info'[c] = info[c] /\ info[c].ctx # t
    BY <2>1, <2>2 DEF TypeOK, CmdInfo, CtxInv, FrameOwner
  <2>4. "CANCELLED" \notin Bios /\ "CANCELLED" \notin Tasks /\ "CANCELLED" \in SpecialCtx
    BY CtxAssumption DEF SpecialCtx
  <2>5. /\ pc'[t] = "idle" /\ status'[t] = "EINTR"
        /\ \A u \in Tasks \ {t} : pc'[u] = pc[u] /\ slot'[u] = slot[u] /\ status'[u] = status[u]
    BY <1>1, <2>1
  <2>6. BioHandled'  BY <2>3, <2>4 DEF CtxInv, BioHandled
  <2>7. BioIssued'  BY <2>1, <2>3, <2>4 DEF CtxInv, BioIssued
  <2>8. BioOnce'  BY <2>3, <2>4 DEF CtxInv, BioOnce
  <2>9. FrameOwner'
    <3> SUFFICES ASSUME NEW d \in CmdIds, info'[d].ctx \in Tasks
                 PROVE  /\ pc'[info'[d].ctx] \in {"timeout", "submit", "sleep", "abort"}
                        /\ slot'[info'[d].ctx] = d /\ status'[info'[d].ctx] = "EINTR"
      BY DEF FrameOwner
    <3>1. d # slot[t] /\ info'[d] = info[d] /\ info[d].ctx # t  BY <2>3, <2>4
    <3> QED  BY <2>5, <3>1 DEF CtxInv, FrameOwner
  <2>10. FreeVacant'  BY <2>1, <2>3, <2>4 DEF CtxInv, FreeVacant, Vacant
  <2>11. NewVacant'
    <3> SUFFICES ASSUME NEW u \in Tasks, pc'[u] \in {"fn", "ctx"}
                 PROVE  Vacant(slot[u])' /\ slot'[u] \in cmdid_data'
      BY DEF NewVacant
    <3>1. u # t /\ pc[u] \in {"fn", "ctx"} /\ slot'[u] = slot[u] /\ slot[u] \in CmdIds
      BY <2>5 DEF TypeOK
    <3>2. Vacant(slot[u]) /\ slot[u] \in cmdid_data  BY <3>1 DEF CtxInv, NewVacant
    <3> QED  BY <2>1, <2>3, <2>4, <3>1, <3>2 DEF Vacant
  <2>12. NotAnswered'  BY <2>5 DEF CtxInv, NotAnswered, Unfilled
  <2> QED  BY <2>6, <2>7, <2>8, <2>9, <2>10, <2>11, <2>12 DEF CtxInv
<1> QED
  BY <1>3, <1>4, <1>5, <1>6, <1>7, <1>8, <1>9, <1>10, <1>11 DEF Sync

LEMMA CtxStep == TypeOK /\ PhaseInv /\ IdInv /\ CtxInv /\ CongestionRegistered /\ [Next]_vars => CtxInv'
<1> SUFFICES ASSUME TypeOK, PhaseInv, IdInv, CtxInv, CongestionRegistered, [Next]_vars PROVE CtxInv'
  OBVIOUS
<1>1. ASSUME NEW b \in Bios, nvme_make_request(b) PROVE CtxInv'
  <2>1. bio[b] = "idle" /\ UNCHANGED taskVars
    BY <1>1 DEF nvme_make_request
  <2>2. CASE nvme_submit_bio_queue(b)
    BY <2>1, <2>2, CtxSubmitBio
  <2>3. CASE Congest(b) /\ UNCHANGED cmdVars
    <3>1. \A c \in CmdIds : info[c].ctx # b  BY <2>1 DEF CtxInv, BioIssued
    <3>2. \A a \in Bios : a # b => bio'[a] = bio[a]  BY <2>3 DEF Congest, TypeOK
    <3>3. /\ info' = info /\ cmdid_data' = cmdid_data
          /\ pc' = pc /\ slot' = slot /\ status' = status
      BY <2>1, <2>3 DEF taskVars, cmdVars
    <3>4. BioIssued'  BY <3>1, <3>2, <3>3 DEF CtxInv, BioIssued
    <3> QED  BY <3>3, <3>4
             DEF CtxInv, BioHandled, BioOnce, FrameOwner, FreeVacant, NewVacant, NotAnswered, Vacant, Unfilled
  <2> QED  BY <1>1, <2>2, <2>3 DEF nvme_make_request
<1>2. CASE nvme_irq \/ nvme_kthread \/ ProcessCqDone \/ DevFetch
  BY <1>2, CtxFrame
     DEF nvme_irq, nvme_kthread, ProcessCqDone, DevFetch, cmdVars, bioVars, taskVars
<1>3. CASE ProcessCqe
  <2> DEFINE c == cqes[head].id
  <2>1. CASE c >= Depth
    BY <1>3, <2>1, CtxFrame DEF ProcessCqe, cmdVars, bioVars, taskVars
  <2>2. CASE ~(c >= Depth)
    <3>1. c \in CmdIds /\ head \in LiveCq
      <4>1. c \in CmdIds \cup {BusyId} /\ head \in Slots /\ dev_tail \in Slots
        BY DEF TypeOK
      <4>2. head # dev_tail  BY <1>3, PhaseExact DEF ProcessCqe, PhaseTagExact
      <4>3. head \in LiveCq  BY <4>1, <4>2, BetweenGet DEF LiveCq
      <4>4. Depth <= BusyId  BY DepthAssumption
      <4> QED  BY <2>2, <4>1, <4>3, <4>4
    <3>2. \A t \in Tasks : pc[t] \in {"fn", "ctx"} => slot[t] # c
      BY <3>1 DEF IdInv, Unsubmitted
    <3>3. PICK ok \in BOOLEAN : free_cmdid(c) /\ CallHandler(info[c].fn, info[c].ctx, ok) /\ UNCHANGED slot
      BY <1>3, <2>2 DEF ProcessCqe
    <3>4. "COMPLETED" \in SpecialCtx  BY DEF SpecialCtx
    <3> HIDE DEF c
    <3>5. /\ info' = [info EXCEPT ![c].fn = "special", ![c].ctx = "COMPLETED"]
          /\ cmdid_data' = cmdid_data \ {c}
          /\ \A t \in Tasks : pc'[t] = pc[t] \/ (pc[t] = "wait" /\ pc'[t] = "find")
      BY <3>3 DEF free_cmdid
    <3> QED  BY <3>1, <3>2, <3>3, <3>4, <3>5, CtxCall
  <2> QED  BY <2>1, <2>2
<1>4. CASE nvme_timeout_ios
  <2>1. CASE UNCHANGED <<cmdVars, bioVars, taskVars, oops>>
    BY <2>1, CtxFrame DEF cmdVars, bioVars, taskVars
  <2>2. ASSUME NEW c \in CmdIds, NextSetBit(c), TimeOut(c) PROVE CtxInv'
    <3>1. "CANCELLED" \in SpecialCtx  BY DEF SpecialCtx
    <3>2. /\ info' = [info EXCEPT ![c].fn = "special", ![c].ctx = "CANCELLED"]
          /\ cmdid_data' = cmdid_data /\ c \in cmdid_data
          /\ CallHandler(info[c].fn, info[c].ctx, FALSE) /\ UNCHANGED <<pc, slot>>
      BY <2>2 DEF TimeOut, cancel_cmdid, NextSetBit
    <3> QED  BY <3>1, <3>2, CtxCall
  <2> QED  BY <1>4, <2>1, <2>2 DEF nvme_timeout_ios
<1>5. CASE nvme_resubmit_bios
  <2>1. UNCHANGED taskVars  BY <1>5 DEF nvme_resubmit_bios
  <2>2. CASE UNCHANGED <<cmdVars, sqVars, bioVars>>
    BY <2>1, <2>2, CtxFrame DEF cmdVars, bioVars, taskVars
  <2>3. CASE sq_cong # <<>> /\ nvme_submit_bio_queue(Head(sq_cong))
    <3>1. Head(sq_cong) \in Bios /\ bio[Head(sq_cong)] = "cong"
      <4>1. 1 \in DOMAIN sq_cong /\ sq_cong[1] = Head(sq_cong) /\ Head(sq_cong) \in Bios
        BY <2>3 DEF TypeOK
      <4> QED  BY <4>1 DEF CongestionRegistered
    <3> QED  BY <2>1, <2>3, <3>1, CtxSubmitBio
  <2> QED  BY <1>5, <2>2, <2>3 DEF nvme_resubmit_bios
<1>6. ASSUME NEW t \in Tasks, Sync(t) PROVE CtxInv'
  BY <1>6, CtxSync
<1>7. ASSUME NEW c \in CmdIds \cup {BusyId}, DevPost(c) PROVE CtxInv'
  BY <1>7, CtxFrame DEF DevPost, cmdVars, bioVars, taskVars
<1>8. ASSUME NEW c \in CmdIds, Expire(c) PROVE CtxInv'
  <2>1. \A d \in CmdIds : info'[d].fn = info[d].fn /\ info'[d].ctx = info[d].ctx
    BY <1>8 DEF Expire, TypeOK, CmdInfo
  <2> QED  BY <1>8, <2>1, CtxFrame DEF Expire, bioVars, taskVars
<1>9. CASE UNCHANGED vars
  BY <1>9, CtxFrame DEF vars, cmdVars, bioVars, taskVars
<1> QED
  BY <1>1, <1>2, <1>3, <1>4, <1>5, <1>6, <1>7, <1>8, <1>9
     DEF Next, Interrupt, Thread, Controller

-----------------------------------------------------------------------------
(* Congestion. *)

LEMMA CongestAdds ==
  ASSUME TypeOK, CongestionRegistered, NEW b \in Bios, bio[b] # "cong", Congest(b)
  PROVE  CongestionRegistered'
<1>1. /\ sq_cong \in Seq(Bios) /\ sq_cong' = Append(sq_cong, b)
      /\ Len(sq_cong') = Len(sq_cong) + 1 /\ sq_cong' # <<>>
      /\ sq_cong'[Len(sq_cong) + 1] = b
      /\ \A i \in 1 .. Len(sq_cong) : sq_cong'[i] = sq_cong[i]
      /\ DOMAIN sq_cong = 1 .. Len(sq_cong) /\ DOMAIN sq_cong' = 1 .. Len(sq_cong) + 1
      /\ Len(sq_cong) \in Nat
  BY DEF Congest, TypeOK
<1>2. \A i \in DOMAIN sq_cong : sq_cong[i] # b  BY DEF CongestionRegistered
<1>3. cong_wait'  BY DEF Congest, CongestionRegistered
<1>4. \A a \in Bios : bio'[a] = IF a = b THEN "cong" ELSE bio[a]  BY DEF Congest, TypeOK
<1>5. \A a \in Bios : bio'[a] = "cong" <=> \E i \in DOMAIN sq_cong' : sq_cong'[i] = a
  <2> SUFFICES ASSUME NEW a \in Bios PROVE bio'[a] = "cong" <=> \E i \in DOMAIN sq_cong' : sq_cong'[i] = a
    OBVIOUS
  <2>1. CASE a = b  BY <1>1, <1>4, <2>1
  <2>2. CASE a # b
    <3>1. (\E i \in DOMAIN sq_cong' : sq_cong'[i] = a) <=> \E i \in DOMAIN sq_cong : sq_cong[i] = a
      BY <1>1, <2>2
    <3> QED  BY <1>4, <2>2, <3>1 DEF CongestionRegistered
  <2> QED  BY <2>1, <2>2
<1>6. \A i, j \in DOMAIN sq_cong' : sq_cong'[i] = sq_cong'[j] => i = j
  BY <1>1, <1>2 DEF CongestionRegistered
<1> QED  BY <1>1, <1>3, <1>5, <1>6 DEF CongestionRegistered

\* A bio that does not wait changes to a state in which it does not either.
LEMMA CongestKept ==
  ASSUME CongestionRegistered, UNCHANGED <<sq_cong, cong_wait>>,
         \A b \in Bios : bio'[b] = bio[b] \/ (bio[b] # "cong" /\ bio'[b] # "cong")
  PROVE  CongestionRegistered'
  BY DEF CongestionRegistered

LEMMA CongestPops ==
  ASSUME TypeOK, CongestionRegistered, sq_cong # <<>>, sq_cong' = Tail(sq_cong),
         cong_wait' = (cong_wait /\ sq_cong' # <<>>), NEW s, s # "cong",
         bio' = [bio EXCEPT ![Head(sq_cong)] = s]
  PROVE  CongestionRegistered'
<1> DEFINE b == Head(sq_cong)
           n == Len(sq_cong)
<1>1. /\ sq_cong \in Seq(Bios) /\ n \in Nat \ {0} /\ b \in Bios /\ sq_cong[1] = b
      /\ DOMAIN sq_cong = 1 .. n /\ DOMAIN sq_cong' = 1 .. (n - 1)
      /\ \A i \in 1 .. (n - 1) : sq_cong'[i] = sq_cong[i + 1]
  BY DEF TypeOK
<1>2. cong_wait' <=> sq_cong' # <<>>
  BY DEF CongestionRegistered
<1>3. \A a \in Bios : bio'[a] = IF a = b THEN s ELSE bio[a]  BY <1>1 DEF TypeOK
<1>4. \A i \in 2 .. n : sq_cong[i] # b  BY <1>1 DEF CongestionRegistered
<1>5. \A a \in Bios : bio'[a] = "cong" <=> \E i \in DOMAIN sq_cong' : sq_cong'[i] = a
  <2> SUFFICES ASSUME NEW a \in Bios PROVE bio'[a] = "cong" <=> \E i \in DOMAIN sq_cong' : sq_cong'[i] = a
    OBVIOUS
  <2>1. CASE a = b  BY <1>1, <1>3, <1>4, <2>1
  <2>2. CASE a # b
    <3>1. ASSUME NEW i \in DOMAIN sq_cong, sq_cong[i] = a PROVE \E j \in DOMAIN sq_cong' : sq_cong'[j] = a
      <4>1. i - 1 \in 1 .. (n - 1) /\ sq_cong'[i - 1] = a  BY <1>1, <2>2, <3>1
      <4> QED  BY <1>1, <4>1
    <3>2. ASSUME NEW j \in DOMAIN sq_cong', sq_cong'[j] = a PROVE \E i \in DOMAIN sq_cong : sq_cong[i] = a
      <4>1. j + 1 \in 1 .. n /\ sq_cong[j + 1] = a  BY <1>1, <3>2
      <4> QED  BY <1>1, <4>1
    <3> QED  BY <1>3, <2>2, <3>1, <3>2 DEF CongestionRegistered
  <2> QED  BY <2>1, <2>2
<1>6. \A i, j \in DOMAIN sq_cong' : sq_cong'[i] = sq_cong'[j] => i = j
  <2> SUFFICES ASSUME NEW i \in DOMAIN sq_cong', NEW j \in DOMAIN sq_cong', sq_cong'[i] = sq_cong'[j]
               PROVE  i = j
    OBVIOUS
  <2>1. i + 1 \in 1 .. n /\ j + 1 \in 1 .. n /\ sq_cong[i + 1] = sq_cong[j + 1]  BY <1>1
  <2>2. i + 1 = j + 1  BY <1>1, <2>1 DEF CongestionRegistered
  <2> QED  BY <1>1, <2>2
<1> QED  BY <1>2, <1>5, <1>6 DEF CongestionRegistered

\* A handler of a bio that is issued, so that does not wait yet.
LEMMA CongestCall ==
  ASSUME TypeOK, CtxInv, CongestionRegistered, NEW c \in CmdIds, NEW ok \in BOOLEAN,
         CallHandler(info[c].fn, info[c].ctx, ok)
  PROVE  CongestionRegistered'
<1>1. CASE info[c].fn = "bio" /\ info[c].ctx \in Bios
  <2>1. bio[info[c].ctx] = "issued"  BY <1>1 DEF CtxInv, BioIssued
  <2>2. bio_completion(info[c].ctx, ok)  BY <1>1 DEF CallHandler
  <2>3. CASE Congest(info[c].ctx)  BY <1>1, <2>1, <2>3, CongestAdds
  <2>4. CASE EndBio(info[c].ctx)
    <3>1. \A b \in Bios : bio'[b] = bio[b] \/ (bio[b] # "cong" /\ bio'[b] # "cong")
      BY <1>1, <2>1, <2>4 DEF EndBio, TypeOK
    <3> QED  BY <2>4, <3>1, CongestKept DEF EndBio
  <2> QED  BY <2>2, <2>3, <2>4 DEF bio_completion
<1>2. CASE ~(info[c].fn = "bio" /\ info[c].ctx \in Bios)
  BY <1>2, CongestKept DEF CallHandler, bioVars
<1> QED  BY <1>1, <1>2

LEMMA CongestSubmits ==
  ASSUME TypeOK, NEW b \in Bios, nvme_submit_bio_queue(b)
  PROVE  \E s \in {"lost", "issued"} : bio' = [bio EXCEPT ![b] = s]
  BY DEF nvme_submit_bio_queue

LEMMA CongestStep == TypeOK /\ CtxInv /\ CongestionRegistered /\ [Next]_vars => CongestionRegistered'
<1> SUFFICES ASSUME TypeOK, CtxInv, CongestionRegistered, [Next]_vars PROVE CongestionRegistered'
  OBVIOUS
<1>0. ASSUME UNCHANGED bioVars PROVE CongestionRegistered'
  BY <1>0, CongestKept DEF bioVars
<1>1. ASSUME NEW b \in Bios, nvme_make_request(b) PROVE CongestionRegistered'
  <2>1. bio[b] = "idle"  BY <1>1 DEF nvme_make_request
  <2>2. CASE nvme_submit_bio_queue(b) /\ UNCHANGED <<sq_cong, cong_wait>>
    <3>1. \A a \in Bios : bio'[a] = bio[a] \/ (bio[a] # "cong" /\ bio'[a] # "cong")
      BY <2>1, <2>2, CongestSubmits DEF TypeOK
    <3> QED  BY <2>2, <3>1, CongestKept
  <2>3. CASE Congest(b)  BY <2>1, <2>3, CongestAdds
  <2> QED  BY <1>1, <2>2, <2>3 DEF nvme_make_request
<1>2. CASE ProcessCqe
  <2> DEFINE c == cqes[head].id
  <2>1. CASE c >= Depth  BY <1>0, <1>2, <2>1 DEF ProcessCqe
  <2>2. CASE ~(c >= Depth)
    <3>1. c \in CmdIds
      BY <2>2, DepthAssumption DEF TypeOK
    <3>2. \E ok \in BOOLEAN : CallHandler(info[c].fn, info[c].ctx, ok)
      BY <1>2, <2>2 DEF ProcessCqe
    <3> QED  BY <3>1, <3>2, CongestCall
  <2> QED  BY <2>1, <2>2
<1>3. CASE nvme_timeout_ios
  BY <1>0, <1>3, CongestCall DEF nvme_timeout_ios, TimeOut
<1>4. CASE nvme_resubmit_bios
  <2>1. CASE UNCHANGED bioVars  BY <1>0, <2>1
  <2>2. CASE /\ sq_cong # <<>> /\ nvme_submit_bio_queue(Head(sq_cong)) /\ sq_cong' = Tail(sq_cong)
             /\ cong_wait' = (cong_wait /\ sq_cong' # <<>>)
    <3>1. Head(sq_cong) \in Bios  BY <2>2 DEF TypeOK
    <3> QED  BY <2>2, <3>1, CongestSubmits, CongestPops
  <2> QED  BY <1>4, <2>1, <2>2 DEF nvme_resubmit_bios
<1>5. CASE nvme_irq \/ nvme_kthread \/ ProcessCqDone \/ DevFetch
  BY <1>0, <1>5 DEF nvme_irq, nvme_kthread, ProcessCqDone, DevFetch
<1>6. ASSUME NEW t \in Tasks, Sync(t) PROVE CongestionRegistered'
  BY <1>0, <1>6 DEF Sync, SyncCall, AllocFind, AllocKilled, AllocSet, AllocFn, AllocCtx,
     AllocTimeout, nvme_submit_cmd, SyncWake, nvme_abort_command
<1>7. ASSUME NEW c \in CmdIds \cup {BusyId}, DevPost(c) \/ Expire(c) PROVE CongestionRegistered'
  BY <1>0, <1>7 DEF DevPost, Expire
<1>8. CASE UNCHANGED vars
  BY <1>0, <1>8 DEF vars
<1> QED
  BY <1>1, <1>2, <1>3, <1>4, <1>5, <1>6, <1>7, <1>8
     DEF Next, Interrupt, Thread, Controller

LEMMA CongestInit == Init => CongestionRegistered
<1> SUFFICES ASSUME Init PROVE CongestionRegistered  OBVIOUS
<1>1. sq_cong = <<>> /\ DOMAIN sq_cong = {} /\ cong_wait = FALSE /\ \A b \in Bios : bio[b] = "idle"
  BY DEF Init
<1> QED  BY <1>1 DEF CongestionRegistered

QueueInv == TypeOK /\ PhaseInv /\ IdInv /\ CtxInv /\ CongestionRegistered

LEMMA QueueInvHolds == Spec => []QueueInv
<1>1. Init => QueueInv
  BY TypeInit, PhaseInit, IdInit, CtxInit, CongestInit DEF QueueInv
<1>2. QueueInv /\ [Next]_vars => QueueInv'
  BY TypeStep, PhaseStep, IdStep, CtxStep, CongestStep DEF QueueInv
<1> QED  BY <1>1, <1>2, PTL DEF Spec

\* The context of an ID, which a completion or a timeout will use, is a bio
\* that is issued or the frame of a call in progress.
THEOREM ContextsAlive == Spec => []NoDanglingCtx
<1>1. QueueInv => NoDanglingCtx  BY CtxMeaning DEF QueueInv
<1> QED  BY <1>1, QueueInvHolds, PTL

\* A bio waits at most once, and the thread is on sq_full while one does.
THEOREM CongestionCorrect == Spec => []CongestionRegistered
<1>1. QueueInv => CongestionRegistered  BY DEF QueueInv
<1> QED  BY <1>1, QueueInvHolds, PTL

-----------------------------------------------------------------------------
(* Accounting.  While every bio has an ID, a bit set in the bitmap is that  *)
(* of a command the controller will still answer or that a task prepares.   *)
(* It rests on the submission ring never being overrun: the entries carry   *)
(* distinct IDs, and there is one ID less than the ring has slots.          *)

Distinct(h, t, cmds) ==
  \A i \in Between(h, t) : cmds[i] \in CmdIds /\ \A j \in Between(h, t) : cmds[i] = cmds[j] => i = j

Absent(h, t, cmds, c) == \A i \in Between(h, t) : cmds[i] # c

LEMMA RingHasRoom ==
  ASSUME NEW h \in Slots, NEW t \in Slots, NEW cmds,
         Distinct(h, t, cmds), NEW c \in CmdIds, Absent(h, t, cmds, c)
  PROVE  NextSlot(t) # h
<1> SUFFICES ASSUME NextSlot(t) = h PROVE FALSE
  OBVIOUS
<1>1. Between(h, t) = Slots \ {t}
  BY DEF Between, NextSlot, Slots
<1> DEFINE g == [i \in Slots |-> IF i = t THEN c ELSE cmds[i]]
<1>2. g \in Injection(Slots, CmdIds)
  <2>1. g \in [Slots -> CmdIds]
    BY <1>1 DEF Distinct
  <2>2. \A i, j \in Slots : g[i] = g[j] => i = j
    BY <1>1 DEF Distinct, Absent
  <2> QED  BY <2>1, <2>2 DEF Injection, IsInjective
<1>3. IsFiniteSet(CmdIds) /\ Cardinality(CmdIds) = Depth - 1
  <2>1. 0 \in Int /\ Depth - 2 \in Int /\ ~(0 > Depth - 2) /\ (Depth - 2) - 0 + 1 = Depth - 1
    OBVIOUS
  <2>2. IsFiniteSet(0 .. (Depth - 2)) /\ Cardinality(0 .. (Depth - 2)) = (Depth - 2) - 0 + 1
    BY <2>1, FS_Interval
  <2> QED  BY <2>1, <2>2 DEF CmdIds
<1>4. Cardinality(Slots) = Depth
  BY FS_Interval DEF Slots
<1>5. Cardinality(Slots) <= Cardinality(CmdIds)
  BY <1>2, <1>3, FS_Injection
<1> QED  BY <1>3, <1>4, <1>5

LEMMA RingPut ==
  ASSUME NEW h \in Slots, NEW t \in Slots, NEW cmds,
         Distinct(h, t, cmds), NEW c \in CmdIds, Absent(h, t, cmds, c),
         NEW new, \A i \in Slots : new[i] = IF i = t THEN c ELSE cmds[i]
  PROVE  /\ Between(h, NextSlot(t)) = Between(h, t) \cup {t} /\ t \notin Between(h, t)
         /\ Distinct(h, NextSlot(t), new)
<1>1. NextSlot(t) # h
  BY RingHasRoom
<1>2. /\ Between(h, NextSlot(t)) = Between(h, t) \cup {t} /\ t \notin Between(h, t)
      /\ Between(h, t) \subseteq Slots
  BY <1>1 DEF Between, NextSlot, Slots
<1>3. Distinct(h, NextSlot(t), new)
  BY <1>2 DEF Distinct, Absent
<1> QED  BY <1>2, <1>3

Carried(c) ==
  \/ \E i \in LiveSq : sq_cmds[i] = c
  \/ dev_cmds[c] > 0
  \/ \E i \in LiveCq : cqes[i].id = c
  \/ \E t \in Tasks : Unsubmitted(t) /\ slot[t] = c

NoneBusy == \A i \in LiveSq : sq_cmds[i] \in CmdIds

CarriedInv == ~SomeBioLost => NoneBusy /\ \A c \in cmdid_data : Carried(c)

LEMMA CarriedInit == Init => CarriedInv
  BY DEF Init, CarriedInv, NoneBusy, LiveSq, Between, Slots

LEMMA CarriedMeaning ==
  ASSUME TypeOK, IdInv, CarriedInv
  PROVE  IdsAccounted
<1> SUFFICES ASSUME ~SomeBioLost PROVE cmdid_data = Held \cup Preparing
  BY DEF IdsAccounted
<1>1. Held \subseteq cmdid_data /\ Preparing \subseteq cmdid_data
  BY IdInvMeaning DEF CmdIdNotReused, PreparingIsPrivate
<1>2. ASSUME NEW c \in cmdid_data PROVE c \in Held \cup Preparing
  <2>1. c \in CmdIds /\ Carried(c)
    BY DEF TypeOK, CarriedInv
  <2> QED  BY <2>1 DEF Carried, Held, Queued, Fetched, Posted, Preparing
<1> QED  BY <1>1, <1>2

\* The IDs in the ring are distinct.
LEMMA RingDistinct ==
  ASSUME IdInv, NoneBusy
  PROVE  Distinct(dev_head, sq_tail, sq_cmds)
  BY DEF Distinct, NoneBusy, LiveSq, IdInv

\* A bio that was submitted without an ID never completes.
LEMMA LostStays ==
  ASSUME TypeOK, CtxInv, CongestionRegistered, [Next]_vars, SomeBioLost
  PROVE  SomeBioLost'
<1> PICK a \in Bios : bio[a] = "lost"
  BY DEF SomeBioLost
<1> SUFFICES bio'[a] = "lost"
  BY DEF SomeBioLost
<1>0. ASSUME NEW b \in Bios, b # a, NEW s, bio' = [bio EXCEPT ![b] = s] PROVE bio'[a] = "lost"
  BY <1>0 DEF TypeOK
<1>1. ASSUME NEW c \in CmdIds, NEW ok \in BOOLEAN, CallHandler(info[c].fn, info[c].ctx, ok)
      PROVE  bio'[a] = "lost"
  <2>1. CASE info[c].fn = "bio" /\ info[c].ctx \in Bios
    <3>1. info[c].ctx # a
      BY <2>1 DEF CtxInv, BioIssued
    <3> QED  BY <1>0, <1>1, <2>1, <3>1 DEF CallHandler, bio_completion, Congest, EndBio
  <2>2. CASE ~(info[c].fn = "bio" /\ info[c].ctx \in Bios)
    BY <1>1, <2>2 DEF CallHandler, bioVars
  <2> QED  BY <2>1, <2>2
<1>2. ASSUME NEW b \in Bios, nvme_make_request(b) PROVE bio'[a] = "lost"
  <2>1. b # a
    BY <1>2 DEF nvme_make_request
  <2>2. CASE nvme_submit_bio_queue(b)
    BY <1>0, <2>1, <2>2, CongestSubmits
  <2>3. CASE Congest(b)
    BY <1>0, <2>1, <2>3 DEF Congest
  <2> QED  BY <1>2, <2>2, <2>3 DEF nvme_make_request
<1>3. CASE ProcessCqe
  <2>1. cqes[head].id >= Depth \/ cqes[head].id \in CmdIds
    BY DEF TypeOK, BusyId
  <2> QED  BY <1>1, <1>3, <2>1 DEF ProcessCqe, bioVars, CmdIds
<1>4. CASE nvme_timeout_ios
  BY <1>1, <1>4 DEF nvme_timeout_ios, TimeOut, bioVars
<1>5. CASE nvme_resubmit_bios
  <2>1. CASE UNCHANGED bioVars
    BY <2>1 DEF bioVars
  <2>2. CASE sq_cong # <<>> /\ nvme_submit_bio_queue(Head(sq_cong))
    <3>1. Head(sq_cong) \in Bios /\ 1 \in DOMAIN sq_cong /\ Head(sq_cong) = sq_cong[1]
      BY <2>2 DEF TypeOK
    <3>2. Head(sq_cong) # a
      BY <3>1 DEF CongestionRegistered
    <3> QED  BY <1>0, <2>2, <3>1, <3>2, CongestSubmits
  <2> QED  BY <1>5, <2>1, <2>2 DEF nvme_resubmit_bios
<1>6. CASE nvme_irq \/ nvme_kthread \/ ProcessCqDone \/ DevFetch
  BY <1>6 DEF nvme_irq, nvme_kthread, ProcessCqDone, DevFetch, bioVars
<1>7. ASSUME NEW t \in Tasks, Sync(t) PROVE bio'[a] = "lost"
  BY <1>7 DEF Sync, SyncCall, AllocFind, AllocKilled, AllocSet, AllocFn, AllocCtx,
     AllocTimeout, nvme_submit_cmd, SyncWake, nvme_abort_command, bioVars
<1>8. ASSUME NEW c \in CmdIds \cup {BusyId}, DevPost(c) \/ Expire(c) PROVE bio'[a] = "lost"
  BY <1>8 DEF DevPost, Expire, bioVars
<1>9. CASE UNCHANGED vars
  BY <1>9 DEF vars, bioVars
<1> QED
  BY <1>2, <1>3, <1>4, <1>5, <1>6, <1>7, <1>8, <1>9 DEF Next, Interrupt, Thread, Controller

\* A step that takes no ID, and after which each is with whom it was.
LEMMA CarriedFrame ==
  ASSUME CarriedInv, SomeBioLost => SomeBioLost', cmdid_data' = cmdid_data,
         UNCHANGED <<sqVars, devVars, head>>,
         \A t \in Tasks : Unsubmitted(t) => Unsubmitted(t)' /\ slot'[t] = slot[t]
  PROVE  CarriedInv'
<1>1. LiveSq' = LiveSq /\ LiveCq' = LiveCq
  BY DEF LiveSq, LiveCq, Between, sqVars, devVars
<1> QED  BY <1>1 DEF CarriedInv, NoneBusy, Carried, sqVars, devVars

\* One command, or the flush and then the command, is written to the ring.
LEMMA CarriedSubmitBio ==
  ASSUME TypeOK, IdInv, CarriedInv, SomeBioLost => SomeBioLost', NEW b \in Bios,
         nvme_submit_bio_queue(b), UNCHANGED <<devVars, head, taskVars>>
  PROVE  CarriedInv'
<1> SUFFICES ASSUME ~SomeBioLost' PROVE NoneBusy' /\ \A x \in cmdid_data' : Carried(x)'
  BY DEF CarriedInv
<1> DEFINE flush == b \in FlushBios
           at == IF flush THEN NextSlot(sq_tail) ELSE sq_tail
<1>1. PICK f \in CmdIds \cup {BusyId}, c \in CmdIds \cup {BusyId} :
        /\ IF flush THEN FirstZero(cmdid_data, f) ELSE f = BusyId
        /\ alloc_cmdid(IF flush THEN cmdid_data \cup {f} ELSE cmdid_data, c)
        /\ cmdid_data' = (IF flush THEN cmdid_data \cup {f} ELSE cmdid_data)
                           \cup (IF c = BusyId THEN {} ELSE {c})
        /\ sq_cmds' = [i \in Slots |->
             IF i = at THEN c ELSE IF flush /\ i = sq_tail THEN f ELSE sq_cmds[i]]
        /\ sq_tail' = NextSlot(at)
        /\ bio' = [bio EXCEPT ![b] = IF c = BusyId THEN "lost" ELSE "issued"]
  BY ZenonT(90) DEF nvme_submit_bio_queue
<1>2. c # BusyId
  BY <1>1 DEF SomeBioLost, TypeOK
<1>3. c \in CmdIds \ cmdid_data /\ (flush => f \in CmdIds \ cmdid_data /\ f # c)
  BY <1>1, <1>2 DEF FirstZero, alloc_cmdid
<1>4. cmdid_data' = cmdid_data \cup {c} \cup (IF flush THEN {f} ELSE {})
  BY <1>1, <1>2
<1>5. NoneBusy /\ \A x \in cmdid_data : Carried(x)
  BY DEF CarriedInv
<1>6. dev_head \in Slots /\ sq_tail \in Slots /\ NextSlot(sq_tail) \in Slots
  BY NextSlotType DEF TypeOK
<1>7. Distinct(dev_head, sq_tail, sq_cmds)
  BY <1>5, RingDistinct
<1>8. \A x \in CmdIds \ cmdid_data : Absent(dev_head, sq_tail, sq_cmds, x)
  BY DEF Absent, IdInv, Fresh, LiveSq
<1>9. /\ LiveSq' = LiveSq \cup {at} \cup (IF flush THEN {sq_tail} ELSE {})
      /\ \A i \in LiveSq' : sq_cmds'[i] \in CmdIds
      /\ \A i \in LiveSq : sq_cmds'[i] = sq_cmds[i]
      /\ sq_cmds'[at] = c /\ (flush => sq_cmds'[sq_tail] = f)
  <2>1. dev_head' = dev_head /\ LiveSq' = Between(dev_head, NextSlot(at)) /\ LiveSq \subseteq Slots
    BY <1>1 DEF devVars, LiveSq, Between
  <2>2. CASE ~flush
    <3>1. \A i \in Slots : sq_cmds'[i] = IF i = sq_tail THEN c ELSE sq_cmds[i]
      BY <1>1, <2>2
    <3>2. /\ Between(dev_head, NextSlot(sq_tail)) = Between(dev_head, sq_tail) \cup {sq_tail}
          /\ sq_tail \notin Between(dev_head, sq_tail)
          /\ Distinct(dev_head, NextSlot(sq_tail), sq_cmds')
      BY <1>3, <1>6, <1>7, <1>8, <3>1, RingPut
    <3> QED  BY <1>6, <2>1, <2>2, <3>1, <3>2 DEF LiveSq, Distinct
  <2>3. CASE flush
    <3> DEFINE mid == [i \in Slots |-> IF i = sq_tail THEN f ELSE sq_cmds[i]]
               nt  == NextSlot(sq_tail)
    <3>1. \A i \in Slots : mid[i] = IF i = sq_tail THEN f ELSE sq_cmds[i]
      OBVIOUS
    <3>2. \A i \in Slots : sq_cmds'[i] = IF i = nt THEN c ELSE mid[i]
      BY <1>1, <2>3
    <3> HIDE DEF mid
    <3>3. /\ Between(dev_head, nt) = Between(dev_head, sq_tail) \cup {sq_tail}
          /\ sq_tail \notin Between(dev_head, sq_tail) /\ Distinct(dev_head, nt, mid)
      BY <1>3, <1>6, <1>7, <1>8, <2>3, <3>1, RingPut
    <3>4. Absent(dev_head, nt, mid, c)
      BY <1>3, <1>6, <1>8, <2>1, <2>3, <3>1, <3>3 DEF Absent, LiveSq
    <3> HIDE DEF nt
    <3>5. nt \in Slots
      BY <1>6 DEF nt
    <3>6. /\ Between(dev_head, NextSlot(nt)) = Between(dev_head, nt) \cup {nt}
          /\ nt \notin Between(dev_head, nt)
          /\ Distinct(dev_head, NextSlot(nt), sq_cmds')
      BY <1>3, <1>6, <3>2, <3>3, <3>4, <3>5, RingPut
    <3>7. at = nt /\ sq_tail # nt
      BY <2>3, <3>3, <3>6 DEF nt
    <3> QED  BY <1>6, <2>1, <2>3, <3>1, <3>2, <3>3, <3>5, <3>6, <3>7 DEF LiveSq, Distinct
  <2> QED  BY <2>2, <2>3
<1>10. LiveCq' = LiveCq /\ UNCHANGED <<dev_cmds, cqes, slot, pc>>
  BY DEF LiveCq, Between, devVars, taskVars
<1>11. ASSUME NEW x \in cmdid_data' PROVE Carried(x)'
  <2>1. CASE x \in cmdid_data
    BY <1>5, <1>9, <1>10, <2>1 DEF Carried, Unsubmitted
  <2>2. CASE x = c
    BY <1>9, <2>2 DEF Carried
  <2>3. CASE flush /\ x = f
    BY <1>9, <2>3 DEF Carried
  <2> QED  BY <1>4, <2>1, <2>2, <2>3
<1> QED  BY <1>9, <1>11 DEF NoneBusy

\* A completion: the entry read carried no ID but the one that is freed.
LEMMA CarriedProcessCqe ==
  ASSUME TypeOK, PhaseInv, CarriedInv, SomeBioLost => SomeBioLost', ProcessCqe
  PROVE  CarriedInv'
<1> PICK c \in CmdIds \cup {BusyId} : c = cqes[head].id
  BY DEF TypeOK
<1>1. head # dev_tail /\ head \in Slots /\ dev_tail \in Slots
  BY PhaseExact DEF ProcessCqe, PhaseTagExact, TypeOK
<1>2. LiveCq' = LiveCq \ {head}
  BY <1>1, BetweenGet DEF LiveCq, ProcessCqe, devVars, Between
<1>3. LiveSq' = LiveSq /\ UNCHANGED <<sq_cmds, dev_cmds, cqes, slot>>
  BY DEF ProcessCqe, LiveSq, Between, sqVars, devVars, taskVars
<1>4. \A t \in Tasks : Unsubmitted(t)' = Unsubmitted(t)
  BY DEF ProcessCqe, free_cmdid, Unsubmitted, taskVars, TypeOK
<1>5. cmdid_data' \subseteq cmdid_data /\ c \notin cmdid_data'
  BY DEF ProcessCqe, free_cmdid, cmdVars, TypeOK, CmdIds
<1> QED  BY <1>2, <1>3, <1>4, <1>5 DEF CarriedInv, NoneBusy, Carried

\* The task that sets the bit keeps the ID until it writes it to the ring.
LEMMA CarriedAllocSet ==
  ASSUME TypeOK, CarriedInv, SomeBioLost => SomeBioLost', NEW t \in Tasks, AllocSet(t)
  PROVE  CarriedInv'
<1>1. LiveSq' = LiveSq /\ LiveCq' = LiveCq /\ UNCHANGED <<sq_cmds, dev_cmds, cqes, slot>>
  BY DEF AllocSet, LiveSq, LiveCq, Between, sqVars, devVars, cqVars
<1>2. cmdid_data' = cmdid_data \cup {slot[t]}
  BY DEF AllocSet
<1>3. \A u \in Tasks : Unsubmitted(u) => Unsubmitted(u)'
  BY DEF AllocSet, Goto, Unsubmitted, TypeOK
<1>4. slot[t] \in cmdid_data \/ Unsubmitted(t)'
  BY DEF AllocSet, Goto, Unsubmitted, TypeOK
<1> QED  BY <1>1, <1>2, <1>3, <1>4 DEF CarriedInv, NoneBusy, Carried

LEMMA CarriedSubmitCmd ==
  ASSUME TypeOK, IdInv, CarriedInv, SomeBioLost => SomeBioLost', NEW t \in Tasks, nvme_submit_cmd(t)
  PROVE  CarriedInv'
<1> SUFFICES ASSUME ~SomeBioLost' PROVE NoneBusy' /\ \A x \in cmdid_data' : Carried(x)'
  BY DEF CarriedInv
<1>1. NoneBusy /\ \A x \in cmdid_data : Carried(x)
  BY DEF CarriedInv
<1>2. LiveCq' = LiveCq /\ UNCHANGED <<dev_cmds, cqes, slot, cmdid_data>>
  BY DEF nvme_submit_cmd, LiveCq, Between, devVars, cqVars, cmdVars
<1>3. /\ \A i \in Slots : sq_cmds'[i] = IF i = sq_tail THEN slot[t] ELSE sq_cmds[i]
      /\ slot[t] \in CmdIds /\ sq_tail \in Slots /\ dev_head \in Slots /\ Unsubmitted(t)
      /\ sq_tail' = NextSlot(sq_tail) /\ dev_head' = dev_head
  BY DEF nvme_submit_cmd, TypeOK, Unsubmitted, devVars
<1>4. Distinct(dev_head, sq_tail, sq_cmds) /\ Absent(dev_head, sq_tail, sq_cmds, slot[t])
  BY <1>1, <1>3, RingDistinct DEF Absent, IdInv, LiveSq
<1>5. /\ Between(dev_head, NextSlot(sq_tail)) = Between(dev_head, sq_tail) \cup {sq_tail}
      /\ sq_tail \notin Between(dev_head, sq_tail) /\ Between(dev_head, sq_tail) \subseteq Slots
      /\ Distinct(dev_head, NextSlot(sq_tail), sq_cmds')
  BY <1>3, <1>4, RingPut DEF Between
<1>6. /\ LiveSq' = LiveSq \cup {sq_tail} /\ sq_cmds'[sq_tail] = slot[t]
      /\ \A i \in LiveSq : sq_cmds'[i] = sq_cmds[i]
      /\ \A i \in LiveSq' : sq_cmds'[i] \in CmdIds
  BY <1>3, <1>5 DEF LiveSq, Between, Distinct
<1>7. \A u \in Tasks \ {t} : Unsubmitted(u) => Unsubmitted(u)'
  BY DEF nvme_submit_cmd, Goto, Unsubmitted, TypeOK
<1>8. ASSUME NEW x \in cmdid_data' PROVE Carried(x)'
  <2>1. Carried(x)
    BY <1>1, <1>2
  <2>2. CASE x = slot[t]
    BY <1>6, <2>2 DEF Carried
  <2>3. CASE x # slot[t]
    BY <1>2, <1>6, <1>7, <2>1, <2>3 DEF Carried
  <2> QED  BY <2>2, <2>3
<1> QED  BY <1>6, <1>8 DEF NoneBusy

LEMMA CarriedDevFetch ==
  ASSUME TypeOK, CarriedInv, SomeBioLost => SomeBioLost', DevFetch
  PROVE  CarriedInv'
<1> DEFINE c == sq_cmds[dev_head]
<1>1. /\ dev_head \in Slots /\ sq_tail \in Slots /\ c \in CmdIds \cup {BusyId} /\ dev_cmds[c] \in Nat
      /\ dev_cmds' = [dev_cmds EXCEPT ![c] = dev_cmds[c] + 1]
  BY DEF DevFetch, TypeOK
<1>2. LiveSq' = LiveSq \ {dev_head}
  BY <1>1, BetweenGet DEF DevFetch, LiveSq, Between, sqVars
<1>3. LiveCq' = LiveCq /\ UNCHANGED <<sq_cmds, cqes, slot, pc, cmdid_data>>
  BY DEF DevFetch, LiveCq, Between, sqVars, cqVars, cmdVars, taskVars
<1>4. /\ dev_cmds'[c] > 0
      /\ \A x \in CmdIds : dev_cmds[x] > 0 => dev_cmds'[x] > 0
  BY <1>1 DEF TypeOK
<1>5. cmdid_data \subseteq CmdIds
  BY DEF TypeOK
<1> HIDE DEF c
<1>6. ASSUME NEW x \in CmdIds, Carried(x) PROVE Carried(x)'
  BY <1>2, <1>3, <1>4, <1>6 DEF Carried, Unsubmitted, c
<1> QED  BY <1>2, <1>3, <1>5, <1>6 DEF CarriedInv, NoneBusy

\* The controller waits for a free completion slot, so it overwrites no answer.
LEMMA CarriedDevPost ==
  ASSUME TypeOK, PhaseInv, CarriedInv, SomeBioLost => SomeBioLost',
         NEW c \in CmdIds \cup {BusyId}, DevPost(c)
  PROVE  CarriedInv'
<1>1. /\ head \in Slots /\ dev_tail \in Slots /\ head' = head /\ dev_tail' = NextSlot(dev_tail)
      /\ cqes' = [cqes EXCEPT ![dev_tail] = [id |-> c, phase |-> dev_phase]]
      /\ dev_cmds' = [dev_cmds EXCEPT ![c] = dev_cmds[c] - 1]
  BY DEF DevPost, TypeOK, cqVars
<1>2. NextSlot(dev_tail) # head
  BY NeverFull DEF DevPost
<1>3. /\ LiveCq' = LiveCq \cup {dev_tail} /\ dev_tail \notin LiveCq /\ LiveCq \subseteq Slots
  BY <1>1, <1>2 DEF LiveCq, Between, NextSlot, Slots
<1>4. cqes'[dev_tail].id = c /\ \A i \in LiveCq : cqes'[i] = cqes[i]
  BY <1>1, <1>3 DEF TypeOK
<1>5. LiveSq' = LiveSq /\ UNCHANGED <<sq_cmds, slot, pc, cmdid_data>>
  BY DEF DevPost, LiveSq, Between, sqVars, cmdVars, taskVars
<1>6. \A x \in CmdIds : x # c => dev_cmds'[x] = dev_cmds[x]
  BY <1>1 DEF TypeOK
<1>7. cmdid_data \subseteq CmdIds
  BY DEF TypeOK
<1>8. ASSUME NEW x \in CmdIds, Carried(x) PROVE Carried(x)'
  <2>1. CASE x = c
    BY <1>3, <1>4, <2>1 DEF Carried
  <2>2. CASE x # c
    BY <1>3, <1>4, <1>5, <1>6, <1>8, <2>2 DEF Carried, Unsubmitted
  <2> QED  BY <2>1, <2>2
<1> QED  BY <1>5, <1>7, <1>8 DEF CarriedInv, NoneBusy

LEMMA CarriedStep == QueueInv /\ CarriedInv /\ [Next]_vars => CarriedInv'
<1> SUFFICES ASSUME TypeOK, PhaseInv, IdInv, CtxInv, CongestionRegistered, CarriedInv, [Next]_vars
             PROVE  CarriedInv'
  BY DEF QueueInv
<1> SomeBioLost => SomeBioLost'
  BY LostStays
<1> DEFINE Frame == /\ UNCHANGED <<sqVars, devVars, head, cmdid_data>>
                    /\ \A t \in Tasks : Unsubmitted(t) => Unsubmitted(t)' /\ slot'[t] = slot[t]
<1>0. ASSUME Frame PROVE CarriedInv'
  BY <1>0, CarriedFrame
<1>1. ASSUME NEW b \in Bios, nvme_make_request(b) PROVE CarriedInv'
  <2>1. CASE nvme_submit_bio_queue(b)
    BY <1>1, <2>1, CarriedSubmitBio DEF nvme_make_request, cqVars
  <2>2. CASE ~nvme_submit_bio_queue(b)
    BY <1>0, <1>1, <2>2 DEF nvme_make_request, cmdVars, cqVars, taskVars, Unsubmitted
  <2> QED  BY <2>1, <2>2
<1>2. CASE nvme_irq \/ nvme_kthread
  <2>1. UNCHANGED <<sqVars, devVars, cmdVars, taskVars>> /\ head' = cq_head
    BY <1>2 DEF nvme_irq, nvme_kthread
  <2>2. head = cq_head
    BY <1>2 DEF nvme_irq, nvme_kthread, PhaseInv
  <2> QED  BY <2>2, <1>0, <1>2, <2>1 DEF cmdVars, taskVars, Unsubmitted
<1>3. CASE ProcessCqe
  BY <1>3, CarriedProcessCqe
<1>4. CASE ProcessCqDone
  BY <1>0, <1>4 DEF ProcessCqDone, cmdVars, taskVars, Unsubmitted
<1>5. CASE nvme_timeout_ios
  BY <1>0, <1>5 DEF nvme_timeout_ios, TimeOut, cancel_cmdid, cmdVars, cqVars, taskVars, Unsubmitted
<1>6. CASE nvme_resubmit_bios
  <2>1. CASE sq_cong = <<>> \/ FlushBusy(Head(sq_cong))
    BY <1>0, <1>6, <2>1 DEF nvme_resubmit_bios, cmdVars, cqVars, taskVars, Unsubmitted
  <2>2. CASE ~(sq_cong = <<>> \/ FlushBusy(Head(sq_cong)))
    <3>1. Head(sq_cong) \in Bios /\ nvme_submit_bio_queue(Head(sq_cong))
      BY <1>6, <2>2 DEF nvme_resubmit_bios, TypeOK
    <3> QED  BY <1>6, <3>1, CarriedSubmitBio DEF nvme_resubmit_bios, cqVars
  <2> QED  BY <2>1, <2>2
<1>7. ASSUME NEW t \in Tasks, Sync(t) PROVE CarriedInv'
  <2> USE DEF cmdVars, cqVars, Goto, Unsubmitted, TypeOK
  <2>1. CASE SyncCall(t) \/ AllocFind(t)
    BY <1>0, <2>1 DEF SyncCall, AllocFind
  <2>2. CASE AllocKilled(t) \/ nvme_abort_command(t) \/ \E killed \in BOOLEAN : SyncWake(t, killed)
    BY <1>0, <2>2 DEF AllocKilled, nvme_abort_command, cancel_cmdid, SyncWake, Return
  <2>3. CASE AllocFn(t) \/ AllocCtx(t) \/ AllocTimeout(t)
    BY <1>0, <2>3 DEF AllocFn, AllocCtx, AllocTimeout
  <2> QED  BY <1>7, <2>1, <2>2, <2>3, CarriedAllocSet, CarriedSubmitCmd DEF Sync
<1>8. CASE DevFetch
  BY <1>8, CarriedDevFetch
<1>9. ASSUME NEW c \in CmdIds \cup {BusyId}, DevPost(c) PROVE CarriedInv'
  BY <1>9, CarriedDevPost
<1>10. ASSUME NEW c \in CmdIds, Expire(c) PROVE CarriedInv'
  BY <1>0, <1>10 DEF Expire, cqVars, taskVars, Unsubmitted
<1>11. CASE UNCHANGED vars
  BY <1>0, <1>11 DEF vars, cmdVars, cqVars, taskVars, Unsubmitted
<1> QED
  BY <1>1, <1>2, <1>3, <1>4, <1>5, <1>6, <1>7, <1>8, <1>9, <1>10, <1>11
     DEF Next, Interrupt, Thread, Controller

\* alloc_cmdid(), free_cmdid(), cancel_cmdid(): no ID leaks.  As long as every bio
\* got an ID, one that is taken is with the controller or with a task that will
\* submit it; what is timed out or aborted comes back with the late answer.
THEOREM IdsNeverLeak == Spec => []IdsAccounted
<1>1. Init => CarriedInv
  BY CarriedInit
<1>2. QueueInv /\ CarriedInv => IdsAccounted
  BY CarriedMeaning DEF QueueInv
<1>3. QueueInv /\ CarriedInv /\ [Next]_vars => CarriedInv'
  BY CarriedStep
<1> QED  BY <1>1, <1>2, <1>3, QueueInvHolds, PTL DEF Spec

-----------------------------------------------------------------------------
(* The completion ring is a queue: each step of the ring appends to its     *)
(* contents, takes its first entry or leaves it as it is.                   *)

LEMMA CqShape ==
  ASSUME TypeOK
  PROVE  /\ CqUnread \in 0 .. (Depth - 1)
         /\ CqContents \in Seq(CmdIds \cup {BusyId}) /\ Len(CqContents) = CqUnread
         /\ \A i \in 1 .. CqUnread : /\ Wrap(head + i - 1) \in Slots
                                     /\ CqContents[i] = cqes[Wrap(head + i - 1)].id
<1>1. CqUnread \in 0 .. (Depth - 1) /\ head \in Slots /\ dev_tail \in Slots
  BY DEF TypeOK, CqUnread, Slots
<1>2. \A i \in 1 .. CqUnread : Wrap(head + i - 1) \in Slots
  BY <1>1 DEF Wrap, Slots
<1>3. \A i \in 1 .. CqUnread : cqes[Wrap(head + i - 1)].id \in CmdIds \cup {BusyId}
  BY <1>2 DEF TypeOK
<1> QED  BY <1>1, <1>2, <1>3 DEF CqContents

LEMMA CqFrame ==
  ASSUME UNCHANGED <<head, dev_tail, cqes>>
  PROVE  UNCHANGED CqContents
  BY DEF CqContents, CqUnread, Wrap

LEMMA CqGet ==
  ASSUME TypeOK, PhaseInv, TypeOK', ProcessCqe
  PROVE  Cq!Get
<1>1. /\ head # dev_tail /\ head \in Slots /\ dev_tail \in Slots
      /\ head' = NextSlot(head) /\ dev_tail' = dev_tail /\ cqes' = cqes
  BY PhaseExact DEF ProcessCqe, PhaseTagExact, TypeOK, devVars
<1>2. CqUnread \in Nat \ {0} /\ CqUnread' = CqUnread - 1
  BY <1>1 DEF CqUnread, NextSlot, Slots
<1>3. \A i \in 1 .. CqUnread' : Wrap(head' + i - 1) = Wrap(head + (i + 1) - 1)
  BY <1>1, <1>2 DEF CqUnread, NextSlot, Slots, Wrap
<1>4. CqContents # <<>> /\ CqContents \in Seq(CmdIds \cup {BusyId}) /\ Len(CqContents) = CqUnread
  BY <1>2, CqShape
<1>5. CqContents' \in Seq(CmdIds \cup {BusyId}) /\ Len(CqContents') = CqUnread'
  <2> (CqContents \in Seq(CmdIds \cup {BusyId}) /\ Len(CqContents) = CqUnread)'
    BY CqShape, PTL
  <2> QED  OBVIOUS
<1>6. \A i \in 1 .. CqUnread' : CqContents'[i] = CqContents[i + 1]
  BY <1>1, <1>2, <1>3 DEF CqContents
<1>7. CqContents' = Tail(CqContents)
  BY <1>2, <1>4, <1>5, <1>6
<1> QED  BY <1>4, <1>7 DEF Cq!Get

LEMMA CqPut ==
  ASSUME TypeOK, PhaseInv, TypeOK', NEW c \in CmdIds \cup {BusyId}, DevPost(c)
  PROVE  Cq!Put(c)
<1>1. /\ head \in Slots /\ dev_tail \in Slots /\ head' = head /\ dev_tail' = NextSlot(dev_tail)
      /\ cqes' = [cqes EXCEPT ![dev_tail] = [id |-> c, phase |-> dev_phase]]
  BY DEF DevPost, TypeOK, cqVars
<1>2. NextSlot(dev_tail) # head
  BY NeverFull DEF DevPost
<1>3. CqUnread \in 0 .. (Depth - 2) /\ CqUnread' = CqUnread + 1
  BY <1>1, <1>2 DEF CqUnread, NextSlot, Slots
<1>4. /\ Wrap(head + (CqUnread + 1) - 1) = dev_tail
      /\ \A i \in 1 .. CqUnread : Wrap(head + i - 1) \in Slots \ {dev_tail}
  BY <1>1, <1>3 DEF CqUnread, Slots, Wrap
<1>5. CqContents \in Seq(CmdIds \cup {BusyId}) /\ Len(CqContents) = CqUnread
  BY CqShape
<1>6. /\ cqes'[dev_tail].id = c
      /\ \A j \in Slots \ {dev_tail} : cqes'[j] = cqes[j]
  BY <1>1 DEF TypeOK
<1>7. CqContents' = [i \in 1 .. CqUnread + 1 |-> cqes'[Wrap(head + i - 1)].id]
  BY <1>1, <1>3 DEF CqContents, Wrap
<1>8. /\ \A i \in 1 .. CqUnread : cqes'[Wrap(head + i - 1)].id = CqContents[i]
      /\ cqes'[Wrap(head + (CqUnread + 1) - 1)].id = c
  BY <1>4, <1>6 DEF CqContents
<1>9. CqContents' = Append(CqContents, c)
  <2>1. CqContents' \in Seq(CmdIds \cup {BusyId}) /\ Len(CqContents') = CqUnread'
    <3> (CqContents \in Seq(CmdIds \cup {BusyId}) /\ Len(CqContents) = CqUnread)'
      BY CqShape, PTL
    <3> QED  OBVIOUS
  <2>2. Append(CqContents, c) \in Seq(CmdIds \cup {BusyId}) /\ Len(Append(CqContents, c)) = CqUnread + 1
    BY <1>5
  <2>3. ASSUME NEW i \in 1 .. CqUnread + 1 PROVE CqContents'[i] = Append(CqContents, c)[i]
    <3>1. CASE i = CqUnread + 1
      <4>1. Append(CqContents, c)[i] = c
        BY <1>5, <3>1
      <4> QED  BY <1>7, <1>8, <3>1, <4>1
    <3>2. CASE i # CqUnread + 1
      <4>1. i \in 1 .. CqUnread
        BY <1>3, <3>2
      <4>2. Append(CqContents, c)[i] = CqContents[i]
        BY <1>5, <4>1
      <4> QED  BY <1>7, <1>8, <4>1, <4>2
    <3> QED  BY <3>1, <3>2
  <2> QED  BY <1>3, <2>1, <2>2, <2>3
<1> QED  BY <1>3, <1>5, <1>9 DEF Cq!Put

LEMMA CqStep ==
  ASSUME TypeOK, PhaseInv, TypeOK', [Next]_vars
  PROVE  [Cq!Next]_CqContents
<1>1. CASE ProcessCqe
  BY <1>1, CqGet DEF Cq!Next
<1>2. ASSUME NEW c \in CmdIds \cup {BusyId}, DevPost(c) PROVE Cq!Next
  BY <1>2, CqPut DEF Cq!Next
<1>3. CASE UNCHANGED <<head, dev_tail, cqes>>
  BY <1>3, CqFrame
<1>4. CASE nvme_irq \/ nvme_kthread
  BY <1>3, <1>4 DEF nvme_irq, nvme_kthread, PhaseInv, devVars
<1>5. ASSUME NEW b \in Bios, nvme_make_request(b) PROVE UNCHANGED <<head, dev_tail, cqes>>
  BY <1>5 DEF nvme_make_request, cqVars, devVars
<1>6. CASE ProcessCqDone \/ nvme_timeout_ios \/ nvme_resubmit_bios \/ DevFetch
  BY <1>3, <1>6 DEF ProcessCqDone, nvme_timeout_ios, nvme_resubmit_bios, DevFetch, cqVars, devVars
<1>7. ASSUME NEW t \in Tasks, Sync(t) PROVE UNCHANGED <<head, dev_tail, cqes>>
  BY <1>7 DEF Sync, SyncCall, AllocFind, AllocKilled, AllocSet, AllocFn, AllocCtx,
     AllocTimeout, nvme_submit_cmd, SyncWake, nvme_abort_command, cqVars, devVars
<1>8. ASSUME NEW c \in CmdIds, Expire(c) PROVE UNCHANGED <<head, dev_tail, cqes>>
  BY <1>8 DEF Expire, cqVars, devVars
<1>9. CASE UNCHANGED vars
  BY <1>3, <1>9 DEF vars, cqVars, devVars
<1> QED
  BY <1>1, <1>2, <1>3, <1>4, <1>5, <1>6, <1>7, <1>8, <1>9 DEF Next, Interrupt, Thread, Controller

\* nvme_process_cq(): the driver handles each completion the controller wrote
\* once and in order; the ring implements a queue of Depth - 1 entries.
THEOREM CompletionsInOrder == Spec => CqIsFifo
<1>1. Init => CqContents = <<>>
  BY DEF Init, CqContents, CqUnread
<1>2. Init => Cq!Init
  BY <1>1 DEF Cq!Init
<1>3. QueueInv /\ QueueInv' /\ [Next]_vars => [Cq!Next]_CqContents
  BY CqStep DEF QueueInv
<1> QED  BY <1>2, <1>3, QueueInvHolds, PTL DEF Spec, CqIsFifo, Cq!Spec
=============================================================================
