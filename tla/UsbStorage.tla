----------------------------- MODULE UsbStorage -----------------------------
(***************************************************************************)
(* A bound device of kernel/usb_mass_storage/usb.c: the control thread,    *)
(* which runs one SCSI command at a time, the delayed scan, the reset and  *)
(* power callbacks that take dev_mutex, and, external (scsiglue.c is not   *)
(* in the repository), the SCSI layer: it queues a command, aborts it when *)
(* it times out and waits for the thread's answer, and removes the host.   *)
(*                                                                         *)
(* A section under scsi_lock is one action.                                *)
(***************************************************************************)
EXTENDS Integers, FiniteSets

CONSTANTS Commands, None

VARIABLES
  srb, result,         \* us->srb and its result
  cmnd_ready, notify,  \* the two completions
  dflags, dev_mutex,   \* dynamic flags; the holder
  ctl,                 \* where the control thread is
  scan, usage,         \* the delayed work; the count of autopm references
  eh,                  \* the command whose abort the error handler waits for
  done,                \* history: calls of scsi_done()
  fate                 \* history: what became of each command

usbVars == <<srb, result, cmnd_ready, notify, dflags, dev_mutex, ctl, scan, usage, eh, done, fate>>

Init ==
  /\ srb = None /\ result = "none"
  /\ cmnd_ready = 0 /\ notify = 0
  /\ dflags = {"SCAN_PENDING"} /\ dev_mutex = "free"
  /\ ctl = "sleep" /\ scan = "queued" /\ usage = 1
  /\ eh = None
  /\ done = [c \in Commands |-> 0]
  /\ fate = [c \in Commands |-> "new"]

-----------------------------------------------------------------------------
(* usb_stor_control_thread() *)

ctlOnly == <<scan, usage, eh>>

Awake ==
  /\ ctl = "sleep" /\ cmnd_ready > 0
  /\ cmnd_ready' = cmnd_ready - 1 /\ ctl' = "lock"
  /\ UNCHANGED <<srb, result, notify, dflags, dev_mutex, done, fate, ctlOnly>>

LockDev ==
  /\ ctl = "lock" /\ dev_mutex = "free"
  /\ dev_mutex' = "ctl" /\ ctl' = "look"
  /\ UNCHANGED <<srb, result, cmnd_ready, notify, dflags, done, fate, ctlOnly>>

EndCommand_keep ==                          \* mutant: TIMED_OUT is not cleared
  /\ notify' = IF "TIMED_OUT" \in dflags THEN notify + 1 ELSE notify
  /\ dflags' = dflags \ {"ABORTING"}
  /\ srb' = None /\ dev_mutex' = "free" /\ ctl' = "sleep"

EndCommand_result ==                        \* mutant: the result decides, not the flag
  /\ IF result = "DID_ABORT"
       THEN notify' = notify + 1 /\ dflags' = dflags \ {"TIMED_OUT", "ABORTING"}
       ELSE UNCHANGED <<notify, dflags>>
  /\ srb' = None /\ dev_mutex' = "free" /\ ctl' = "sleep"

\* From SkipForAbort on: release an aborter, forget the command, unlock
EndCommand ==
  /\ IF "TIMED_OUT" \in dflags
       THEN notify' = notify + 1 /\ dflags' = dflags \ {"TIMED_OUT", "ABORTING"}
       ELSE UNCHANGED <<notify, dflags>>
  /\ srb' = None /\ dev_mutex' = "free" /\ ctl' = "sleep"

\* No command: the end.  A command that timed out already: it is not started.
Look ==
  /\ ctl = "look"
  /\ \/ /\ srb = None
        /\ ctl' = "stop" /\ dev_mutex' = "free"
        /\ UNCHANGED <<srb, result, notify, dflags>>
     \/ /\ srb # None /\ "TIMED_OUT" \in dflags
        /\ result' = "DID_ABORT"
        /\ EndCommand
     \/ /\ srb # None /\ "TIMED_OUT" \notin dflags
        /\ ctl' = "execute"
        /\ UNCHANGED <<srb, result, notify, dflags, dev_mutex>>
  /\ UNCHANGED <<cmnd_ready, done, fate, ctlOnly>>

\* An unknown direction, a bad target or LUN, and a faked INQUIRY are answered
\* here; anything else goes to proto_handler().
Execute ==
  /\ ctl = "execute"
  /\ \/ /\ \E r \in {"DID_ERROR", "DID_BAD_TARGET", "SAM_STAT_GOOD"} : result' = r
        /\ ctl' = "finish"
     \/ ctl' = "transfer" /\ UNCHANGED result
  /\ UNCHANGED <<srb, cmnd_ready, notify, dflags, dev_mutex, done, fate, ctlOnly>>

\* proto_handler() returns (external): with DID_ABORT only if it saw ABORTING
Transfer ==
  /\ ctl = "transfer"
  /\ \E r \in {"DID_ERROR", "SAM_STAT_GOOD"} \cup (IF "ABORTING" \in dflags THEN {"DID_ABORT"} ELSE {}) :
       result' = r
  /\ ctl' = "finish"
  /\ UNCHANGED <<srb, cmnd_ready, notify, dflags, dev_mutex, done, fate, ctlOnly>>

Finish ==
  /\ ctl = "finish"
  /\ IF result # "DID_ABORT"
       THEN done' = [done EXCEPT ![srb] = @ + 1] /\ fate' = [fate EXCEPT ![srb] = "answered"]
       ELSE UNCHANGED <<done, fate>>
  /\ EndCommand
  /\ UNCHANGED <<result, cmnd_ready, ctlOnly>>

\* The second loop: wait for kthread_stop()
Stop ==
  /\ ctl = "stop" /\ "DISCONNECTING" \in dflags
  /\ ctl' = "exited"
  /\ UNCHANGED <<srb, result, cmnd_ready, notify, dflags, dev_mutex, done, fate, ctlOnly>>

-----------------------------------------------------------------------------
(* Resets, power management and the scan *)

others == <<srb, result, cmnd_ready, notify, ctl, eh, done, fate>>

\* usb_stor_suspend() and usb_stor_resume() wait for the same mutex and give it
\* back; between usb_stor_pre_reset() and usb_stor_post_reset() it stays taken.
PreReset ==
  /\ dev_mutex = "free" /\ dev_mutex' = "reset"
  /\ UNCHANGED <<dflags, scan, usage, others>>

PostReset ==
  /\ dev_mutex = "reset" /\ dev_mutex' = "free"
  /\ UNCHANGED <<dflags, scan, usage, others>>

\* usb_stor_scan_dwork(): for a bulk-only device the LUNs are counted first
ScanStart ==
  /\ scan = "queued"
  /\ \/ scan' = "lun" \/ scan' = "host"
  /\ UNCHANGED <<dflags, dev_mutex, usage, others>>

ScanLun ==
  /\ scan = "lun"
  /\ \/ dev_mutex = "free" /\ dev_mutex' = "scan" /\ UNCHANGED scan
     \/ dev_mutex = "scan" /\ dev_mutex' = "free" /\ scan' = "host"
  /\ UNCHANGED <<dflags, usage, others>>

\* scsi_scan_host() returns, and the reference of probe2 is given back
ScanPut ==
  /\ scan = "host" /\ scan' = "clear"
  /\ usage' = usage - 1
  /\ UNCHANGED <<dflags, dev_mutex, others>>

ScanEnd_keep ==                             \* mutant: SCAN_PENDING stays set
  /\ scan = "clear" /\ scan' = "ended"
  /\ UNCHANGED <<dflags, usage, dev_mutex, others>>

ScanEnd ==
  /\ scan = "clear" /\ scan' = "ended"
  /\ dflags' = dflags \ {"SCAN_PENDING"}
  /\ UNCHANGED <<usage, dev_mutex, others>>

-----------------------------------------------------------------------------
(* The SCSI layer (external) *)

Outstanding == \E c \in Commands : fate[c] = "issued"

\* queuecommand(): the host takes one command at a time, none in recovery and
\* none once it is being removed.
Queue(c) ==
  /\ fate[c] = "new" /\ ~Outstanding /\ eh = None
  /\ srb = None /\ "DISCONNECTING" \notin dflags
  /\ srb' = c /\ result' = "none"
  /\ cmnd_ready' = cmnd_ready + 1
  /\ fate' = [fate EXCEPT ![c] = "issued"]
  /\ UNCHANGED <<notify, dflags, dev_mutex, ctl, scan, usage, eh, done>>

\* The error handler aborts a command that timed out, if it is the current one.
Abort(c) ==
  /\ fate[c] = "issued" /\ srb = c /\ eh = None
  /\ eh' = c
  /\ dflags' = dflags \cup {"TIMED_OUT", "ABORTING"}
  /\ UNCHANGED <<srb, result, cmnd_ready, notify, dev_mutex, ctl, scan, usage, done, fate>>

AbortReturn ==
  /\ eh # None /\ notify > 0
  /\ notify' = notify - 1 /\ eh' = None
  /\ fate' = [fate EXCEPT ![eh] = "aborted"]
  /\ UNCHANGED <<srb, result, cmnd_ready, dflags, dev_mutex, ctl, scan, usage, done>>

\* Removal: the scan is cancelled or waited for, the commands have ended, and
\* the thread is woken with none.  A cancelled scan's reference is given back.
Disconnect ==
  /\ "DISCONNECTING" \notin dflags
  /\ ~Outstanding /\ eh = None /\ scan \in {"queued", "ended"}
  /\ dflags' = dflags \cup {"DISCONNECTING"}
  /\ scan' = IF scan = "queued" THEN "cancelled" ELSE scan
  /\ usage' = IF "SCAN_PENDING" \in dflags THEN usage - 1 ELSE usage
  /\ cmnd_ready' = cmnd_ready + 1
  /\ UNCHANGED <<srb, result, notify, dev_mutex, ctl, eh, done, fate>>

-----------------------------------------------------------------------------

ControlThread == Awake \/ LockDev \/ Look \/ Execute \/ Transfer \/ Finish \/ Stop
Scan          == ScanStart \/ ScanLun \/ ScanPut \/ ScanEnd
ScsiLayer     == AbortReturn \/ Disconnect \/ \E c \in Commands : Queue(c) \/ Abort(c)

Next == ControlThread \/ Scan \/ PreReset \/ PostReset \/ ScsiLayer

Spec == Init /\ [][Next]_usbVars

\* The thread and the work are scheduled, transfers end (the transport has its
\* own timeouts), a reset ends, and a mutex is granted in the order of arrival.
Fairness ==
  /\ WF_usbVars(Awake) /\ SF_usbVars(LockDev) /\ WF_usbVars(Look)
  /\ WF_usbVars(Execute) /\ WF_usbVars(Transfer) /\ WF_usbVars(Finish)
  /\ WF_usbVars(Stop) /\ SF_usbVars(Scan) /\ WF_usbVars(PostReset)
  /\ WF_usbVars(AbortReturn)

FairSpec == Spec /\ Fairness

-----------------------------------------------------------------------------
(* Properties *)

\* The values each variable can hold; the autopm reference of probe2 is given
\* back once, by the scan or by whoever cancelled it.
TypeOK ==
  /\ srb \in Commands \cup {None} /\ eh \in Commands \cup {None}
  /\ result \in {"none", "DID_ABORT", "DID_ERROR", "DID_BAD_TARGET", "SAM_STAT_GOOD"}
  /\ cmnd_ready \in 0 .. 1 /\ notify \in 0 .. 1
  /\ dflags \subseteq {"TIMED_OUT", "ABORTING", "DISCONNECTING", "SCAN_PENDING"}
  /\ dev_mutex \in {"free", "ctl", "reset", "scan"}
  /\ ctl \in {"sleep", "lock", "look", "execute", "transfer", "finish", "stop", "exited"}
  /\ scan \in {"queued", "lun", "host", "clear", "ended", "cancelled"}
  /\ usage \in 0 .. 1 /\ ("DISCONNECTING" \in dflags => usage = 0)
  /\ done \in [Commands -> Nat]
  /\ fate \in [Commands -> {"new", "issued", "answered", "aborted"}]

\* usb_stor_control_thread(): a command is answered once at most, and it leaves
\* us->srb only answered, or aborted with its aborter told.
AnsweredOnce ==
  /\ \A c \in Commands : done[c] <= 1
  /\ \A c \in Commands : fate[c] = "issued" /\ srb # c => eh = c /\ notify = 1
  /\ \A c \in Commands : fate[c] = "issued" => done[c] = 0

\* "The proper test for this is the TIMED_OUT flag": an abort ends with the
\* command it was for.  The flags never reach the next command, and notify is
\* raised once for each aborter, whichever of answer and timeout came first.
AbortsAreMatched ==
  /\ "TIMED_OUT" \in dflags => srb # None /\ srb = eh
  /\ "ABORTING" \in dflags => "TIMED_OUT" \in dflags
  /\ eh # None <=> "TIMED_OUT" \in dflags \/ notify = 1
  /\ notify <= 1

\* The error handler is released, a command is not kept for ever, and a thread
\* that is told to stop ends.
ThreadAnswers ==
  /\ eh # None ~> eh = None
  /\ srb # None ~> srb = None
  /\ "DISCONNECTING" \in dflags ~> ctl = "exited"
=============================================================================
