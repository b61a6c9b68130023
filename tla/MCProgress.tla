----------------------------- MODULE MCProgress -----------------------------
(***************************************************************************)
(* The systems in which somebody waits for somebody else, side by side:    *)
(* the first state picks one of them, and the others stay as they are.     *)
(***************************************************************************)
EXTENDS MonitorBuffer

CONSTANTS
  Depth, Bios, FlushBios, SplitBios, Tasks, MapMayFail,
  Readers, Writers, Pollers, N, Bytes, MaxLen,
  Commands,
  Tx, Rx, Pool, MaxOpens, NULL,
  MaxLength, MaxCalls

VARIABLES
  system,
  cmdid_data, info, sq_cmds, sq_tail, cqes, cq_head, cq_phase, q_lock, stage, head,
  phase, scan, sq_cong, cong_wait, bio, runs, nvme_pc, slot, status, woken, oops,
  dev_head, dev_cmds, dev_tail, dev_phase,
  rbuf, ir, iw, ih, use_count, sema, device_pc, onq, full, reg, call,
  srb, result, cmnd_ready, notify, dflags, dev_mutex, ctl, usb_scan, usage, eh, done, fate,
  up, present, queue, opens, tx_skb, tx_urb, tx_fate, rx_skb, rx_urb, rx_fate,
  rx_fail, tasklet, intr_urb, wild,
  caller, i2c1_busy, buf_len, num_transferred, AA, bus, moved, answer, called

Nvme   == INSTANCE NvmeQueue WITH pc <- nvme_pc
Device == INSTANCE PollDevice WITH pc <- device_pc
Usb    == INSTANCE UsbStorage WITH scan <- usb_scan
Net    == INSTANCE Rtl8150
I2c    == INSTANCE I2cDriver

nvmeVars == <<cmdid_data, info, sq_cmds, sq_tail, cqes, cq_head, cq_phase, q_lock, stage, head,
                phase, scan, sq_cong, cong_wait, bio, runs, nvme_pc, slot, status, woken,
                oops, dev_head, dev_cmds, dev_tail, dev_phase>>
deviceVars == <<rbuf, ir, iw, ih, use_count, sema, device_pc, onq, full, reg, call>>
usbVars    == <<srb, result, cmnd_ready, notify, dflags, dev_mutex, ctl, usb_scan, usage,
                eh, done, fate>>
netVars    == <<up, present, queue, opens, tx_skb, tx_urb, tx_fate, rx_skb, rx_urb, rx_fate,
                rx_fail, tasklet, intr_urb, wild>>
i2cVars    == <<caller, i2c1_busy, buf_len, num_transferred, AA, bus, moved, answer, called>>
allVars    == <<system, vars, nvmeVars, deviceVars, usbVars, netVars, i2cVars>>

ProgressInit ==
  /\ system \in {"monitor", "nvme", "device", "usb", "net", "i2c"}
  /\ Init /\ Nvme!Init /\ Device!Init /\ Usb!Init /\ Net!Init /\ I2c!Init
  /\ system # "monitor" => program = "condv"

ProgressNext ==
  \/ /\ system = "monitor" /\ Next
     /\ UNCHANGED <<system, nvmeVars, deviceVars, usbVars, netVars, i2cVars>>
  \/ /\ system = "nvme" /\ Nvme!Next
     /\ UNCHANGED <<system, vars, deviceVars, usbVars, netVars, i2cVars>>
  \/ /\ system = "device" /\ Device!Next
     /\ UNCHANGED <<system, vars, nvmeVars, usbVars, netVars, i2cVars>>
  \/ /\ system = "usb" /\ Usb!Next
     /\ UNCHANGED <<system, vars, nvmeVars, deviceVars, netVars, i2cVars>>
  \/ /\ system = "net" /\ Net!Next
     /\ UNCHANGED <<system, vars, nvmeVars, deviceVars, usbVars, i2cVars>>
  \/ /\ system = "i2c" /\ I2c!Next
     /\ UNCHANGED <<system, vars, nvmeVars, deviceVars, usbVars, netVars>>

\* The fairness of each, as its module states it
ProgressSpec ==
  /\ ProgressInit /\ [][ProgressNext]_allVars
  /\ \A t \in Threads : WF_vars(system = "monitor" /\ Run(t))
  /\ SF_nvmeVars(system = "nvme" /\ Nvme!nvme_kthread)
  /\ WF_nvmeVars(system = "nvme" /\ Nvme!ProcessCqe) /\ WF_nvmeVars(system = "nvme" /\ Nvme!ProcessCqDone)
  /\ WF_nvmeVars(system = "nvme" /\ Nvme!nvme_timeout_ios) /\ WF_nvmeVars(system = "nvme" /\ Nvme!nvme_resubmit_bios)
  /\ \A c \in Nvme!CmdIds : WF_nvmeVars(system = "nvme" /\ Nvme!Expire(c))
  /\ \A p \in Device!Processes : WF_deviceVars(system = "device" /\ Device!Step(p)) /\ SF_deviceVars(system = "device" /\ Device!Down(p))
  /\ WF_usbVars(system = "usb" /\ Usb!Awake) /\ SF_usbVars(system = "usb" /\ Usb!LockDev) /\ WF_usbVars(system = "usb" /\ Usb!Look)
  /\ WF_usbVars(system = "usb" /\ Usb!Execute) /\ WF_usbVars(system = "usb" /\ Usb!Transfer) /\ WF_usbVars(system = "usb" /\ Usb!Finish)
  /\ WF_usbVars(system = "usb" /\ Usb!Stop) /\ SF_usbVars(system = "usb" /\ Usb!Scan)
  /\ WF_usbVars(system = "usb" /\ Usb!PostReset) /\ WF_usbVars(system = "usb" /\ Usb!AbortReturn)
  /\ WF_netVars(system = "net" /\ Net!WriteBulkCallback)
  /\ WF_i2cVars(system = "i2c" /\ I2c!I2C1_IRQHandler) /\ WF_i2cVars(system = "i2c" /\ I2c!Return)

-----------------------------------------------------------------------------
(* Properties *)

\* The values each variable of each system can hold.
TypesOK ==
  TypeOK /\ Nvme!TypeOK /\ Device!TypeOK /\ Usb!TypeOK /\ Net!TypeOK /\ I2c!TypeOK

\* nvme_timeout_ios(), nvme_resubmit_bios(): no bio stays issued for ever, and
\* with a controller that answers none waits for an ID for ever.
BiosLeave == Nvme!IssuedBioLeaves /\ Nvme!CongestedBioLeaves

\* device_read(), device_write(), i2c1_send() and i2c1_receive(): a call that
\* waits for the other side, or for the interrupts of the bus, returns; and
\* usb_stor_control_thread(): aborts return, commands leave, the thread ends; and
\* the threads of condv2.c, whose signals come after the unlock, end too.
CallsReturn == Terminates /\ Device!CallsReturn /\ I2c!TransferReturns /\ Usb!ThreadAnswers

\* usb_stor_control_thread(): a command is answered once at most, and is not
\* forgotten.
AnsweredOnce == Usb!AnsweredOnce

\* usb_stor_control_thread(), "The proper test for this is the TIMED_OUT flag":
\* every abort is matched with the command it was for.
AbortsAreMatched == Usb!AbortsAreMatched

\* rtl8150_usbethernet.c: no socket buffer has two owners, or none.
BuffersOwned == Net!BuffersOwned

\* rtl8150_start_xmit(), write_bulk_callback(): a stopped queue is restarted.
QueueRestarts == Net!QueueRestarts

\* I2C1_IRQHandler(): the buffer is passed through in order and within bounds.
BufferInStep == I2c!BufferInStep
=============================================================================
