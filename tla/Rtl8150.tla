------------------------------- MODULE Rtl8150 -------------------------------
(***************************************************************************)
(* The USB Ethernet driver kernel/rtl8150_usbethernet.c: the bulk URB in   *)
(* each direction, the interrupt URB, and who owns the socket buffers.     *)
(* External: the network core, the USB core, and rx_fixup(), pull_skb()    *)
(* and enable_net_traffic(), which the repository does not hold; the       *)
(* tasklet resubmits the receive URB, as "if submit URB failed, fix it in  *)
(* tasklet" says, with a buffer of its own when the pool had none.         *)
(***************************************************************************)
EXTENDS Naturals, FiniteSets

CONSTANTS
  Tx,         \* socket buffers the core may send
  Rx,         \* socket buffers the driver may receive into
  Pool,       \* those of rx_skb_pool
  MaxOpens,   \* calls of rtl8150_open() (a bound of the model)
  NULL

VARIABLES
  up, present, queue, opens,    \* the core's view of the device
  tx_skb, tx_urb,               \* the buffer last given; whether the URB is active
  tx_fate,                      \* of each buffer to send
  rx_skb, rx_urb,               \* the buffer to fill; the one the active URB fills, or NULL
  rx_fate,                      \* of each buffer to receive into
  rx_fail, tasklet,    \* RX_URB_FAIL; rx_fixup() is scheduled
  intr_urb,                     \* the interrupt URB is active
  wild                          \* a callback used its uninitialised dev

coreVars == <<up, present, queue, opens>>
txVars   == <<tx_skb, tx_urb, tx_fate>>
rxVars   == <<rx_skb, rx_urb, rx_fate, rx_fail, tasklet>>
rtl8150Vars == <<coreVars, txVars, rxVars, intr_urb, wild>>

\* rtl8150_probe() has run; none of its calls is tested
Init ==
  /\ up = FALSE /\ present = TRUE /\ queue = "stopped" /\ opens = 0
  /\ tx_skb = NULL /\ tx_urb = FALSE /\ tx_fate = [s \in Tx |-> "core"]
  /\ rx_skb = NULL /\ rx_urb = NULL
  /\ rx_fate = [s \in Rx |-> IF s \in Pool THEN "pool" ELSE "none"]
  /\ rx_fail = FALSE /\ tasklet = FALSE
  /\ intr_urb = FALSE /\ wild = FALSE

Pooled == {s \in Rx : rx_fate[s] = "pool"}

\* usb_submit_urb() may fail with no effect; on an active URB it does
Results(active) == IF active THEN {"-EBUSY"} ELSE {"0", "-ENODEV", "-ENOMEM"}

-----------------------------------------------------------------------------
(* rtl8150_open() and rtl8150_start_xmit() *)

\* The results of the submissions are not tested, and the function returns an
\* uninitialised one: the core takes the device to be up, or not.
Open ==
  /\ ~up /\ present /\ opens < MaxOpens /\ ~wild
  /\ opens' = opens + 1
  /\ IF rx_skb = NULL
       THEN \E skb \in Pooled : rx_skb' = skb /\ rx_fate' = [rx_fate EXCEPT ![skb] = "driver"]
       ELSE UNCHANGED <<rx_skb, rx_fate>>
  /\ \E r \in Results(rx_urb # NULL) : rx_urb' = IF r = "0" THEN rx_skb' ELSE rx_urb
  /\ \E r \in Results(intr_urb) : intr_urb' = (intr_urb \/ r = "0")
  /\ queue' = "started"
  /\ up' \in BOOLEAN
  /\ UNCHANGED <<present, txVars, rx_fail, tasklet, wild>>

\* There is no ndo_stop: the URBs stay active
Close ==
  /\ up /\ up' = FALSE /\ queue' = "stopped" /\ ~wild
  /\ UNCHANGED <<present, opens, txVars, rxVars, intr_urb, wild>>

Failed_stop(r) == present' = (r # "-ENODEV") /\ queue' = "stopped"   \* mutant: not restarted

\* Without the device the network device is detached, which stops its queue
Failed(r) ==
  /\ present' = (r # "-ENODEV")
  /\ queue' = IF r = "-ENODEV" THEN "stopped" ELSE "started"

Xmit_running(s) ==                          \* mutant: the queue is not stopped first
  /\ up /\ present /\ queue = "started" /\ tx_fate[s] = "core" /\ ~wild
  /\ tx_skb' = s
  /\ \E r \in Results(tx_urb) :
       IF r = "0"
         THEN tx_urb' = TRUE /\ tx_fate' = [tx_fate EXCEPT ![s] = "driver"] /\ UNCHANGED <<present, queue>>
         ELSE tx_fate' = [tx_fate EXCEPT ![s] = "failed"] /\ Failed(r) /\ UNCHANGED tx_urb
  /\ UNCHANGED <<up, opens, rxVars, intr_urb, wild>>

\* NETDEV_TX_OK always: the buffer is the driver's, also when the submission
\* failed.
Xmit(s) ==
  /\ up /\ present /\ queue = "started" /\ tx_fate[s] = "core" /\ ~wild
  /\ tx_skb' = s
  /\ \E r \in Results(tx_urb) :
       IF r = "0"
         THEN /\ tx_urb' = TRUE /\ queue' = "stopped"
              /\ tx_fate' = [tx_fate EXCEPT ![s] = "driver"]
              /\ UNCHANGED present
         ELSE /\ tx_fate' = [tx_fate EXCEPT ![s] = "failed"]
              /\ Failed(r) /\ UNCHANGED tx_urb
  /\ UNCHANGED <<up, opens, rxVars, intr_urb, wild>>

-----------------------------------------------------------------------------
(* The callbacks, called by the USB core when it has finished a URB *)

\* The buffer freed is the one last given to the driver
WriteBulkCallback ==
  /\ tx_urb /\ tx_urb' = FALSE /\ ~wild
  /\ tx_fate' = [tx_fate EXCEPT ![tx_skb] = IF @ = "freed" THEN "freed twice" ELSE "freed"]
  /\ queue' = IF present THEN "started" ELSE queue
  /\ UNCHANGED <<up, present, opens, tx_skb, rxVars, intr_urb, wild>>

\* From "reschedule" on: submit rx_skb
Resubmit(skb) ==
  \E r \in Results(FALSE) :
    /\ rx_urb' = IF r = "0" THEN skb ELSE NULL
    /\ present' = (present /\ r # "-ENODEV")
    /\ queue' = IF r = "-ENODEV" THEN "stopped" ELSE queue
    /\ rx_fail' = CASE r = "-ENODEV" -> rx_fail [] r = "0" -> FALSE [] OTHER -> TRUE
    /\ tasklet' = (tasklet \/ r = "-ENOMEM")

NoSkb_resubmit == UNCHANGED rx_skb /\ Resubmit(rx_skb)  \* mutant: the old buffer again

\* The pool is empty: rx_skb stays what it was, and the tasklet is to help
NoSkb ==
  /\ tasklet' = TRUE /\ rx_urb' = NULL
  /\ UNCHANGED <<rx_skb, present, queue, rx_fail>>

ReadBulkCallback ==
  /\ rx_urb # NULL /\ ~wild
  /\ \/ rx_urb' = NULL \* -ENOENT: unlinked
        /\ UNCHANGED <<present, queue, rx_skb, rx_fate, rx_fail, tasklet>>
     \/ Resubmit(rx_skb) /\ UNCHANGED <<rx_skb, rx_fate>>     \* any other error
     \/ \E skb \in Pooled :
          /\ rx_fate' = [rx_fate EXCEPT ![rx_skb] = "stack", ![skb] = "driver"]
          /\ rx_skb' = skb
          /\ Resubmit(skb)
     \/ /\ Pooled = {}
        /\ rx_fate' = [rx_fate EXCEPT ![rx_skb] = "stack"]
        /\ NoSkb
  /\ UNCHANGED <<up, opens, txVars, intr_urb, wild>>

\* Neither dev nor, in read_bulk_callback(), netdev is ever assigned
Wild ==
  /\ rx_urb # NULL \/ intr_urb
  /\ wild' = TRUE
  /\ UNCHANGED <<coreVars, txVars, rxVars, intr_urb>>

\* Transmit errors are counted, link changes reported, and the URB resubmitted
IntrCallback ==
  /\ intr_urb /\ ~wild
  /\ \/ intr_urb' = FALSE /\ UNCHANGED <<present, queue>>
     \/ \E r \in Results(FALSE) :
          /\ intr_urb' = (r = "0")
          /\ present' = (present /\ r # "-ENODEV")
          /\ queue' = IF r = "-ENODEV" THEN "stopped" ELSE queue
  /\ UNCHANGED <<up, opens, txVars, rxVars, wild>>

\* rx_fixup() (external)
RxFixup ==
  /\ tasklet /\ rx_urb = NULL /\ ~wild
  /\ \/ rx_fail /\ UNCHANGED <<rx_skb, rx_fate>>
     \/ /\ ~rx_fail
        /\ \E skb \in {s \in Rx : rx_fate[s] \in {"pool", "none"}} :
             rx_skb' = skb /\ rx_fate' = [rx_fate EXCEPT ![skb] = "driver"]
  /\ rx_urb' = rx_skb'
  /\ tasklet' = FALSE /\ rx_fail' = FALSE
  /\ UNCHANGED <<coreVars, txVars, intr_urb, wild>>

\* The stack is done with a buffer, which is memory again
Consume(s) ==
  /\ rx_fate[s] = "stack" /\ rx_fate' = [rx_fate EXCEPT ![s] = "none"]
  /\ UNCHANGED <<coreVars, txVars, rx_skb, rx_urb, rx_fail, tasklet, intr_urb, wild>>

-----------------------------------------------------------------------------

Core == Open \/ Close \/ \E s \in Tx : Xmit(s)
Callbacks == WriteBulkCallback \/ ReadBulkCallback \/ IntrCallback \/ Wild

Next == Core \/ Callbacks \/ RxFixup \/ \E s \in Rx : Consume(s)

Spec == Init /\ [][Next]_rtl8150Vars

\* The USB core finishes a URB it has accepted
Fairness == WF_rtl8150Vars(WriteBulkCallback)

FairSpec == Spec /\ Fairness

-----------------------------------------------------------------------------
(* Properties *)

\* The values each variable can hold.
TypeOK ==
  /\ {up, present, tx_urb, rx_fail, tasklet, intr_urb, wild} \subseteq BOOLEAN
  /\ queue \in {"started", "stopped"} /\ opens \in 0 .. MaxOpens
  /\ tx_skb \in Tx \cup {NULL} /\ tx_fate \in [Tx -> {"core", "driver", "failed", "freed", "freed twice"}]
  /\ rx_skb \in Rx \cup {NULL} /\ rx_urb \in Rx \cup {NULL}
  /\ rx_fate \in [Rx -> {"pool", "none", "driver", "stack"}]

\* rtl8150_start_xmit(), write_bulk_callback(), read_bulk_callback(): in the
\* first opening no buffer is lost but by a failed submission ("failed"), whether it is
\* sent or exchanged for one of the pool, and the device never writes into one
\* that the stack has; and none is ever freed twice.
BuffersOwned ==
  /\ \A s \in Tx : tx_fate[s] # "freed twice"
  /\ opens <= 1 =>
       /\ \A s \in Tx : tx_fate[s] = "driver" => tx_urb /\ tx_skb = s
       /\ rx_urb # NULL => rx_fate[rx_urb] = "driver"
       /\ \A s \in Rx : rx_fate[s] = "driver" => s = rx_skb

\* rtl8150_start_xmit(): a stopped queue is started again, as long as the
\* device is there and open.
QueueRestarts == up /\ queue = "stopped" ~> queue = "started" \/ ~present \/ ~up \/ wild
=============================================================================
