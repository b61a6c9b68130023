------------------------------- MODULE Rtl8139 -------------------------------
(***************************************************************************)
(* The PCI Ethernet driver kernel/rtl8139_pciethernet.c: probe and remove, *)
(* open and stop, the transmit descriptors and the receive ring, with the  *)
(* interrupt handler on another processor (it takes no lock).  The chip    *)
(* and the network core are external; CAPR is taken to be the position up  *)
(* to which the driver has read, as the driver uses it.                    *)
(***************************************************************************)
EXTENDS Integers, Sequences, FiniteSets

CONSTANTS
  NUM_TX_DESC,  \* transmit descriptors
  RX_BUF_LEN,   \* bytes of the receive ring, a multiple of four
  RxSizes,      \* sizes in the headers of received frames
  MaxTx, MaxRx  \* frames sent and received (bounds of the model)

VARIABLES
  held,               \* what the driver holds
  up, chip, bufs,     \* open?; Tx and Rx enabled?; the DMA buffers
  queue,              \* the network core's transmit queue
  cur_tx, dirty_tx, tsd,
  xmit,               \* where netdev_start_xmit() is
  isr, irqpc, seen,   \* pending bits; where the handler is; its copy of them
  tx_done,            \* stats.tx_packets + stats.tx_errors
  cur_rx, at, ring,   \* read and write positions; frames stored and not read
  got,                \* history: frames received
  lost, misread, oops \* history: bits acknowledged unseen; a wrong header; a freed ring

pciVars == <<held, up, chip, bufs, queue>>
txVars  == <<cur_tx, dirty_tx, tsd, xmit, tx_done>>
rxVars  == <<cur_rx, at, ring, got, misread>>
irqVars == <<isr, irqpc, seen, lost, oops>>
rtl8139Vars == <<pciVars, txVars, rxVars, irqVars>>

Descriptors == 0 .. NUM_TX_DESC - 1

Init ==
  /\ held = {} /\ up = FALSE /\ chip = "off" /\ bufs = "none" /\ queue = "stopped"
  /\ cur_tx = 0 /\ dirty_tx = 0 /\ tsd = [d \in Descriptors |-> "reset"]
  /\ xmit = "idle" /\ tx_done = 0
  /\ cur_rx = 0 /\ at = 0 /\ ring = <<>> /\ got = 0 /\ misread = FALSE
  /\ isr = {} /\ irqpc = "idle" /\ seen = {} /\ lost = {} /\ oops = FALSE

Runs == ~oops /\ ~misread

-----------------------------------------------------------------------------
(* my_pci_probe(), my_pci_remove() *)

Undo_short(labels) == {"enabled"}           \* mutant: both labels only disable

Undo(labels) ==
  CASE labels = "unmap"   -> {"iomap", "region", "enabled"}
    [] labels = "disable" -> {"enabled"}

\* request_mem_region(), pci_iomap() and register_netdev() are not tested
Probe ==
  /\ held = {}
  /\ \E fails \in {"pci_enable_device", "port mapped", "dma mask", "alloc_etherdev", "nothing"} :
       held' = CASE fails = "pci_enable_device" -> {}
                 [] fails = "port mapped" -> {"enabled"} \ Undo("disable")
                 [] fails \in {"dma mask", "alloc_etherdev"} ->
                      {"enabled", "region", "iomap"} \ Undo("unmap")
                 [] OTHER -> {"enabled", "region", "iomap", "netdev", "registered"}
  /\ UNCHANGED <<up, chip, bufs, queue, txVars, rxVars, irqVars>>

-----------------------------------------------------------------------------
(* netdev_open(), hardware_start(), reset_chip(), netdev_stop() *)

\* A chip that does not come out of its reset is left off, and the queue is
\* started all the same.
Open ==
  /\ "registered" \in held /\ ~up /\ Runs
  /\ \/ UNCHANGED <<pciVars, txVars, rxVars, irqVars>>    \* request_irq() failed
     \/ /\ held' = held \cup {"irq"}
        /\ up' = TRUE /\ bufs' = "live" /\ queue' = "started"
        /\ cur_rx' = 0 /\ dirty_tx' = 0 /\ cur_tx' = 0 /\ tx_done' = 0
        /\ ring' = <<>> /\ at' = 0 /\ isr' = {} /\ lost' = {}
        /\ tsd' = [d \in Descriptors |-> "reset"]
        /\ chip' \in {"on", "off"}
        /\ UNCHANGED <<xmit, irqpc, seen, got, misread, oops>>

StopChip ==
  /\ up /\ queue' = "stopped" /\ chip' = "off" /\ up' = FALSE
  /\ xmit = "idle" /\ Runs
  /\ UNCHANGED <<held, bufs, txVars, rxVars, irqVars>>

\* free_irq() is called with the name of the device, not with the device: the
\* handler stays registered.
StopFree ==
  /\ ~up /\ bufs = "live"
  /\ bufs' = "freed"
  /\ UNCHANGED <<held, up, chip, queue, txVars, rxVars, irqVars>>

-----------------------------------------------------------------------------
(* netdev_start_xmit(); a processor that fills a descriptor holds no lock *)

Entry == cur_tx % NUM_TX_DESC

\* An oversized packet is dropped
Copy ==
  /\ xmit = "idle" /\ up /\ queue = "started" /\ Runs
  /\ cur_tx < MaxTx
  /\ xmit' = "kick"
  /\ UNCHANGED <<pciVars, cur_tx, dirty_tx, tsd, tx_done, rxVars, irqVars>>

Kick ==
  /\ xmit = "kick" /\ Runs
  /\ tsd' = [tsd EXCEPT ![Entry] = "given"]
  /\ xmit' = "bump"
  /\ UNCHANGED <<pciVars, cur_tx, dirty_tx, tx_done, rxVars, irqVars>>

Bump ==
  /\ xmit = "bump" /\ Runs
  /\ cur_tx' = cur_tx + 1
  /\ xmit' = "compare"
  /\ UNCHANGED <<pciVars, dirty_tx, tsd, tx_done, rxVars, irqVars>>

\* The handler may have moved dirty_tx since
Compare ==
  /\ xmit = "compare" /\ Runs
  /\ xmit' = IF cur_tx = dirty_tx THEN "stop" ELSE "idle"
  /\ UNCHANGED <<pciVars, cur_tx, dirty_tx, tsd, tx_done, rxVars, irqVars>>

StopQueue ==
  /\ xmit = "stop" /\ Runs
  /\ queue' = "stopped"
  /\ xmit' = "idle"
  /\ UNCHANGED <<held, up, chip, bufs, cur_tx, dirty_tx, tsd, tx_done, rxVars, irqVars>>

-----------------------------------------------------------------------------
(* The chip (external) *)

Raise(bit) == isr' = isr \cup {bit}

Send ==
  /\ chip = "on" /\ Runs
  /\ \E d \in Descriptors :
       /\ tsd[d] = "given"
       /\ \/ tsd' = [tsd EXCEPT ![d] = "TxStatOK"] /\ Raise("TxOK")
          \/ tsd' = [tsd EXCEPT ![d] = "TxAborted"] /\ Raise("TxErr")
  /\ UNCHANGED <<pciVars, cur_tx, dirty_tx, xmit, tx_done, rxVars, irqpc, seen, lost, oops>>

Align(n) == n - (n % 4)

\* Bytes between the oldest frame and the write position
Stored == IF ring = <<>> THEN 0 ELSE (at - Head(ring).at) % RX_BUF_LEN

\* Header and frame, rounded up, behind the last; the tail of a frame may lie
\* beyond the ring's end, the next one starts inside.
Receive ==
  /\ chip = "on" /\ got < MaxRx /\ Runs
  /\ \E size \in RxSizes :
       /\ Stored + Align(size + 4 + 3) < RX_BUF_LEN
       /\ ring' = Append(ring, [at |-> at, size |-> size])
       /\ at' = Align(at + size + 4 + 3) % RX_BUF_LEN
  /\ got' = got + 1
  /\ Raise("RxOK")
  /\ UNCHANGED <<pciVars, txVars, cur_rx, misread, irqpc, seen, lost, oops>>

-----------------------------------------------------------------------------
(* interrupt_method(); the line is shared, so it may be called at any time *)

Read ==
  /\ irqpc = "idle" /\ "irq" \in held /\ Runs
  /\ seen' = isr
  /\ irqpc' = "ack"
  /\ UNCHANGED <<pciVars, txVars, rxVars, isr, lost, oops>>

\* Every bit is cleared, the ones set since the read included
Ack ==
  /\ irqpc = "ack" /\ Runs
  /\ isr' = {}
  /\ lost' = (lost \ seen) \cup (isr \ seen)
  /\ irqpc' = IF seen = {} THEN "idle" ELSE "tx"
  /\ UNCHANGED <<pciVars, txVars, rxVars, seen, oops>>

Finished_any(d) == tsd[d] # "reset"         \* mutant: a descriptor in use counts

Finished(d) == tsd[d] \in {"TxStatOK", "TxAborted"}

\* Once cur_tx has passed the last descriptor dirty_tx never meets it, and the
\* loop ends at a descriptor in use only.
TxLoop ==
  /\ irqpc = "tx" /\ Runs
  /\ IF /\ seen \cap {"TxOK", "TxErr"} # {}
        /\ dirty_tx # cur_tx \/ queue = "stopped"
        /\ Finished(dirty_tx)
       THEN /\ tx_done <= MaxTx /\ tx_done' = tx_done + 1
            /\ dirty_tx' = (dirty_tx + 1) % NUM_TX_DESC
            /\ queue' = IF dirty_tx' = cur_tx /\ queue = "stopped" THEN "started" ELSE queue
            /\ UNCHANGED irqpc
       ELSE /\ irqpc' = "rx"
            /\ UNCHANGED <<tx_done, dirty_tx, queue>>
  /\ UNCHANGED <<held, up, chip, bufs, cur_tx, tsd, xmit, rxVars, isr, seen, lost, oops>>

Position_open == IF cur_rx > RX_BUF_LEN + 4 THEN cur_rx % RX_BUF_LEN ELSE cur_rx  \* mutant

Position == IF cur_rx > RX_BUF_LEN THEN cur_rx % RX_BUF_LEN ELSE cur_rx

AfterFrame_once == "idle"                   \* mutant: one frame for each interrupt

\* The buffer is tested again
AfterFrame == "rx"

\* While the buffer is not empty.  A frame is handed over or, without memory
\* for it, counted as dropped.
RxLoop ==
  /\ irqpc = "rx" /\ Runs
  /\ IF "RxOK" \notin seen \/ ring = <<>>
       THEN irqpc' = "idle" /\ UNCHANGED <<cur_rx, ring, misread, oops>>
       ELSE /\ oops' = (bufs = "freed")
            /\ misread' = (bufs # "freed" /\ Position # Head(ring).at)
            /\ IF oops' \/ misread'
                 THEN UNCHANGED <<cur_rx, ring>>
                 ELSE /\ cur_rx' = Align(Position + Head(ring).size + 4 + 3)
                      /\ ring' = Tail(ring)
            /\ irqpc' = AfterFrame
  /\ UNCHANGED <<pciVars, txVars, at, got, isr, seen, lost>>

-----------------------------------------------------------------------------

\* The network device is freed first and its ioaddr used after that; it is
\* not unregistered.
Remove ==
  /\ "netdev" \in held /\ ~up /\ xmit = "idle" /\ irqpc = "idle" /\ Runs
  /\ \/ held' = held \ {"netdev", "iomap", "region", "enabled"}
     \/ held' = held \ {"netdev", "region", "enabled"}
  /\ oops' = TRUE
  /\ UNCHANGED <<up, chip, bufs, queue, txVars, rxVars, isr, irqpc, seen, lost>>

Xmit == Copy \/ Kick \/ Bump \/ Compare \/ StopQueue
Chip == Send \/ Receive
Handler == Read \/ Ack \/ TxLoop \/ RxLoop

Next == Probe \/ Remove \/ Open \/ StopChip \/ StopFree \/ Xmit \/ Chip \/ Handler

Spec == Init /\ [][Next]_rtl8139Vars

-----------------------------------------------------------------------------
(* Properties *)

\* The values each variable can hold.
TypeOK ==
  /\ held \subseteq {"enabled", "region", "iomap", "netdev", "registered", "irq"}
  /\ up \in BOOLEAN /\ chip \in {"on", "off"} /\ bufs \in {"none", "live", "freed"}
  /\ queue \in {"started", "stopped"}
  /\ cur_tx \in 0 .. MaxTx /\ dirty_tx \in Descriptors /\ tx_done \in 0 .. MaxTx + 1
  /\ tsd \in [Descriptors -> {"reset", "given", "TxStatOK", "TxAborted"}]
  /\ xmit \in {"idle", "kick", "bump", "compare", "stop"} /\ irqpc \in {"idle", "ack", "tx", "rx"}
  /\ isr \cup seen \cup lost \subseteq {"TxOK", "TxErr", "RxOK"}
  /\ cur_rx \in Nat /\ at \in 0 .. RX_BUF_LEN - 1 /\ got \in 0 .. MaxRx
  /\ ring \in Seq([at : 0 .. RX_BUF_LEN - 1, size : RxSizes])

\* my_pci_probe(): a probe that fails gives back all it took.
FailedProbeHoldsNothing == "netdev" \in held \/ held \cap {"enabled", "region"} = {}

\* netdev_start_xmit() against interrupt_method(), until the last descriptor
\* has been used: a frame is counted once, and only when the chip has sent it
\* or given it up.
TxCountedOnce ==
  up /\ cur_tx < NUM_TX_DESC =>
    /\ tx_done = dirty_tx /\ dirty_tx <= cur_tx
    /\ \A d \in 0 .. dirty_tx - 1 : tsd[d] \notin {"reset", "given"}

\* interrupt_method(): the handler leaves no frame in the ring without a bit
\* that will bring it back, but for the bits set between reading and clearing.
NoFrameForgotten ==
  up /\ irqpc = "idle" /\ ring # <<>> => "RxOK" \in isr \cup lost

\* interrupt_method(): the read position follows the chip's, round the ring
\* and through the rounding, but for a frame that ends where the ring does.
RxInStep == misread => cur_rx = RX_BUF_LEN
=============================================================================
