------------------------------- MODULE CafeNand -------------------------------
(***************************************************************************)
(* kernel/mtd_pci_cafe_nand.c: commands of the CAFE flash controller.  The *)
(* driver writes a command and polls the interrupt bits until it is done,  *)
(* or 500000 times; the data passes through one DMA buffer.  A page is two *)
(* cells, its data and its out-of-band bytes.  Probe and remove are last.  *)
(***************************************************************************)
EXTENDS Naturals, Sequences, SequencesExt

CONSTANTS Pages,    \* of each of the two chips
          MaxOps,   \* bound: operations of the flash layer
          MaxSlow   \* bound: commands that outlast the polling

VARIABLES
  op, step,           \* the operation of the flash layer, and where it is
  calls,              \* the commands it still has to give
  chip,               \* CTRL1_CHIPSELECT in cafe->ctl1
  saved,              \* the rest of cafe->ctl1: the first command of a pair
  ctl2, ctrl2,        \* bit 30, ECC autogeneration: cafe->ctl2; NAND_CTRL2
  datalen, dmabuf,    \* cafe->datalen; two cells
  irq,                \* NAND_IRQ: subset of {"done", "dma", "other"}
  ctrl1, phase,       \* the controller's command and progress
  failed,             \* NAND_STATUS_FAIL: of the last program or erase
  flash, written,     \* what a cell holds; what the layer wrote and read back
  got, ops, slow, lost,
  probe, held         \* cafe_nand_probe(): its outcome; what it holds

cafeVars == <<op, step, calls, chip, saved, ctl2, ctrl2, datalen, dmabuf, irq, ctrl1, phase,
              failed, flash, written, got, ops, slow, lost, probe, held>>
layerVars == <<op, chip, ops>>
cmdVars   == <<saved, ctl2, ctrl2>>
bufVars   == <<datalen, dmabuf>>
ghostVars == <<written, slow, lost>>
devVars   == <<irq, ctrl1, phase, failed, flash>>
probeVars == <<probe, held>>

NoOp   == [kind |-> "none", page |-> <<0, 0>>]
NoCmd  == [command |-> "none", page |-> 0, column |-> 0, len |-> 0, chip |-> 0, ecc |-> FALSE]
Where  == {0, 1} \X Pages
Blank  == [cells |-> <<0, 0>>, ecc |-> FALSE]
Reads  == {"READ0", "READOOB", "STATUS"}
FAIL   == MaxOps + 1   \* a status byte, and the -EIO it is answered with

Init ==
  /\ op = NoOp /\ step = "idle" /\ calls = <<>> /\ chip = 0 /\ saved = NoCmd
  /\ ctl2 = FALSE /\ ctrl2 = FALSE /\ datalen = 0 /\ dmabuf = <<0, 0>>
  /\ irq = {} /\ ctrl1 = NoCmd /\ phase = "idle" /\ failed = FALSE
  /\ flash = [w \in Where |-> Blank] /\ written = flash
  /\ got = <<>> /\ ops = 0 /\ slow = 0 /\ lost = FALSE
  /\ probe = "start" /\ held = {}

-----------------------------------------------------------------------------
(* The operations of the flash layer, each a sequence of calls *)

\* cafe_nand_write_page(), raw or not; cafe_nand_write_oob(); a page or its
\* out-of-band bytes read; erase
Calls(kind) ==
  CASE kind = "write_page" -> <<"SEQIN", "write_buf", "write_buf", "ecc", "PAGEPROG", "STATUS">>
    [] kind = "write_raw"  -> <<"SEQIN", "write_buf", "write_buf", "PAGEPROG", "STATUS">>
    [] kind = "write_oob"  -> <<"SEQIN", "write_buf", "PAGEPROG", "STATUS">>
    [] kind = "read_page"  -> <<"READ0", "read_buf", "read_buf">>
    [] kind = "read_oob"   -> <<"READOOB", "read_buf">>
    [] kind = "erase"      -> <<"ERASE1", "ERASE2", "STATUS">>

\* cafe_select_chip(), then the first call
Begin(kind, w) ==
  /\ probe = "probed" /\ step = "idle" /\ ops < MaxOps
  /\ op' = [kind |-> kind, page |-> w] /\ calls' = Calls(kind)
  /\ chip' = w[1]
  /\ ops' = ops + 1 /\ got' = <<>>
  /\ step' = "call"
  /\ UNCHANGED <<cmdVars, bufVars, ghostVars, devVars, probeVars>>

Return(to) == calls' = Tail(calls) /\ step' = to

WriteBuf ==
  /\ step = "call" /\ calls # <<>> /\ Head(calls) = "write_buf"
  /\ dmabuf' = [dmabuf EXCEPT ![datalen + 1] = ops]
  /\ datalen' = datalen + 1
  /\ Return("call")
  /\ UNCHANGED <<got, layerVars, cmdVars, ghostVars, devVars, probeVars>>

ReadBuf ==
  /\ step = "call" /\ calls # <<>> /\ Head(calls) = "read_buf"
  /\ got' = Append(got, dmabuf[datalen + 1])
  /\ datalen' = datalen + 1
  /\ Return("call")
  /\ UNCHANGED <<dmabuf, layerVars, cmdVars, ghostVars, devVars, probeVars>>

\* "Set up ECC autogeneration"
SetEcc ==
  /\ step = "call" /\ calls # <<>> /\ Head(calls) = "ecc"
  /\ ctl2' = TRUE
  /\ Return("call")
  /\ UNCHANGED <<saved, ctrl2, got, layerVars, bufVars, ghostVars, devVars, probeVars>>

-----------------------------------------------------------------------------
(* cafe_nand_cmdfunc() *)

Columned(command) ==
  IF command = "SEQIN" THEN IF op.kind = "write_oob" THEN 1 ELSE 0
  ELSE IF command = "READOOB" THEN 1 ELSE 0

\* The first command of a pair is kept for the second
FirstHalf ==
  /\ step = "call" /\ calls # <<>> /\ Head(calls) \in {"SEQIN", "ERASE1"}
  /\ saved' = [NoCmd EXCEPT !.command = Head(calls), !.page = op.page[2], !.chip = chip,
                            !.column = Columned(Head(calls))]
  /\ ctrl2' = FALSE /\ datalen' = 0
  /\ Return("call")
  /\ UNCHANGED <<ctl2, dmabuf, got, layerVars, ghostVars, devVars, probeVars>>

EccAfter_kept(command) == ctl2              \* mutant: bit 30 is not cleared

\* The second half takes the ECC bit with it
EccAfter(command) == IF command \in {"PAGEPROG", "ERASE2"} THEN FALSE ELSE ctl2

\* Up to the clearing of "done" and "dma", and the DMA
Arm ==
  /\ step = "call" /\ calls # <<>> /\ Head(calls) \in Reads \cup {"PAGEPROG", "ERASE2"}
  /\ LET second == Head(calls) \in {"PAGEPROG", "ERASE2"} IN
     /\ ctl2' = EccAfter(Head(calls))
     /\ ctrl2' = IF second THEN ctl2 ELSE IF Head(calls) \in {"READ0", "READOOB"} THEN ctl2 ELSE FALSE
     /\ datalen' = IF second THEN datalen ELSE IF Head(calls) = "STATUS" THEN 1
                   ELSE 2 - Columned(Head(calls))
  /\ irq' = irq \ {"done", "dma"}
  /\ step' = "start"
  /\ UNCHANGED <<calls, saved, dmabuf, ctrl1, phase, failed, flash, got, layerVars, ghostVars, probeVars>>

\* NAND_CTRL1 starts the command
Start ==
  /\ step = "start"
  /\ LET command == Head(calls)
         second  == command \in {"PAGEPROG", "ERASE2"} IN
     ctrl1' = [command |-> command, len |-> datalen, ecc |-> ctrl2,
               page   |-> IF second THEN saved.page ELSE op.page[2],
               column |-> IF second THEN saved.column ELSE Columned(command),
               chip   |-> IF second THEN saved.chip ELSE chip]
  /\ phase' = "running"
  /\ datalen' = 0
  /\ step' = "poll"
  /\ UNCHANGED <<calls, dmabuf, irq, failed, flash, got, layerVars, cmdVars, ghostVars, probeVars>>

Doneint_done(command) == "done"             \* mutant: the command, not its DMA

\* A read is done "when the DMA is done, not just the command"
Doneint(command) == IF command \in Reads THEN "dma" ELSE "done"

\* Done, or polled for too long; either way the driver goes on
Poll ==
  /\ step = "poll"
  /\ \/ Doneint(Head(calls)) \in irq /\ UNCHANGED <<slow, lost>>
     \/ /\ Doneint(Head(calls)) \notin irq
        /\ IF phase = "idle" THEN lost' = TRUE /\ UNCHANGED slow
                             ELSE slow < MaxSlow /\ slow' = slow + 1 /\ UNCHANGED lost
  /\ irq' = irq \ {Doneint(Head(calls))}
  /\ step' = "polled"
  /\ UNCHANGED <<calls, ctrl1, phase, failed, flash, written, got, layerVars, cmdVars, bufVars, probeVars>>

\* nand_wait_ready() ends in cafe_device_ready(), which clears every bit
Finish ==
  /\ step = "polled"
  /\ ctrl2' = ctl2
  /\ irq' = IF Head(calls) \in {"READ0", "READOOB"} THEN {} ELSE irq
  /\ Return("call")
  /\ UNCHANGED <<saved, ctl2, ctrl1, phase, failed, flash, got, layerVars, bufVars, ghostVars, probeVars>>

-----------------------------------------------------------------------------
(* The controller, and cafe_nand_interrupt() *)

Target == <<ctrl1.chip, ctrl1.page>>

Programmed ==
  LET old == flash[Target] IN
  [cells |-> [c \in 1 .. 2 |-> IF c > ctrl1.column /\ c - ctrl1.column <= ctrl1.len
                               THEN dmabuf[c - ctrl1.column] ELSE old.cells[c]],
   ecc   |-> old.ecc \/ ctrl1.ecc]

\* One that fails may have changed the page, or not
Change(cell) ==
  /\ failed' \in BOOLEAN
  /\ flash' \in {[flash EXCEPT ![Target] = cell]} \cup IF failed' THEN {flash} ELSE {}

Complete ==
  /\ phase = "running"
  /\ phase' = IF ctrl1.command \in Reads THEN "transfer" ELSE "idle"
  /\ irq' \in {irq \cup {"done"}, irq \cup {"done", "other"}}
  /\ CASE ctrl1.command = "PAGEPROG" -> Change(Programmed)
       [] ctrl1.command = "ERASE2"   -> Change(Blank)
       [] OTHER -> UNCHANGED <<failed, flash>>
  /\ UNCHANGED <<step, calls, ctrl1, got, layerVars, cmdVars, bufVars, ghostVars, probeVars>>

Transfer ==
  /\ phase = "transfer"
  /\ dmabuf' = IF ctrl1.command = "STATUS" THEN [dmabuf EXCEPT ![1] = IF failed THEN FAIL ELSE 0]
               ELSE [c \in 1 .. 2 |-> IF c <= ctrl1.len THEN flash[Target].cells[ctrl1.column + c]
                                      ELSE dmabuf[c]]
  /\ irq' = irq \cup {"dma"}
  /\ phase' = "idle"
  /\ UNCHANGED <<step, calls, datalen, ctrl1, failed, flash, got, layerVars, cmdVars, ghostVars, probeVars>>

Acknowledged_all == irq                     \* mutant: "done" and "dma" too

\* All but the bits that cafe_nand_cmdfunc() polls
Acknowledged == irq \ {"done", "dma"}

Interrupt ==
  /\ irq # {} /\ "irq" \in held
  /\ irq' = irq \ Acknowledged
  /\ UNCHANGED <<step, calls, ctrl1, phase, failed, flash, got, layerVars, cmdVars, bufVars, ghostVars, probeVars>>

\* What the operation should have done to the flash
Wanted ==
  CASE op.kind = "erase"      -> [written EXCEPT ![op.page] = Blank]
    [] op.kind = "write_oob"  -> [written EXCEPT ![op.page].cells[2] = ops]
    [] op.kind = "write_raw"  -> [written EXCEPT ![op.page].cells = <<ops, ops>>]
    [] op.kind = "write_page" -> [written EXCEPT ![op.page] = [cells |-> <<ops, ops>>, ecc |-> TRUE]]
    [] OTHER -> written

\* A read returns what it got; the others read the status byte with
\* cafe_read_byte(), as the end of waitfunc(), and return 0 or -EIO.  After that
\* the layer takes the page for what it is.
OpReturns ==
  /\ step = "call" /\ calls = <<>>
  /\ \/ op.kind \in {"read_page", "read_oob"} /\ UNCHANGED <<datalen, got, written>>
     \/ /\ op.kind \notin {"read_page", "read_oob"}
        /\ datalen' = datalen + 1
        /\ IF dmabuf[datalen + 1] = FAIL
             THEN got' = <<FAIL>> /\ written' = [written EXCEPT ![op.page] = flash[op.page]]
             ELSE UNCHANGED got /\ written' = Wanted
  /\ step' = "idle"
  /\ UNCHANGED <<calls, dmabuf, slow, lost, layerVars, cmdVars, devVars, probeVars>>

-----------------------------------------------------------------------------
(* cafe_nand_probe(), cafe_nand_remove() *)

\* Each label undoes what it can reach; out_ior does not free the buffer, and
\* no label the Reed-Solomon tables.  An unexpected page size returns 0.
Probe ==
  /\ probe = "start"
  /\ \/ probe' = "-ENOMEM" /\ held' = {"dmabuf"}
     \/ probe' \in {"no irq", "-ENXIO", "bad size", "scan tail"} /\ held' = {"rs"}
     \/ probe' = "probed" /\ held' = {"mtd", "mmio", "dmabuf", "rs", "irq"}
  /\ UNCHANGED <<step, calls, got, layerVars, cmdVars, bufVars, ghostVars, devVars>>

\* After an unexpected page size there is no drvdata to remove
PciRemove ==
  /\ probe \in {"probed", "bad size"} /\ step = "idle"
  /\ IF probe = "probed" THEN probe' = "removed" /\ held' = {}
                         ELSE probe' = "oops" /\ UNCHANGED held
  /\ UNCHANGED <<step, calls, got, layerVars, cmdVars, bufVars, ghostVars, devVars>>

\* The controller is reset and started again; ctl2 is the driver's own
PciResume ==
  /\ probe = "probed" /\ step = "idle"
  /\ irq' = {} /\ ctrl1' = NoCmd /\ phase' = "idle" /\ ctrl2' = FALSE
  /\ UNCHANGED <<step, calls, saved, ctl2, failed, flash, got, layerVars, bufVars, ghostVars, probeVars>>

-----------------------------------------------------------------------------

Kinds == {"write_page", "write_raw", "write_oob", "read_page", "read_oob", "erase"}

Next ==
  \/ \E kind \in Kinds, w \in Where : Begin(kind, w)
  \/ WriteBuf \/ ReadBuf \/ SetEcc \/ FirstHalf \/ Arm \/ Start \/ Poll \/ Finish \/ OpReturns
  \/ Complete \/ Transfer \/ Interrupt
  \/ Probe \/ PciRemove \/ PciResume

Spec == Init /\ [][Next]_cafeVars

-----------------------------------------------------------------------------
(* Properties *)

\* Each variable has its type, and no buffer call leaves the DMA buffer.
TypeOK ==
  /\ datalen \in 0 .. 2 /\ dmabuf \in [1 .. 2 -> 0 .. MaxOps + 1] /\ failed \in BOOLEAN
  /\ chip \in {0, 1} /\ irq \subseteq {"done", "dma", "other"}
  /\ phase \in {"idle", "running", "transfer"} /\ Len(got) <= 2
  /\ ctl2 \in BOOLEAN /\ ctrl2 \in BOOLEAN /\ held \subseteq {"mtd", "mmio", "dmabuf", "rs", "irq"}

\* cafe_nand_cmdfunc(): as long as no command outlasted the polling, every
\* operation did to its page, on its chip, what it is for, or returned -EIO, as
\* it does just when the chip failed; and every read returned what the page
\* held.  WARN_ON(cafe->ctl2 & (1<<30)) never fires.
FlashHoldsWhatWasWritten ==
  /\ step = "idle" /\ slow = 0 =>
       /\ flash = written
       /\ op.kind = "read_page" => got = flash[op.page].cells
       /\ op.kind = "read_oob"  => got = <<flash[op.page].cells[2]>>
       /\ op.kind \in {"write_page", "write_raw", "write_oob", "erase"} => (got = <<FAIL>> <=> failed)
  /\ step = "polled" => ~ctl2

\* The handler, cafe_device_ready() and the clearing of the bits before a
\* command never take away what the polling waits for.
CompletionNotLost == ~lost
=============================================================================
