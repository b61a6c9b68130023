------------------------------ MODULE MCDrivers ------------------------------
(***************************************************************************)
(* The parts whose safety does not depend on anybody's progress, side by   *)
(* side: the first state picks one, and the others stay as they are.       *)
(***************************************************************************)
EXTENDS NvmeSetup, Sequences

CONSTANTS
  PAGE_SIZE, LIST, SMALL, EBUSY, UserBuffers, Bios,
  NUM_TX_DESC, RX_BUF_LEN, RxSizes, MaxTx, MaxRx,
  Devices, Quirks, Flags,
  Pages, MaxOps, MaxSlow,
  K, Sections,
  Processes, DRIVER_BUFFER_SIZE, Counts, MaxCalls,
  VMAs, Garbage,
  NUMB_TASKS, MaxWork,
  Data, Priorities, LEAST,
  Values, MaxSize, Junk

VARIABLES
  driver,
  call, iod_step, result, pinned, nents, sg, mapped, length, seg, dma_addr, dma_len,
  prp1, prp2, lists, npages, dev,
  net_held, up, net_chip, bufs, queue, cur_tx, dirty_tx, tsd, xmit, isr, irqpc, seen,
  tx_done, cur_rx, net_at, ring, net_got, net_lost, misread, oops,
  intf, quirks, probe_at, us, threads,
  op, step, calls, chip, saved, ctl2, ctrl2, datalen, dmabuf, cafe_irq, ctrl1, phase,
  failed, flash, written, got, ops, slow, lost, probe, held,
  bf_at, section, bf_chip, oob, flips, buf, calc, bf_regs, dma, completion, ret, bf_held,
  module, registered, device_buffer, currently_opened, times_opened, pc, position,
  char_calls, told, source,
  file, fds, vmas, page_count, reference, info,
  curr_task, next_task, pendsv, PSP_array, frames, regs, fault, work,
  pq_array, alloc, changed, inside,
  input, sequence, before, sorted_by

-----------------------------------------------------------------------------
(* Inputs of the runs *)

\* Buffers of up to seven pages that lie together or apart, whole or not
SomeBuffers ==
  {[pages |-> <<p, p + 1, q, q + 1, r, r + 1, r + 2>>, offset |-> o, length |-> l] :
     p \in {2}, q \in {4, 10}, r \in {6, 20}, o \in {0, 2},
     l \in {0, 2, 4, 6, 8, 10, 12, 16, 20, 24}}

\* One segment, two that join and one after a hole, two with a hole between
SomeBios ==
  {<<[addr |-> 8, len |-> 4]>>,
   <<[addr |-> 8, len |-> 4], [addr |-> 12, len |-> 4], [addr |-> 30, len |-> 2]>>,
   <<[addr |-> 10, len |-> 2], [addr |-> 40, len |-> 4]>>}

SomeDevices ==
  [vid : {1}, subdriver : BOOLEAN, known : BOOLEAN, useProtocol : {"DEVICE", "8070"},
   useTransport : {"DEVICE", "BULK"}, subclass : {"SCSI", "UFI", "none"},
   protocol : {"CBI", "none"}, driver_info : {{}, {"SINGLE_LUN", "GO_SLOW"}},
   high : BOOLEAN, endpoints : {{"in", "out", "int"}, {"in", "out"}}]

\* No entry; one for another device and two for this one; one
SomeQuirks ==
  LET other == [vid |-> 2, flags |-> {"IGNORE_DEVICE"}]
      first == [vid |-> 1, flags |-> {"INITIAL_READ10"}]
      last  == [vid |-> 1, flags |-> {"SINGLE_LUN", "IGNORE_DEVICE"}] IN
  {<<>>, <<other, first, last>>, <<last>>}

\* Sections of one half or two, by the bits that are set
SomeSections ==
  {<<h>> : h \in {{}, {0}, {1, 2}, {0, 3, 5, 6, 7}, 0 .. 15, {2, 3, 4, 12}}}
    \cup {<<h, {1, 2}>> : h \in {{0}, {0, 3, 5, 6, 7}}}

-----------------------------------------------------------------------------

Iod   == INSTANCE NvmeIod WITH step <- iod_step
Net   == INSTANCE Rtl8139 WITH held <- net_held, chip <- net_chip, at <- net_at,
                               got <- net_got, lost <- net_lost
Probe == INSTANCE UsbProbe WITH at <- probe_at
Cafe  == INSTANCE CafeNand WITH irq <- cafe_irq
Bf    == INSTANCE Bf5xxNand WITH at <- bf_at, chip <- bf_chip, regs <- bf_regs, held <- bf_held
Char  == INSTANCE CharDevice WITH calls <- char_calls
Mmap  == INSTANCE MmapDevice
Sched == INSTANCE TaskScheduler
Heap  == INSTANCE PriorityQueue
Sort  == INSTANCE Sorting

iodVars == <<call, iod_step, result, pinned, nents, sg, mapped, length, seg, dma_addr, dma_len,
             prp1, prp2, lists, npages, dev>>
netVars == <<net_held, up, net_chip, bufs, queue, cur_tx, dirty_tx, tsd, xmit, isr, irqpc,
             seen, tx_done, cur_rx, net_at, ring, net_got, net_lost, misread, oops>>
probeVars == <<intf, quirks, probe_at, us, threads>>
cafeVars == <<op, step, calls, chip, saved, ctl2, ctrl2, datalen, dmabuf, cafe_irq, ctrl1,
              phase, failed, flash, written, got, ops, slow, lost, probe, held>>
bfVars == <<bf_at, section, bf_chip, oob, flips, buf, calc, bf_regs, dma, completion, ret, bf_held>>
charVars == <<module, registered, device_buffer, currently_opened, times_opened, pc, position,
              char_calls, told, source>>
mmapVars == <<file, fds, vmas, page_count, reference, info>>
schedVars == <<curr_task, next_task, pendsv, PSP_array, frames, regs, fault, work>>
heapVars == <<pq_array, alloc, changed, inside>>
sortVars == <<input, sequence, before, sorted_by>>

\* One input for the ones that are not picked
DriversInit ==
  /\ driver \in {"setup", "iod", "net", "probe", "cafe", "bf", "char", "mmap", "sched",
                "heap", "sort"}
  /\ Init
  /\ Iod!Init   /\ (driver # "iod"   => call = [kind |-> "bio", vecs |-> CHOOSE v \in Bios : TRUE])
  /\ Probe!Init /\ (driver # "probe" => /\ quirks = CHOOSE q \in Quirks : TRUE
                                        /\ intf = CHOOSE d \in Devices : TRUE)
  /\ Bf!Init    /\ (driver # "bf"    => section = CHOOSE s \in Sections : TRUE)
  /\ Sort!Init  /\ (driver # "sort"  => input = CHOOSE f \in [0 .. 0 -> Values] : TRUE)
  /\ Heap!Init /\ Net!Init /\ Cafe!Init /\ Char!Init /\ Mmap!Init /\ Sched!Init

DriversNext ==
  \/ /\ driver = "setup" /\ Next
     /\ UNCHANGED <<driver, iodVars, netVars, probeVars, cafeVars, bfVars, charVars,
                    mmapVars, schedVars, heapVars, sortVars>>
  \/ /\ driver = "iod" /\ Iod!Next
     /\ UNCHANGED <<driver, setupVars, netVars, probeVars, cafeVars, bfVars, charVars,
                    mmapVars, schedVars, heapVars, sortVars>>
  \/ /\ driver = "net" /\ Net!Next
     /\ UNCHANGED <<driver, setupVars, iodVars, probeVars, cafeVars, bfVars, charVars,
                    mmapVars, schedVars, heapVars, sortVars>>
  \/ /\ driver = "probe" /\ Probe!Next
     /\ UNCHANGED <<driver, setupVars, iodVars, netVars, cafeVars, bfVars, charVars,
                    mmapVars, schedVars, heapVars, sortVars>>
  \/ /\ driver = "cafe" /\ Cafe!Next
     /\ UNCHANGED <<driver, setupVars, iodVars, netVars, probeVars, bfVars, charVars,
                    mmapVars, schedVars, heapVars, sortVars>>
  \/ /\ driver = "bf" /\ Bf!Next
     /\ UNCHANGED <<driver, setupVars, iodVars, netVars, probeVars, cafeVars, charVars,
                    mmapVars, schedVars, heapVars, sortVars>>
  \/ /\ driver = "char" /\ Char!Next
     /\ UNCHANGED <<driver, setupVars, iodVars, netVars, probeVars, cafeVars, bfVars,
                    mmapVars, schedVars, heapVars, sortVars>>
  \/ /\ driver = "mmap" /\ Mmap!Next
     /\ UNCHANGED <<driver, setupVars, iodVars, netVars, probeVars, cafeVars, bfVars,
                    charVars, schedVars, heapVars, sortVars>>
  \/ /\ driver = "sched" /\ Sched!Next
     /\ UNCHANGED <<driver, setupVars, iodVars, netVars, probeVars, cafeVars, bfVars,
                    charVars, mmapVars, heapVars, sortVars>>
  \/ /\ driver = "heap" /\ Heap!Next
     /\ UNCHANGED <<driver, setupVars, iodVars, netVars, probeVars, cafeVars, bfVars,
                    charVars, mmapVars, schedVars, sortVars>>
  \/ /\ driver = "sort" /\ Sort!Next
     /\ UNCHANGED <<driver, setupVars, iodVars, netVars, probeVars, cafeVars, bfVars,
                    charVars, mmapVars, schedVars, heapVars>>

DriversSpec ==
  DriversInit /\ [][DriversNext]_<<driver, setupVars, iodVars, netVars, probeVars, cafeVars, bfVars,
                                   charVars, mmapVars, schedVars, heapVars, sortVars>>

-----------------------------------------------------------------------------
(* Properties *)

\* The values each variable of each part can hold; among them, positions that
\* stay within buffers.
TypesOK ==
  /\ TypeOK /\ Iod!TypeOK /\ Net!TypeOK /\ Probe!TypeOK /\ Cafe!TypeOK
  /\ Bf!TypeOK /\ Char!TypeOK /\ Mmap!TypeOK /\ Sched!TypeOK /\ Heap!TypeOK

\* nvme_probe(), nvme_remove(), nvme_submit_io() and my_pci_probe(): what one of
\* them took is given back on each path that fails or ends.
NothingKept == NothingLeft /\ Iod!IodReleased /\ Net!FailedProbeHoldsNothing

\* nvme_kthread(), nvme_free_queues() and the controller only use queues that
\* exist, and each processor has one once the device is up.
QueuesAreLive ==
  ThreadWalksLiveQueues /\ FreesLiveQueues /\ ControllerUsesMemory /\ ProcessorsServed

\* nvme_setup_prps(): the entries describe the buffer.
PrpsDescribeBuffer == Iod!PrpsDescribeBuffer

\* nvme_submit_bio_queue(), "length is in bytes": what a command asks for is
\* what was mapped for it.
LengthIsMapped == Iod!LengthIsMapped

\* netdev_start_xmit() against interrupt_method(): a frame sent is counted
\* once, and none received is forgotten or misread, but in the cases named.
FramesAccounted == Net!TxCountedOnce /\ Net!NoFrameForgotten /\ Net!RxInStep

\* adjust_quirks(), usb_stor_probe2(): the first entry for the device decides
\* the flags, and they, the transport and the protocol what the host is like.
HostIsAsProbed == Probe!HostAsAsked /\ Probe!QuirksDecide

\* get_pipes(), "An optional interrupt-in is OK".
InterruptIsOptional == Probe!InterruptIsOptional

\* cafe_nand_cmdfunc(): each operation did what it is for, and no completion
\* is taken away from the polling.
FlashHoldsWhatWasWritten == Cafe!FlashHoldsWhatWasWritten /\ Cafe!CompletionNotLost

\* bf5xx_nand_correct_data(): one wrong bit is corrected, more are reported.
OneBitCorrected == Bf!OneBitCorrected

\* mmap_fault(), my_close(): the page outlives its mappings.
PageKeptWhileMapped == Mmap!PageKeptWhileMapped

\* PendSV_Handler(): the registers of a task that leaves are on its own stack.
ContextSaved == Sched!ContextSaved

\* pq_push(), pq_pop(): nothing is lost, and the least is served first.
LeastServed == Heap!ServesLeast

\* sorting.c: a sort orders the array, keeps its elements and what is around it.
SortsOrder == Sort!Sorted
=============================================================================
