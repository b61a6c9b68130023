# Verification of codingforfun

The repository is a collection of systems code: annotated Linux drivers, POSIX
thread exercises, microcontroller drivers and schedulers, and classic data
structures and algorithms.  It is not one program, so this project is a family
of small specifications, one per component, each translated from the C (or
C++) it names.  The parts share nothing at run time; the specifications share
`BoundedFifo`, the abstract queue that several of the rings are compared with.

Every module here is TLA+; `PROJECT.json` lists, for every definition, the
source lines it stands for, the runs, and, for every checked property, a mutant
of the code that breaks it.

## 1. Inventory

### 1.1 Kernel drivers (`kernel/`)

**NVM Express block driver, `nvme.c`.**
State per queue: the command-ID bitmap `cmdid_data` with one `nvme_cmd_info`
(handler, context, deadline) per ID, the submission ring and its tail, the
completion ring with head and phase tag, the list `sq_cong` of parked bios and
the wait queue `sq_full`, the lock `q_lock`.  State per device: the array of
queues, the namespace list, BAR mapping, IRQ vectors, the list of devices walked
by the kernel thread.
Operations: `nvme_make_request`, the interrupt handler, the kernel thread
(completion polling, timeouts, resubmission), `nvme_submit_sync_cmd` for ioctls
and admin commands, PRP list construction, probe and removal.
Interaction: block layer -> submission ring -> controller (doorbell); controller
-> completion ring -> interrupt; ioctl callers sleep until woken by the handler.
Hard: `alloc_cmdid` runs both with and without the lock; late answers to
timed-out and aborted commands; a killed caller whose stack frame the handler
still knows; ring wrap and phase tag; congestion.
Correct means: an ID is never in use twice; each completion reaches the handler
and data it was allocated for, once; every bio comes back; the rings lose nothing.

**RTL8139 PCI Ethernet driver, `rtl8139_pciethernet.c`.**
State: four transmit descriptors (`tx_flag`, `cur_tx`, `dirty_tx`), the receive
ring with `cur_rx`, the queue state of the network layer, statistics; the chip
holds TSD ownership bits, the ISR, and its own write index.
Operations: open, stop, `start_xmit`, the interrupt handler, hardware start.
Hard: counters of which one grows and one wraps, the ring's full and wrap conditions,
ISR bits that arrive between read and acknowledge, xmit racing the handler.
Correct means: a descriptor the chip owns is not overwritten, a transmit is
counted once, no received frame is lost or parsed from the wrong offset.

**RTL8150 USB Ethernet driver, `rtl8150_usbethernet.c`.**
State: rx/tx/interrupt URBs, `rx_skb`, `tx_skb`, the pool of receive skbs, the
`RTL8150_UNPLUG` flag, the network queue.  Operations: open/close, `start_xmit`,
the three URB callbacks, the receive tasklet, probe/disconnect.
Hard: callbacks of URBs racing close and disconnect; failed resubmission and the
tasklet that retries it.  Correct means: an skb has one owner, the queue is not
left stopped for ever, a failed receive is retried.

**USB mass storage, `usb_mass_storage/usb.c`, `usb.h`, `usual-tables.c`.**
State per device: `srb`, `dflags` (TIMED_OUT, ABORTING, DISCONNECTING,
RESETTING, SCAN_PENDING ...), `dev_mutex`, `scsi_lock`, the completions
`cmnd_ready` and `notify`.  Operations: the control thread, probe in two phases,
scan, suspend/resume and reset, quirk parsing.
Hard: the abort path against the control thread, disconnect against either, a
thread that must end.  Correct means: one command at a time, each command is
finished exactly once, the aborter is always released.

**Blocking I/O and poll character device, `blockingIO_polling/module.c`.**
State: a ring of 23 bytes with indices `ir`, `iw`, `ih`, a semaphore, two wait
queues.  Operations: open, read, write, poll, release.
Hard: the full test writes a shared index; check and use are separated by a
sleep on the semaphore.  Correct means: the ring is a bounded FIFO, blocked
readers and writers wake.

**Character devices, `chardevice.c`, `chardevice2.c`.**
State: a counter of openers, the device buffer and a position.  Operations: init
with unwinding, open, read, write, close, exit.  Hard: open count and
buffer under concurrent calls, partial failure of init.  Correct means: one
opener at a time, bytes read are the bytes written, init leaves nothing behind.

**mmap devices, `mmap/mmap.c`, `mmap2_6ksupport.c`.**  State: one page, a
reference counter of the VMAs.  Hard: fork and unmap orders.  Correct
means: the page outlives its mappings.

**CAFE NAND, `mtd_pci_cafe_nand.c`.**  State: the saved control words
`ctl1`/`ctl2`, `datalen`/`datapos`, the DMA buffer.  Operations: `cmdfunc`
(multi-cycle commands assembled over calls), read/write page with
Reed-Solomon ECC, bad block tables, probe/remove.
Hard: the two-phase command protocol, polling against the interrupt handler.

**BF5xx NAND, `mtd_platform_bf5xx_nand.c`, `..._short.c`** (the same driver, one
of the two trimmed).  State: page registers, DMA channel and completion.  Hard: 1-bit
ECC, the DMA completion's lifecycle, probe unwinding.

### 1.2 Threads (`concurrency/`)

| file | what it is | hard |
|---|---|---|
| `blockfreelinkedlist.c` | list with compare-and-swap, insertions only | stale loads, failed swaps |
| `doublelock_queue.c` | queue with a head and a tail lock | the empty queue |
| `multiproducerconsumer_lockfree.c` | ring, tickets by fetch-and-add, cached bounds | a ticket drawn and not yet published, stale bounds |
| `printoddseven.c` | two threads alternating on semaphores | order, termination |
| `producerconsumer_condv.c` | stack, mutex, two condition variables | signals only at the empty and full edges, one at a time |
| `producerconsumer_condv2.c` | the same, signals after every unlock | the signal races the waiter |
| `producerconsumer_condv.cpp` | C++ version with predicates | the predicate of the wait |
| `producerconsumer_semaphore.c` | one semaphore and a stack | no full test, though main() never needs one |
| `producerconsumer_lockless.c`, `diningphilosophers.c` | stubs | - |

### 1.3 Microcontrollers (`firmware/`, `lpc17xx_armcortexm3/`, `freertos/`, `armassembly/`)

I2C master driver (a state machine in the interrupt handler and two calls
that wait on `i2c1_busy`), UART, SysTick, PLL0 and LCD drivers; a cooperative
and SysTick-driven task scheduler (`freertos/scheduler.c`, identical to
`lpc17xx_armcortexm3/taskscheduler.c`), FreeRTOS message queue, plant watering
and button examples; ARM assembly exercises.
Hard: the interrupt handler against the polling main program; wrapping indices.

### 1.4 Data structures and algorithms

Linked lists (`alllinkedlists.c`, `linkedlistproblems.c`, `cpp/linkedlist.cpp`),
trees (`btree.c`, `binarysearchtree.c`, `bstproblems.c`), a binary heap
(`priorityqueue_heap.c`), Prim's algorithm on it (`prim_pqueue.c`), sorting
(`sorting.c`, `bucketsort.c`), bit tricks (`bitwise_macros.c`), strings, graphs
in Python (`graphproblems.py`), dynamic programming (`dynamic/`), interview
exercises (`careercup/`, `cproblems/`, `recursion*.{c,py}`).
Correct means: the result is the reference definition's on every input, and
structural invariants (order, heap, links) survive every sequence of operations.

### 1.5 Left aside

`coursera/` (machine-learning coursework, numeric), `notes/`, `x86assembly/`
(prose), language demonstrations (`cpitfalls.c`, `coolmacros.c`, `ec_macros.c`,
`funcpointers.c`, `pointers/`, `cpp/cppconcentrated.cpp`, `arrayofarrays.c`,
`stackgrowingbug.c`, `printdiamond.c`): they keep no state worth a model.

## 2. The project

The order followed the weight of the behaviour: first the concurrency that no
test reaches, then error paths and protocols of the drivers, then algorithms.
Every module takes its sizes and its sets of processes as CONSTANTS, has one
action per operation (or per access to shared memory where no lock is held), and
states its invariants as conjunctions of named parts.

| module | models | checked by | theorems |
|---|---|---|---|
| `NvmeQueue` | one I/O queue pair of `kernel/nvme.c`; its completion ring implements `BoundedFifo` | `nvme_bios`, `calls`, `nvme_lockless`, `progress` | all its safety: types, phase tag, command IDs, contexts, congestion, the refinement |
| `NvmeIod` | the data of a command: pinning, mapping, PRP lists, release | `drivers`, `nvme_length` | PRP entries, release, types |
| `NvmeSetup` | probe, queue creation, namespaces, removal, the polling thread | `drivers` | live queues, release, types |
| `Rtl8139` | descriptors, receive ring, interrupt handler, probe, open, stop | `drivers` | frames, release, types |
| `Rtl8150` | URBs and the owners of socket buffers | `progress` | ownership, types |
| `UsbStorage` | control thread, aborts, reset, scan, disconnection | `progress` | answers, aborts, types |
| `UsbProbe` | quirks, transports, what a probe goes on without | `drivers`, `usb_endpoints` | flags and hosts, types |
| `CafeNand` | command protocol, polling, interrupts | `drivers` | what the flash holds, types |
| `Bf5xxNand` | ECC and DMA | `drivers` | the correction, types |
| `CharDevice`, `MmapDevice` | `chardevice2.c`, `mmap/mmap.c` | `drivers` | types; the life of the page, types |
| `PollDevice` | `blockingIO_polling/module.c`; implements `SharedFifo` | `calls`, `device_poller`, `progress` | types, sleepers, the refinement |
| `MpmcRing` | `multiproducerconsumer_lockfree.c` | `ring` | all its safety: types, bounds, items |
| `NonblockingList` | `blockfreelinkedlist.c` | `list`, `list_sorted` | all its safety: types, no node lost, order |
| `MonitorBuffer` | `producerconsumer_condv.c`, `..._condv2.c` | `progress`, `monitor_edges` | each value once, types |
| `I2cDriver`, `TaskScheduler` | interrupt handlers of the LPC17xx | `progress`; `drivers` | the buffer; the contexts; types of both |
| `PriorityQueue`, `Sorting` | `priorityqueue_heap.c`, `sorting.c` | `drivers` | the heap: the least is served, types; - |

Components that share nothing and have small state spaces share a run.
`MCProgress` and `MCDrivers` instantiate several of them side by side: a
variable (`system`, `driver`) that is chosen in the initial state says which one
moves, the others keep their first state, so the run explores the sum of the
systems and not their product.  `MCCalls` does so with the two drivers that are
called by processes without a common lock, `PollDevice` and `NvmeQueue`.  In `MCProgress` are the systems in which
somebody waits for somebody else; in `MCDrivers` those with safety alone.

What a system may be given (the devices of `UsbProbe`, the buffers and bios of
`NvmeIod`, the quirk tables) is a CONSTANT of `MCDrivers`, to which the cfg
assigns the small sets `Some...`; the theorems hold for any.

Open: proofs about `Sorting`; models of the linked lists, the trees and the
remaining algorithms.

## 3. The modules

### 3.1 `NvmeQueue`: one queue pair of `kernel/nvme.c`

| state | code |
|---|---|
| `cmdid_data`, `info` | the bitmap and `struct nvme_cmd_info` (fn, ctx; `expired`: the deadline is over) |
| `sq_cmds`, `sq_tail`, `cqes`, `cq_head`, `cq_phase` | the rings in memory and the doorbells |
| `q_lock`, `stage`, `scan`, `head`, `phase` | a lock holder in the middle of a loop, and the locals of `nvme_process_cq()` and `nvme_timeout_ios()` |
| `sq_cong`, `cong_wait` | the list of parked bios; whether the thread is on `sq_full` |
| `bio`, `runs` | history: where each bio is; its outstanding commands |
| `pc`, `slot`, `status`, `woken` | a caller of `nvme_submit_sync_cmd()` |
| `dev_*` | the controller (external): what it fetched and what it has to answer |

Under `q_lock`, a section with no loop is one action (`nvme_make_request`,
`nvme_submit_cmd`, `nvme_abort_command`).  The loops over completions and IDs
are one action per iteration, since the controller and the lockless callers
move meanwhile.  `alloc_cmdid()` is one action where the lock is held, and six
(`AllocFind` ... `AllocTimeout`) on the ioctl path where it is not.
The interrupt line may be shared, so the handler may run at any time.  The
controller chooses a completion status when it is processed.  A handler called
through a half-written entry sets `oops`, after which nothing runs.

Left out: `sq_head`, which is never read; a failed `nvme_alloc_iod()`, which
jumps to a label that does not exist; the queue of another CPU that
`requeue_bio()` may choose (one queue here).  The data of commands is `NvmeIod`.

Bounds: rings of 2 or 3 slots (1 or 2 IDs) wrap after a few commands and are
full at once; two bios, one with a flush and one of two commands, make the
second command find no ID (`nvme_bios`).  Two callers and a split bio meet on one
ID (`calls`).  A third bio or caller only repeats these meetings.

Fairness: `nvme_kthread` strongly (it wakes every second and queues for a spin
lock that others release and take), the steps of a lock holder weakly (it does
not sleep), time passes.  A controller that answers (`ControllerFairness`) is no
part of the specification: it is the premise of `CongestedBioLeaves` alone.

| run | shows |
|---|---|
| `nvme_bios` | an ID is never on two commands, the phase tag is exact, the completion ring is a FIFO (`CqIsFifo`), a context that a handler will use is alive, IDs come back, parked bios are registered |
| `calls` | callers that allocate without the lock, are killed and abort never get one ID (`PreparingIsPrivate`) |
| `progress` | an issued bio leaves even if the controller is dead; a parked one leaves if the controller answers (`BiosLeave`) |
| `nvme_lockless` | a counterexample: a handler can run without its data |

Two statements are conditional on no bio being lost: the second command of a
split bio is submitted without testing `alloc_cmdid()`, and the extra command
can fill the submission ring, which then reads as empty.

The counterexample: `alloc_cmdid()` "may be called with no locks held", but the
polling thread scans the entry between the bit and the handler, and calls
through NULL.  With a bio and two callers the model has a second way to break
the same sentence: a killed caller aborts an ID that was completed and given to a
bio between its reading `status` (line 731) and its taking the lock; the
bio then has no handler.  The shortest trace, which the run prints, is the first.

### 3.2 `MpmcRing`: the lock-free ring

`push()` and `pop()` mirror each other, so the actions are written once for the
side of the thread: `next` is `head_`/`tail_`, `last` is `last_head_`/`last_tail_`,
`pos` the thread's entry of `thr_p_`.  One action per access to shared memory:
`Load`, `Announce`, `Draw` (fetch-and-add), `Publish`, `Test`, `Floor`, `Scan`,
`SetLast`, `Access`, `Clear`.  The array holds tickets, not pointers: the item
pushed under ticket k is k.

Assumed: loads and stores happen in program order (volatile variables on a
machine with total store order; the fetch-and-add is a barrier).  `thr_p_` is
zero before a thread's first call, which stops the other side; the model keeps
that.  Bounds: `MaxTickets` caps the tickets drawn, in the guard of `Load`;
with two producers, one consumer, two slots and three tickets a side, a producer
laps the ring while the other has drawn a ticket and not used it.  Several
consumers are left to the proofs: their side is the same actions.  Calls end at the
bound, so deadlock is not checked.

Shown: the item popped is the one pushed under the same ticket, a slot is
overwritten only after it was read, the cached bounds stay behind, and, when
every thread has made a call, an operation whose partner exists returns, under weak
fairness of the threads (each spins by itself and is scheduled).

### 3.3 `NonblockingList`

`list` and `next` are the memory, `ptr` and `prev` the locals, one action per
load or compare-and-swap.  `insert`, chosen in `Init`, is the function the
threads call.  Fields are plain variables: a compiler may load them
again at each mention, and the model does.  Each of the four insertions is a
process of its own, a superset of the program's (five in a row per thread); two
of them carry the same value.
Shown, for both functions (`list`): no node is lost or early, the order among
linked nodes never changes, every insertion ends.  Not so: the list is not sorted
by concurrent `insertorder()` (`list_sorted`), since the node compared and the
node linked to come from two loads.

### 3.4 `MonitorBuffer`

Both programs with condition variables; `program`, chosen in `Init`, says which
runs.  `Produce`, `Consume` signal inside the lock at an edge (`condv`),
`Produce2`, `Consume2`, `SignalLater` after each unlock (`condv2`).  A section
under the mutex is one action: no variable of the
buffer is touched outside.  `Spurious` is the wake-up that POSIX allows.
Fairness is weak, per thread: a section is short, so a thread that is ready gets
the mutex; spurious wake-ups are not promised.  Shown with two producers and two
consumers (`progress`): every value arrives once, in both programs, and the threads
of `condv2.c` end.  Those of `condv.c` need not (`monitor_edges`): one
signal for the change from empty, two values, and a consumer sleeps for ever.
Bounds: two slots and three values a producer, so the buffer is full and empty
several times and both kinds of thread wait.

### 3.5 `PollDevice`: the character device with a ring

| action | code |
|---|---|
| `Open`, `Release` | the same, under the spin lock |
| `EmptyTest` | `is_buffer_empty()`; one step, since nothing is stored and the answer is tested again under the semaphore |
| `FullLoad`, `FullStore`, `FullAnswer` | `is_buffer_full()`: load `ir`, store `ih`, correct `ih` and compare |
| `Decide` | the O_NONBLOCK test, and test, queue, test, sleep of `wait_event_interruptible()` |
| `Down`, `Read`, `Write`, `Wrap`, `Up` | the copy loops under the semaphore, a byte at a time |
| `Wake`, `Awake`, `Interrupted` | wake-ups; signals |

Shown: with one reader or two and one writer, the ring is the abstract
`SharedFifo` (emptied by the first open), nobody sleeps beside data or room unless
about to be woken (`calls`), and calls that can proceed return
(`CallsReturn` in `progress`).  The semaphore is granted in
order of arrival, hence strong fairness of `Down`; inside a call a process is
scheduled; nobody is obliged to make calls.

A counterexample (`device_poller`): `poll()`, or a second writer, stores an old
`ih` and the write loop runs past the reader.  The model also has two behaviours
that surprise and that no run states: a reader with O_NONBLOCK that finds data
sleeps if another reader takes it before the second test, and a blocking reader
returns 0 when another takes the data before it has the semaphore.

Bounds: a ring of three (two bytes) wraps on the second write; the longest
request is longer than what the ring holds, or fills it.

### 3.6 `NvmeIod` and `NvmeSetup`: the rest of `kernel/nvme.c`

`NvmeIod` is the data of one command.  An ioctl pins the pages of a buffer
(`MapUserPages`): all of them, or any smaller number, which `PutPages` then puts
again (`nents` is the count that this loop, or `nvme_unmap_user_pages()`, goes
by); they are mapped and joined, and `SetupPrps`, `NextList`, `Fill` write the PRP entries; a bio is gathered by
`MapBio` up to the first hole.  Addresses count units, four to a page; a list page
has three entries, so seven pages need a second and a third list.  The inputs are
buffers of up to seven pages that lie together or apart, whole or not, and bios of
one to three segments.  `PrpsDescribeBuffer` reads the chain as a controller
does; `IodReleased` says that each of the ways out (answer, error, signal,
timeout, an answer after that) puts the pages and frees the lists once.

The counterexample of `nvme_length`: `nvme_submit_bio_queue()` gives
`nvme_setup_prps()` the error code it would have returned, not the length that
was mapped.

`NvmeSetup` is a probe followed by a removal: the admin queue, interrupts,
queues one after another (each of whose steps may fail and is unwound), sharing
of queues by the processors without one, namespaces, disks.  The polling thread
runs through it: `KthreadStart`, `KthreadNext` take one queue at a time of a
device that is on `dev_list`, under the lock that `ListAdd` and `ListDel` take.
`mem`, `irq`, `cqs`, `sqs` are what is allocated, what is registered, and what the
controller believes.  Shown with four possible processors, three online and two
namespaces: the thread and the clean-up meet only queues that exist, each
processor finds one that works, and nothing is left but what the text names
(a deletion the controller never confirmed; the disks of a probe whose last
namespace failed, as `res` still holds that error).

### 3.7 `Rtl8139`

`Copy`, `Kick`, `Bump`, `Compare`, `StopQueue` are `netdev_start_xmit()`: the
descriptor is filled before, and counted after, it is the chip's, and compared
after that with what the handler has counted; the handler (`Read`, `Ack`, `TxLoop`,
`RxLoop`) takes no lock and may run between any two.  The chip sends and stores at
any time.  Two descriptors, three frames each way and a ring of twenty bytes
pass the last descriptor and the end of the ring.  `TxCountedOnce` is bounded by the
last descriptor because the code does not hold beyond: `cur_tx` grows while
`dirty_tx` wraps, the queue is never stopped, and a frame on its way is
overwritten.  The comparison is wrong before it, too: when the handler counts a frame
before it is compared, the queue is stopped with every descriptor free.  No property
says when the queue is to be stopped.  `NoFrameForgotten` excepts the bits that arrive between the read
and the acknowledgement of the status, `RxInStep` a frame that ends exactly at
the end of the ring.

### 3.8 `Rtl8150`

One transmit and one receive URB with their callbacks, failed submissions, the
pool, `Open`, a closing network core (the driver has no `ndo_stop`), removal of
the device.  Who owns each socket buffer is `tx_fate`, `rx_fate`.  The network
stack frees a received buffer whenever it likes (`Consume`).  With two receive
buffers one is with the device and the other in the pool, until they are exchanged;
with both in the stack the pool is dry and the tasklet has to retry, with a new
buffer when there is one.
`BuffersOwned` speaks of the first opening: a second one finds the old URBs in
flight, and the buffer of the first is nobody's.  It excepts the frame of a failed
submission ("failed"), which nobody frees, though `rtl8150_start_xmit()` returns
NETDEV_TX_OK, "driver took care of packet", for it.  A stopped queue is started again (`QueueRestarts`), because a URB that
was submitted calls back, which the USB core promises (the only fairness).

### 3.9 `UsbStorage` and `UsbProbe`

The control thread (`Awake`, `LockDev`, `Look`, `Execute`, `Transfer`, `Finish`,
`Stop`) with one command at a time; a section under `scsi_lock` is one action.
The SCSI layer is external: `Queue`, `Abort` (when a command has timed
out, at any moment), `AbortReturn`, `Disconnect`.  Resets and the delayed scan
compete for `dev_mutex`.  Two commands and one abort each make an abort meet the
command before it starts, during the transfer, after its end, and meet the next
one.  The thread is fair; taking `dev_mutex` strongly (a mutex queues), and a
transfer ends because it has a timeout of its own or is aborted.

`UsbProbe` is `storage_probe()` on every combination of a table entry, a
`quirks=` parameter, a descriptor and endpoints.  Every allocation may fail, and
several results are not looked at.  What holds (`HostIsAsProbed`): the flags are
those that the first quirk for the device decides, under the mask, and a host that is
added has a transport, a protocol, and the number of LUNs and the retry that
these and the flags ask for; three functions set the LUNs, one after another.
A counterexample (`usb_endpoints`): `get_pipes()` reads the interrupt endpoint of a
device that has none, though it is optional: the body of its `if` is empty, and
the block that should be it follows in any case, with a brace too many
(the model takes the block as it stands).  A host is also added without its buffer,
its URB or its thread, and for a device that is to be ignored; the model has each of
these, and promises none of the four.  The label `BadDevice` is not in the file; the
model ends there, and nothing is said of what it should undo.

### 3.10 `CafeNand`, `Bf5xxNand`

In `CafeNand` an operation of the flash layer is the sequence of calls the
driver gets; `FirstHalf` stores the control word of the first command of a pair,
`Arm`, `Start`, `Poll`, `Finish` run the second, beside the controller and
the interrupt handler, which share the event bits.  `FlashHoldsWhatWasWritten`
compares each page with what the layer asked for, ECC included, as long as no
command outlasts the polling: the driver goes on without it then, and the next
command meets it.  A write or an erasure may fail on the chip (`failed`), which
leaves the page as it was or as it was to be; the status byte that is read after
it must then say so, and the operation returns -EIO, and only then.  Two chips of one
page and two operations.

In `Bf5xxNand` data is a set of bits and a code two sets of parity bits, so that
the exclusive or of the code is a symmetric difference.  Up to two bits turn
between writing and reading, in data or code.  With halves of 16 bits (2^K, K = 4;
11 in the code, where 256 bytes are 2^11 bits) the decoder is compared with
the data written.  A half whose code is zero is excepted: see below.

### 3.11 `CharDevice`, `MmapDevice`

Two processes open, read, write and close a buffer of two; registration can
fail at each call; no position leaves the buffer.  A mapped page with three
VMAs through faults, forks and closes: the page goes with the last of them.
`dev_exit()` unregisters one minor of the ten it took, so the region stays
registered (`registered`).

### 3.12 `I2cDriver`, `TaskScheduler`

Each interrupt is one action, as the handler runs above its caller.  The bus
(acknowledgements, a lost arbitration, a missing slave) is external.  Up to three
bytes, two transfers.  A transfer of at least one byte ends, since the bus raises
its next interrupt (weak fairness).  The scheduler has the tick, the switch and
tasks that count.  The tick passes the last task, so the second switch of the two
tasks takes a stack pointer that is zero, and faults: no task ever comes back.  What
can be checked is the half before: at any point of its work, what a task has
counted is saved on its own stack, and its entry points there (`ContextSaved`).

### 3.13 `PriorityQueue`, `Sorting`

All sequences of pushes, pops and changes over five elements and three
priorities, from an allocation of two, so the array grows twice and shrinks; the
queue holds what was pushed and serves the least.  All arrays of up to six
elements of three values through six sorts.

## 4. Runs and what they are for

| run | systems | states | question |
|---|---|---|---|
| `nvme_bios` | `NvmeQueue` | 2.0 10^6 | IDs, contexts and rings under every interleaving |
| `calls` | `PollDevice`, `NvmeQueue` | 4.1 10^6 | what several processes do to one driver at once |
| `ring`, `list` | one each | | safety and progress of lock-free and blocking code |
| `progress` | six | 8.2 10^4 | does everybody who waits get on, with nothing lost, doubled or owned twice? |
| `drivers` | eleven | 2.0 10^6 | does each part survive each of its failures and orders? |
| `nvme_lockless`, `list_sorted`, `monitor_edges`, `device_poller`, `nvme_length`, `usb_endpoints` | | | six sentences of the repository that the code does not keep |

Fairness in `progress` is that of each module, conjoined with the name of the
system that runs.  Deadlock is not checked in the composed runs: programs end,
bounded histories are used up.

Some definitions named `..._<word>` beside a definition are mutants of it, kept
because they show that a part of a composed property bites: `Undo_short`, `Freed_pages`,
`Position_open`, `AfterFrame_once`, `FreedIrq_io`, `LastQueue_slot`, `Unwind_all`,
`Target_any`, `Settled_either`, `EccAfter_kept`, `Acknowledged_all`, `Reset_not`,
`Waited_not`, `Xmit_running`, `Lost_waiting`, `free_cmdid_leak`,
`SyncWake_noabort`, `Open_uncounted`, `Consume_if`, `Produce2_if`, `Consume2_if`,
`Produce_test_after`, `SignalLater_self` and `Write_over` are not in the list of
mutants, which has one for each property of each run.

## 5. Proofs

| theorem | says, for every value of the constants |
|---|---|
| `NvmeQueueProofs!TypeCorrect` | `[]TypeOK` |
| `NvmeQueueProofs!PhaseTagCorrect` | `[]PhaseTagExact` |
| `NvmeQueueProofs!CmdIdsCorrect`, `PreparingCorrect` | `[](CmdIdNotReused /\ PreparingIsPrivate)` |
| `NvmeQueueProofs!ContextsAlive` | `[]NoDanglingCtx` |
| `NvmeQueueProofs!CongestionCorrect` | `[]CongestionRegistered` |
| `NvmeQueueProofs!IdsNeverLeak` | `[]IdsAccounted` |
| `NvmeQueueProofs!CompletionsInOrder` | `CqIsFifo`: the completion ring implements `BoundedFifo` |
| `MpmcRingProofs!RingTypeCorrect`, `BoundsCorrect` | `[]TypeOK`, `[]BoundsAreSafe` |
| `MpmcRingProofs!ItemsCorrect`, `OverwritesCorrect` | `[](PopsWhatWasPushed /\ OverwritesOnlyRead)` |
| `NonblockingListProofs!ListTypeCorrect`, `InsertionsKept` | `[]TypeOK`, `[]NoNodeLost` |
| `NonblockingListProofs!OrderKept` | `OrderIsStable`, an action property |
| `PollDeviceProofs!DeviceTypeCorrect`, `SleepersWoken` | `[]TypeOK`, `[]NoSleeperForgotten` |
| `PollDeviceProofs!DeviceIsFifo` | `IsSharedFifo`: the device implements `SharedFifo` |
| `ProgressProofs!EachConsumedOnce` | `[]NothingLostOrRepeated` of `MonitorBuffer` |
| `ProgressProofs!EachAnsweredOnce`, `EachAbortMatched` | `[]AnsweredOnce`, `[]AbortsAreMatched` of `UsbStorage` |
| `ProgressProofs!OwnersKept` | `[]BuffersOwned` of `Rtl8150` |
| `ProgressProofs!BufferCorrect` | `[]BufferInStep` of `I2cDriver` |
| `ProgressProofs!ProgressTypes` | `[]TypesOK` of `MCProgress`: the types of its six systems |
| `DriversProofs!QueuesLive` | `[]QueuesAreLive` of `NvmeSetup` |
| `DriversProofs!FramesCounted` | `[]FramesAccounted` of `Rtl8139` |
| `DriversProofs!HostsAsProbed` | `[]HostIsAsProbed` of `UsbProbe` |
| `DriversProofs!PageKept` | `[]PageKeptWhileMapped` of `MmapDevice` |
| `DriversProofs!ContextsSaved` | `[]ContextSaved` of `TaskScheduler` |
| `RecursionProofs!EntriesDescribeBuffer` | `[]PrpsDescribeBuffer` of `NvmeIod` |
| `RecursionProofs!NothingIsKept` | `[]NothingKept`: of `NvmeSetup`, `NvmeIod` and `Rtl8139` |
| `RecursionProofs!LeastIsServed` | `[]LeastServed` of `PriorityQueue` |
| `NandProofs!FlashKept` | `[]FlashHoldsWhatWasWritten` of `CafeNand` |
| `NandProofs!OneBitIsCorrected` | `[]OneBitCorrected` of `Bf5xxNand` |
| `NandProofs!TypesKept` | `[]TypesOK` of `MCDrivers`: the types of eleven parts |

`ProgressProofs`, `DriversProofs`, `RecursionProofs` and `NandProofs` are about the
specifications that the runs check, `MCProgress` and `MCDrivers`, whose systems lie
side by side; the last three extend one another in this order.
Each holds the invariants of its parts, proved from the part's own Init and Next,
and one lemma, `EachRuns`: a step of the composition is, for each part, a step
of it or leaves its variables alone.

*Assumptions.*  Those named in the modules: a ring of at least two slots, fewer
than the ID that marks an absent command; disjoint bios, tasks and special
contexts; positive numbers of threads and slots, and tickets below `ULONG_MAX`.
What only the proofs of a part need is a hypothesis of its theorem:

| hypothesis | of | says |
|---|---|---|
| `UsbConstants`, `NetConstants` | USB storage, RTL8150 | `None` is no command, `NULL` no buffer |
| `MaxLength`, `MaxOpens \in Nat` | I2C, types of RTL8150 | lengths and bounds are natural |
| `NvmeConstants`, `DeviceConstants` | `ProgressTypes` | the assumptions of `NvmeQueue` and `PollDevice`, and `OneWriter` |
| `MmapConstants`, `SchedConstants` | mmap, scheduler | finitely many VMAs; at least one task |
| `PciConstants`, `FrameConstants` | RTL8139, its types | a descriptor and a byte of ring at least, natural sizes; natural numbers of frames |
| `ProbeConstants`, `FlagConstants` | USB probe, its types | a quirk sets only flags that the parameter covers, as the parser's switch does; table entries and the parameter have only flags that there are |
| `CharConstants` | `chardevice2.c` | finitely many processes, a buffer of natural size, natural counts |
| `IodConstants` | `NvmeIod` | pages of at least a unit, lists of at least two entries, a small list no longer than a list; a buffer has a page for each part of it, and a bio a segment |
| `CafeConstants`, `BfConstants` | CAFE, BF5xx | a natural number of operations; halves of at least eight bits, which pair the parities up |
| `HeapConstants` | the heap | room for one element at least, integer priorities |
| `OneWriter` | the device | nobody polls and at most one process writes: `device_poller` is the counterexample without it |

*Phase tag.*  The tag alone does not say how far the controller is.  `PhaseInv`
says in which lap each slot was written (below the controller's tail with its
phase, from there on with the opposite one), and that the loop's position, the
head doorbell and the controller's tail are pairwise at most one lap apart
(`InLap`).  It is inductive because the controller leaves one slot free before
the head doorbell, so it never catches up with the driver (`NeverFull`).

*Command IDs.*  `CmdIdNotReused` speaks of three places where an ID can be.
`IdInv` adds the fourth, a task that has taken the ID and not submitted it,
says that an ID has at most one owner among the four, and that an ID whose bit is
clear has none (`Fresh`).  That an aborted or timed-out command keeps its bit is
what carries the step of a late answer.  It needs `PhaseInv`: a completion
that is handled twice would free a bit twice.

*No ID leaks.*  The converse, `CarriedInv`: an ID whose bit is set is in one of
the four places.  The step that could lose one is a doorbell that overruns the
submission ring, which then reads as empty.  It cannot: the entries carry distinct
IDs (`IdInv`) and there is one ID less than there are slots, so a ring with room
for no more would map the slots into the IDs one to one (`RingHasRoom`, with
the library's facts on cardinality).  The extra command of a lost bio, which has no
ID, is why `IdsAccounted` is conditional.

*The completion ring* maps to `BoundedFifo` as the entries from the driver's
position to the controller's tail.  A step of the controller appends one, a step
of the loop takes the first (`PhaseInv`: an entry it accepts is a live one), and
each of the others leaves them alone.

*Contexts.*  `NoDanglingCtx` alone is not inductive: a bio could be resubmitted
while another ID still names it.  `CtxInv` adds that the handler of an ID is that
of bios exactly when its context is one (`BioHandled`), that the task whose frame
is a context is past `alloc_cmdid()`, holds that very ID and was not answered
(`FrameOwner`), and that a free ID, and one that a caller has taken and not
filled in, has none (`FreeVacant`, `NewVacant`).  That a completion never meets an
ID in the hands of a caller is `IdInv`; that the bio taken from `sq_cong` is not
issued is `CongestionRegistered`, so both are carried together (`QueueInv`).

*Ring.*  First the positions (`BoundInv`): a thread's entry of `thr_p_` is at
most the ticket it will draw or holds (`Announced`); the running minimum of a
scan is below every ticket of the threads it has passed, and below the next one
to be drawn (`ScanSafe`, stated per thread because a scan reads the entries at
different times); so is the bound that is stored at its end (`LastBound`).  Then
the items (`ItemInv`): pending tickets are `Unique`, an access is made only after
the one it waits for (`AtAccess`, `PopAfterPush`, `PushAfterPop`), and a slot
holds the last ticket pushed into it (`Content`).

*List.*  "Reachable from `list`" is no fact a step preserves by itself.  `Chained`
says there is a sequence that lists the inserted nodes, each once, in the order of
the pointers; a successful swap gives a sequence with one node more at the
place of the swap (`Inserted`), and everything else keeps the sequence.  `Stale` is
what an insertion still knows of its old loads: `prev` was inserted,
`ptr` was inserted or is the end; nodes are never removed, so that does not age.
Reachability follows from the sequence by induction on the distance to the node,
and the order of two nodes is that of their places in it.

*Device.*  `Mutex` and `Indices`: a process copies exactly while it has the
semaphore, and its register is the index it copies at.  `Room` says that an index
stored by the full test, even an old one, leaves the ring one free slot: only the
writer stores, and a reader can only make more room.  What the ring holds is `Span`,
the slots from `ir` up to `iw`; each copied byte is then a `Get` or `Put` of
`SharedFifo` (`SpanGet`, `SpanPut`), each wrap of an index a stutter
(`SpanWrap`).  `Sleepers` says of each process that is asleep that what
it waits for is not there, or that the process which made it so has not yet
reached its wake-up (`Active`, `Moved`).

*Monitor.*  The invariant is inductive with the types and one fact about the
threads (`Rounds`); the work is that `Produce` and `Consume` move one value
between "not made", "in the buffer" and "taken", at the top of the stack.

*Set-up.*  `Counted`: at each label of the code, `queue_count` is the number of
queues that are there in all their parts, so that the thread, which goes
by it, meets no other (`Walking`).  `Holding`: beyond those only the queue being
made or freed holds anything.  `Controlled`: of that one the controller has
what the label says, or its deletion was not confirmed.  `Shared`: after sharing,
each processor's entry is one of the counted queues, as a remainder by their number
is.  `Disked` is for the disks.

*USB.*  `Handed` says where a command is for each place of the thread (a thread
past its sleep has taken the completion; without a command it sleeps); `Aborted`
that an abort is over before the next command comes; `Scanned` who gives back
the reference that probing took, which disconnection relies on.  For the probe:
the LUNs are what each function that was passed makes of them, as long as the next
has no say (`Undetermined`, `Passed`, `Lun`), and the flags are those of the first
entry that matches (`QuirksDecide`, carried from the step that computes them; that
there is a first one is `Smallest`, from the well-foundedness of the naturals).

*PCI Ethernet.*  Until the last descriptor: those before `dirty_tx` are finished,
those from `cur_tx` on untouched, and `tx_done` is `dirty_tx` (`Sending`); while a
frame is on its way through `netdev_start_xmit()` the device is up and its queue is
started.  For
reception: a stored frame has a bit that brings it back, in the status, in the
handler's copy or lost between its two accesses (`Signalled`); each frame begins
where the one before ends, after rounding and wrapping (`Linked`).

*RTL8150.*  The queue is stopped as long as the transmit URB is in flight, so no
second buffer replaces `tx_skb`, and the receive URB fills `rx_skb` unless its
submission failed, which leaves the tasklet to come back for it (`TxOwned`,
`RxOwned`); both hold in the first opening only.

*CAFE.*  How many calls an operation has left says which call is next (`CallAt`),
what the saved half of the command is (`SavedHalf`), where the buffer's position
is (`Advanced`) and whether the ECC bit is set (`EccOnce`).  `Told` is what the
controller got.  `BitComes` says that the bit polled for is there when the
command is over, which is why none is lost; `Quiet` that, as long as no command was
given up, it is not there before.  `BufferIs` and `GotIs` say what the buffer and the
layer have of a read, or of the status byte, at each call.  `FlashIs` is then the property with the
operation in progress: the cells are the old ones until the second command
of the pair is over and the wanted ones from there on, unless the chip failed.

*Data of a command.*  `Kept`: what is pinned, that `nents` is as much, and how many
lists there are, at each label.  `Covers` relates the segments to the page-sized parts of the buffer
that they join, by the index of the part that each begins with; it is made by
`MapUserPages` part by part and used by the loop of `nvme_setup_prps()`, whose
place is `Position`: the next entry is for the next part, and `length` is what
lies beyond it.  `Written` says what the lists hold so far: full ones end in the
address of the next.  From that the chain the controller reads is computed list by
list (`ChainIs`), and is one entry a page.  The small list of `nvme_alloc_iod()`
has room because what is left of `length` fits it.

*BF5xx.*  The code of a half is two parities for each bit of a number: of the data
bits whose number has it (`Ones`) and of those whose number has not (`Zeros`).  A
bit of data that turns changes one of each pair, and the first ones spell its
number; a parity that turns makes those changed one more or one less, and
two bits of data change both of a pair (`OneReported`, `TwoReported`).  The
invariant `BfInv` carries this through a write and a read: the registers hold the
code of what the transfer moved, and what is read is what was written, but for the
bits that turned (`Aged`).

*Heap.*  The invariant has three parts: `Holds` (each element that was pushed and
not popped is in one place of the array), `Room`, and, until a priority is
changed in place, `Order` (a father's is at most its son's).  Climbing and
sinking follow a path of places (`Passed`), which a recursive function of its length
gives; by induction on that, the elements on the path move by one and the order
holds again (`ClimbIs`, `SunkIs`).  The root is then the least, by the smallest index at
which it would not be (`RootLeast`).

*Recursive functions.*  `NvmeIod`, `Bf5xxNand` and `PriorityQueue` define loops as
recursive functions of a number.  `Recursion` proves that such a function exists
and satisfies its equation, and `Induction` what follows, both from the least
element of a set of naturals (`Smallest`).

*Types.*  What `TypeOK` says of a part beyond its invariant is carried beside it
(`SetupTyped`, `ProbeTyped`, `NetTyped`).  In `CharDevice` the count of openers may be
reset under those who are in, so that a close takes it below zero, though by no
more than have closed (`CharInv`).  `NvmeQueueProofs` and `PollDeviceProofs` are
instantiated in `ProgressProofs`; that their definitions are those of the
instances in `MCProgress` is `SameNvme` and `SameDevice`.

*I2C, mmap, scheduler.*  What each phase of the bus implies for the count
(`Phases`); the struct lives exactly as long as the file, and the page count is
the number of VMAs that hold the page (with the library's facts on cardinality);
PendSV is pending only for another task than the one that runs, and the entry of one
past the last is zero until that one runs.

*Model-checked only.*  Liveness (`IssuedBioLeaves`, `CongestedBioLeaves`,
`OperationReturns`, `AllInserted`, `CallsReturn`, `QueueRestarts`):
fairness and ENABLED are outside the prover.  Of safety, `SortsOrder`: that each of
six sorts, written as folds and recursive functions of sequences, returns the
ordered permutation of its input is an induction over data.

## 6. Where code and text part

Six disagreements are runs that expect a violation (section 3).  The models also
have these, which no run states because nothing promises otherwise or because the
property is limited to where they do not occur (they are the hazards with a note):

- `mtd_platform_bf5xx_nand.c:246` takes a code of zero for "no error", whatever
  was computed; a half whose code is zero is never corrected (`Legible`).
- `rtl8139_pciethernet.c:481`: the queue is stopped when `cur_tx` equals
  `dirty_tx`, of which one wraps; after the last descriptor it never is, and before
  it, it is when no frame is left, "out of free descriptors" or not.
  `free_irq()` gets the name, so the handler stays; `my_pci_remove()` uses the
  device it has freed.
- `nvme.c:561`: the ID of the data command is not tested, and its bio is lost.
- `usb.c:725`, `734`, `809`, `812`: results that are not looked at.  A host is added
  without URB, thread or buffer, and for a device that the log says is ignored.
- `rtl8150_usbethernet.c:401`: the frame of a failed submission is never freed.
- `rtl8150_usbethernet.c:491`: a late resubmission meets the URB of a second opening.
- `chardevice2.c` sets its counters after the device can be opened;
  `dev_close()` prints a count that another process may have changed.
- `mmap.c`: the reference count starts as whatever `kmalloc()` returned.
- `scheduler.c:48`: the tick counts to one task too many, whose stack pointer
  is not there; with two tasks the second tick ends in a fault.
- `i2c_driver.cpp:124`: a send of no bytes leaves the caller spinning.
- `priorityqueue_heap.c`: `pq_changepriority()` does not restore the order, so
  Prim's algorithm can be served an element that is not the least.
- `sorting.c:288`: `merge()` copies one element too many, the first time to the
  place before the array.

## 7. Not modelled

`PROJECT.json` names each part with the reason.  In short: of the drivers,
suspend and resume of the NAND and USB devices, the Reed-Solomon correction of
the CAFE controller (arithmetic in a field of 4096 elements), `chardevice.c` and
`mmap2_6ksupport.c`, which are simpler or older variants of what is modelled; of the
microcontrollers, register sequences without a second actor; lists, trees,
strings and the graph programs, which are sequential exercises; assembly,
demonstrations and prose, which have no state; the coursework, which is numeric.
Weak memory beyond the stated order, the correctness of the kernel's own
primitives, and hardware faults other than the ones named above are outside
every module.
