------------------------------ MODULE CharDevice ------------------------------
(***************************************************************************)
(* kernel/chardevice2.c: a buffer behind a character device, the count of  *)
(* its openers, and loading and unloading the module.  User memory is a    *)
(* sequence of values; a position counts them.                             *)
(***************************************************************************)
EXTENDS Integers, FiniteSetsExt

CONSTANTS
  Processes,
  DRIVER_BUFFER_SIZE,
  Counts,    \* the sizes that are asked for
  MaxCalls   \* bound: calls of a process after open

VARIABLES
  module,              \* how far dev_init() or dev_exit() is
  registered,          \* what is registered: the region, class, cdev, node
  device_buffer, currently_opened, times_opened,
  pc, position, calls, \* of each process
  told,                \* what its close printed, or -1
  source               \* its user buffer

charVars == <<module, registered, device_buffer, currently_opened, times_opened,
              pc, position, calls, told, source>>
procVars == <<pc, position, calls, told, source>>
bufVars  == <<device_buffer, currently_opened, times_opened>>

Init ==
  /\ module = "init" /\ registered = {}
  /\ device_buffer = [i \in 1 .. DRIVER_BUFFER_SIZE |-> 0]
  /\ currently_opened = 0 /\ times_opened = 0
  /\ pc = [p \in Processes |-> "closed"] /\ position = [p \in Processes |-> 0]
  /\ calls = [p \in Processes |-> 0] /\ told = [p \in Processes |-> -1]
  /\ source = [p \in Processes |-> [i \in 1 .. DRIVER_BUFFER_SIZE |-> i]]

-----------------------------------------------------------------------------
(* dev_init(), dev_exit() *)

\* A failure of cdev_add() returns with the region and the class registered
DevInit ==
  /\ module = "init"
  /\ \/ module' = "failed" /\ registered' \in {{}, {"region", "class"}}
     \/ module' = "created" /\ registered' = {"region", "class", "cdev", "node"}
  /\ UNCHANGED <<bufVars, procVars>>

\* The device can be opened since device_create(); then the count is set to 0
InitCount ==
  /\ module = "created" /\ module' = "live"
  /\ currently_opened' = 0
  /\ UNCHANGED <<registered, device_buffer, times_opened, procVars>>

\* The module is in use while a file is open.  One minor is unregistered of a
\* region of NUMB_MINORS, which matches none; and the class stays.
DevExit ==
  /\ module = "live" /\ \A p \in Processes : pc[p] \in {"closed", "done"}
  /\ module' = "exited" /\ registered' = {"region", "class"}
  /\ UNCHANGED <<bufVars, procVars>>

-----------------------------------------------------------------------------
(* dev_open(), dev_close() *)

DevOpen(p) ==
  /\ pc[p] = "closed" /\ "node" \in registered
  /\ times_opened' = times_opened + 1
  /\ currently_opened' = currently_opened + 1
  /\ pc' = [pc EXCEPT ![p] = "open"]
  /\ UNCHANGED <<module, registered, device_buffer, position, calls, told, source>>

\* "possible race condition between this and next line"
DevClose(p) ==
  /\ pc[p] = "open"
  /\ currently_opened' = currently_opened - 1
  /\ pc' = [pc EXCEPT ![p] = "closing"]
  /\ UNCHANGED <<module, registered, device_buffer, times_opened, position, calls, told, source>>

ClosePrints(p) ==
  /\ pc[p] = "closing"
  /\ told' = [told EXCEPT ![p] = currently_opened]
  /\ pc' = [pc EXCEPT ![p] = "done"]
  /\ UNCHANGED <<module, registered, bufVars, position, calls, source>>

-----------------------------------------------------------------------------
(* dev_read(), dev_write() *)

Clipped_whole(p, count) == Min({count, DRIVER_BUFFER_SIZE})   \* mutant: from anywhere

\* "try to read more than buffer size"
Clipped(p, count) == Min({count, DRIVER_BUFFER_SIZE - position[p]})

\* What is behind the buffer is somebody else's
Cell(i) == IF i \in DOMAIN device_buffer THEN device_buffer[i] ELSE -1

\* Some, all or none of it can be copied; without any the position stays
DevRead(p) ==
  /\ pc[p] = "open" /\ calls[p] < MaxCalls /\ position[p] < DRIVER_BUFFER_SIZE
  /\ \E count \in Counts : \E n \in 0 .. Clipped(p, count) :
       /\ position' = [position EXCEPT ![p] = @ + n]
       /\ source' = [source EXCEPT ![p] =
            [i \in 1 .. DRIVER_BUFFER_SIZE |-> IF i <= n THEN Cell(position[p] + i) ELSE @[i]]]
  /\ calls' = [calls EXCEPT ![p] = @ + 1]
  /\ UNCHANGED <<module, registered, bufVars, pc, told>>

\* From the user's buffer at the position to the start of the device's.  What
\* lies behind the user's buffer is 0.
DevWrite(p) ==
  /\ pc[p] = "open" /\ calls[p] < MaxCalls /\ position[p] <= DRIVER_BUFFER_SIZE
  /\ \E count \in Counts : \E n \in 0 .. Clipped(p, count) :
       /\ position' = [position EXCEPT ![p] = @ + n]
       /\ device_buffer' = [i \in 1 .. DRIVER_BUFFER_SIZE |->
            IF i > n THEN device_buffer[i]
            ELSE IF position[p] + i <= DRIVER_BUFFER_SIZE THEN source[p][position[p] + i] ELSE 0]
  /\ calls' = [calls EXCEPT ![p] = @ + 1]
  /\ UNCHANGED <<module, registered, currently_opened, times_opened, pc, told, source>>

-----------------------------------------------------------------------------

Next ==
  \/ DevInit \/ InitCount \/ DevExit
  \/ \E p \in Processes :
       DevOpen(p) \/ DevClose(p) \/ ClosePrints(p) \/ DevRead(p) \/ DevWrite(p)

Spec == Init /\ [][Next]_charVars

-----------------------------------------------------------------------------
(* Properties *)

Open == {p \in Processes : pc[p] = "open"}

\* Each variable has its type, and no position leaves the buffer.
TypeOK ==
  /\ registered \subseteq {"region", "class", "cdev", "node"}
  /\ position \in [Processes -> 0 .. DRIVER_BUFFER_SIZE]
  /\ \A p \in Processes : told[p] >= -1 - Cardinality(Processes)
  /\ times_opened \in 0 .. Cardinality(Processes)
=============================================================================
