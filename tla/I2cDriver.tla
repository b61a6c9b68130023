------------------------------ MODULE I2cDriver ------------------------------
(***************************************************************************)
(* lpc17xx_armcortexm3/i2c_driver.cpp: a master transfer on I2C bus 1.     *)
(* The caller spins on i2c1_busy while the interrupt handler moves the     *)
(* bytes; the bus controller and the slave are external.  The handler runs *)
(* above the caller on one CPU, so each interrupt is one action.           *)
(***************************************************************************)
EXTENDS Integers, Sequences

CONSTANTS
  MaxLength, \* bound: bytes of a transfer
  MaxCalls   \* bound: transfers

VARIABLES
  caller,    \* "idle", "i2c1_send", "i2c1_receive"; "trapped": the handler spins
  i2c1_busy, buf_len, num_transferred,
  AA,        \* the acknowledge bit of the controller
  bus,       \* external: what is under way on the bus
  moved,     \* the places of the buffer that went out or were filled, in order
  answer,    \* what the last call returned
  called     \* number of calls

i2cVars == <<caller, i2c1_busy, buf_len, num_transferred, AA, bus, moved, answer, called>>
callVars == <<caller, buf_len, answer, called>>

NoSlave == -1  \* 0xFFFFFFFF

Init ==
  /\ caller = "idle" /\ i2c1_busy = 0 /\ buf_len = 0 /\ num_transferred = 0
  /\ AA = FALSE /\ bus = "idle" /\ moved = <<>> /\ answer = 0 /\ called = 0

\* i2c1_send() and i2c1_receive() up to their loop: the start condition
Call(f) ==
  /\ caller = "idle" /\ i2c1_busy = 0 /\ called < MaxCalls
  /\ caller' = f /\ i2c1_busy' = 1
  /\ \E n \in 0 .. MaxLength : buf_len' = n
  /\ num_transferred' = 0 /\ moved' = <<>>
  /\ bus' = "start"
  /\ called' = called + 1
  /\ UNCHANGED <<AA, answer>>

i2c1_send    == Call("i2c1_send")
i2c1_receive == Call("i2c1_receive")

\* The loop ends
Return ==
  /\ caller \in {"i2c1_send", "i2c1_receive"} /\ i2c1_busy = 0
  /\ caller' = "idle" /\ answer' = num_transferred
  /\ UNCHANGED <<i2c1_busy, buf_len, num_transferred, AA, bus, moved, called>>

-----------------------------------------------------------------------------
(* I2C1_IRQHandler(), by status *)

\* 0x08: the address goes out
Started ==
  /\ bus = "start" /\ bus' = "address"
  /\ UNCHANGED <<i2c1_busy, num_transferred, AA, moved, callVars>>

SendByte(i) == bus' = "out" /\ moved' = Append(moved, i)

\* 0x18: a transfer of nothing is stopped, and the caller is not told
AckWrite ==
  /\ bus = "address" /\ caller = "i2c1_send"
  /\ IF num_transferred < buf_len THEN SendByte(0) ELSE bus' = "idle" /\ UNCHANGED moved
  /\ UNCHANGED <<i2c1_busy, num_transferred, AA, callVars>>

\* 0x20 and 0x48
NackAddress ==
  /\ bus = "address" /\ bus' = "idle"
  /\ num_transferred' = NoSlave /\ i2c1_busy' = 0
  /\ UNCHANGED <<AA, moved, callVars>>

Sent_early ==                               \* mutant: counted after the test
  /\ bus = "out"
  /\ num_transferred' = num_transferred + 1
  /\ IF num_transferred < buf_len
       THEN SendByte(num_transferred) /\ UNCHANGED i2c1_busy
       ELSE bus' = "idle" /\ i2c1_busy' = 0 /\ UNCHANGED moved
  /\ UNCHANGED <<AA, callVars>>

\* 0x28, and 0x30 with ignore_data_nack, as it is set
Sent ==
  /\ bus = "out"
  /\ num_transferred' = num_transferred + 1
  /\ IF num_transferred' < buf_len
       THEN SendByte(num_transferred') /\ UNCHANGED i2c1_busy
       ELSE bus' = "idle" /\ i2c1_busy' = 0 /\ UNCHANGED moved
  /\ UNCHANGED <<AA, callVars>>

Lost_waiting ==                             \* mutant: the caller is not told
  /\ bus \in {"address", "out", "in"} /\ bus' = "idle"
  /\ UNCHANGED <<i2c1_busy, num_transferred, AA, moved, callVars>>

\* 0x38
Lost ==
  /\ bus \in {"address", "out", "in"} /\ bus' = "idle"
  /\ i2c1_busy' = 0
  /\ UNCHANGED <<num_transferred, AA, moved, callVars>>

\* The next byte is acknowledged if it has a place.
Acknowledge(n) == IF n < buf_len THEN AA' = TRUE ELSE AA' = FALSE

\* 0x40: a byte is on its way, to be acknowledged if it has a place
AckRead ==
  /\ bus = "address" /\ caller = "i2c1_receive"
  /\ bus' = "in" /\ Acknowledge(num_transferred)
  /\ UNCHANGED <<i2c1_busy, num_transferred, moved, callVars>>

\* 0x50: and so is one more, with a place or without
Received ==
  /\ bus = "in" /\ AA
  /\ moved' = Append(moved, num_transferred)
  /\ num_transferred' = num_transferred + 1
  /\ Acknowledge(num_transferred')
  /\ UNCHANGED <<i2c1_busy, bus, callVars>>

\* 0x58: the byte without a place is left in the register
ReceivedLast ==
  /\ bus = "in" /\ ~AA
  /\ bus' = "idle" /\ i2c1_busy' = 0
  /\ UNCHANGED <<num_transferred, AA, moved, callVars>>

\* Any other status, 0x00 for a bus error: "trap error"
Trap ==
  /\ bus # "idle" /\ caller' = "trapped" /\ bus' = "idle"
  /\ UNCHANGED <<i2c1_busy, buf_len, num_transferred, AA, moved, answer, called>>

I2C1_IRQHandler ==
  Started \/ AckWrite \/ NackAddress \/ Sent \/ Lost \/ AckRead \/ Received \/ ReceivedLast \/ Trap

-----------------------------------------------------------------------------

Next == i2c1_send \/ i2c1_receive \/ Return \/ I2C1_IRQHandler

Spec == Init /\ [][Next]_i2cVars

\* The controller interrupts while something is under way, and the caller runs.
Fairness == WF_i2cVars(I2C1_IRQHandler) /\ WF_i2cVars(Return)

FairSpec == Spec /\ Fairness

-----------------------------------------------------------------------------
(* Properties *)

\* The values each variable can hold.
TypeOK ==
  /\ caller \in {"idle", "i2c1_send", "i2c1_receive", "trapped"}
  /\ i2c1_busy \in 0 .. 1 /\ buf_len \in 0 .. MaxLength
  /\ num_transferred \in NoSlave .. MaxLength /\ AA \in BOOLEAN
  /\ bus \in {"idle", "start", "address", "out", "in"}
  /\ moved \in Seq(Nat) /\ answer \in NoSlave .. MaxLength

\* I2C1_IRQHandler(): the buffer is passed through from its start, place after
\* place and never beyond its end, and the count a call returns is that of the
\* places passed, but for the one under way when arbitration is lost.
BufferInStep ==
  /\ moved = [i \in 1 .. Len(moved) |-> i - 1] /\ Len(moved) <= buf_len
  /\ \/ num_transferred \in {Len(moved), NoSlave}
     \/ caller # "i2c1_receive" /\ num_transferred = Len(moved) - 1

\* A transfer ends, with or without success; but for a send of no bytes, whose
\* loop has nobody left to end it, and a handler that traps.
TransferReturns ==
  (caller = "i2c1_receive" \/ (caller = "i2c1_send" /\ buf_len > 0)) ~> caller \in {"idle", "trapped"}
=============================================================================
