--------------------------- MODULE ProgressProofs ---------------------------
(***************************************************************************)
(* The monitor buffer, the USB storage thread, the RTL8150 driver and the  *)
(* I2C driver among the systems of MCProgress: an inductive invariant of   *)
(* each, for any values of its constants, and what it gives of the         *)
(* specification that runs one of the systems while the others stay as     *)
(* they are.  The NVMe queue and the blocking device have modules of their *)
(* own, of which only the types are taken here.                            *)
(***************************************************************************)
EXTENDS MCProgress, Sequences, TLAPS

-----------------------------------------------------------------------------
(* Both programs of the monitor buffer, for any threads, size and rounds *)

Places == {"run", "wait", "woken", "signal", "done"}

Taken == {x \in Items : taken[x] = 1}

\* A thread that is not done has a round to go, and only condv2.c unlocks
\* before it signals.
Rounds ==
  /\ \A t \in Threads : pc[t] # "done" => round[t] \in 1 .. Loops
  /\ \A t \in Threads : pc[t] = "signal" => program = "condv2"

MonitorInv == TypeOK /\ Rounds /\ NothingLostOrRepeated

\* A signal moves the thread itself, and at most wakes one that waits.
LEMMA SignalMoves ==
  ASSUME TypeOK, NEW t \in Threads, pc[t] # "wait", NEW to \in Places, NEW sends, NEW S \in SUBSET Threads,
         Signal(t, to, sends, S)
  PROVE  /\ pc' \in [Threads -> Places] /\ pc'[t] = to
         /\ \A u \in Threads \ {t} : pc'[u] = pc[u] \/ (pc[u] = "wait" /\ pc'[u] = "woken")
<1>1. CASE \E w \in Waiting(S) : pc' = [pc EXCEPT ![t] = to, ![w] = "woken"]
  <2>1. PICK w \in Waiting(S) : pc' = [pc EXCEPT ![t] = to, ![w] = "woken"]  BY <1>1
  <2>2. w \in Threads /\ pc[w] = "wait" /\ w # t  BY DEF Waiting
  <2> QED  BY <2>1, <2>2 DEF TypeOK, Places
<1>2. CASE pc' = [pc EXCEPT ![t] = to]
  BY <1>2 DEF TypeOK, Places
<1> QED  BY <1>1, <1>2 DEF Signal

\* What is made is a matter of the rounds and of the threads about to signal.
LEMMA MadeKept ==
  ASSUME UNCHANGED round, \A p \in Producers : pc'[p] = "signal" <=> pc[p] = "signal"
  PROVE  Made' = Made
  BY DEF Made, Items

LEMMA StoredMade ==
  ASSUME NothingLostOrRepeated
  PROVE  Stored \subseteq Items /\ Stored \cap Taken = {} /\ Stored \cup Taken = Made
  BY DEF NothingLostOrRepeated, Taken, Made

\* A section that only waits, or a wake-up.
LEMMA Paused ==
  ASSUME MonitorInv, NEW t \in Threads, NEW to \in {"wait", "woken"}, pc[t] \notin {"signal", "done"},
         pc' = [pc EXCEPT ![t] = to], UNCHANGED <<program, buffer, buffer_index, round, taken>>
  PROVE  MonitorInv'
<1>1. pc' \in [Threads -> Places] /\ \A u \in Threads : pc'[u] = pc[u] \/ (u = t /\ pc'[u] = to)
  BY DEF MonitorInv, TypeOK, Places
<1>2. Made' = Made  BY <1>1, MadeKept DEF Threads
<1>3. Stored' = Stored  BY DEF Stored
<1>4. TypeOK' /\ Rounds'  BY <1>1 DEF MonitorInv, TypeOK, Rounds, Places
<1>5. NothingLostOrRepeated'  BY <1>2, <1>3 DEF MonitorInv, NothingLostOrRepeated
<1> QED  BY <1>4, <1>5 DEF MonitorInv

\* insertbuffer() of a value that was not made keeps each value once.
LEMMA Inserted ==
  ASSUME MonitorInv, NEW x \in Items, x \notin Made, ~isfull, insertbuffer(x), Made' = Made \cup {x},
         UNCHANGED taken
  PROVE  /\ buffer' \in [0 .. (SIZE - 1) -> Items \cup {None}] /\ buffer_index' \in 0 .. SIZE
         /\ NothingLostOrRepeated'
<1> USE BufferAssumption
<1>1. /\ buffer_index \in 0 .. (SIZE - 1) /\ buffer' = [buffer EXCEPT ![buffer_index] = x]
      /\ buffer_index' = buffer_index + 1 /\ buffer \in [0 .. (SIZE - 1) -> Items \cup {None}]
  BY DEF MonitorInv, TypeOK, isfull, insertbuffer
<1>2. buffer' \in [0 .. (SIZE - 1) -> Items \cup {None}] /\ buffer_index' \in 0 .. SIZE
  BY <1>1
<1>3. \A k \in 0 .. (buffer_index - 1) : buffer'[k] = buffer[k] /\ buffer[k] \in Stored
  BY <1>1 DEF Stored
<1>4. buffer'[buffer_index] = x  BY <1>1
<1>5. Stored' = Stored \cup {x}
  BY <1>1, <1>3, <1>4 DEF Stored
<1>6. x \notin Stored /\ x \notin Taken
  BY StoredMade DEF MonitorInv
<1>7. \A j, k \in 0 .. (buffer_index' - 1) : buffer'[j] = buffer'[k] => j = k
  BY <1>1, <1>3, <1>4, <1>6 DEF MonitorInv, NothingLostOrRepeated
<1>8. {y \in Items : taken'[y] = 1} = Taken  BY DEF Taken
<1>9. Taken \cap Stored' = {} /\ Taken \cup Stored' = Made'
  BY <1>5, <1>6, StoredMade DEF MonitorInv
<1> QED  BY <1>2, <1>7, <1>8, <1>9 DEF MonitorInv, NothingLostOrRepeated

\* dequeuebuffer() moves the last value from the stored to the taken ones.
LEMMA Dequeued ==
  ASSUME MonitorInv, ~isempty, dequeuebuffer, Made' = Made
  PROVE  /\ buffer_index' \in 0 .. SIZE /\ taken' \in [Items -> Nat] /\ NothingLostOrRepeated'
<1> USE BufferAssumption
<1> DEFINE y == buffer[buffer_index - 1]
<1>1. /\ buffer_index \in 1 .. SIZE /\ buffer_index' = buffer_index - 1 /\ buffer' = buffer
      /\ taken' = [taken EXCEPT ![y] = @ + 1] /\ taken \in [Items -> Nat]
  BY DEF MonitorInv, TypeOK, isempty, dequeuebuffer
<1>2. y \in Stored  BY <1>1 DEF Stored
<1>3. y \in Items /\ y \notin Taken /\ taken[y] = 0
  <2>1. y \in Items /\ y \notin Taken  BY <1>2, StoredMade DEF MonitorInv
  <2>2. taken[y] \in Nat /\ taken[y] <= 1  BY <1>1, <2>1 DEF MonitorInv, NothingLostOrRepeated
  <2> QED  BY <2>1, <2>2 DEF Taken
<1> HIDE DEF y
<1>4. /\ taken' \in [Items -> Nat] /\ taken'[y] = 1
      /\ \A x \in Items \ {y} : taken'[x] = taken[x]
  BY <1>1, <1>3
<1>5. {x \in Items : taken'[x] = 1} = Taken \cup {y}
  BY <1>3, <1>4 DEF Taken
<1>6. Stored' = Stored \ {y}
  <2>1. \A k \in 0 .. (buffer_index - 1) : buffer[k] = y => k = buffer_index - 1
    BY <1>1 DEF y, MonitorInv, NothingLostOrRepeated
  <2>2. Stored' = {buffer[k] : k \in 0 .. (buffer_index - 2)}
    BY <1>1 DEF Stored
  <2>3. \A k \in 0 .. (buffer_index - 2) : buffer[k] # y /\ buffer[k] \in Stored
    BY <1>1, <2>1 DEF Stored
  <2>4. \A k \in 0 .. (buffer_index - 1) : buffer[k] # y => k \in 0 .. (buffer_index - 2)
    BY <1>1 DEF y
  <2> QED  BY <2>2, <2>3, <2>4 DEF Stored
<1>7. \A x \in Items : taken'[x] <= 1
  BY <1>4 DEF MonitorInv, NothingLostOrRepeated
<1>8. \A j, k \in 0 .. (buffer_index' - 1) : buffer'[j] = buffer'[k] => j = k
  BY <1>1 DEF MonitorInv, NothingLostOrRepeated
<1>9. (Taken \cup {y}) \cap Stored' = {} /\ (Taken \cup {y}) \cup Stored' = Made'
  BY <1>2, <1>6, StoredMade DEF MonitorInv
<1>10. buffer_index' \in 0 .. SIZE  BY <1>1
<1> QED  BY <1>4, <1>5, <1>7, <1>8, <1>9, <1>10 DEF NothingLostOrRepeated

-----------------------------------------------------------------------------

LEMMA InitMonitor == Init => MonitorInv
<1> SUFFICES ASSUME Init PROVE MonitorInv  OBVIOUS
<1> USE BufferAssumption DEF Init
<1>1. TypeOK  BY DEF TypeOK
<1>2. Rounds  BY DEF Rounds
<1>3. Made = {}  BY DEF Made, Items, Threads
<1>4. Stored = {}  BY DEF Stored
<1>5. Taken = {} /\ \A x \in Items : taken[x] <= 1  BY DEF Taken
<1>6. \A j, k \in 0 .. (buffer_index - 1) : buffer[j] = buffer[k] => j = k  OBVIOUS
<1> QED  BY <1>1, <1>2, <1>3, <1>4, <1>5, <1>6 DEF MonitorInv, NothingLostOrRepeated, Taken

\* After its section a thread has done its round, or is about to signal.
LEMMA RoundOver ==
  ASSUME MonitorInv, NEW t \in Threads, pc[t] \notin {"wait", "done"}, NEW sends, NEW S \in SUBSET Threads,
         Signal(t, After(t), sends, S), NextRound(t), UNCHANGED program
  PROVE  /\ pc' \in [Threads -> Places] /\ round' \in [Threads -> 1 .. (Loops + 1)] /\ Rounds'
         /\ pc'[t] \in {"run", "done"} /\ round'[t] = round[t] + 1
         /\ \A u \in Threads \ {t} : round'[u] = round[u] /\ (pc'[u] = "signal" <=> pc[u] = "signal")
<1> USE BufferAssumption
<1>1. After(t) \in {"run", "done"} /\ After(t) \in Places  BY DEF After, Places
<1>2. /\ pc' \in [Threads -> Places] /\ pc'[t] = After(t)
      /\ \A u \in Threads \ {t} : pc'[u] = pc[u] \/ (pc[u] = "wait" /\ pc'[u] = "woken")
  BY <1>1, SignalMoves DEF MonitorInv
<1>3. round[t] \in 1 .. Loops /\ round \in [Threads -> 1 .. (Loops + 1)]
  BY DEF MonitorInv, Rounds, TypeOK
<1>4. /\ round' \in [Threads -> 1 .. (Loops + 1)] /\ round'[t] = round[t] + 1
      /\ \A u \in Threads \ {t} : round'[u] = round[u]
  BY <1>3 DEF NextRound
<1>5. Rounds'
  BY <1>1, <1>2, <1>3, <1>4 DEF After, Rounds, MonitorInv
<1> QED  BY <1>1, <1>2, <1>4, <1>5

LEMMA NextMonitor == MonitorInv /\ [Next]_vars => MonitorInv'
<1> SUFFICES ASSUME MonitorInv, [Next]_vars PROVE MonitorInv'  OBVIOUS
<1> USE BufferAssumption
<1>0. Producers \subseteq Threads /\ Consumers \subseteq Threads /\ Producers \cap Consumers = {}
  BY DEF Threads
<1>1. ASSUME NEW t \in Threads, Locking(t), Wait(t), UNCHANGED program PROVE MonitorInv'
  BY <1>1, Paused DEF Wait, Locking
<1>2. ASSUME NEW t \in Threads, Spurious(t) PROVE MonitorInv'
  BY <1>2, Paused DEF Spurious
<1>3. ASSUME NEW p \in Producers, Locking(p), ~isfull, insertbuffer(<<p, round[p]>>), UNCHANGED <<program, taken>>,
             pc' \in [Threads -> Places], round' \in [Threads -> 1 .. (Loops + 1)], Rounds',
             \/ round'[p] = round[p] + 1 /\ pc'[p] # "signal"
             \/ round'[p] = round[p] /\ pc'[p] = "signal",
             \A u \in Threads \ {p} : round'[u] = round[u] /\ (pc'[u] = "signal" <=> pc[u] = "signal")
      PROVE  MonitorInv'
  <2> DEFINE x == <<p, round[p]>>
  <2>1. round[p] \in 1 .. Loops /\ pc[p] # "signal"
    BY <1>0, <1>3 DEF MonitorInv, Rounds, Locking
  <2>2. x \in Items /\ x \notin Made
    BY <2>1 DEF Items, Made
  <2>3. Made' = Made \cup {x}
    <3>1. ASSUME NEW y \in Items PROVE y \in Made' <=> y \in Made \/ y = x
      <4>1. y[1] \in Producers /\ y[2] \in 1 .. Loops /\ y = <<y[1], y[2]>>
        BY DEF Items
      <4>2. CASE y[1] = p  BY <1>0, <1>3, <2>1, <4>1, <4>2 DEF Made
      <4>3. CASE y[1] # p
        <5>1. round'[y[1]] = round[y[1]] /\ (pc'[y[1]] = "signal" <=> pc[y[1]] = "signal")
          BY <1>0, <1>3, <4>1, <4>3
        <5> QED  BY <4>3, <5>1 DEF Made
      <4> QED  BY <4>2, <4>3
    <3> QED  BY <2>2, <3>1 DEF Made
  <2> HIDE DEF x
  <2>4. /\ buffer' \in [0 .. (SIZE - 1) -> Items \cup {None}] /\ buffer_index' \in 0 .. SIZE
        /\ NothingLostOrRepeated'
    BY <1>3, <2>2, <2>3, Inserted DEF x
  <2> QED  BY <1>3, <2>4 DEF MonitorInv, TypeOK, Places
<1>4. ASSUME NEW c \in Consumers, Locking(c), ~isempty, dequeuebuffer, UNCHANGED program,
             pc' \in [Threads -> Places], round' \in [Threads -> 1 .. (Loops + 1)], Rounds',
             \A u \in Threads \ {c} : round'[u] = round[u] /\ (pc'[u] = "signal" <=> pc[u] = "signal")
      PROVE  MonitorInv'
  <2>1. Made' = Made
    <3>1. \A u \in Producers : round'[u] = round[u] /\ (pc'[u] = "signal" <=> pc[u] = "signal")
      BY <1>0, <1>4
    <3> QED  BY <3>1 DEF Made, Items
  <2>2. buffer_index' \in 0 .. SIZE /\ taken' \in [Items -> Nat] /\ NothingLostOrRepeated'
    BY <1>4, <2>1, Dequeued
  <2> QED  BY <1>4, <2>2 DEF MonitorInv, TypeOK, Places, dequeuebuffer
<1>5. ASSUME NEW p \in Producers, Produce(p), UNCHANGED program PROVE MonitorInv'
  <2>1. CASE isfull  BY <1>0, <1>1, <1>5, <2>1 DEF Produce
  <2>2. CASE ~isfull
    <3>1. /\ Locking(p) /\ pc[p] \notin {"wait", "done"} /\ insertbuffer(<<p, round[p]>>)
          /\ Signal(p, After(p), isempty, Consumers) /\ NextRound(p) /\ UNCHANGED taken
      BY <1>5, <2>2 DEF Produce, Locking
    <3> QED  BY <1>0, <1>3, <1>5, <2>2, <3>1, RoundOver
  <2> QED  BY <2>1, <2>2
<1>6. ASSUME NEW p \in Producers, Produce2(p), UNCHANGED program PROVE MonitorInv'
  <2>1. CASE isfull  BY <1>0, <1>1, <1>6, <2>1 DEF Produce2
  <2>2. CASE ~isfull
    <3>1. /\ Locking(p) /\ insertbuffer(<<p, round[p]>>) /\ program = "condv2"
          /\ pc' = [pc EXCEPT ![p] = "signal"] /\ UNCHANGED <<round, taken>>
      BY <1>6, <2>2 DEF Produce2
    <3>2. /\ pc' \in [Threads -> Places] /\ pc'[p] = "signal"
          /\ \A u \in Threads \ {p} : pc'[u] = pc[u]
      BY <1>0, <3>1 DEF MonitorInv, TypeOK, Places
    <3>3. Rounds' /\ round' \in [Threads -> 1 .. (Loops + 1)]
      BY <1>0, <1>6, <3>1, <3>2 DEF MonitorInv, TypeOK, Rounds, Locking
    <3> QED  BY <1>0, <1>3, <1>6, <2>2, <3>1, <3>2, <3>3
  <2> QED  BY <2>1, <2>2
<1>7. ASSUME NEW c \in Consumers, Consume(c), UNCHANGED program PROVE MonitorInv'
  <2>1. CASE isempty  BY <1>0, <1>1, <1>7, <2>1 DEF Consume
  <2>2. CASE ~isempty
    <3>1. /\ Locking(c) /\ pc[c] \notin {"wait", "done"} /\ dequeuebuffer
          /\ Signal(c, After(c), isfull, Producers) /\ NextRound(c)
      BY <1>7, <2>2 DEF Consume, Locking
    <3> QED  BY <1>0, <1>4, <1>7, <2>2, <3>1, RoundOver
  <2> QED  BY <2>1, <2>2
<1>8. ASSUME NEW c \in Consumers, Consume2(c), UNCHANGED program PROVE MonitorInv'
  <2>1. CASE isempty  BY <1>0, <1>1, <1>8, <2>1 DEF Consume2
  <2>2. CASE ~isempty
    <3>1. /\ Locking(c) /\ dequeuebuffer /\ program = "condv2"
          /\ pc' = [pc EXCEPT ![c] = "signal"] /\ UNCHANGED round
      BY <1>8, <2>2 DEF Consume2
    <3>2. /\ pc' \in [Threads -> Places] /\ pc'[c] = "signal"
          /\ \A u \in Threads \ {c} : pc'[u] = pc[u]
      BY <1>0, <3>1 DEF MonitorInv, TypeOK, Places
    <3>3. Rounds' /\ round' \in [Threads -> 1 .. (Loops + 1)]
      BY <1>0, <1>8, <3>1, <3>2 DEF MonitorInv, TypeOK, Rounds, Locking
    <3> QED  BY <1>0, <1>4, <1>8, <2>2, <3>1, <3>2, <3>3
  <2> QED  BY <2>1, <2>2
\* The round of a producer that signals was counted with its insertion.
<1>9. ASSUME NEW t \in Threads, SignalLater(t), UNCHANGED program PROVE MonitorInv'
  <2>1. /\ pc[t] = "signal" /\ NextRound(t) /\ UNCHANGED <<buffer, buffer_index, taken>>
        /\ Signal(t, After(t), TRUE, IF t \in Producers THEN Consumers ELSE Producers)
    BY <1>9 DEF SignalLater
  <2>2. /\ pc' \in [Threads -> Places] /\ round' \in [Threads -> 1 .. (Loops + 1)] /\ Rounds'
        /\ pc'[t] \in {"run", "done"} /\ round'[t] = round[t] + 1
        /\ \A u \in Threads \ {t} : round'[u] = round[u] /\ (pc'[u] = "signal" <=> pc[u] = "signal")
    BY <1>0, <1>9, <2>1, RoundOver
  <2>3. Made' = Made
    <3>1. ASSUME NEW y \in Items PROVE y \in Made' <=> y \in Made
      <4>1. y[1] \in Threads /\ y[2] \in 1 .. Loops  BY <1>0 DEF Items
      <4>2. CASE y[1] = t
        <5>1. round[t] \in 1 .. Loops  BY <2>1 DEF MonitorInv, Rounds
        <5> QED  BY <2>1, <2>2, <4>1, <4>2, <5>1 DEF Made
      <4>3. CASE y[1] # t
        <5>1. round'[y[1]] = round[y[1]] /\ (pc'[y[1]] = "signal" <=> pc[y[1]] = "signal")
          BY <2>2, <4>1, <4>3
        <5> QED  BY <5>1 DEF Made
      <4> QED  BY <4>2, <4>3
    <3> QED  BY <3>1 DEF Made
  <2>4. NothingLostOrRepeated'
    BY <2>1, <2>3 DEF MonitorInv, NothingLostOrRepeated, Stored
  <2> QED  BY <1>9, <2>1, <2>2, <2>4 DEF MonitorInv, TypeOK, Places
<1>10. CASE UNCHANGED vars
  BY <1>10 DEF vars, MonitorInv, TypeOK, Rounds, NothingLostOrRepeated, Made, Stored
<1> QED
  BY <1>2, <1>5, <1>6, <1>7, <1>8, <1>9, <1>10 DEF Next, Run

LEMMA MonitorCorrect == Spec => [](TypeOK /\ NothingLostOrRepeated)
<1>1. Init => MonitorInv  BY InitMonitor
<1>2. MonitorInv /\ [Next]_vars => MonitorInv'  BY NextMonitor
<1>3. MonitorInv => TypeOK /\ NothingLostOrRepeated  BY DEF MonitorInv
<1> QED  BY <1>1, <1>2, <1>3, PTL DEF Spec

-----------------------------------------------------------------------------
(* The control thread of a USB storage device and the aborts of the SCSI layer *)

Disconnecting == "DISCONNECTING" \in dflags

\* The thread works on a command that is there, and a command is there from
\* queuecommand() to EndCommand; the completion is raised for a sleeping thread.
Handed ==
  /\ ctl \in {"execute", "transfer", "finish"} => srb # None
  /\ srb # None => fate[srb] = "issued"
  /\ ctl # "sleep" => cmnd_ready = 0
  /\ srb = None /\ ~Disconnecting => ctl = "sleep" /\ cmnd_ready = 0
  /\ Disconnecting => srb = None

\* An abort is over before the next command comes, a command is answered with
\* DID_ABORT only when somebody aborts it, and what is issued is not answered.
Aborted ==
  /\ notify = 1 => srb = None
  /\ ctl = "finish" /\ result = "DID_ABORT" => "TIMED_OUT" \in dflags
  /\ \A c \in Commands : fate[c] \in {"new", "issued"} => done[c] = 0
  /\ eh # None => fate[eh] # "new"

\* Who gives back the reference of probe2.
Scanned ==
  /\ usb_scan \in {"queued", "lun", "host"} => usage = 1 /\ "SCAN_PENDING" \in dflags
  /\ usb_scan \in {"clear", "ended", "cancelled"} => usage = 0
  /\ usb_scan = "ended" => "SCAN_PENDING" \notin dflags
  /\ Disconnecting => usb_scan \in {"ended", "cancelled"}

UsbInv == Usb!TypeOK /\ Handed /\ Aborted /\ Scanned /\ Usb!AnsweredOnce /\ Usb!AbortsAreMatched

UsbConstants == None \notin Commands

LEMMA UsbInit == ASSUME UsbConstants, Usb!Init PROVE UsbInv
  BY DEF UsbConstants, Usb!Init, UsbInv, Usb!TypeOK, Handed, Aborted, Scanned, Disconnecting, Usb!AnsweredOnce, Usb!AbortsAreMatched

LEMMA UsbNext == ASSUME UsbConstants, UsbInv, [Usb!Next]_Usb!usbVars PROVE UsbInv'
<1> USE DEF UsbConstants, UsbInv, Usb!TypeOK, Handed, Aborted, Scanned, Disconnecting, Usb!AnsweredOnce, Usb!AbortsAreMatched
<1>1. CASE Usb!Awake  BY <1>1 DEF Usb!Awake, Usb!ctlOnly
<1>2. CASE Usb!LockDev  BY <1>2 DEF Usb!LockDev, Usb!ctlOnly
<1>3. CASE Usb!Look
  <2>1. CASE srb = None  BY <1>3, <2>1 DEF Usb!Look, Usb!ctlOnly
  <2>2. CASE srb # None /\ "TIMED_OUT" \in dflags
    <3>1. /\ ctl = "look" /\ srb = eh /\ notify = 0 /\ ~Disconnecting /\ cmnd_ready = 0
          /\ fate[srb] = "issued"
      BY <1>3, <2>2 DEF Usb!Look
    <3>2. /\ notify' = 1 /\ dflags' = dflags \ {"TIMED_OUT", "ABORTING"}
          /\ srb' = None /\ dev_mutex' = "free" /\ ctl' = "sleep" /\ result' = "DID_ABORT"
          /\ UNCHANGED <<cmnd_ready, done, fate, usb_scan, usage, eh>>
      BY <1>3, <2>2, <3>1 DEF Usb!Look, Usb!ctlOnly, Usb!EndCommand
    <3>3. Usb!TypeOK' /\ Scanned'  BY <3>1, <3>2
    <3>4. Handed' /\ Aborted'  BY <3>1, <3>2
    <3>5. Usb!AnsweredOnce'  BY <2>2, <3>1, <3>2
    <3>6. Usb!AbortsAreMatched'  BY <2>2, <3>1, <3>2
    <3> QED  BY <3>3, <3>4, <3>5, <3>6
  <2>3. CASE srb # None /\ "TIMED_OUT" \notin dflags
    <3>1. /\ ctl = "look" /\ ctl' = "execute"
          /\ UNCHANGED <<srb, result, notify, dflags, dev_mutex, cmnd_ready, done, fate, usb_scan, usage, eh>>
      BY <1>3, <2>3 DEF Usb!Look, Usb!ctlOnly
    <3> QED  BY <2>3, <3>1
  <2> QED  BY <2>1, <2>2, <2>3
<1>4. CASE Usb!Execute  BY <1>4 DEF Usb!Execute, Usb!ctlOnly
<1>5. CASE Usb!Transfer  BY <1>5 DEF Usb!Transfer, Usb!ctlOnly
<1>6. CASE Usb!Finish
  <2>1. /\ ctl = "finish" /\ srb \in Commands /\ ~Disconnecting /\ cmnd_ready = 0
        /\ fate[srb] = "issued" /\ done[srb] = 0 /\ notify = 0
    BY <1>6 DEF Usb!Finish
  <2>2. /\ srb' = None /\ dev_mutex' = "free" /\ ctl' = "sleep"
        /\ UNCHANGED <<result, cmnd_ready, usb_scan, usage, eh>>
    BY <1>6 DEF Usb!Finish, Usb!EndCommand, Usb!ctlOnly
  <2>3. \/ /\ "TIMED_OUT" \in dflags /\ eh = srb /\ notify' = 1
           /\ dflags' = dflags \ {"TIMED_OUT", "ABORTING"}
        \/ "TIMED_OUT" \notin dflags /\ eh = None /\ UNCHANGED <<notify, dflags>>
    BY <1>6, <2>1 DEF Usb!Finish, Usb!EndCommand
  <2>4. \/ /\ result = "DID_ABORT" /\ "TIMED_OUT" \in dflags /\ UNCHANGED <<done, fate>>
        \/ /\ done' = [done EXCEPT ![srb] = 1] /\ fate' = [fate EXCEPT ![srb] = "answered"]
    BY <1>6, <2>1 DEF Usb!Finish
  <2>5. /\ done' \in [Commands -> Nat]
        /\ fate' \in [Commands -> {"new", "issued", "answered", "aborted"}]
    BY <2>1, <2>4
  <2>6. Usb!TypeOK'
    <3>1. notify' \in 0 .. 1 /\ ~Disconnecting'  BY <2>1, <2>3
    <3>2. dflags' \subseteq {"TIMED_OUT", "ABORTING", "DISCONNECTING", "SCAN_PENDING"}  BY <2>3
    <3> QED  BY <2>2, <2>5, <3>1, <3>2
  <2>7. Scanned' /\ Handed'  BY <2>1, <2>2, <2>3
  <2>8. Aborted'  BY <2>1, <2>2, <2>3, <2>4
  <2>9. Usb!AnsweredOnce'  BY <2>1, <2>2, <2>3, <2>4
  <2>10. Usb!AbortsAreMatched'  BY <2>1, <2>2, <2>3
  <2> QED  BY <2>6, <2>7, <2>8, <2>9, <2>10
<1>7. CASE Usb!Stop  BY <1>7 DEF Usb!Stop, Usb!ctlOnly
<1>8. CASE Usb!ScanStart  BY <1>8 DEF Usb!ScanStart, Usb!others
<1>9. CASE Usb!ScanLun  BY <1>9 DEF Usb!ScanLun, Usb!others
<1>10. CASE Usb!ScanPut  BY <1>10 DEF Usb!ScanPut, Usb!others
<1>11. CASE Usb!ScanEnd  BY <1>11 DEF Usb!ScanEnd, Usb!others
<1>12. CASE Usb!PreReset \/ Usb!PostReset
  <2>1. dev_mutex' \in {"free", "reset"} /\ UNCHANGED <<dflags, usb_scan, usage, Usb!others>>
    BY <1>12 DEF Usb!PreReset, Usb!PostReset
  <2> QED  BY <2>1 DEF Usb!others
<1>13. ASSUME NEW c \in Commands, Usb!Queue(c) PROVE UsbInv'
  BY <1>13 DEF Usb!Queue, Usb!Outstanding
<1>14. ASSUME NEW c \in Commands, Usb!Abort(c) PROVE UsbInv'
  BY <1>14 DEF Usb!Abort
<1>15. CASE Usb!AbortReturn  BY <1>15 DEF Usb!AbortReturn
<1>16. CASE Usb!Disconnect  BY <1>16 DEF Usb!Disconnect, Usb!Outstanding
<1>17. CASE UNCHANGED Usb!usbVars  BY <1>17 DEF Usb!usbVars
<1> QED
  BY <1>1, <1>2, <1>3, <1>4, <1>5, <1>6, <1>7, <1>8, <1>9, <1>10, <1>11, <1>12,
     <1>13, <1>14, <1>15, <1>16, <1>17
  DEF Usb!Next, Usb!ControlThread, Usb!Scan, Usb!ScsiLayer

\* usb_stor_control_thread(): for any commands, in whatever order their answers,
\* timeouts, aborts, the resets and the disconnection come, none is answered
\* twice and none is dropped without an answer or an aborter that is told.
LEMMA UsbAnsweredOnce == ASSUME UsbConstants PROVE Usb!Spec => []Usb!AnsweredOnce
<1>1. Usb!Init => UsbInv  BY UsbInit
<1>2. UsbInv /\ [Usb!Next]_Usb!usbVars => UsbInv'  BY UsbNext
<1>3. UsbInv => Usb!AnsweredOnce  BY DEF UsbInv
<1> QED  BY <1>1, <1>2, <1>3, PTL DEF Usb!Spec

\* usb_stor_control_thread(): TIMED_OUT and ABORTING belong to the command in
\* hand and to the aborter that waits; notify is raised once for each abort.
LEMMA UsbAbortsMatched == ASSUME UsbConstants PROVE Usb!Spec => []Usb!AbortsAreMatched
<1>1. Usb!Init => UsbInv  BY UsbInit
<1>2. UsbInv /\ [Usb!Next]_Usb!usbVars => UsbInv'  BY UsbNext
<1>3. UsbInv => Usb!AbortsAreMatched  BY DEF UsbInv
<1> QED  BY <1>1, <1>2, <1>3, PTL DEF Usb!Spec

-----------------------------------------------------------------------------
(* Who owns the socket buffers of the RTL8150 driver *)

NetTypes ==
  /\ opens \in Nat
  /\ tx_skb \in Tx \cup {NULL} /\ tx_urb \in BOOLEAN
  /\ tx_fate \in [Tx -> {"core", "driver", "failed", "freed", "freed twice"}]
  /\ rx_skb \in Rx \cup {NULL} /\ rx_urb \in Rx \cup {NULL}
  /\ rx_fate \in [Rx -> {"pool", "none", "driver", "stack"}]
  /\ rx_fail \in BOOLEAN /\ tasklet \in BOOLEAN

\* Nothing is under way before rtl8150_open().
NotOpened ==
  opens = 0 =>
    /\ ~up /\ ~tx_urb /\ rx_skb = NULL /\ rx_urb = NULL /\ ~rx_fail /\ ~tasklet
    /\ \A s \in Rx : rx_fate[s] # "driver"

\* What write_bulk_callback() frees was not freed; in the first opening it is
\* what the URB sends, for the queue is stopped as long as there is a URB.
TxOwned ==
  /\ tx_urb => tx_skb \in Tx /\ tx_fate[tx_skb] \in {"driver", "failed"}
  /\ opens <= 1 /\ tx_urb => queue = "stopped"

\* In the first opening the URB fills rx_skb, and a buffer whose submission
\* failed stays the driver's until the tasklet submits it; the tasklet takes a
\* buffer of its own only when rx_skb has gone to the stack.
RxOwned ==
  opens <= 1 =>
    /\ rx_urb # NULL => rx_urb = rx_skb /\ ~rx_fail
    /\ rx_fail => rx_skb \in Rx /\ rx_fate[rx_skb] = "driver"
    /\ tasklet => rx_urb = NULL /\ rx_skb \in Rx
    /\ tasklet /\ ~rx_fail => rx_fate[rx_skb] # "driver"
    /\ \A s \in Rx : rx_fate[s] = "driver" => s = rx_skb

NetInv == NetTypes /\ NotOpened /\ TxOwned /\ RxOwned /\ Net!BuffersOwned

NetConstants == NULL \notin Tx /\ NULL \notin Rx

LEMMA NetInit == ASSUME NetConstants, Net!Init PROVE NetInv
  BY DEF NetConstants, Net!Init, NetInv, NetTypes, NotOpened, TxOwned, RxOwned, Net!BuffersOwned

\* The sending side is not disturbed by a step that leaves it alone and can
\* only stop the queue; nor the receiving side by one that leaves that alone.
LEMMA TxKept ==
  ASSUME NetInv, UNCHANGED <<Net!txVars, opens>>, queue' \in {"stopped", queue}
  PROVE  TxOwned' /\ \A s \in Tx : /\ tx_fate'[s] # "freed twice"
                                   /\ opens' <= 1 /\ tx_fate'[s] = "driver" => tx_urb' /\ tx_skb' = s
  BY DEF NetInv, TxOwned, Net!BuffersOwned, Net!txVars

LEMMA RxKept ==
  ASSUME NetInv, UNCHANGED <<Net!rxVars, opens>>
  PROVE  /\ RxOwned' /\ (opens' <= 1 /\ rx_urb' # NULL => rx_fate'[rx_urb'] = "driver")
         /\ \A s \in Rx : opens' <= 1 /\ rx_fate'[s] = "driver" => s = rx_skb'
  BY DEF NetInv, RxOwned, Net!BuffersOwned, Net!rxVars

LEMMA NetNext == ASSUME NetConstants, NetInv, [Net!Next]_Net!rtl8150Vars PROVE NetInv'
<1> USE DEF NetConstants
<1>0. opens \in Nat  BY Zenon DEF NetInv, NetTypes
<1>1. CASE Net!Open
  <2>0. opens' = opens + 1 /\ UNCHANGED Net!txVars /\ rx_fail' = rx_fail /\ tasklet' = tasklet
    BY <1>1, Zenon DEF Net!Open
  <2>1. opens' \in Nat /\ opens' # 0 /\ UNCHANGED Net!txVars /\ rx_fail' = rx_fail /\ tasklet' = tasklet
    BY <1>0, <2>0
  <2>2. rx_skb' \in Rx \cup {NULL} /\ rx_urb' \in {rx_skb', rx_urb}
        /\ rx_fate' \in [Rx -> {"pool", "none", "driver", "stack"}]
    BY <1>1 DEF Net!Open, NetInv, NetTypes, Net!Pooled
  <2>3. NetTypes'  BY <2>1, <2>2 DEF NetInv, NetTypes, Net!txVars
  <2>4. NotOpened'  BY <2>1, Zenon DEF NotOpened
  <2>5. CASE opens = 0
    <3>1. /\ ~tx_urb /\ rx_skb = NULL /\ rx_urb = NULL /\ ~rx_fail /\ ~tasklet
          /\ \A s \in Rx : rx_fate[s] # "driver"
      BY <2>5 DEF NetInv, NotOpened
    <3>2. /\ rx_skb' \in Rx /\ rx_fate'[rx_skb'] = "driver"
          /\ \A s \in Rx : rx_fate'[s] = "driver" => s = rx_skb'
      BY <1>1, <3>1 DEF Net!Open, NetInv, NetTypes, Net!Pooled
    <3>3. TxOwned' /\ RxOwned'  BY <2>1, <2>2, <3>1, <3>2 DEF TxOwned, RxOwned, Net!txVars
    <3>4. \A s \in Tx : tx_fate[s] # "driver"
      <4>1. opens <= 1  BY <2>5
      <4> QED  BY <3>1, <4>1, Zenon DEF Net!BuffersOwned, NetInv
    <3>5. rx_urb' # NULL => rx_fate'[rx_urb'] = "driver"  BY <2>2, <3>1, <3>2
    <3>6. tx_fate' = tx_fate  BY <2>0, Zenon DEF Net!txVars
    <3>7. Net!BuffersOwned'  BY <3>2, <3>4, <3>5, <3>6, Zenon DEF Net!BuffersOwned, NetInv
    <3> QED  BY <2>3, <2>4, <3>3, <3>7 DEF NetInv
  <2>6. CASE opens # 0
    <3>1. ~(opens' <= 1)  BY <1>0, <2>0, <2>6
    <3> QED  BY <2>1, <2>3, <2>4, <3>1 DEF NetInv, TxOwned, RxOwned, Net!BuffersOwned, Net!txVars
  <2> QED  BY <2>5, <2>6
<1>2. CASE Net!Close
  BY <1>2, TxKept, RxKept DEF Net!Close, NetInv, NetTypes, NotOpened, Net!BuffersOwned, Net!txVars, Net!rxVars
<1>3. ASSUME NEW s \in Tx, Net!Xmit(s) PROVE NetInv'
  <2>1. /\ opens # 0 /\ opens' = opens /\ UNCHANGED Net!rxVars /\ tx_skb' = s
        /\ tx_fate[s] = "core" /\ queue = "started"
    BY <1>3 DEF Net!Xmit, NetInv, NotOpened
  <2>2. \/ /\ ~tx_urb /\ tx_urb' = TRUE /\ queue' = "stopped"
           /\ tx_fate' = [tx_fate EXCEPT ![s] = "driver"]
        \/ tx_fate' = [tx_fate EXCEPT ![s] = "failed"] /\ UNCHANGED tx_urb
    BY <1>3 DEF Net!Xmit, Net!Results
  <2>3. NetTypes'  BY <2>1, <2>2 DEF NetInv, NetTypes, Net!rxVars
  <2>4. NotOpened'  BY <2>1, Zenon DEF NotOpened
  <2>7. TxOwned'
    <3>1. tx_fate'[s] \in {"driver", "failed"}  BY <2>1, <2>2 DEF NetInv, NetTypes
    <3>2. opens' <= 1 /\ tx_urb' => queue' = "stopped"
      BY <2>1, <2>2, Zenon DEF NetInv, TxOwned
    <3> QED  BY <2>1, <3>1, <3>2, Zenon DEF TxOwned
  <2>5. \A t \in Tx : tx_fate'[t] # "freed twice"
    BY <2>1, <2>2 DEF NetInv, NetTypes, Net!BuffersOwned
  <2>6. ASSUME NEW t \in Tx, opens <= 1, tx_fate'[t] = "driver" PROVE tx_urb' /\ tx_skb' = t
    <3>1. ~tx_urb  BY <2>1, <2>6 DEF NetInv, TxOwned
    <3>2. tx_fate[t] # "driver"  BY <2>6, <3>1 DEF NetInv, Net!BuffersOwned
    <3> QED  BY <2>1, <2>2, <2>6, <3>2 DEF NetInv, NetTypes
  <2> QED  BY <2>1, <2>3, <2>4, <2>5, <2>6, <2>7, RxKept DEF NetInv, Net!BuffersOwned
<1>4. CASE Net!WriteBulkCallback
  <2>1. /\ tx_urb /\ tx_urb' = FALSE /\ UNCHANGED <<opens, tx_skb, Net!rxVars, up>>
        /\ tx_skb \in Tx /\ tx_fate[tx_skb] \in {"driver", "failed"}
        /\ tx_fate' = [tx_fate EXCEPT ![tx_skb] = "freed"]
    BY <1>4 DEF Net!WriteBulkCallback, NetInv, TxOwned, NetTypes
  <2>2. NetTypes' /\ NotOpened' /\ TxOwned'
    BY <2>1 DEF NetInv, NetTypes, NotOpened, TxOwned, Net!rxVars
  <2>3. \A t \in Tx : /\ tx_fate'[t] # "freed twice"
                      /\ opens <= 1 => tx_fate'[t] # "driver"
    BY <2>1 DEF NetInv, NetTypes, Net!BuffersOwned
  <2> QED  BY <2>1, <2>2, <2>3, RxKept DEF NetInv, Net!BuffersOwned
<1>5. CASE Net!ReadBulkCallback
  <2>1. /\ opens # 0 /\ UNCHANGED <<opens, up, Net!txVars>> /\ rx_urb \in Rx
        /\ opens <= 1 =>
             /\ rx_urb = rx_skb /\ ~rx_fail /\ ~tasklet /\ rx_fate[rx_skb] = "driver"
             /\ \A s \in Rx : rx_fate[s] = "driver" => s = rx_skb
    BY <1>5 DEF Net!ReadBulkCallback, NetInv, NetTypes, NotOpened, RxOwned, Net!BuffersOwned
  <2>2. ASSUME NEW skb \in Rx \cup {NULL}, Net!Resubmit(skb)
        PROVE  /\ queue' \in {"stopped", queue} /\ rx_urb' \in {skb, NULL} /\ rx_fail' \in BOOLEAN
               /\ rx_urb' # NULL => ~rx_fail' /\ tasklet' = tasklet
               /\ tasklet' \in BOOLEAN /\ (tasklet' # tasklet => rx_fail')
    BY <2>2 DEF Net!Resubmit, Net!Results, NetInv, NetTypes
  <2>3. /\ queue' \in {"stopped", queue} /\ rx_fail' \in BOOLEAN
        /\ rx_skb' \in Rx \cup {NULL} /\ rx_urb' \in {rx_skb', NULL}
        /\ rx_fate' \in [Rx -> {"pool", "none", "driver", "stack"}]
        /\ rx_urb' # NULL => ~rx_fail'
        /\ tasklet' \in BOOLEAN
        /\ opens <= 1 /\ (rx_urb' # NULL \/ rx_fail') => rx_skb' \in Rx /\ rx_fate'[rx_skb'] = "driver"
        /\ opens <= 1 /\ tasklet' => rx_urb' = NULL /\ rx_skb' \in Rx
        /\ opens <= 1 /\ tasklet' /\ ~rx_fail' => rx_fate'[rx_skb'] # "driver"
        /\ opens <= 1 => \A s \in Rx : rx_fate'[s] = "driver" => s = rx_skb'
    <3>1. CASE rx_urb' = NULL /\ UNCHANGED <<present, queue, rx_skb, rx_fate, rx_fail, tasklet>>
      BY <2>1, <3>1 DEF NetInv, NetTypes
    <3>2. CASE Net!Resubmit(rx_skb) /\ UNCHANGED <<rx_skb, rx_fate>>
      BY <2>1, <2>2, <3>2 DEF NetInv, NetTypes
    <3>3. ASSUME NEW skb \in Net!Pooled, Net!Resubmit(skb), rx_skb' = skb,
                 rx_fate' = [rx_fate EXCEPT ![rx_skb] = "stack", ![skb] = "driver"]
          PROVE  <2>3!1 /\ <2>3!2 /\ <2>3!3 /\ <2>3!4 /\ <2>3!5 /\ <2>3!6 /\ <2>3!7 /\ <2>3!8 /\ <2>3!9
      BY <2>1, <2>2, <3>3 DEF NetInv, NetTypes, Net!Pooled
    <3>4. CASE rx_fate' = [rx_fate EXCEPT ![rx_skb] = "stack"] /\ Net!NoSkb
      BY <2>1, <3>4 DEF Net!NoSkb, NetInv, NetTypes
    <3> QED  BY <1>5, <3>1, <3>2, <3>3, <3>4 DEF Net!ReadBulkCallback
  <2>4. NetTypes' /\ NotOpened' /\ RxOwned'
    BY <2>1, <2>3 DEF NetInv, NetTypes, NotOpened, RxOwned, Net!txVars
  <2> QED  BY <2>1, <2>3, <2>4, TxKept DEF NetInv, Net!BuffersOwned
<1>6. CASE Net!Wild \/ Net!IntrCallback
  <2>1. UNCHANGED <<opens, up, Net!txVars, Net!rxVars>> /\ queue' \in {"stopped", queue}
    BY <1>6 DEF Net!Wild, Net!IntrCallback, Net!coreVars
  <2> QED  BY <2>1, TxKept, RxKept DEF NetInv, NetTypes, NotOpened, Net!BuffersOwned, Net!txVars, Net!rxVars
<1>7. CASE Net!RxFixup
  <2>1. /\ opens # 0 /\ UNCHANGED <<Net!coreVars, Net!txVars>> /\ rx_urb' = rx_skb' /\ rx_fail' = FALSE
        /\ tasklet' = FALSE
    BY <1>7 DEF Net!RxFixup, NetInv, NotOpened
  <2>2. /\ rx_skb' \in Rx \cup {NULL} /\ rx_fate' \in [Rx -> {"pool", "none", "driver", "stack"}]
        /\ opens <= 1 /\ rx_skb' # NULL => rx_fate'[rx_skb'] = "driver"
        /\ opens <= 1 => \A s \in Rx : rx_fate'[s] = "driver" => s = rx_skb'
    BY <1>7 DEF Net!RxFixup, NetInv, NetTypes, RxOwned
  <2> QED  BY <2>1, <2>2, TxKept DEF NetInv, NetTypes, NotOpened, RxOwned, Net!BuffersOwned, Net!coreVars, Net!txVars
<1>8. ASSUME NEW s \in Rx, Net!Consume(s) PROVE NetInv'
  <2>1. /\ rx_fate[s] = "stack" /\ rx_fate' = [rx_fate EXCEPT ![s] = "none"]
        /\ UNCHANGED <<Net!coreVars, Net!txVars, rx_skb, rx_urb, rx_fail, tasklet>>
    BY <1>8 DEF Net!Consume
  <2>2. NetTypes' /\ NotOpened'  BY <2>1 DEF NetInv, NetTypes, NotOpened, Net!coreVars, Net!txVars
  <2>3. /\ RxOwned' /\ (opens <= 1 /\ rx_urb' # NULL => rx_fate'[rx_urb'] = "driver")
        /\ opens <= 1 => \A t \in Rx : rx_fate'[t] = "driver" => t = rx_skb'
    BY <2>1 DEF NetInv, NetTypes, RxOwned, Net!BuffersOwned, Net!coreVars
  <2> QED  BY <2>1, <2>2, <2>3, TxKept DEF NetInv, Net!BuffersOwned, Net!coreVars
<1>9. CASE UNCHANGED Net!rtl8150Vars
  <2>1. UNCHANGED <<Net!coreVars, Net!txVars, Net!rxVars>>  BY <1>9 DEF Net!rtl8150Vars
  <2> QED  BY <2>1, TxKept, RxKept DEF NetInv, NetTypes, NotOpened, Net!BuffersOwned, Net!coreVars, Net!txVars, Net!rxVars
<1> QED
  BY <1>1, <1>2, <1>3, <1>4, <1>5, <1>6, <1>7, <1>8, <1>9 DEF Net!Next, Net!Core, Net!Callbacks

\* rtl8150_start_xmit(), write_bulk_callback(), read_bulk_callback(): with any
\* buffers none is freed twice, and in the first opening none is lost but by a
\* failed submission or written to while it is the stack's.
LEMMA NetBuffersOwned == ASSUME NetConstants PROVE Net!Spec => []Net!BuffersOwned
<1>1. Net!Init => NetInv  BY NetInit
<1>2. NetInv /\ [Net!Next]_Net!rtl8150Vars => NetInv'  BY NetNext
<1>3. NetInv => Net!BuffersOwned  BY DEF NetInv
<1> QED  BY <1>1, <1>2, <1>3, PTL DEF Net!Spec

-----------------------------------------------------------------------------
(* The buffer of an I2C transfer *)

\* What is true of each phase of the bus.  While something is under way the
\* caller spins; a byte on its way out is passed and not yet counted.
Phases ==
  /\ bus # "idle" => i2c1_busy = 1 /\ caller \in {"i2c1_send", "i2c1_receive"}
  /\ bus \in {"start", "address"} => num_transferred = 0 /\ moved = <<>>
  /\ bus = "out" =>
       /\ caller = "i2c1_send"
       /\ num_transferred >= 0 /\ Len(moved) = num_transferred + 1
  /\ bus = "in" =>
       /\ caller = "i2c1_receive"
       /\ num_transferred >= 0 /\ Len(moved) = num_transferred
       /\ AA => num_transferred < buf_len

InOrder == \A i \in 1 .. Len(moved) : moved[i] = i - 1

I2cInv ==
  /\ I2c!TypeOK /\ Phases /\ InOrder
  /\ Len(moved) <= buf_len
  /\ \/ num_transferred \in {Len(moved), I2c!NoSlave}
     \/ caller # "i2c1_receive" /\ num_transferred = Len(moved) - 1

\* Passing the next place keeps the order.
LEMMA AppendInOrder ==
  ASSUME NEW s \in Seq(Nat), NEW n \in Nat, n = Len(s), \A i \in 1 .. Len(s) : s[i] = i - 1
  PROVE  /\ Append(s, n) \in Seq(Nat) /\ Len(Append(s, n)) = n + 1
         /\ \A i \in 1 .. n + 1 : Append(s, n)[i] = i - 1
<1>1. Append(s, n) \in Seq(Nat) /\ Len(Append(s, n)) = n + 1  OBVIOUS
<1>2. ASSUME NEW i \in 1 .. n + 1 PROVE Append(s, n)[i] = i - 1
  <2>1. CASE i <= n  BY <2>1
  <2>2. CASE i = n + 1  BY <2>2
  <2> QED  BY <2>1, <2>2
<1> QED  BY <1>1, <1>2

LEMMA I2cInit == ASSUME MaxLength \in Nat PROVE I2c!Init => I2cInv
<1> SUFFICES ASSUME I2c!Init PROVE I2cInv  OBVIOUS
<1> USE DEF I2c!Init, I2c!NoSlave
<1>1. I2c!TypeOK
  <2>1. moved \in Seq(Nat)  OBVIOUS
  <2>2. AA \in BOOLEAN  OBVIOUS
  <2> QED  BY <2>1, <2>2 DEF I2c!TypeOK
<1>2. Phases /\ InOrder  BY DEF Phases, InOrder
<1> QED  BY <1>1, <1>2 DEF I2cInv, I2c!TypeOK

LEMMA I2cNext ==
  ASSUME MaxLength \in Nat, I2cInv, [I2c!Next]_I2c!i2cVars
  PROVE  I2cInv'
<1> USE DEF I2c!NoSlave
<1>1. ASSUME NEW f \in {"i2c1_send", "i2c1_receive"}, I2c!Call(f) PROVE I2cInv'
  BY <1>1 DEF I2c!Call, I2cInv, I2c!TypeOK, Phases, InOrder
<1>2. CASE I2c!Return
  BY <1>2 DEF I2c!Return, I2cInv, I2c!TypeOK, Phases, InOrder
<1>3. CASE I2c!Started
  BY <1>3 DEF I2c!Started, I2c!callVars, I2cInv, I2c!TypeOK, Phases, InOrder
<1>4. CASE I2c!AckWrite
  <2>1. CASE num_transferred < buf_len
    <3>1. moved' = Append(moved, 0) /\ bus' = "out" /\ num_transferred = 0 /\ moved = <<>>
      BY <1>4, <2>1 DEF I2c!AckWrite, I2c!SendByte, I2cInv, Phases
    <3>2. moved' \in Seq(Nat) /\ Len(moved') = 1 /\ moved'[1] = 0
      BY <3>1
    <3> QED  BY <1>4, <2>1, <3>1, <3>2 DEF I2c!AckWrite, I2c!callVars, I2cInv, I2c!TypeOK, Phases, InOrder
  <2>2. CASE ~(num_transferred < buf_len)
    BY <1>4, <2>2 DEF I2c!AckWrite, I2c!callVars, I2cInv, I2c!TypeOK, Phases, InOrder
  <2> QED  BY <2>1, <2>2
<1>5. CASE I2c!NackAddress
  BY <1>5 DEF I2c!NackAddress, I2c!callVars, I2cInv, I2c!TypeOK, Phases, InOrder
<1>6. CASE I2c!Sent
  <2>1. CASE num_transferred + 1 < buf_len
    <3>1. /\ num_transferred \in Nat /\ Len(moved) = num_transferred + 1 /\ moved \in Seq(Nat)
          /\ moved' = Append(moved, num_transferred + 1) /\ bus' = "out"
          /\ num_transferred' = num_transferred + 1
      BY <1>6, <2>1 DEF I2c!Sent, I2c!SendByte, I2cInv, I2c!TypeOK, Phases
    <3>2. /\ moved' \in Seq(Nat) /\ Len(moved') = num_transferred + 2
          /\ \A i \in 1 .. num_transferred + 2 : moved'[i] = i - 1
      BY <3>1, AppendInOrder DEF I2cInv, InOrder
    <3> QED  BY <1>6, <2>1, <3>1, <3>2 DEF I2c!Sent, I2c!callVars, I2cInv, I2c!TypeOK, Phases, InOrder
  <2>2. CASE ~(num_transferred + 1 < buf_len)
    BY <1>6, <2>2 DEF I2c!Sent, I2c!callVars, I2cInv, I2c!TypeOK, Phases, InOrder
  <2> QED  BY <2>1, <2>2
<1>7. CASE I2c!Lost
  BY <1>7 DEF I2c!Lost, I2c!callVars, I2cInv, I2c!TypeOK, Phases, InOrder
<1>8. CASE I2c!AckRead
  <2>1. AA' \in BOOLEAN /\ (AA' => num_transferred < buf_len)
    BY <1>8 DEF I2c!AckRead, I2c!Acknowledge
  <2> QED  BY <1>8, <2>1 DEF I2c!AckRead, I2c!callVars, I2cInv, I2c!TypeOK, Phases, InOrder
<1>9. CASE I2c!Received
  <2>1. /\ num_transferred \in Nat /\ Len(moved) = num_transferred /\ moved \in Seq(Nat)
        /\ num_transferred < buf_len
        /\ moved' = Append(moved, num_transferred) /\ num_transferred' = num_transferred + 1
    BY <1>9 DEF I2c!Received, I2cInv, I2c!TypeOK, Phases
  <2>2. /\ moved' \in Seq(Nat) /\ Len(moved') = num_transferred + 1
        /\ \A i \in 1 .. num_transferred + 1 : moved'[i] = i - 1
    BY <2>1, AppendInOrder DEF I2cInv, InOrder
  <2>3. AA' \in BOOLEAN /\ (AA' => num_transferred' < buf_len)
    BY <1>9 DEF I2c!Received, I2c!Acknowledge
  <2> QED  BY <1>9, <2>1, <2>2, <2>3 DEF I2c!Received, I2c!callVars, I2cInv, I2c!TypeOK, Phases, InOrder
<1>10. CASE I2c!ReceivedLast
  BY <1>10 DEF I2c!ReceivedLast, I2c!callVars, I2cInv, I2c!TypeOK, Phases, InOrder
<1>11. CASE I2c!Trap
  BY <1>11 DEF I2c!Trap, I2cInv, I2c!TypeOK, Phases, InOrder
<1>12. CASE UNCHANGED I2c!i2cVars
  BY <1>12 DEF I2c!i2cVars, I2cInv, I2c!TypeOK, Phases, InOrder
<1> QED
  BY <1>1, <1>2, <1>3, <1>4, <1>5, <1>6, <1>7, <1>8, <1>9, <1>10, <1>11, <1>12
  DEF I2c!Next, I2c!i2c1_send, I2c!i2c1_receive, I2c!I2C1_IRQHandler

LEMMA I2cInStep == ASSUME I2cInv PROVE I2c!BufferInStep
<1>1. moved = [i \in 1 .. Len(moved) |-> i - 1]
  BY DEF I2cInv, I2c!TypeOK, InOrder
<1> QED  BY <1>1 DEF I2cInv, I2c!BufferInStep

\* I2C1_IRQHandler(): whatever the lengths of the transfers, the slave's
\* answers and the losses of arbitration, the buffer is passed through place
\* after place and never beyond its end, and the caller is told how many.
LEMMA I2cBufferInStep == ASSUME MaxLength \in Nat PROVE I2c!Spec => []I2c!BufferInStep
<1>1. I2c!Init => I2cInv  BY I2cInit
<1>2. I2cInv /\ [I2c!Next]_I2c!i2cVars => I2cInv'  BY I2cNext
<1>3. I2cInv => I2c!BufferInStep  BY I2cInStep
<1> QED  BY <1>1, <1>2, <1>3, PTL DEF I2c!Spec

-----------------------------------------------------------------------------
(* Types: what TypeOK of the RTL8150 driver says beyond its invariant *)

NetTyped ==
  /\ up \in BOOLEAN /\ present \in BOOLEAN /\ tasklet \in BOOLEAN /\ intr_urb \in BOOLEAN /\ wild \in BOOLEAN
  /\ queue \in {"started", "stopped"} /\ opens \in 0 .. MaxOpens

LEMMA NetTypedStep == ASSUME MaxOpens \in Nat, NetTyped, [Net!Next]_Net!rtl8150Vars PROVE NetTyped'
<1> USE DEF Net!coreVars, Net!txVars, Net!rxVars
<1>1. opens' \in 0 .. MaxOpens
  <2>1. opens' = opens \/ (opens < MaxOpens /\ opens' = opens + 1)
    <3>1. Net!Open \/ Net!Close => opens' = opens \/ (opens < MaxOpens /\ opens' = opens + 1)
      BY Zenon DEF Net!Open, Net!Close
    <3>3. ASSUME NEW s \in Tx, Net!Xmit(s) PROVE opens' = opens  BY <3>3, Zenon DEF Net!Xmit
    <3>5. Net!WriteBulkCallback \/ Net!ReadBulkCallback \/ Net!IntrCallback \/ Net!Wild => opens' = opens
      BY Zenon DEF Net!WriteBulkCallback, Net!ReadBulkCallback, Net!IntrCallback, Net!Wild
    <3>6. ASSUME NEW s \in Rx, Net!Consume(s) PROVE opens' = opens  BY <3>6, Zenon DEF Net!Consume
    <3>7. Net!RxFixup => opens' = opens  BY Zenon DEF Net!RxFixup
    <3>8. UNCHANGED Net!rtl8150Vars => opens' = opens  BY Zenon DEF Net!rtl8150Vars
    <3> QED  BY <3>1, <3>3, <3>5, <3>6, <3>7, <3>8, Zenon DEF Net!Next, Net!Core, Net!Callbacks
  <2> QED  BY <2>1 DEF NetTyped
<1>2. ASSUME NEW skb, Net!Resubmit(skb) PROVE queue' \in {"stopped", queue} /\ present' \in BOOLEAN /\ tasklet' \in BOOLEAN
  BY <1>2, Zenon DEF Net!Resubmit
<1>3. ASSUME NEW r, Net!Failed(r) PROVE queue' \in {"started", "stopped"} /\ present' \in BOOLEAN
  BY <1>3, Zenon DEF Net!Failed
<1>4. CASE Net!Open
  BY <1>1, <1>4, Zenon DEF Net!Open, NetTyped
<1>5. CASE Net!Close  BY <1>1, <1>5, Zenon DEF Net!Close, NetTyped
<1>6. ASSUME NEW s \in Tx, Net!Xmit(s) PROVE NetTyped'
  BY <1>1, <1>3, <1>6, Zenon DEF Net!Xmit, NetTyped
<1>7. CASE Net!WriteBulkCallback  BY <1>1, <1>7, Zenon DEF Net!WriteBulkCallback, NetTyped
<1>8. CASE Net!ReadBulkCallback
  <2>1. queue' \in {"stopped", queue} /\ present' \in BOOLEAN /\ tasklet' \in BOOLEAN
    BY <1>2, <1>8, Zenon DEF Net!ReadBulkCallback, Net!NoSkb, NetTyped
  <2> QED  BY <1>1, <1>8, <2>1, Zenon DEF Net!ReadBulkCallback, NetTyped
<1>9. CASE Net!IntrCallback
  <2>1. queue' \in {"stopped", queue} /\ present' \in BOOLEAN /\ intr_urb' \in BOOLEAN
    BY <1>9, Zenon DEF Net!IntrCallback, NetTyped
  <2> QED  BY <1>1, <1>9, <2>1, Zenon DEF Net!IntrCallback, NetTyped
<1>10. CASE Net!Wild  BY <1>1, <1>10, Zenon DEF Net!Wild, NetTyped
<1>11. CASE Net!RxFixup  BY <1>1, <1>11, Zenon DEF Net!RxFixup, NetTyped
<1>12. ASSUME NEW s \in Rx, Net!Consume(s) PROVE NetTyped'  BY <1>1, <1>12, Zenon DEF Net!Consume, NetTyped
<1>13. CASE UNCHANGED Net!rtl8150Vars  BY <1>1, <1>13, Zenon DEF Net!rtl8150Vars, NetTyped
<1> QED
  BY <1>4, <1>5, <1>6, <1>7, <1>8, <1>9, <1>10, <1>11, <1>12, <1>13 DEF Net!Next, Net!Core, Net!Callbacks

LEMMA NetTypeOK == ASSUME NetConstants, MaxOpens \in Nat PROVE Net!Spec => []Net!TypeOK
<1>1. Net!Init => NetInv /\ NetTyped
  <2>1. ASSUME Net!Init PROVE NetTyped
    <3>1. opens = 0 /\ queue = "stopped"  BY <2>1 DEF Net!Init
    <3>2. opens \in 0 .. MaxOpens  BY <3>1
    <3> QED  BY <2>1, <3>1, <3>2, Zenon DEF Net!Init, NetTyped
  <2> QED  BY <2>1, NetInit
<1>2. (NetInv /\ NetTyped) /\ [Net!Next]_Net!rtl8150Vars => (NetInv /\ NetTyped)'
  BY NetNext, NetTypedStep
<1>3. ASSUME NetInv, NetTyped PROVE Net!TypeOK
  <2>1. \A x \in {up, present, tx_urb, rx_fail, tasklet, intr_urb, wild} : x \in BOOLEAN
    BY <1>3, Zenon DEF NetInv, NetTypes, NetTyped
  <2>2. {up, present, tx_urb, rx_fail, tasklet, intr_urb, wild} \subseteq BOOLEAN  BY <2>1, Zenon
  <2> QED  BY <1>3, <2>2, Zenon DEF NetInv, NetTypes, NetTyped, Net!TypeOK
<1> QED  BY <1>1, <1>2, <1>3, PTL DEF Net!Spec

-----------------------------------------------------------------------------
(* The NVMe queue and the blocking device have proofs of their own: their   *)
(* definitions are those of MCProgress, whose instances name them again.    *)

NvmeProofs   == INSTANCE NvmeQueueProofs WITH pc <- nvme_pc
DeviceProofs == INSTANCE PollDeviceProofs WITH pc <- device_pc

\* What the modules assume of their constants.
NvmeConstants ==
  /\ Depth \in Nat /\ Depth >= 2 /\ Depth <= Nvme!BusyId
  /\ FlushBios \subseteq Bios /\ SplitBios \subseteq Bios /\ MapMayFail \in BOOLEAN
  /\ Bios \cap Tasks = {} /\ Nvme!SpecialCtx \cap (Bios \cup Tasks) = {}

\* Nobody polls and one process writes, as PollDeviceProofs has it.
DeviceConstants ==
  /\ N \in Nat \ {0, 1} /\ MaxLen \in Nat \ {0}
  /\ Readers \cap (Writers \cup Pollers) = {} /\ Writers \cap Pollers = {}
  /\ None \notin Readers \cup Writers \cup Pollers
  /\ IsFiniteSet(Readers \cup Writers \cup Pollers)
  /\ Pollers = {} /\ \A v, w \in Writers : v = w

\* The definitions of NvmeQueue are the same through both of its instances.
LEMMA SameNvme ==
  /\ Nvme!Init <=> NvmeProofs!Init
  /\ [Nvme!Next]_Nvme!vars <=> [NvmeProofs!Next]_NvmeProofs!vars
  /\ Nvme!TypeOK <=> NvmeProofs!TypeOK
BY DEF Nvme!BusyId, NvmeProofs!BusyId, Nvme!SpecialCtx, NvmeProofs!SpecialCtx, Nvme!cmdVars,
       NvmeProofs!cmdVars, Nvme!sqVars, NvmeProofs!sqVars, Nvme!cqVars, NvmeProofs!cqVars, Nvme!lockVars,
       NvmeProofs!lockVars, Nvme!bioVars, NvmeProofs!bioVars, Nvme!taskVars, NvmeProofs!taskVars,
       Nvme!devVars, NvmeProofs!devVars, Nvme!vars, NvmeProofs!vars, Nvme!CmdIds, NvmeProofs!CmdIds,
       Nvme!Slots, NvmeProofs!Slots, Nvme!NextSlot, NvmeProofs!NextSlot, Nvme!NextPhase,
       NvmeProofs!NextPhase, Nvme!RunsOf, NvmeProofs!RunsOf, Nvme!Between, NvmeProofs!Between, Nvme!Init,
       NvmeProofs!Init, Nvme!FirstZero, NvmeProofs!FirstZero, Nvme!alloc_cmdid, NvmeProofs!alloc_cmdid,
       Nvme!free_cmdid, NvmeProofs!free_cmdid, Nvme!cancel_cmdid, NvmeProofs!cancel_cmdid, Nvme!Congest,
       NvmeProofs!Congest, Nvme!EndBio, NvmeProofs!EndBio, Nvme!bio_completion, NvmeProofs!bio_completion,
       Nvme!sync_completion, NvmeProofs!sync_completion, Nvme!CallHandler, NvmeProofs!CallHandler,
       Nvme!FlushBusy, NvmeProofs!FlushBusy, Nvme!nvme_submit_bio_queue, NvmeProofs!nvme_submit_bio_queue,
       Nvme!nvme_make_request, NvmeProofs!nvme_make_request, Nvme!nvme_irq, NvmeProofs!nvme_irq,
       Nvme!nvme_kthread, NvmeProofs!nvme_kthread, Nvme!CqeIsNew, NvmeProofs!CqeIsNew, Nvme!ProcessCqe,
       NvmeProofs!ProcessCqe, Nvme!ProcessCqDone, NvmeProofs!ProcessCqDone, Nvme!NextSetBit,
       NvmeProofs!NextSetBit, Nvme!TimeOut, NvmeProofs!TimeOut, Nvme!nvme_timeout_ios,
       NvmeProofs!nvme_timeout_ios, Nvme!nvme_resubmit_bios, NvmeProofs!nvme_resubmit_bios, Nvme!Goto,
       NvmeProofs!Goto, Nvme!SyncCall, NvmeProofs!SyncCall, Nvme!Return, NvmeProofs!Return, Nvme!AllocFind,
       NvmeProofs!AllocFind, Nvme!AllocKilled, NvmeProofs!AllocKilled, Nvme!AllocSet, NvmeProofs!AllocSet,
       Nvme!AllocFn, NvmeProofs!AllocFn, Nvme!AllocCtx, NvmeProofs!AllocCtx, Nvme!AllocTimeout,
       NvmeProofs!AllocTimeout, Nvme!nvme_submit_cmd, NvmeProofs!nvme_submit_cmd, Nvme!SyncWake,
       NvmeProofs!SyncWake, Nvme!nvme_abort_command, NvmeProofs!nvme_abort_command, Nvme!DevFetch,
       NvmeProofs!DevFetch, Nvme!DevPost, NvmeProofs!DevPost, Nvme!Expire, NvmeProofs!Expire,
       Nvme!Interrupt, NvmeProofs!Interrupt, Nvme!Thread, NvmeProofs!Thread, Nvme!Sync, NvmeProofs!Sync,
       Nvme!Controller, NvmeProofs!Controller, Nvme!Next, NvmeProofs!Next, Nvme!CmdInfo,
       NvmeProofs!CmdInfo, Nvme!Locs, NvmeProofs!Locs, Nvme!TypeOK, NvmeProofs!TypeOK

\* So are those of PollDevice.
LEMMA SameDevice ==
  /\ Device!Init <=> DeviceProofs!Init
  /\ [Device!Next]_Device!vars <=> [DeviceProofs!Next]_DeviceProofs!vars
  /\ Device!TypeOK <=> DeviceProofs!TypeOK
<1>1. Device!Processes = DeviceProofs!Processes  BY DEF Device!Processes, DeviceProofs!Processes
<1>2. Device!vars = DeviceProofs!vars  BY DEF Device!ring, DeviceProofs!ring, Device!tests, DeviceProofs!tests, Device!vars, DeviceProofs!vars
<1>3. Device!Init <=> DeviceProofs!Init
  BY <1>1 DEF Device!Init, DeviceProofs!Init, Device!NoCall, DeviceProofs!NoCall
<1>4. Device!Next <=> DeviceProofs!Next
  BY DEF Device!Processes, DeviceProofs!Processes, Device!ring, DeviceProofs!ring, Device!tests,
       DeviceProofs!tests, Device!vars, DeviceProofs!vars, Device!NoCall, DeviceProofs!NoCall, Device!Init,
       DeviceProofs!Init, Device!Goto, DeviceProofs!Goto, Device!Return, DeviceProofs!Return, Device!Open,
       DeviceProofs!Open, Device!Release, DeviceProofs!Release, Device!Call, DeviceProofs!Call,
       Device!Decide, DeviceProofs!Decide, Device!Testing, DeviceProofs!Testing, Device!EmptyTest,
       DeviceProofs!EmptyTest, Device!FullLoad, DeviceProofs!FullLoad, Device!FullStore,
       DeviceProofs!FullStore, Device!FullAnswer, DeviceProofs!FullAnswer, Device!Awake,
       DeviceProofs!Awake, Device!Interrupted, DeviceProofs!Interrupted, Device!Down, DeviceProofs!Down,
       Device!wake_up, DeviceProofs!wake_up, Device!Wake, DeviceProofs!Wake, Device!Up, DeviceProofs!Up,
       Device!Copied, DeviceProofs!Copied, Device!Read, DeviceProofs!Read, Device!Write,
       DeviceProofs!Write, Device!Wrap, DeviceProofs!Wrap, Device!Step, DeviceProofs!Step, Device!Next,
       DeviceProofs!Next
<1>5. Device!TypeOK <=> DeviceProofs!TypeOK
  BY <1>1 DEF Device!TypeOK, DeviceProofs!TypeOK, Device!Cardinality, DeviceProofs!Cardinality
<1>6. [Device!Next]_Device!vars <=> [DeviceProofs!Next]_DeviceProofs!vars
  BY <1>4, Zenon DEF Device!ring, DeviceProofs!ring, Device!tests, DeviceProofs!tests, Device!vars, DeviceProofs!vars
<1> QED  BY <1>3, <1>5, <1>6, Zenon

LEMMA NvmeTypeOK == ASSUME NvmeConstants PROVE Nvme!Spec => []Nvme!TypeOK
<1>1. NvmeProofs!Init => NvmeProofs!TypeOK
  BY NvmeProofs!TypeInit DEF NvmeConstants, Nvme!SpecialCtx, NvmeProofs!SpecialCtx, Nvme!BusyId, NvmeProofs!BusyId
<1>2. NvmeProofs!TypeOK /\ [NvmeProofs!Next]_NvmeProofs!vars => NvmeProofs!TypeOK'
  BY NvmeProofs!TypeStep DEF NvmeConstants, Nvme!SpecialCtx, NvmeProofs!SpecialCtx, Nvme!BusyId, NvmeProofs!BusyId
<1> QED  BY <1>1, <1>2, SameNvme, PTL DEF Nvme!Spec

LEMMA DeviceTypeOK == ASSUME DeviceConstants PROVE Device!Spec => []Device!TypeOK
<1>1. DeviceProofs!OneWriter  BY DEF DeviceConstants, DeviceProofs!OneWriter
<1>0. DeviceProofs!IsFiniteSet(Readers \cup Writers \cup Pollers)
  BY DEF DeviceConstants, IsFiniteSet, DeviceProofs!IsFiniteSet
<1>2. DeviceProofs!Init => DeviceProofs!IInv
  BY <1>0, <1>1, DeviceProofs!InitIInv DEF DeviceConstants, DeviceProofs!DeviceAssumption
<1>3. DeviceProofs!IInv /\ [DeviceProofs!Next]_DeviceProofs!vars => DeviceProofs!IInv'
  BY <1>0, <1>1, DeviceProofs!NextIInv DEF DeviceConstants, DeviceProofs!DeviceAssumption
<1>4. DeviceProofs!IInv => DeviceProofs!TypeOK  BY DEF DeviceProofs!IInv
<1> QED  BY <1>2, <1>3, <1>4, SameDevice, PTL DEF Device!Spec

-----------------------------------------------------------------------------
(* Side by side *)

\* A step of the composition is one of each system, or leaves it alone.
LEMMA EachRuns == ProgressSpec => Spec /\ Nvme!Spec /\ Device!Spec /\ Usb!Spec /\ Net!Spec /\ I2c!Spec
<1>1. ProgressInit => Init /\ Nvme!Init /\ Device!Init /\ Usb!Init /\ Net!Init /\ I2c!Init  BY DEF ProgressInit
<1>2. [ProgressNext]_allVars => [Usb!Next]_Usb!usbVars
  BY DEF ProgressNext, allVars, usbVars, Usb!usbVars
<1>3. [ProgressNext]_allVars => [Net!Next]_Net!rtl8150Vars
  BY DEF ProgressNext, allVars, netVars, Net!rtl8150Vars, Net!coreVars, Net!txVars, Net!rxVars
<1>4. [ProgressNext]_allVars => [I2c!Next]_I2c!i2cVars
  BY DEF ProgressNext, allVars, i2cVars, I2c!i2cVars, I2c!callVars
<1>5. [ProgressNext]_allVars => [Nvme!Next]_Nvme!vars
  BY DEF ProgressNext, allVars, nvmeVars, Nvme!vars, Nvme!cmdVars, Nvme!sqVars, Nvme!cqVars, Nvme!lockVars,
         Nvme!bioVars, Nvme!taskVars, Nvme!devVars
<1>6. [ProgressNext]_allVars => [Device!Next]_Device!vars
  BY DEF ProgressNext, allVars, deviceVars, Device!vars, Device!ring, Device!tests
<1>7. ProgressSpec => ProgressInit /\ [][ProgressNext]_allVars  BY PTL DEF ProgressSpec
<1>8. [ProgressNext]_allVars => [Next]_vars  BY DEF ProgressNext, allVars, vars
<1> QED
  BY <1>1, <1>2, <1>3, <1>4, <1>5, <1>6, <1>7, <1>8, PTL
  DEF Spec, Nvme!Spec, Device!Spec, Usb!Spec, Net!Spec, I2c!Spec

\* The drivers and the buffer, whatever the sizes, threads, commands, buffers
\* and lengths, and with one process that writes to the blocking device: each
\* variable of each system has one of its values, in all the states.
THEOREM ProgressTypes ==
  ASSUME NvmeConstants, DeviceConstants, UsbConstants, NetConstants, MaxOpens \in Nat, MaxLength \in Nat
  PROVE  ProgressSpec => []TypesOK
<1>1. Usb!Spec => []Usb!TypeOK
  <2>1. Usb!Init => UsbInv  BY UsbInit
  <2>2. UsbInv /\ [Usb!Next]_Usb!usbVars => UsbInv'  BY UsbNext
  <2>3. UsbInv => Usb!TypeOK  BY DEF UsbInv
  <2> QED  BY <2>1, <2>2, <2>3, PTL DEF Usb!Spec
<1>2. I2c!Spec => []I2c!TypeOK
  <2>1. I2c!Init => I2cInv  BY I2cInit
  <2>2. I2cInv /\ [I2c!Next]_I2c!i2cVars => I2cInv'  BY I2cNext
  <2>3. I2cInv => I2c!TypeOK  BY DEF I2cInv
  <2> QED  BY <2>1, <2>2, <2>3, PTL DEF I2c!Spec
<1>3. Nvme!Spec => []Nvme!TypeOK  BY NvmeTypeOK
<1>4. Device!Spec => []Device!TypeOK  BY DeviceTypeOK
<1>5. Net!Spec => []Net!TypeOK  BY NetTypeOK
<1>6. TypesOK <=> TypeOK /\ Nvme!TypeOK /\ Device!TypeOK /\ Usb!TypeOK /\ Net!TypeOK /\ I2c!TypeOK  BY DEF TypesOK
<1> QED  BY <1>1, <1>2, <1>3, <1>4, <1>5, <1>6, EachRuns, MonitorCorrect, PTL

\* producer() and consumer() of both programs: for any threads, size of the
\* buffer and number of rounds, and whoever wakes when, each value inserted is
\* in the buffer or was consumed, and only once.
THEOREM EachConsumedOnce == ProgressSpec => []NothingLostOrRepeated
BY EachRuns, MonitorCorrect, PTL

\* usb_stor_control_thread(): for any commands, in whatever order their answers,
\* timeouts, aborts, the resets and the disconnection come, none is answered
\* twice and none is dropped without an answer or an aborter that is told.
THEOREM EachAnsweredOnce == ASSUME UsbConstants PROVE ProgressSpec => []AnsweredOnce
<1>1. Usb!AnsweredOnce => AnsweredOnce  BY DEF AnsweredOnce
<1> QED  BY <1>1, EachRuns, UsbAnsweredOnce, PTL

\* usb_stor_control_thread(): TIMED_OUT and ABORTING belong to the command in
\* hand and to the aborter that waits; notify is raised once for each abort.
THEOREM EachAbortMatched == ASSUME UsbConstants PROVE ProgressSpec => []AbortsAreMatched
<1>1. Usb!AbortsAreMatched => AbortsAreMatched  BY DEF AbortsAreMatched
<1> QED  BY <1>1, EachRuns, UsbAbortsMatched, PTL

\* rtl8150_start_xmit(), write_bulk_callback(), read_bulk_callback(): with any
\* buffers none is freed twice, and in the first opening none is lost but by a
\* failed submission or written to while it is the stack's.
THEOREM OwnersKept == ASSUME NetConstants PROVE ProgressSpec => []BuffersOwned
<1>1. Net!BuffersOwned => BuffersOwned  BY DEF BuffersOwned
<1> QED  BY <1>1, EachRuns, NetBuffersOwned, PTL

\* I2C1_IRQHandler(): whatever the lengths of the transfers, the slave's
\* answers and the losses of arbitration, the buffer is passed through place
\* after place and never beyond its end, and the caller is told how many.
THEOREM BufferCorrect == ASSUME MaxLength \in Nat PROVE ProgressSpec => []BufferInStep
<1>1. I2c!BufferInStep => BufferInStep  BY DEF BufferInStep
<1> QED  BY <1>1, EachRuns, I2cBufferInStep, PTL
=============================================================================
