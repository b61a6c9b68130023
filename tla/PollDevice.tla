----------------------------- MODULE PollDevice -----------------------------
(***************************************************************************)
(* The character device of kernel/blockingIO_polling/module.c: a ring of N *)
(* bytes that processes open, read, write and poll.  The copy runs under   *)
(* the semaphore sema; the tests for room and data run before it is taken, *)
(* and the test for room stores its result in the shared ih.               *)
(*                                                                         *)
(* wait_event_interruptible() tests, queues the caller, tests again and    *)
(* sleeps; a wake-up between the queueing and the sleep cancels the sleep. *)
(***************************************************************************)
EXTENDS Integers, Sequences, FiniteSets

CONSTANTS
  Readers, Writers, Pollers,  \* the processes, by the call they make
  N,
  Bytes,                      \* values written
  MaxLen,                     \* bound: the longest read or write
  None                        \* nobody, and the zero of a byte never written

ASSUME DeviceAssumption ==
  /\ N \in Nat \ {0, 1} /\ MaxLen \in Nat \ {0}
  /\ Readers \cap (Writers \cup Pollers) = {} /\ Writers \cap Pollers = {}
  /\ None \notin Readers \cup Writers \cup Pollers
  /\ IsFiniteSet(Readers \cup Writers \cup Pollers)

Processes == Readers \cup Writers \cup Pollers

VARIABLES
  rbuf, ir, iw, ih,  \* the ring, its read and write index, the last index for writes
  use_count,
  sema,              \* holder
  pc,                \* where each process is
  onq,               \* "no", "queued" on qin or qout, or "woken" from it
  full,              \* inside is_buffer_full(): "load", "store" or "answer"
  reg,               \* its local value of ih
  call               \* bytes left to copy, and O_NONBLOCK

ring  == <<rbuf, ir, iw>>
tests == <<full, reg>>
vars  == <<ring, ih, use_count, sema, pc, onq, tests, call>>

NoCall == [left |-> 0, nonblock |-> FALSE]

Init ==
  /\ rbuf = [k \in 0 .. (N - 1) |-> None]
  /\ ir = 0 /\ iw = 0 /\ ih = 0
  /\ use_count = 0 /\ sema = None
  /\ pc = [p \in Processes |-> "closed"]
  /\ onq = [p \in Processes |-> "no"]
  /\ full = [p \in Processes |-> "load"]
  /\ reg = [p \in Processes |-> 0]
  /\ call = [p \in Processes |-> NoCall]

Goto(p, l) == pc' = [pc EXCEPT ![p] = l] /\ UNCHANGED call

\* The locals of a call end with it.
Return(p) == pc' = [pc EXCEPT ![p] = "open"] /\ call' = [call EXCEPT ![p] = NoCall]

-----------------------------------------------------------------------------

Open_uncounted(p) ==                        \* mutant: use_count++ is forgotten
  /\ pc[p] = "closed"
  /\ IF use_count = 0 THEN ir' = 0 /\ iw' = 0 ELSE UNCHANGED <<ir, iw>>
  /\ Goto(p, "open")
  /\ UNCHANGED <<rbuf, ih, use_count, sema, onq, tests>>

Open(p) ==
  /\ pc[p] = "closed"
  /\ IF use_count = 0 THEN ir' = 0 /\ iw' = 0 ELSE UNCHANGED <<ir, iw>>
  /\ use_count' = use_count + 1
  /\ Goto(p, "open")
  /\ UNCHANGED <<rbuf, ih, sema, onq, tests>>

Release(p) ==
  /\ pc[p] = "open"
  /\ use_count' = use_count - 1
  /\ Goto(p, "closed")
  /\ UNCHANGED <<ring, ih, sema, onq, tests>>

\* A process calls read(), write() or poll().
Call(p) ==
  /\ pc[p] = "open"
  /\ IF p \in Pollers
       THEN Goto(p, "poll")
       ELSE \E len \in 1 .. MaxLen, nonblock \in BOOLEAN :
              /\ call' = [call EXCEPT ![p] = [left |-> len, nonblock |-> nonblock]]
              /\ pc' = [pc EXCEPT ![p] = "first"]
  /\ UNCHANGED <<ring, ih, use_count, sema, onq, tests>>

-----------------------------------------------------------------------------
(* The tests *)

\* mutant: the test that failed before the caller was on the queue decides
Decide_once(p, blocked) ==
  CASE pc[p] = "first" ->
         /\ IF blocked /\ call[p].nonblock THEN Return(p) ELSE Goto(p, "event")
         /\ UNCHANGED onq
    [] pc[p] = "poll" -> Return(p) /\ UNCHANGED onq
    [] pc[p] = "event" /\ ~blocked ->
         Goto(p, "down") /\ onq' = [onq EXCEPT ![p] = "no"]
    [] pc[p] = "event" /\ blocked ->
         Goto(p, "asleep") /\ onq' = [onq EXCEPT ![p] = "queued"]

\* What the caller does with the answer: the first test only stops an
\* O_NONBLOCK call, the one of wait_event_interruptible() sends it to sleep.
Decide(p, blocked) ==
  CASE pc[p] = "first" ->
         /\ IF blocked /\ call[p].nonblock THEN Return(p) ELSE Goto(p, "event")
         /\ UNCHANGED onq
    [] pc[p] = "poll" -> Return(p) /\ UNCHANGED onq
    [] pc[p] = "event" /\ ~blocked ->
         Goto(p, "down") /\ onq' = [onq EXCEPT ![p] = "no"]
    [] pc[p] = "event" /\ blocked ->
         IF onq[p] = "queued" THEN Goto(p, "asleep") /\ UNCHANGED onq
                              ELSE UNCHANGED <<pc, call>> /\ onq' = [onq EXCEPT ![p] = "queued"]

Testing(p) == pc[p] \in {"first", "event", "poll"}

\* is_buffer_empty()
EmptyTest(r) ==
  /\ r \in Readers /\ Testing(r)
  /\ Decide(r, ir = iw)
  /\ UNCHANGED <<ring, ih, use_count, sema, tests>>

\* is_buffer_full(), one step per access to a shared variable
FullLoad(p) ==
  /\ p \notin Readers /\ Testing(p) /\ full[p] = "load"
  /\ reg' = [reg EXCEPT ![p] = ir - 1]
  /\ full' = [full EXCEPT ![p] = "store"]
  /\ UNCHANGED <<ring, ih, use_count, sema, pc, onq, call>>

FullStore(p) ==
  /\ full[p] = "store"
  /\ ih' = reg[p]
  /\ full' = [full EXCEPT ![p] = "answer"]
  /\ UNCHANGED <<ring, use_count, sema, pc, onq, reg, call>>

FullAnswer(p) ==
  LET last == IF reg[p] < 0 THEN reg[p] + N ELSE reg[p]
  IN /\ full[p] = "answer"
     /\ ih' = IF reg[p] < 0 THEN last ELSE ih
     /\ Decide(p, iw = last)
     /\ full' = [full EXCEPT ![p] = "load"] /\ reg' = [reg EXCEPT ![p] = 0]
     /\ UNCHANGED <<ring, use_count, sema>>

-----------------------------------------------------------------------------
(* Sleeping and waking *)

Awake(p) ==
  /\ pc[p] = "asleep" /\ onq[p] = "woken"
  /\ Goto(p, "event")
  /\ onq' = [onq EXCEPT ![p] = "queued"]
  /\ UNCHANGED <<ring, ih, use_count, sema, tests>>

\* -ERESTARTSYS: a signal ends the sleep, or is found pending after it, or ends
\* down_interruptible().
Interrupted(p) ==
  /\ pc[p] \in {"asleep", "down"}
  /\ Return(p)
  /\ onq' = [onq EXCEPT ![p] = "no"]
  /\ UNCHANGED <<ring, ih, use_count, sema, tests>>

Down(p) ==
  /\ pc[p] = "down" /\ sema = None
  /\ sema' = p
  /\ Goto(p, "copy")
  /\ UNCHANGED <<ring, ih, use_count, onq, tests>>

\* wake_up_interruptible() on the queue of S
wake_up(S) == onq' = [p \in Processes |-> IF p \in S /\ onq[p] = "queued" THEN "woken" ELSE onq[p]]

Wake_own(p) ==                              \* mutant: the other wait queue
  /\ pc[p] = "wake"
  /\ wake_up(IF p \in Readers THEN Readers ELSE Writers)
  /\ Return(p)
  /\ UNCHANGED <<ring, ih, use_count, sema, tests>>

\* The end of device_read() and device_write()
Wake(p) ==
  /\ pc[p] = "wake"
  /\ wake_up(IF p \in Readers THEN Writers ELSE Readers)
  /\ Return(p)
  /\ UNCHANGED <<ring, ih, use_count, sema, tests>>

-----------------------------------------------------------------------------
(* The copy, a byte at a time *)

Up(p) ==
  /\ sema' = None /\ Goto(p, "wake")
  /\ UNCHANGED <<ring, ih, use_count, onq, tests>>

\* One byte is copied.
Copied(p) == call' = [call EXCEPT ![p].left = @ - 1] /\ pc' = [pc EXCEPT ![p] = "wrap"]

Read_past(r) ==                             \* mutant: "there is data to read" is believed
  /\ r \in Readers /\ pc[r] = "copy"
  /\ IF call[r].left = 0
       THEN Up(r)
       ELSE /\ ir' = ir + 1 /\ Copied(r)
            /\ UNCHANGED <<rbuf, iw, ih, use_count, sema, onq, tests>>

Read(r) ==
  /\ r \in Readers /\ pc[r] = "copy"
  /\ IF call[r].left = 0 \/ ir = iw
       THEN Up(r)
       ELSE /\ ir' = ir + 1 /\ Copied(r)
            /\ UNCHANGED <<rbuf, iw, ih, use_count, sema, onq, tests>>

Write_over(w) ==                            \* mutant: no test for room in the loop
  /\ w \in Writers /\ pc[w] = "copy"
  /\ IF call[w].left = 0
       THEN Up(w)
       ELSE /\ \E x \in Bytes : rbuf' = [rbuf EXCEPT ![iw] = x]
            /\ iw' = iw + 1 /\ Copied(w)
            /\ UNCHANGED <<ir, ih, use_count, sema, onq, tests>>

Write(w) ==
  /\ w \in Writers /\ pc[w] = "copy"
  /\ IF call[w].left = 0 \/ iw = ih
       THEN Up(w)
       ELSE /\ \E x \in Bytes : rbuf' = [rbuf EXCEPT ![iw] = x]
            /\ iw' = iw + 1 /\ Copied(w)
            /\ UNCHANGED <<ir, ih, use_count, sema, onq, tests>>

Wrap(p) ==
  /\ pc[p] = "wrap"
  /\ IF p \in Readers THEN ir' = (IF ir = N THEN 0 ELSE ir) /\ UNCHANGED iw
                      ELSE iw' = (IF iw = N THEN 0 ELSE iw) /\ UNCHANGED ir
  /\ Goto(p, "copy")
  /\ UNCHANGED <<rbuf, ih, use_count, sema, onq, tests>>

-----------------------------------------------------------------------------

Step(p) ==
  \/ EmptyTest(p) \/ FullLoad(p) \/ FullStore(p) \/ FullAnswer(p)
  \/ Awake(p) \/ Wake(p) \/ Read(p) \/ Write(p) \/ Wrap(p)

Next == \E p \in Processes :
          Open(p) \/ Release(p) \/ Call(p) \/ Interrupted(p) \/ Down(p) \/ Step(p)

Spec == Init /\ [][Next]_vars

\* A process inside a call is scheduled; semaphores are granted in the order
\* of arrival, so a process that waits for one gets its turn even if others
\* take it in between.  Nobody has to make a call, and no signal has to come.
Fairness == \A p \in Processes : WF_vars(Step(p)) /\ SF_vars(Down(p))

FairSpec == Spec /\ Fairness

-----------------------------------------------------------------------------
(* Properties *)

\* The values each variable can hold.  An index is N between the increment and
\* the test, and ih is -1 between the stores of is_buffer_full().
TypeOK ==
  /\ rbuf \in [0 .. (N - 1) -> Bytes \cup {None}]
  /\ ir \in 0 .. N /\ iw \in 0 .. N /\ ih \in -1 .. (N - 1)
  /\ use_count \in 0 .. Cardinality(Processes)
  /\ sema \in Processes \cup {None}
  /\ pc \in [Processes -> {"closed", "open", "first", "event", "poll", "asleep", "down", "copy", "wrap", "wake"}]
  /\ onq \in [Processes -> {"no", "queued", "woken"}]
  /\ full \in [Processes -> {"load", "store", "answer"}]
  /\ reg \in [Processes -> -1 .. (N - 1)]
  /\ call \in [Processes -> [left : 0 .. MaxLen, nonblock : BOOLEAN]]

Stored == [k \in 1 .. ((iw - ir) % N) |-> rbuf[(ir + k - 1) % N]]

\* device_read(), device_write() and device_open(): the ring is one queue that
\* neither loses, repeats nor reorders bytes while somebody has it open.
Device == INSTANCE SharedFifo WITH Items <- Bytes, Capacity <- N - 1, queue <- Stored, users <- use_count
IsSharedFifo == Device!Spec

\* wait_event_interruptible() and the wake_up_interruptible() that ends a call:
\* whoever sleeps although there is data, or room, is about to be woken.
NoSleeperForgotten ==
  /\ (\E r \in Readers : pc[r] = "asleep" /\ onq[r] = "queued") /\ ir # iw
       => \E w \in Writers : pc[w] \in {"copy", "wrap", "wake"}
  /\ (\E w \in Writers : pc[w] = "asleep" /\ onq[w] = "queued") /\ Len(Stored) < N - 1
       => \E r \in Readers : pc[r] \in {"copy", "wrap", "wake"}

InCall(p) == pc[p] \notin {"closed", "open"}

\* A call that finds data, or room, returns: nobody waits for ever on the
\* semaphore or on a wake-up that has come and gone.
CallsReturn ==
  /\ \A r \in Readers : InCall(r) /\ ir # iw ~> ~InCall(r)
  /\ \A w \in Writers : InCall(w) /\ Len(Stored) < N - 1 ~> ~InCall(w)

=============================================================================
