---------------------------- MODULE MonitorBuffer ----------------------------
(***************************************************************************)
(* Producers and consumers of a stack of SIZE items behind one mutex and   *)
(* two condition variables: concurrency/producerconsumer_condv.c, which    *)
(* signals inside the lock when the buffer leaves its empty or full state, *)
(* and producerconsumer_condv2.c, which signals after every unlock.        *)
(*                                                                         *)
(* A section of code under buffer_lock is one action.  A thread that waits *)
(* gives the lock up; pthread_cond_wait() may also return unsignalled.     *)
(***************************************************************************)
EXTENDS Integers, FiniteSets

CONSTANTS
  Producers, Consumers,  \* the threads
  SIZE,
  None,                  \* what an unused cell holds
  Loops                  \* PRODUCER_LOOPS and CONSUMER_LOOPS, or LOOPS

ASSUME BufferAssumption ==
  /\ Producers \cap Consumers = {} /\ IsFiniteSet(Producers \cup Consumers)
  /\ SIZE \in Nat \ {0} /\ Loops \in Nat \ {0}

Threads == Producers \cup Consumers
\* The value of the k-th round of producer p stands for itself.
Items == Producers \X (1 .. Loops)

VARIABLES
  program,       \* "condv" or "condv2": the file that runs
  buffer,        \* the array
  buffer_index,  \* first free position
  pc,            \* "run": about to lock; "wait": in pthread_cond_wait(); "woken":
                 \* about to lock again; "signal": unlocked (condv2.c); "done"
  round,         \* local i of each thread
  taken          \* history: items consumed, and how often

vars == <<program, buffer, buffer_index, pc, round, taken>>

Init ==
  /\ program \in {"condv", "condv2"}
  /\ buffer = [k \in 0 .. (SIZE - 1) |-> None] /\ buffer_index = 0
  /\ pc = [t \in Threads |-> "run"]
  /\ round = [t \in Threads |-> 1]
  /\ taken = [x \in Items |-> 0]

isempty == buffer_index = 0
isfull  == buffer_index = SIZE

\* The threads in pthread_cond_wait() on full_cond or empty_cond
Waiting(S) == {t \in S : pc[t] = "wait"}

\* pc after t's section, when a signal to one of S is sent if sends holds
Signal(t, to, sends, S) ==
  IF sends /\ Waiting(S) # {}
    THEN \E w \in Waiting(S) : pc' = [pc EXCEPT ![t] = to, ![w] = "woken"]
    ELSE pc' = [pc EXCEPT ![t] = to]

NextRound(t) == round' = [round EXCEPT ![t] = @ + 1]

\* Where a thread goes when its round is over
After(t) == IF round[t] = Loops THEN "done" ELSE "run"

-----------------------------------------------------------------------------

Wait(t) ==
  /\ pc' = [pc EXCEPT ![t] = "wait"]
  /\ UNCHANGED <<buffer, buffer_index, round, taken>>

insertbuffer(x) ==
  IF buffer_index < SIZE
    THEN buffer' = [buffer EXCEPT ![buffer_index] = x] /\ buffer_index' = buffer_index + 1
    ELSE UNCHANGED <<buffer, buffer_index>>   \* "Buffer overflow": the value is dropped

\* An empty buffer underflows: condv.c returns 0, condv2.c reads before the array.
dequeuebuffer ==
  /\ buffer_index' = buffer_index - 1
  /\ taken' = IF isempty THEN taken ELSE [taken EXCEPT ![buffer[buffer_index - 1]] = @ + 1]
  /\ UNCHANGED buffer

\* About to take buffer_lock, for the first time or after a wake-up
Locking(t) == pc[t] \in {"run", "woken"}

Produce_if(p) ==                            \* mutant: if (isfull()) in place of while
  /\ program = "condv" /\ Locking(p)
  /\ IF isfull /\ pc[p] = "run"
       THEN Wait(p)
       ELSE /\ insertbuffer(<<p, round[p]>>)
            /\ Signal(p, After(p), isempty, Consumers)
            /\ NextRound(p) /\ UNCHANGED taken

Produce_test_after(p) ==                    \* mutant: the test follows the insertion
  /\ program = "condv" /\ Locking(p)
  /\ IF isfull
       THEN Wait(p)
       ELSE /\ insertbuffer(<<p, round[p]>>)
            /\ Signal(p, After(p), buffer_index' = 0, Consumers)
            /\ NextRound(p) /\ UNCHANGED taken

\* producer() of condv.c: the test before the insertion decides on the signal.
Produce(p) ==
  /\ program = "condv" /\ Locking(p)
  /\ IF isfull
       THEN Wait(p)
       ELSE /\ insertbuffer(<<p, round[p]>>)
            /\ Signal(p, After(p), isempty, Consumers)
            /\ NextRound(p) /\ UNCHANGED taken

Consume_if(c) ==                            \* mutant: if (isempty()) in place of while
  /\ program = "condv" /\ Locking(c)
  /\ IF isempty /\ pc[c] = "run"
       THEN Wait(c)
       ELSE /\ dequeuebuffer
            /\ Signal(c, After(c), isfull, Producers)
            /\ NextRound(c)

\* consumer() of condv.c
Consume(c) ==
  /\ program = "condv" /\ Locking(c)
  /\ IF isempty
       THEN Wait(c)
       ELSE /\ dequeuebuffer
            /\ Signal(c, After(c), isfull, Producers)
            /\ NextRound(c)

Produce2_if(p) ==                           \* mutant: if (isfull()) in place of while
  /\ program = "condv2" /\ Locking(p)
  /\ IF isfull /\ pc[p] = "run"
       THEN Wait(p)
       ELSE /\ insertbuffer(<<p, round[p]>>)
            /\ pc' = [pc EXCEPT ![p] = "signal"]
            /\ UNCHANGED <<round, taken>>

\* producer() of condv2.c unlocks first
Produce2(p) ==
  /\ program = "condv2" /\ Locking(p)
  /\ IF isfull
       THEN Wait(p)
       ELSE /\ insertbuffer(<<p, round[p]>>)
            /\ pc' = [pc EXCEPT ![p] = "signal"]
            /\ UNCHANGED <<round, taken>>

Consume2_if(c) ==                           \* mutant: if (isempty()) in place of while
  /\ program = "condv2" /\ Locking(c)
  /\ IF isempty /\ pc[c] = "run"
       THEN Wait(c)
       ELSE /\ dequeuebuffer
            /\ pc' = [pc EXCEPT ![c] = "signal"]
            /\ UNCHANGED round

\* consumer() of condv2.c
Consume2(c) ==
  /\ program = "condv2" /\ Locking(c)
  /\ IF isempty
       THEN Wait(c)
       ELSE /\ dequeuebuffer
            /\ pc' = [pc EXCEPT ![c] = "signal"]
            /\ UNCHANGED round

SignalLater_self(t) ==                      \* mutant: the other condition variable
  /\ pc[t] = "signal"
  /\ Signal(t, After(t), TRUE, IF t \in Producers THEN Producers ELSE Consumers)
  /\ NextRound(t)
  /\ UNCHANGED <<buffer, buffer_index, taken>>

\* condv2.c: pthread_cond_signal() after pthread_mutex_unlock()
SignalLater(t) ==
  /\ pc[t] = "signal"
  /\ Signal(t, After(t), TRUE, IF t \in Producers THEN Consumers ELSE Producers)
  /\ NextRound(t)
  /\ UNCHANGED <<buffer, buffer_index, taken>>

\* A spurious wake-up
Spurious(t) ==
  /\ pc[t] = "wait"
  /\ pc' = [pc EXCEPT ![t] = "woken"]
  /\ UNCHANGED <<program, buffer, buffer_index, round, taken>>

Run(t) ==
  /\ \/ t \in Producers /\ (Produce(t) \/ Produce2(t))
     \/ t \in Consumers /\ (Consume(t) \/ Consume2(t))
     \/ SignalLater(t)
  /\ UNCHANGED program

AllDone == \A t \in Threads : pc[t] = "done"

\* main() joins the threads
Next == (\E t \in Threads : Run(t) \/ Spurious(t)) \/ (AllDone /\ UNCHANGED vars)

Spec == Init /\ [][Next]_vars

\* main() joins threads that the scheduler runs: one that is ready gets the lock
\* in the end, since no section is long.  Nobody promises a spurious wake-up.
Fairness == \A t \in Threads : WF_vars(Run(t))

FairSpec == Spec /\ Fairness

-----------------------------------------------------------------------------
(* Properties *)

\* The values each variable can hold; buffer_index never leaves the array.
TypeOK ==
  /\ program \in {"condv", "condv2"}
  /\ buffer \in [0 .. (SIZE - 1) -> Items \cup {None}]
  /\ buffer_index \in 0 .. SIZE
  /\ pc \in [Threads -> {"run", "wait", "woken", "signal", "done"}]
  /\ round \in [Threads -> 1 .. (Loops + 1)]
  /\ taken \in [Items -> Nat]

\* The items a producer has put in
Made == {x \in Items : round[x[1]] > x[2] \/ (round[x[1]] = x[2] /\ pc[x[1]] = "signal")}
Stored == {buffer[k] : k \in 0 .. (buffer_index - 1)}

\* producer() and consumer(), "while is for spurious wake-ups": whoever wakes
\* when, each value inserted is in the buffer or was consumed, and only once.
NothingLostOrRepeated ==
  /\ \A x \in Items : taken[x] <= 1
  /\ \A j, k \in 0 .. (buffer_index - 1) : buffer[j] = buffer[k] => j = k
  /\ {x \in Items : taken[x] = 1} \cap Stored = {}
  /\ {x \in Items : taken[x] = 1} \cup Stored = Made

\* producerconsumer_condv2.c: main() joins every thread, so none may sleep for
\* ever on a signal that came before the wait or went to another one.
Terminates == program = "condv2" => <>AllDone

\* producerconsumer_condv.c, "buffer no longer empty, so wake up consumers":
\* there too, main() joins every thread.
EveryProgramEnds == <>AllDone
=============================================================================
