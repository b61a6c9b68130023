---------------------------- MODULE TaskScheduler ----------------------------
(***************************************************************************)
(* freertos/scheduler.c, of which lpc17xx_armcortexm3/taskscheduler.c is a *)
(* copy: the tick chooses a task and PendSV changes to it.  Both handlers  *)
(* have the lowest priority, so neither interrupts the other, and PendSV   *)
(* comes first when both are pending; each is one action.                  *)
(***************************************************************************)
EXTENDS Integers

CONSTANTS
  NUMB_TASKS, \* tasks that have a stack and a function
  MaxWork     \* bound: how far a task counts

VARIABLES
  curr_task, next_task,
  pendsv,    \* the PendSV exception is pending
  PSP_array, \* the stack each entry points into; NoStack: still zero
  frames,    \* the registers at the place of each stack the entry points to
  regs,      \* the processor: the stack and the count of who runs
  fault,     \* the processor took a context that nobody saved
  work       \* history: how far each task has counted

schedVars == <<curr_task, next_task, pendsv, PSP_array, frames, regs, fault, work>>

Tasks   == 0 .. NUMB_TASKS - 1
NoStack == -1

\* init_sys(): the first task is called, the others wait with a prepared stack
Init ==
  /\ curr_task = 0 /\ next_task = 1 /\ pendsv = FALSE
  /\ PSP_array = [i \in 0 .. NUMB_TASKS |-> IF i \in Tasks THEN i ELSE NoStack]
  /\ frames = [t \in Tasks |-> 0]
  /\ regs = [stack |-> 0, count |-> 0]
  /\ fault = FALSE
  /\ work = [t \in Tasks |-> 0]

\* task0(), task1(): a round of the loop
Work ==
  /\ ~pendsv /\ ~fault /\ regs.count < MaxWork
  /\ regs' = [regs EXCEPT !.count = @ + 1]
  /\ work' = [work EXCEPT ![curr_task] = @ + 1]
  /\ UNCHANGED <<curr_task, next_task, pendsv, PSP_array, frames, fault>>

SysTick_Handler ==
  /\ ~pendsv /\ ~fault
  /\ next_task' = IF curr_task = NUMB_TASKS THEN 0 ELSE curr_task + 1
  /\ pendsv' = (curr_task # next_task')
  /\ UNCHANGED <<curr_task, PSP_array, frames, regs, fault, work>>

PendSV_crossed ==                           \* mutant: saved under the task to come
  /\ pendsv /\ pendsv' = FALSE
  /\ frames' = [frames EXCEPT ![regs.stack] = regs.count]
  /\ PSP_array' = [PSP_array EXCEPT ![next_task] = regs.stack]
  /\ curr_task' = next_task
  /\ LET stack == PSP_array'[next_task] IN
     IF stack = NoStack THEN fault' = TRUE /\ UNCHANGED regs
     ELSE regs' = [stack |-> stack, count |-> frames'[stack]] /\ UNCHANGED fault
  /\ UNCHANGED <<next_task, work>>

\* The registers go to the stack in use, the pointer to the entry of the task
\* that leaves; those of the next come from its entry.  From an entry that is
\* zero they come out of the vector table, and the return faults.
PendSV_Handler ==
  /\ pendsv /\ pendsv' = FALSE
  /\ frames' = [frames EXCEPT ![regs.stack] = regs.count]
  /\ PSP_array' = [PSP_array EXCEPT ![curr_task] = regs.stack]
  /\ curr_task' = next_task
  /\ LET stack == PSP_array[next_task] IN
     IF stack = NoStack THEN fault' = TRUE /\ UNCHANGED regs
     ELSE regs' = [stack |-> stack, count |-> frames[stack]] /\ UNCHANGED fault
  /\ UNCHANGED <<next_task, work>>

Next == Work \/ SysTick_Handler \/ PendSV_Handler

Spec == Init /\ [][Next]_schedVars

-----------------------------------------------------------------------------
(* Properties *)

\* The values each variable can hold; the tick may choose one task too many.
TypeOK ==
  /\ curr_task \in 0 .. NUMB_TASKS /\ next_task \in 0 .. NUMB_TASKS
  /\ pendsv \in BOOLEAN /\ fault \in BOOLEAN
  /\ PSP_array \in [0 .. NUMB_TASKS -> Tasks \cup {NoStack}]
  /\ frames \in [Tasks -> Nat] /\ work \in [Tasks -> Nat]
  /\ regs \in [stack : Tasks, count : Nat]

\* PendSV_Handler(): what a task has counted is in the processor, on the task's
\* own stack, while it runs, and from the switch on in the frame that its entry
\* points to, on that same stack.  (Nobody comes back to a frame: the tick
\* passes the last task, and what is found there is a fault.)
ContextSaved ==
  \A t \in Tasks :
    IF t = curr_task THEN regs = [stack |-> t, count |-> work[t]]
    ELSE PSP_array[t] = t /\ frames[t] = work[t]
=============================================================================
