-------------------------------- MODULE Miros --------------------------------
(***************************************************************************)
(* MiROS (Data_Struct_Implementation/taskScheduler/exampleRTOSScheduler/   *)
(* mirosExample): miros.c, the SysTick handler of bsp.c, and an            *)
(* application as in main.c, whose threads call OS_delay for ever.         *)
(*                                                                         *)
(* A thread is named by its priority; 0 is the idle thread.  The sets are  *)
(* the bit masks of miros.c: priority p is bit p - 1, so that LOG2 of a    *)
(* mask is the largest element of the set.  Code between __disable_irq and *)
(* __enable_irq is one step, and so is SysTick, the interrupt of highest   *)
(* priority.  PendSV, of the lowest priority, can be interrupted by        *)
(* SysTick before its CPSID and after its CPSIE.                           *)
(***************************************************************************)
EXTENDS Integers, FiniteSets

CONSTANTS
  Prios,    \* the priorities of the threads main() starts
  Delays    \* Delays[p]: the arguments thread p passes to OS_delay

\* OS_thread has 32 + 1 entries; the callers in main.c pass nonzero delays.
ASSUME MirosAssumption ==
  /\ Prios \subseteq 1..32
  /\ Delays \in [Prios -> SUBSET (Nat \ {0})]

VARIABLES
  thread,      \* the priorities p with OS_thread[p] # NULL
  readySet,    \* OS_readySet
  delayedSet,  \* OS_delayedSet
  timeout,     \* timeout[p]: the down-counter of thread p
  curr, next,  \* OS_curr and OS_next, None for NULL
  pend,        \* PendSV is pending
  pendsv,      \* where the PendSV handler is: "off", "entry" or "exit"
  cpu,         \* whose registers and stack the processor uses, None for main's
  saved,       \* saved[p]: whose registers the stack of thread p holds
  boot,        \* how far main() is: "threads", "startup", "run"
  reset        \* an assertion failed and Q_onAssert reset the system

mirosVars == <<thread, readySet, delayedSet, timeout, curr, next, pend, pendsv,
               cpu, saved, boot, reset>>

VARIABLES
  asked,       \* history: the argument of thread p's last OS_delay
  elapsed      \* history: the ticks since that call, while p is delayed

vars == <<mirosVars, asked, elapsed>>

None == -1
Threads == Prios \union {0}

TypeOK ==
  /\ thread \subseteq Threads
  /\ readySet \subseteq Prios /\ delayedSet \subseteq Prios
  /\ timeout \in [Threads -> Nat]
  /\ curr \in Threads \union {None} /\ next \in Threads \union {None}
  /\ pend \in BOOLEAN
  /\ pendsv \in {"off", "entry", "exit"}
  /\ cpu \in Threads \union {None}
  /\ saved \in [Threads -> Threads \union {None}]
  /\ boot \in {"threads", "startup", "run"}
  /\ reset \in BOOLEAN
  /\ asked \in [Prios -> Nat] /\ elapsed \in [Prios -> Nat]

\* OS_init has started the idle thread, which is in neither set.
Init ==
  /\ thread = {0}
  /\ readySet = {} /\ delayedSet = {}
  /\ timeout = [p \in Threads |-> 0]
  /\ curr = None /\ next = None
  /\ pend = FALSE /\ pendsv = "off"
  /\ cpu = None
  /\ saved = [p \in Threads |-> p]
  /\ boot = "threads"
  /\ reset = FALSE
  /\ asked = [p \in Prios |-> 0] /\ elapsed = [p \in Prios |-> 0]

(***************************************************************************)
(* Helpers.                                                                *)
(***************************************************************************)

\* Mutant of IsLog2: the smallest element, as when bits are counted from the
\* other end.
IsLowest(p, mask) == p \in mask /\ \A q \in mask : p <= q

\* p = LOG2(mask) for a mask that is not zero.
IsLog2(p, mask) == p \in mask /\ \A q \in mask : q <= p

\* A Q_ASSERT that does not hold resets the system.
Fail == reset' = TRUE

\* OS_sched, for the ready set the caller leaves behind.
OS_sched(ready) ==
  \E p \in Threads :
    /\ IF ready = {} THEN p = 0 ELSE IsLog2(p, ready)
    /\ IF p \in thread THEN UNCHANGED reset ELSE Fail
    /\ next' = p
    /\ pend' = (pend \/ p # curr)

\* Thread code runs: no exception is active or about to be taken.
ThreadMode == pendsv = "off" /\ ~pend

(***************************************************************************)
(* main(): OSThread_start for every thread, then OS_run.                   *)
(***************************************************************************)
InMain == cpu = None /\ ThreadMode

\* OSThread_start; Q_REQUIRE finds the priority unused.
OSThread_start(p) ==
  /\ InMain /\ boot = "threads"
  /\ p \notin thread
  /\ thread' = thread \union {p}
  /\ saved' = [saved EXCEPT ![p] = p]
  /\ readySet' = readySet \union {p}
  /\ UNCHANGED <<delayedSet, timeout, curr, next, pend, pendsv, cpu, boot,
                 reset, asked, elapsed>>

\* OS_run up to OS_onStartup, which starts the SysTick interrupt.
OS_onStartup ==
  /\ InMain /\ boot = "threads"
  /\ Prios \subseteq thread
  /\ boot' = "startup"
  /\ UNCHANGED <<thread, readySet, delayedSet, timeout, curr, next, pend,
                 pendsv, cpu, saved, reset, asked, elapsed>>

\* The rest of OS_run.
OS_run ==
  /\ InMain /\ boot = "startup"
  /\ OS_sched(readySet)
  /\ boot' = "run"
  /\ UNCHANGED <<thread, readySet, delayedSet, timeout, curr, pendsv, cpu,
                 saved, asked, elapsed>>

\* "the following code should never execute": main() goes on after OS_run.
OS_runReturned == InMain /\ boot = "run"

(***************************************************************************)
(* Threads and interrupts.                                                 *)
(***************************************************************************)

\* The code of the thread that has the processor calls OS_delay(ticks), which
\* believes OS_curr to be that thread.
OS_delay(ticks) ==
  IF curr = 0
  THEN Fail /\ UNCHANGED <<readySet, delayedSet, timeout, next, pend>>
  ELSE /\ timeout' = [timeout EXCEPT ![curr] = ticks]
       /\ readySet' = readySet \ {curr}
       /\ delayedSet' = delayedSet \union {curr}
       /\ OS_sched(readySet')

ThreadDelays(p) ==
  /\ ThreadMode /\ cpu = p
  /\ \E n \in Delays[p] :
       /\ OS_delay(n)
       /\ asked' = [asked EXCEPT ![p] = n]
  /\ elapsed' = [elapsed EXCEPT ![p] = 0]
  /\ UNCHANGED <<thread, curr, pendsv, cpu, saved, boot>>

\* What OS_tick asserts of every delayed thread it visits.
Tickable == \A p \in delayedSet : p \in thread /\ timeout[p] # 0

\* Mutants of Expired: off by one in either direction.
ExpiredLate == {p \in delayedSet : timeout[p] = 0}
ExpiredEarly == {p \in delayedSet : timeout[p] <= 2}

\* The delayed threads whose counter this tick takes to zero.
Expired == {p \in delayedSet : timeout[p] = 1}

\* Mutants of OS_tick: every counter is decremented; an expired thread keeps its
\* bit in OS_delayedSet.
OS_tickAll ==
  /\ timeout' = [p \in Threads |-> timeout[p] - 1]
  /\ readySet' = readySet \union Expired
  /\ delayedSet' = delayedSet \ Expired

OS_tickKeeps ==
  /\ timeout' = [p \in Threads |->
                   IF p \in delayedSet THEN timeout[p] - 1 ELSE timeout[p]]
  /\ readySet' = readySet \union Expired
  /\ UNCHANGED delayedSet

\* OS_tick: the loop visits each delayed thread once.
OS_tick ==
  /\ timeout' = [p \in Threads |->
                   IF p \in delayedSet THEN timeout[p] - 1 ELSE timeout[p]]
  /\ readySet' = readySet \union Expired
  /\ delayedSet' = delayedSet \ Expired

\* Mutant of SysTick_Handler: OS_tick without OS_sched.
SysTick_HandlerNoSched ==
  /\ boot # "threads"
  /\ IF Tickable
     THEN OS_tick /\ UNCHANGED <<reset, next, pend>>
     ELSE Fail /\ UNCHANGED <<timeout, readySet, delayedSet, next, pend>>
  /\ elapsed' = [p \in Prios |->
                   IF p \in delayedSet THEN elapsed[p] + 1 ELSE elapsed[p]]
  /\ UNCHANGED <<thread, curr, pendsv, cpu, saved, boot, asked>>

SysTick_Handler ==
  /\ boot # "threads"
  /\ IF Tickable
     THEN OS_tick /\ OS_sched(readySet')
     ELSE Fail /\ UNCHANGED <<timeout, readySet, delayedSet, next, pend>>
  /\ elapsed' = [p \in Prios |->
                   IF p \in delayedSet THEN elapsed[p] + 1 ELSE elapsed[p]]
  /\ UNCHANGED <<thread, curr, pendsv, cpu, saved, boot, asked>>

\* The processor takes the pending exception.
PendSV_Enter ==
  /\ pend /\ pendsv = "off"
  /\ pend' = FALSE
  /\ pendsv' = "entry"
  /\ UNCHANGED <<thread, readySet, delayedSet, timeout, curr, next, cpu, saved,
                 boot, reset, asked, elapsed>>

\* PendSV_Handler with interrupts off: save the registers on the stack of the
\* current thread, if there is one, and restore those of the next.
PendSV_Handler ==
  /\ pendsv = "entry"
  /\ saved' = IF curr = None THEN saved ELSE [saved EXCEPT ![curr] = cpu]
  /\ cpu' = saved'[next]
  /\ curr' = next
  /\ pendsv' = "exit"
  /\ UNCHANGED <<thread, readySet, delayedSet, timeout, next, pend, boot, reset,
                 asked, elapsed>>

\* Mutant of PendSV_Return: the handler clears the pending bit when it ends, and
\* with it a request SysTick has made after CPSIE.
PendSV_ReturnClears ==
  /\ pendsv = "exit"
  /\ pendsv' = "off"
  /\ pend' = FALSE
  /\ UNCHANGED <<thread, readySet, delayedSet, timeout, curr, next, cpu, saved,
                 boot, reset, asked, elapsed>>

PendSV_Return ==
  /\ pendsv = "exit"
  /\ pendsv' = "off"
  /\ UNCHANGED <<thread, readySet, delayedSet, timeout, curr, next, pend, cpu,
                 saved, boot, reset, asked, elapsed>>

MainStep ==
  \/ \E p \in Prios : OSThread_start(p)
  \/ OS_onStartup \/ OS_run

PendSV == PendSV_Enter \/ PendSV_Handler \/ PendSV_Return

Next ==
  /\ ~reset
  /\ \/ MainStep
     \/ \E p \in Prios : ThreadDelays(p)
     \/ SysTick_Handler
     \/ PendSV

Spec == Init /\ [][Next]_vars

(***************************************************************************)
(* Fairness: main() runs, the timer ticks, a pending exception is taken    *)
(* and its handler runs.  Nothing makes a thread call OS_delay.            *)
(***************************************************************************)
FairSpec ==
  Spec /\ WF_vars(~reset /\ MainStep) /\ WF_vars(~reset /\ SysTick_Handler)
       /\ WF_vars(~reset /\ PendSV)

-----------------------------------------------------------------------------
\* No assertion of miros.c ever fails: a delayed thread exists and has a
\* nonzero counter, the idle thread does not call OS_delay, OS_sched never
\* selects a missing thread, and OS_run does not return to reach Q_ERROR.
NeverResets == ~reset /\ ~OS_runReturned

\* Every started thread is in exactly one of the two sets, and it is in
\* OS_delayedSet exactly while its counter runs.
ReadyXorDelayed ==
  /\ readySet \intersect delayedSet = {}
  /\ readySet \union delayedSet = thread \ {0}
  /\ \A p \in Prios : p \in delayedSet <=> timeout[p] > 0

\* Whenever thread code runs, OS_curr is the thread whose registers are in the
\* processor, and it is the highest-priority ready thread, although PendSV can
\* be interrupted by SysTick on both sides of the switch.
HighestReadyRuns ==
  ThreadMode /\ cpu # None =>
    /\ curr = cpu
    /\ IF readySet = {} THEN cpu = 0 ELSE IsLog2(cpu, readySet)

\* OS_delay(n) blocks for exactly n ticks: a thread leaves OS_delayedSet in the
\* step that is the n-th tick after its call, and in no other.
DelayIsExact ==
  [][\A p \in Prios : p \in delayedSet =>
       (p \notin delayedSet' <=> elapsed'[p] = asked[p])]_vars

\* The thread of the highest priority gets the processor back after each delay.
TopThreadReturns ==
  \A p \in Prios : (\A q \in Prios : q <= p) =>
    (p \in delayedSet ~> cpu = p /\ ThreadMode)

\* The scheduler implements preemptive priority scheduling.
Scheduler == INSTANCE PriorityScheduler WITH
  started <- thread \ {0},
  wait <- [p \in Prios |-> timeout[p]],
  running <- IF ThreadMode THEN cpu ELSE None

ImplementsPriorityScheduler == Scheduler!AbsSpec

=============================================================================
