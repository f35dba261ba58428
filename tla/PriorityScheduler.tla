-------------------------- MODULE PriorityScheduler --------------------------
(***************************************************************************)
(* What MiROS promises: preemptive scheduling by fixed priority with       *)
(* blocking delays.  Whenever thread code runs, it is the code of the      *)
(* highest-priority thread that is not delayed (priority 0, the idle       *)
(* thread, when all are), and a delay of n ends with the n-th tick.        *)
(***************************************************************************)
EXTENDS Integers

CONSTANTS
  Prios,    \* priorities of the application's threads
  Delays    \* Delays[p]: the arguments thread p passes to OS_delay

VARIABLES
  started,  \* the threads that exist
  wait,     \* wait[p]: the ticks thread p still has to wait for
  running   \* whose code runs; Kernel while no thread code does

absVars == <<started, wait, running>>

Kernel == -1

\* p is the thread that should have the processor when w says who waits.
HasProcessor(p, ready) ==
  IF ready = {} THEN p = 0
  ELSE p \in ready /\ \A q \in ready : q <= p

AbsReady(w) == {p \in started : w[p] = 0}

AbsInit ==
  /\ started = {}
  /\ wait = [p \in Prios |-> 0]
  /\ running = Kernel

AbsStart(p) ==
  /\ running = Kernel
  /\ p \notin started
  /\ started' = started \union {p}
  /\ UNCHANGED <<wait, running>>

\* The running thread blocks itself.
AbsDelay(p) ==
  /\ running = p
  /\ \E n \in Delays[p] : wait' = [wait EXCEPT ![p] = n]
  /\ running' = Kernel
  /\ UNCHANGED started

\* Time passes for every waiting thread at once; the thread that runs goes on
\* only if it is still the one that should.
AbsTick ==
  /\ wait' = [p \in Prios |-> IF wait[p] > 0 THEN wait[p] - 1 ELSE 0]
  /\ \/ running' = Kernel
     \/ running' = running /\ HasProcessor(running, AbsReady(wait'))
  /\ UNCHANGED started

AbsDispatch ==
  /\ running = Kernel
  /\ running' \in Prios \union {0}
  /\ HasProcessor(running', AbsReady(wait))
  /\ UNCHANGED <<started, wait>>

AbsNext ==
  \/ \E p \in Prios : AbsStart(p) \/ AbsDelay(p)
  \/ AbsTick
  \/ AbsDispatch

AbsSpec == AbsInit /\ [][AbsNext]_absVars

=============================================================================
