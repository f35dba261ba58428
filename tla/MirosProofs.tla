----------------------------- MODULE MirosProofs -----------------------------
(***************************************************************************)
(* Proofs about Miros for every set of priorities and of delays.           *)
(***************************************************************************)
EXTENDS Miros, TLAPS

IsTop(p, ready) == IF ready = {} THEN p = 0 ELSE IsLog2(p, ready)

\* Before the first OS_sched nothing has been scheduled or delayed.
Unscheduled ==
  next = None =>
    /\ curr = None /\ ~pend /\ pendsv = "off"
    /\ delayedSet = {} /\ boot # "run"

\* From then on OS_next is the thread that should run, and either it runs or
\* the switch to it is under way.
Scheduled ==
  next # None =>
    /\ IsTop(next, readySet)
    /\ pend \/ pendsv = "entry" \/ curr = next
    /\ boot # "threads"

\* The registers in the processor are the current thread's; the stack of every
\* other thread holds its own registers.
Contexts ==
  /\ cpu = curr
  /\ \A p \in Threads : p # curr => saved[p] = p

\* The counter of a delayed thread counts what is left of its delay.
Counters ==
  \A p \in delayedSet : timeout[p] + elapsed[p] = asked[p]

IInv ==
  /\ TypeOK
  /\ 0 \in thread
  /\ ReadyXorDelayed
  /\ ~reset
  /\ Unscheduled
  /\ Scheduled
  /\ Contexts
  /\ Counters

-----------------------------------------------------------------------------
LEMMA InitIInv == Init => IInv
<1> SUFFICES ASSUME Init PROVE IInv
  OBVIOUS
<1>1. TypeOK
  BY DEF Init, TypeOK, Threads, None
<1>2. 0 \in thread /\ ReadyXorDelayed
  BY DEF Init, ReadyXorDelayed, Threads
<1>3. ~reset /\ Unscheduled /\ Scheduled /\ Contexts /\ Counters
  BY DEF Init, Unscheduled, Scheduled, Contexts, Counters
<1> QED
  BY <1>1, <1>2, <1>3 DEF IInv

\* OS_sched establishes Scheduled and keeps the types it assigns.
LEMMA SchedLemma ==
  ASSUME IInv, NEW ready \in SUBSET Prios, ready \subseteq thread, OS_sched(ready)
  PROVE  /\ next' \in Threads /\ next' # None
         /\ pend' \in BOOLEAN
         /\ IsTop(next', ready)
         /\ pend' \/ curr = next'
         /\ pend => pend'
         /\ reset' = reset
<1>1. PICK p \in Threads :
        /\ IF ready = {} THEN p = 0 ELSE IsLog2(p, ready)
        /\ IF p \in thread THEN UNCHANGED reset ELSE Fail
        /\ next' = p
        /\ pend' = (pend \/ p # curr)
  BY DEF OS_sched
<1>2. IsTop(p, ready)
  BY <1>1 DEF IsTop
<1>3. p \in thread
  BY <1>2 DEF IsTop, IsLog2, IInv
<1>4. p # None
  BY MirosAssumption DEF Threads, None
<1>5. pend' \in BOOLEAN /\ (pend' \/ curr = next') /\ (pend => pend')
  BY <1>1
<1> QED
  BY <1>1, <1>2, <1>3, <1>4, <1>5

LEMMA StartStep ==
  ASSUME IInv, NEW p \in Prios, OSThread_start(p)
  PROVE  IInv'
<1>1. next = None /\ p \notin delayedSet /\ 0 \notin Prios
  BY MirosAssumption DEF IInv, Unscheduled, Scheduled, OSThread_start
<1>2. TypeOK'
  BY DEF IInv, TypeOK, OSThread_start, Threads
<1>3. 0 \in thread' /\ ReadyXorDelayed'
  BY <1>1 DEF IInv, ReadyXorDelayed, OSThread_start
<1>4. Unscheduled' /\ Scheduled' /\ Counters' /\ reset' = reset
  BY <1>1 DEF IInv, Unscheduled, Scheduled, Counters, OSThread_start
<1>5. Contexts'
  BY DEF IInv, TypeOK, Contexts, OSThread_start
<1> QED
  BY <1>2, <1>3, <1>4, <1>5 DEF IInv

LEMMA StartupStep == ASSUME IInv, OS_onStartup PROVE IInv'
BY MirosAssumption DEF IInv, TypeOK, ReadyXorDelayed, Unscheduled, Scheduled,
   Contexts, Counters, Threads, None, OS_onStartup, InMain, ThreadMode, IsTop

LEMMA RunStep == ASSUME IInv, OS_run PROVE IInv'
<1>1. readySet \in SUBSET Prios /\ readySet \subseteq thread
  BY DEF IInv, TypeOK, ReadyXorDelayed
<1>2. OS_sched(readySet)
  BY DEF OS_run
<1>3. /\ next' \in Threads /\ next' # None
      /\ pend' \in BOOLEAN
      /\ IsTop(next', readySet)
      /\ pend' \/ curr = next'
      /\ reset' = reset
  BY <1>1, <1>2, SchedLemma
<1> QED
  BY <1>3 DEF IInv, TypeOK, ReadyXorDelayed, Unscheduled, Scheduled, Contexts,
     Counters, OS_run, IsTop, IsLog2

LEMMA DelayStep ==
  ASSUME IInv, NEW p \in Prios, ThreadDelays(p)
  PROVE  IInv'
<1>1. /\ curr = p /\ p # None /\ curr # 0
      /\ next = p /\ IsTop(p, readySet)
  BY MirosAssumption
  DEF IInv, ThreadDelays, ThreadMode, Scheduled, Unscheduled, Contexts, None
<1>2. p \in readySet /\ p \notin delayedSet
  BY <1>1, MirosAssumption DEF IsTop, IsLog2, IInv, ReadyXorDelayed
<1>3. PICK n \in Delays[p] : OS_delay(n) /\ asked' = [asked EXCEPT ![p] = n]
  BY DEF ThreadDelays
<1>4. n \in Nat \ {0}
  BY <1>3, MirosAssumption
<1>5. /\ timeout' = [timeout EXCEPT ![p] = n]
      /\ readySet' = readySet \ {p}
      /\ delayedSet' = delayedSet \union {p}
      /\ OS_sched(readySet')
  BY <1>1, <1>3 DEF OS_delay
<1>6. readySet' \in SUBSET Prios /\ readySet' \subseteq thread
  BY <1>5 DEF IInv, TypeOK, ReadyXorDelayed
<1>7. /\ next' \in Threads /\ next' # None
      /\ pend' \in BOOLEAN
      /\ IsTop(next', readySet')
      /\ pend' \/ curr = next'
      /\ reset' = reset
  <2> DEFINE R == readySet'
  <2>1. R \in SUBSET Prios /\ R \subseteq thread /\ OS_sched(R)
    BY <1>5, <1>6
  <2> HIDE DEF R
  <2>2. /\ next' \in Threads /\ next' # None
        /\ pend' \in BOOLEAN
        /\ IsTop(next', R)
        /\ pend' \/ curr = next'
        /\ reset' = reset
    BY <2>1, SchedLemma
  <2> QED BY <2>2 DEF R
<1>8. /\ elapsed' = [elapsed EXCEPT ![p] = 0]
      /\ UNCHANGED <<thread, curr, pendsv, cpu, saved, boot>>
  BY DEF ThreadDelays
<1>9. TypeOK'
  BY <1>3, <1>4, <1>5, <1>6, <1>7, <1>8 DEF IInv, TypeOK, Threads
<1>10. ReadyXorDelayed'
  BY <1>2, <1>4, <1>5, <1>8 DEF IInv, TypeOK, ReadyXorDelayed, Threads
<1>11. Scheduled' /\ Unscheduled'
  BY <1>1, <1>7, <1>8 DEF IInv, Scheduled, Unscheduled, IsTop, IsLog2
<1>12. Contexts'
  BY <1>8 DEF IInv, Contexts
<1>13. Counters'
  BY <1>2, <1>3, <1>4, <1>5, <1>8 DEF IInv, TypeOK, Counters, Threads
<1> QED
  BY <1>7, <1>8, <1>9, <1>10, <1>11, <1>12, <1>13 DEF IInv

\* Under the invariant OS_tick's assertion holds, so SysTick always schedules.
LEMMA TickFacts ==
  ASSUME IInv, SysTick_Handler
  PROVE  /\ OS_tick
         /\ OS_sched(readySet')
         /\ elapsed' = [p \in Prios |->
              IF p \in delayedSet THEN elapsed[p] + 1 ELSE elapsed[p]]
         /\ UNCHANGED <<thread, curr, pendsv, cpu, saved, boot, asked>>
         /\ boot # "threads"
<1>1. Tickable
  BY DEF IInv, TypeOK, ReadyXorDelayed, Tickable, Threads
<1> QED
  BY <1>1 DEF SysTick_Handler

LEMMA TickStep == ASSUME IInv, SysTick_Handler PROVE IInv'
<1>1. /\ OS_tick
      /\ OS_sched(readySet')
      /\ elapsed' = [p \in Prios |->
           IF p \in delayedSet THEN elapsed[p] + 1 ELSE elapsed[p]]
      /\ UNCHANGED <<thread, curr, pendsv, cpu, saved, boot, asked>>
      /\ boot # "threads"
  BY TickFacts
<1>2. readySet' \in SUBSET Prios /\ readySet' \subseteq thread
  BY <1>1 DEF IInv, TypeOK, ReadyXorDelayed, OS_tick, Expired
<1>3. /\ next' \in Threads /\ next' # None
      /\ pend' \in BOOLEAN
      /\ IsTop(next', readySet')
      /\ pend' \/ curr = next'
      /\ reset' = reset
  <2> DEFINE R == readySet'
  <2>1. R \in SUBSET Prios /\ R \subseteq thread /\ OS_sched(R)
    BY <1>1, <1>2
  <2> HIDE DEF R
  <2>2. /\ next' \in Threads /\ next' # None
        /\ pend' \in BOOLEAN
        /\ IsTop(next', R)
        /\ pend' \/ curr = next'
        /\ reset' = reset
    BY <2>1, SchedLemma
  <2> QED BY <2>2 DEF R
<1>4. \A p \in delayedSet : p \in Prios /\ timeout[p] \in Nat /\ timeout[p] > 0
  BY DEF IInv, TypeOK, ReadyXorDelayed, Threads
<1>5. \A p \in Prios :
        timeout'[p] = IF p \in delayedSet THEN timeout[p] - 1 ELSE timeout[p]
  BY <1>1 DEF OS_tick, Threads
<1>6. timeout' \in [Threads -> Nat]
  BY <1>1, <1>4 DEF IInv, TypeOK, OS_tick, Threads
<1>7. elapsed' \in [Prios -> Nat]
  BY <1>1 DEF IInv, TypeOK
<1>8. delayedSet' = delayedSet \ Expired
  BY <1>1 DEF OS_tick
<1>9. TypeOK'
  BY <1>1, <1>2, <1>3, <1>6, <1>7, <1>8 DEF IInv, TypeOK
<1>10. ReadyXorDelayed'
  <2>1. /\ readySet' \intersect delayedSet' = {}
        /\ readySet' \union delayedSet' = thread' \ {0}
    BY <1>1, <1>4 DEF IInv, ReadyXorDelayed, OS_tick, Expired
  <2>2. \A p \in Prios : p \in delayedSet' <=> timeout'[p] > 0
    <3> SUFFICES ASSUME NEW p \in Prios
                 PROVE  p \in delayedSet' <=> timeout'[p] > 0
      OBVIOUS
    <3>1. CASE p \in delayedSet
      <4>1. timeout'[p] = timeout[p] - 1 /\ timeout[p] \in Nat /\ timeout[p] > 0
        BY <1>4, <1>5, <3>1
      <4>2. p \in delayedSet' <=> timeout[p] # 1
        BY <1>8, <3>1 DEF Expired
      <4> QED BY <4>1, <4>2
    <3>2. CASE p \notin delayedSet
      BY <1>5, <1>8, <3>2 DEF IInv, ReadyXorDelayed
    <3> QED BY <3>1, <3>2
  <2> QED BY <2>1, <2>2 DEF ReadyXorDelayed
<1>11. Scheduled' /\ Unscheduled'
  BY <1>1, <1>3 DEF IInv, Scheduled, Unscheduled, IsTop, IsLog2
<1>12. Contexts'
  BY <1>1 DEF IInv, Contexts
<1>13. Counters'
  <2> SUFFICES ASSUME NEW p \in delayedSet'
               PROVE  timeout'[p] + elapsed'[p] = asked'[p]
    BY DEF Counters
  <2>1. p \in delayedSet /\ p \in Prios
    BY <1>4, <1>8
  <2>2. /\ timeout'[p] = timeout[p] - 1 /\ elapsed'[p] = elapsed[p] + 1
        /\ asked'[p] = asked[p]
    BY <1>1, <1>5, <2>1
  <2>3. timeout[p] \in Nat /\ elapsed[p] \in Nat /\ timeout[p] + elapsed[p] = asked[p]
    BY <2>1 DEF IInv, TypeOK, Counters, Threads
  <2> QED BY <2>2, <2>3
<1> QED
  BY <1>1, <1>3, <1>9, <1>10, <1>11, <1>12, <1>13 DEF IInv

LEMMA PendSVStep == ASSUME IInv, PendSV PROVE IInv'
<1>1. CASE PendSV_Enter
  BY <1>1 DEF IInv, TypeOK, ReadyXorDelayed, Unscheduled, Scheduled, Contexts,
     Counters, PendSV_Enter, IsTop, IsLog2
<1>2. CASE PendSV_Handler
  <2>1. next # None /\ next \in Threads
    BY <1>2 DEF IInv, TypeOK, Unscheduled, PendSV_Handler
  <2>2. saved' \in [Threads -> Threads \union {None}]
        /\ \A p \in Threads : saved'[p] = p
    <3>1. /\ saved \in [Threads -> Threads \union {None}]
          /\ cpu \in Threads \union {None} /\ cpu = curr
          /\ \A p \in Threads : p # curr => saved[p] = p
      BY DEF IInv, TypeOK, Contexts
    <3>2. CASE curr = None
      <4>1. saved' = saved
        BY <1>2, <3>2 DEF PendSV_Handler
      <4>2. None \notin Threads
        BY MirosAssumption DEF None, Threads
      <4> QED BY <3>1, <3>2, <4>1, <4>2
    <3>3. CASE curr # None
      <4>1. saved' = [saved EXCEPT ![curr] = cpu]
        BY <1>2, <3>3 DEF PendSV_Handler
      <4> QED BY <3>1, <3>3, <4>1
    <3> QED BY <3>2, <3>3
  <2>3. cpu' = next /\ curr' = next
    BY <1>2, <2>1, <2>2 DEF PendSV_Handler
  <2> QED
    BY <1>2, <2>1, <2>2, <2>3 DEF IInv, TypeOK, ReadyXorDelayed, Unscheduled,
       Scheduled, Contexts, Counters, PendSV_Handler, IsTop, IsLog2
<1>3. CASE PendSV_Return
  BY <1>3 DEF IInv, TypeOK, ReadyXorDelayed, Unscheduled, Scheduled, Contexts,
     Counters, PendSV_Return, IsTop, IsLog2
<1> QED
  BY <1>1, <1>2, <1>3 DEF PendSV

LEMMA StutterStep == ASSUME IInv, UNCHANGED vars PROVE IInv'
BY DEF IInv, TypeOK, ReadyXorDelayed, Unscheduled, Scheduled, Contexts,
   Counters, vars, mirosVars, IsTop, IsLog2

LEMMA NextIInv == IInv /\ [Next]_vars => IInv'
BY StartStep, StartupStep, RunStep, DelayStep, TickStep, PendSVStep, StutterStep
DEF Next, MainStep

\* The inductive invariant holds in every reachable state.
THEOREM Invariance == Spec => []IInv
BY InitIInv, NextIInv, PTL DEF Spec

-----------------------------------------------------------------------------
\* Every variable keeps its type, for all priorities and delays.
THEOREM TypeCorrect == Spec => []TypeOK
<1>1. IInv => TypeOK
  BY DEF IInv
<1> QED
  BY Invariance, <1>1, PTL

\* The ready and the delayed threads partition the started ones.
THEOREM Partition == Spec => []ReadyXorDelayed
<1>1. IInv => ReadyXorDelayed
  BY DEF IInv
<1> QED
  BY Invariance, <1>1, PTL

\* No assertion of miros.c fails, and OS_run does not return.
THEOREM AssertionsHold == Spec => []NeverResets
<1>1. IInv => NeverResets
  BY DEF IInv, NeverResets, OS_runReturned, InMain, ThreadMode, Unscheduled,
     Scheduled, Contexts
<1> QED
  BY Invariance, <1>1, PTL

\* Thread code that runs is the code of the highest-priority ready thread.
THEOREM PriorityRespected == Spec => []HighestReadyRuns
<1>1. IInv => HighestReadyRuns
  BY DEF IInv, HighestReadyRuns, ThreadMode, Unscheduled, Scheduled, Contexts,
     IsTop
<1> QED
  BY Invariance, <1>1, PTL

-----------------------------------------------------------------------------
\* A thread that is not running is not disturbed by another thread's OS_delay.
LEMMA OnlyRunningDelays ==
  ASSUME IInv, NEW p \in Prios, ThreadDelays(p)
  PROVE  /\ curr = p /\ p \in readySet /\ p \notin delayedSet
         /\ delayedSet' = delayedSet \union {p}
<1>1. curr = p /\ curr # 0 /\ IsTop(p, readySet)
  BY MirosAssumption
  DEF IInv, ThreadDelays, ThreadMode, Scheduled, Unscheduled, Contexts, None
<1>2. p \in readySet /\ p \notin delayedSet
  BY <1>1, MirosAssumption DEF IsTop, IsLog2, IInv, ReadyXorDelayed
<1>3. delayedSet' = delayedSet \union {p}
  BY <1>1 DEF ThreadDelays, OS_delay
<1> QED
  BY <1>1, <1>2, <1>3

LEMMA DelayExactStep ==
  ASSUME IInv, [Next]_vars, NEW p \in Prios, p \in delayedSet
  PROVE  p \notin delayedSet' <=> elapsed'[p] = asked[p]
<1>1. /\ timeout[p] \in Nat /\ timeout[p] > 0
      /\ elapsed \in [Prios -> Nat] /\ elapsed[p] \in Nat
      /\ timeout[p] + elapsed[p] = asked[p]
  BY DEF IInv, TypeOK, ReadyXorDelayed, Counters, Threads
<1>2. CASE delayedSet' = delayedSet /\ elapsed' = elapsed
  BY <1>1, <1>2
<1>3. CASE \E q \in Prios : ThreadDelays(q)
  <2>1. PICK q \in Prios : ThreadDelays(q)
    BY <1>3
  <2>2. q # p /\ delayedSet' = delayedSet \union {q}
    BY <2>1, OnlyRunningDelays
  <2>3. elapsed'[p] = elapsed[p]
    BY <1>1, <2>1, <2>2 DEF ThreadDelays
  <2> QED
    BY <1>1, <2>2, <2>3
<1>4. CASE SysTick_Handler
  <2>1. /\ delayedSet' = delayedSet \ Expired
        /\ elapsed'[p] = elapsed[p] + 1
    BY <1>4, TickFacts DEF OS_tick
  <2>2. p \notin delayedSet' <=> timeout[p] = 1
    BY <2>1 DEF Expired
  <2> QED
    BY <1>1, <2>1, <2>2
<1> QED
  BY <1>2, <1>3, <1>4
  DEF Next, MainStep, OSThread_start, OS_onStartup, OS_run, PendSV, PendSV_Enter,
      PendSV_Handler, PendSV_Return, vars, mirosVars

\* OS_delay(n) ends with the n-th tick after it, for every n and every schedule.
THEOREM DelaysAreExact == Spec => DelayIsExact
<1>1. IInv /\ [Next]_vars =>
        [\A p \in Prios : p \in delayedSet =>
           (p \notin delayedSet' <=> elapsed'[p] = asked[p])]_vars
  BY DelayExactStep
<1> QED
  BY Invariance, <1>1, PTL DEF Spec, DelayIsExact

-----------------------------------------------------------------------------
(***************************************************************************)
(* The refinement: SysTick is AbsTick, OS_delay is AbsDelay, the end of a  *)
(* context switch is AbsDispatch, and starting a thread is AbsStart; every *)
(* other step is a stuttering step of the scheduler.                       *)
(***************************************************************************)
absWait == [p \in Prios |-> timeout[p]]
absRunning == IF ThreadMode THEN cpu ELSE None

LEMMA AbsReadySet ==
  ASSUME IInv
  PROVE  Scheduler!AbsReady(absWait) = readySet
<1>1. \A p \in Prios : absWait[p] = timeout[p] /\ timeout[p] \in Nat
  BY DEF IInv, TypeOK, Threads, absWait
<1>2. thread \ {0} = readySet \union delayedSet /\ thread \ {0} \subseteq Prios
  BY DEF IInv, TypeOK, ReadyXorDelayed, Threads
<1>3. \A p \in thread \ {0} : absWait[p] = 0 <=> p \in readySet
  BY <1>1, <1>2 DEF IInv, ReadyXorDelayed
<1> QED
  BY <1>2, <1>3 DEF Scheduler!AbsReady

LEMMA TopHasProcessor ==
  ASSUME NEW p, NEW ready, IsTop(p, ready)
  PROVE  Scheduler!HasProcessor(p, ready)
BY DEF IsTop, IsLog2, Scheduler!HasProcessor

\* Thread code runs only when the scheduler has nothing left to do.
LEMMA RunningIsTop ==
  ASSUME IInv, ThreadMode, next # None
  PROVE  cpu = next /\ IsTop(cpu, readySet)
BY DEF IInv, ThreadMode, Scheduled, Contexts

LEMMA AbsInitial == Init => Scheduler!AbsInit
BY MirosAssumption DEF Init, Scheduler!AbsInit, Scheduler!Kernel, ThreadMode, None,
   Threads

LEMMA AbsStartStep ==
  ASSUME IInv, NEW p \in Prios, OSThread_start(p)
  PROVE  Scheduler!AbsStart(p)
<1>1. p # 0 /\ ThreadMode /\ cpu = None /\ ThreadMode' /\ cpu' = None
  BY MirosAssumption DEF OSThread_start, InMain, ThreadMode
<1>2. thread' \ {0} = (thread \ {0}) \union {p} /\ p \notin thread \ {0}
  BY <1>1 DEF OSThread_start
<1>3. timeout' = timeout
  BY DEF OSThread_start
<1> QED
  BY <1>1, <1>2, <1>3 DEF Scheduler!AbsStart, Scheduler!Kernel, None

LEMMA AbsRunStep ==
  ASSUME IInv, OS_onStartup \/ OS_run
  PROVE  UNCHANGED Scheduler!absVars
<1>1. thread' = thread /\ timeout' = timeout /\ cpu = None /\ cpu' = None
  BY DEF OS_onStartup, OS_run, InMain
<1> QED
  BY <1>1 DEF Scheduler!absVars, ThreadMode

LEMMA AbsDelayStep ==
  ASSUME IInv, NEW p \in Prios, ThreadDelays(p)
  PROVE  Scheduler!AbsDelay(p)
<1>a. curr = p
  BY OnlyRunningDelays
<1>1. ThreadMode /\ cpu = p /\ curr = p /\ curr # 0
  BY <1>a, MirosAssumption DEF ThreadDelays
<1>2. IInv' /\ thread' = thread /\ pendsv' = pendsv
  BY DelayStep DEF ThreadDelays
<1>3. PICK n \in Delays[p] : timeout' = [timeout EXCEPT ![p] = n]
  BY <1>1 DEF ThreadDelays, OS_delay
<1>4. p \notin readySet' /\ curr' = p
  BY <1>1 DEF ThreadDelays, OS_delay
<1>5. ~ThreadMode'
  <2>1. next' # p /\ next' # None
    BY <1>1, <1>2, <1>4, MirosAssumption
    DEF IInv, Scheduled, Unscheduled, IsTop, IsLog2, None
  <2> QED
    BY <1>2, <1>4, <2>1 DEF IInv, Scheduled, ThreadMode
<1>6. [q \in Prios |-> timeout'[q]] = [[q \in Prios |-> timeout[q]] EXCEPT ![p] = n]
  BY <1>3 DEF IInv, TypeOK, Threads
<1> QED
  BY <1>1, <1>2, <1>3, <1>5, <1>6 DEF Scheduler!AbsDelay, Scheduler!Kernel, None

LEMMA AbsTickStep ==
  ASSUME IInv, SysTick_Handler
  PROVE  Scheduler!AbsTick
<1>1. /\ OS_tick /\ OS_sched(readySet')
      /\ UNCHANGED <<thread, curr, pendsv, cpu>>
      /\ boot # "threads"
  BY TickFacts
<1>2. IInv'
  BY TickStep
<1>3. absWait' = [p \in Prios |-> IF absWait[p] > 0 THEN absWait[p] - 1 ELSE 0]
  <2>1. \A p \in Prios :
          timeout'[p] = IF p \in delayedSet THEN timeout[p] - 1 ELSE timeout[p]
    BY <1>1 DEF OS_tick, Threads
  <2>2. \A p \in Prios : timeout[p] \in Nat /\ (p \in delayedSet <=> timeout[p] > 0)
    BY DEF IInv, TypeOK, ReadyXorDelayed, Threads
  <2>3. \A p \in Prios : timeout'[p] = IF timeout[p] > 0 THEN timeout[p] - 1 ELSE 0
    BY <2>1, <2>2
  <2> QED
    BY <2>3 DEF absWait
<1>4. absRunning' = None \/ (absRunning' = absRunning /\ IsTop(absRunning', readySet'))
  <2>1. CASE ThreadMode' /\ cpu' # None
    <3>1. ThreadMode
      BY <1>1, <2>1 DEF ThreadMode, OS_sched, IInv, TypeOK
    <3>2. next' # None
      BY <1>2, <2>1 DEF IInv, Unscheduled, Contexts
    <3>3. IsTop(cpu', readySet')
      BY <1>2, <2>1, <3>2 DEF IInv, ThreadMode, Scheduled, Contexts
    <3> QED
      BY <1>1, <2>1, <3>1, <3>3 DEF absRunning
  <2>2. CASE ~(ThreadMode' /\ cpu' # None)
    BY <2>2 DEF absRunning
  <2> QED
    BY <2>1, <2>2
<1>5. {p \in thread' \ {0} : absWait'[p] = 0} = readySet'
  <2>1. \A p \in Prios : absWait'[p] = timeout'[p] /\ timeout'[p] \in Nat
    BY <1>2 DEF IInv, TypeOK, Threads, absWait
  <2>2. thread' \ {0} = readySet' \union delayedSet' /\ thread' \ {0} \subseteq Prios
    BY <1>2 DEF IInv, TypeOK, ReadyXorDelayed, Threads
  <2>3. \A p \in thread' \ {0} : absWait'[p] = 0 <=> p \in readySet'
    BY <1>2, <2>1, <2>2 DEF IInv, ReadyXorDelayed
  <2> QED
    BY <2>2, <2>3
<1>6. absRunning' = None
      \/ ( /\ absRunning' = absRunning
           /\ Scheduler!HasProcessor(absRunning',
                                      {p \in thread' \ {0} : absWait'[p] = 0}))
  BY <1>4, <1>5 DEF IsTop, IsLog2, Scheduler!HasProcessor
<1>7. thread' = thread
  BY <1>1
<1> HIDE DEF IInv
<1> QED
  BY <1>3, <1>6, <1>7
  DEF Scheduler!AbsTick, Scheduler!AbsReady, Scheduler!Kernel, None, absWait, absRunning

LEMMA AbsPendSVStep ==
  ASSUME IInv, PendSV
  PROVE  Scheduler!AbsDispatch \/ UNCHANGED Scheduler!absVars
<1>1. thread' = thread /\ timeout' = timeout
  BY DEF PendSV, PendSV_Enter, PendSV_Handler, PendSV_Return
<1>2. ~ThreadMode
  BY DEF PendSV, PendSV_Enter, PendSV_Handler, PendSV_Return, ThreadMode, IInv, TypeOK
<1>3. CASE ~ThreadMode'
  BY <1>1, <1>2, <1>3 DEF Scheduler!absVars
<1>4. CASE ThreadMode'
  <2>1. IInv' /\ readySet' = readySet /\ next' = next
    BY PendSVStep DEF PendSV, PendSV_Enter, PendSV_Handler, PendSV_Return
  <2>2. pendsv = "exit"
    BY <1>4 DEF PendSV, PendSV_Enter, PendSV_Handler, PendSV_Return, ThreadMode
  <2>3. cpu' = next' /\ IsTop(cpu', readySet') /\ cpu' \in Threads
    <3>1. next # None
      BY <2>2 DEF IInv, Unscheduled
    <3> QED
      BY <1>4, <2>1, <3>1 DEF IInv, TypeOK, ThreadMode, Scheduled, Contexts
  <2>4. Scheduler!AbsReady(absWait) = readySet
    BY AbsReadySet
  <2>5. Scheduler!HasProcessor(cpu', {p \in thread \ {0} : absWait[p] = 0})
    BY <2>1, <2>3, <2>4
    DEF IsTop, IsLog2, Scheduler!HasProcessor, Scheduler!AbsReady
  <2> HIDE DEF IInv
  <2> QED
    BY <1>1, <1>2, <1>4, <2>3, <2>5
    DEF Scheduler!AbsDispatch, Scheduler!AbsReady, Scheduler!Kernel, None, Threads,
        absWait
<1> QED
  BY <1>3, <1>4

LEMMA AbsNextStep ==
  ASSUME IInv, [Next]_vars
  PROVE  [Scheduler!AbsNext]_(Scheduler!absVars)
<1>1. CASE \E p \in Prios : OSThread_start(p)
  BY <1>1, AbsStartStep DEF Scheduler!AbsNext
<1>2. CASE OS_onStartup \/ OS_run
  BY <1>2, AbsRunStep
<1>3. CASE \E p \in Prios : ThreadDelays(p)
  BY <1>3, AbsDelayStep DEF Scheduler!AbsNext
<1>4. CASE SysTick_Handler
  BY <1>4, AbsTickStep DEF Scheduler!AbsNext
<1>5. CASE PendSV
  BY <1>5, AbsPendSVStep DEF Scheduler!AbsNext
<1>6. CASE UNCHANGED vars
  BY <1>6 DEF vars, mirosVars, Scheduler!absVars, ThreadMode
<1> QED
  BY <1>1, <1>2, <1>3, <1>4, <1>5, <1>6 DEF Next, MainStep

\* MiROS implements preemptive scheduling by fixed priority with blocking
\* delays: whatever the threads ask for and wherever SysTick interrupts the
\* context switch of PendSV_Handler.
THEOREM Refinement == Spec => ImplementsPriorityScheduler
<1>1. Init => Scheduler!AbsInit
  BY AbsInitial
<1>2. IInv /\ [Next]_vars => [Scheduler!AbsNext]_(Scheduler!absVars)
  BY AbsNextStep
<1>3. Spec => []IInv
  BY Invariance
<1> QED
  BY <1>1, <1>2, <1>3, PTL DEF Spec, ImplementsPriorityScheduler, Scheduler!AbsSpec

=============================================================================
