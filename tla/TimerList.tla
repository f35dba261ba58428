------------------------------ MODULE TimerList ------------------------------
(***************************************************************************)
(* The timer framework of timerList/timer_framework.c: two BSD tail queues *)
(* of the same nodes, the active timers sorted by their fire time and the  *)
(* free ones.  main() takes timers from one and puts them into the other;  *)
(* SIGALRM interrupts it between any two of its assignments and runs       *)
(* clock_tick, which does the reverse with the timers that are due.        *)
(*                                                                         *)
(* A place a pointer to a timer can be in is named by what holds it: the   *)
(* head of a list or the node before.  link[x] is the pointer in place x   *)
(* (tqh_first or tqe_next), prev[t] the place that points to t (tqe_prev), *)
(* last[l] the place of the last pointer of list l (tqh_last).             *)
(***************************************************************************)
EXTENDS Integers, FiniteSets

CONSTANTS
  Timers,   \* the nodes of timer_memory, NUM_TIMERS of them
  Null,
  Fires,    \* the relative fire times main() may draw
  MaxTick   \* bound: the value of tick_cnt at which the model stops ticking

Active == "active_timers"
Free == "free_timers"
Lists == {Active, Free}
Places == Timers \union Lists

VARIABLES
  link, prev, last,
  fire,      \* fire[t]: the absolute time of timer t
  tick_cnt,
  pc,        \* what main() does next
  np,        \* main's timer: the one being moved from one list to the other
  at,        \* arm_timer's np: the active timer it compares with
  todo,      \* how many timers main() still has to arm
  handling   \* clock_tick is in its loop; main() is interrupted

vars == <<link, prev, last, fire, tick_cnt, pc, np, at, todo, handling>>

\* init_timers, for an arbitrary order f of the nodes on the free list.
Init ==
  \E f \in [1..Cardinality(Timers) -> Timers] :
    /\ \A i, j \in DOMAIN f : f[i] = f[j] => i = j
    /\ LET n == Cardinality(Timers)
           pos(t) == CHOOSE i \in 1..n : f[i] = t
       IN  /\ link = [x \in Places |->
                        IF x = Active THEN Null
                        ELSE IF x = Free THEN f[1]
                        ELSE IF pos(x) = n THEN Null ELSE f[pos(x) + 1]]
           /\ prev = [t \in Timers |->
                        IF pos(t) = 1 THEN Free ELSE f[pos(t) - 1]]
           /\ last = [l \in Lists |-> IF l = Free THEN f[n] ELSE Active]
    /\ fire = [t \in Timers |-> 0]
    /\ tick_cnt = 0
    /\ pc = "alloc" /\ np = Null /\ at = Null
    /\ todo = Cardinality(Timers)
    /\ handling = FALSE

(***************************************************************************)
(* The assignments the TAILQ macros are made of, on the given pointers.    *)
(***************************************************************************)

\* Whoever comes after t (the next node or the head of list l) gets x as the
\* place of its predecessor.
SetBack(nxt, l, x, prv, lst) ==
  IF nxt # Null THEN <<[prv EXCEPT ![nxt] = x], lst>>
                ELSE <<prv, [lst EXCEPT ![l] = x]>>

\* TAILQ_REMOVE and TAILQ_INSERT_HEAD as a whole, in the handler.
Removed(t, l, s) ==
  LET back == SetBack(s.link[t], l, s.prev[t], s.prev, s.last)
  IN  [link |-> [s.link EXCEPT ![back[1][t]] = s.link[t]],
       prev |-> back[1], last |-> back[2]]

InsertedHead(t, l, s) ==
  LET back == SetBack(s.link[l], l, t, s.prev, s.last)
  IN  [link |-> [s.link EXCEPT ![t] = s.link[l], ![l] = t],
       prev |-> [back[1] EXCEPT ![t] = l], last |-> back[2]]

(***************************************************************************)
(* main().  Each step is disabled while the handler runs.                  *)
(***************************************************************************)
MainAt(label) == pc = label /\ ~handling

listVars == <<link, prev, last>>

\* alloc_timer: the first free timer; main() exits when there is none.
Alloc ==
  /\ MainAt("alloc")
  /\ todo > 0
  /\ np' = link[Free]
  /\ pc' = IF link[Free] = Null THEN "exit" ELSE "unlink1"
  /\ todo' = todo - 1
  /\ UNCHANGED <<listVars, fire, tick_cnt, at, handling>>

\* Every timer is armed: main() sleeps for good.
Sleep ==
  /\ MainAt("alloc")
  /\ todo = 0
  /\ pc' = "sleep"
  /\ np' = Null /\ at' = Null
  /\ UNCHANGED <<listVars, fire, tick_cnt, todo, handling>>

\* alloc_timer: TAILQ_REMOVE.
Unlink1 ==
  /\ MainAt("unlink1")
  /\ LET back == SetBack(link[np], Free, prev[np], prev, last)
     IN  prev' = back[1] /\ last' = back[2]
  /\ pc' = "unlink2"
  /\ UNCHANGED <<link, fire, tick_cnt, np, at, todo, handling>>

Unlink2 ==
  /\ MainAt("unlink2")
  /\ link' = [link EXCEPT ![prev[np]] = link[np]]
  /\ pc' = "set"
  /\ UNCHANGED <<prev, last, fire, tick_cnt, np, at, todo, handling>>

\* set_timer with TT_RELATIVE.
set_timer ==
  /\ MainAt("set")
  /\ \E f \in Fires : fire' = [fire EXCEPT ![np] = f + tick_cnt]
  /\ pc' = "arm"
  /\ UNCHANGED <<listVars, tick_cnt, np, at, todo, handling>>

\* arm_timer: an empty list, or a search for the first later timer.
Arm ==
  /\ MainAt("arm")
  /\ pc' = IF link[Active] = Null THEN "head1" ELSE "scan"
  /\ at' = link[Active]
  /\ UNCHANGED <<listVars, fire, tick_cnt, np, todo, handling>>

Scan ==
  /\ MainAt("scan")
  /\ IF at = Null THEN pc' = "tail1" /\ UNCHANGED at
     ELSE IF fire[np] < fire[at] THEN pc' = "before1" /\ UNCHANGED at
     ELSE pc' = "scan" /\ at' = link[at]
  /\ UNCHANGED <<listVars, fire, tick_cnt, np, todo, handling>>

\* The assignments of one macro: label, what it does, the next label.
Assign(label, newLink, newPrev, newLast, nextLabel) ==
  /\ MainAt(label)
  /\ link' = newLink /\ prev' = newPrev /\ last' = newLast
  /\ pc' = nextLabel
  /\ UNCHANGED <<fire, tick_cnt, np, at, todo, handling>>

InsertHead ==
  \/ LET new == [link EXCEPT ![np] = link[Active]]
         back == SetBack(link[Active], Active, np, prev, last)
     IN  Assign("head1", new, back[1], back[2], "head2")
  \/ Assign("head2", [link EXCEPT ![Active] = np], prev, last, "head3")
  \/ Assign("head3", link, [prev EXCEPT ![np] = Active], last, "alloc")

InsertBefore ==
  \/ Assign("before1", link, [prev EXCEPT ![np] = prev[at]], last, "before2")
  \/ Assign("before2", [link EXCEPT ![np] = at], prev, last, "before3")
  \/ Assign("before3", [link EXCEPT ![prev[at]] = np], prev, last, "before4")
  \/ Assign("before4", link, [prev EXCEPT ![at] = np], last, "alloc")

InsertTail ==
  \/ Assign("tail1", [link EXCEPT ![np] = Null], prev, last, "tail2")
  \/ Assign("tail2", link, [prev EXCEPT ![np] = last[Active]], last, "tail3")
  \/ Assign("tail3", [link EXCEPT ![last[Active]] = np], prev, last, "tail4")
  \/ Assign("tail4", link, prev, [last EXCEPT ![Active] = np], "alloc")

MainStep ==
  \/ Alloc \/ Unlink1 \/ Unlink2 \/ set_timer \/ Arm \/ Scan
  \/ InsertHead \/ InsertBefore \/ InsertTail \/ Sleep

(***************************************************************************)
(* The signal handler.                                                     *)
(***************************************************************************)
Tick ==
  /\ ~handling /\ pc # "exit"
  /\ tick_cnt < MaxTick
  /\ tick_cnt' = tick_cnt + 1
  /\ handling' = TRUE
  /\ UNCHANGED <<listVars, fire, pc, np, at, todo>>

Due == link[Active] # Null /\ fire[link[Active]] <= tick_cnt

\* One turn of the loop: disarm_timer, the callback, which asks for the timer
\* to be freed, and free_timer.
Expire ==
  /\ handling /\ Due
  /\ LET t == link[Active]
         s == [link |-> link, prev |-> prev, last |-> last]
         new == InsertedHead(t, Free, Removed(t, Active, s))
     IN  link' = new.link /\ prev' = new.prev /\ last' = new.last
  /\ UNCHANGED <<fire, tick_cnt, pc, np, at, todo, handling>>

Return ==
  /\ handling /\ ~Due
  /\ handling' = FALSE
  /\ UNCHANGED <<listVars, fire, tick_cnt, pc, np, at, todo>>

clock_tick == Tick \/ Expire \/ Return

Next == MainStep \/ clock_tick

Spec == Init /\ [][Next]_vars

-----------------------------------------------------------------------------
\* The timers on list l, found by following at most as many links as there
\* are timers.
Walk(l) ==
  LET w[n \in 1..Cardinality(Timers)] ==
        IF n = 1 THEN link[l]
        ELSE IF w[n - 1] = Null THEN Null ELSE link[w[n - 1]]
  IN  {w[n] : n \in 1..Cardinality(Timers)} \ {Null}

\* "Sit around letting the timers expire": once main() has armed every timer
\* and sleeps, each timer is on exactly one of the two lists.
TimersConserved ==
  pc = "sleep" /\ ~handling =>
    \A t \in Timers : t \in Walk(Active) <=> t \notin Walk(Free)

=============================================================================
