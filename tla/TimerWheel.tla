----------------------------- MODULE TimerWheel -----------------------------
(***************************************************************************)
(* The one-layer timing wheel of timerWheel/timer.c: an array of lists of  *)
(* handlers; a tick calls the handlers of the current slot and turns the   *)
(* wheel by one slot.  The calls come from one thread.                     *)
(***************************************************************************)
EXTENDS Integers, Sequences, FiniteSets

CONSTANTS
  WHEEL_BIN_NUMBER,  \* slots of the wheel
  GRANULARITY,       \* time from one tick to the next
  Handlers,          \* the callbacks
  Deadlines,         \* the deadlines callers ask for
  MaxInstalled       \* bound: handlers that wait at the same time

ASSUME WheelAssumption ==
  /\ WHEEL_BIN_NUMBER \in Nat \ {0}
  /\ GRANULARITY \in Nat \ {0}
  /\ Deadlines \subseteq Nat
  /\ MaxInstalled \in Nat

VARIABLES
  nodes,       \* nodes[s]: the handlers in the list of slot s
  cur_slot,
  wild,        \* the slots whose list head init_time_wheel left uninitialised
  wheelFault,  \* an uninitialised list head has been followed
  due          \* history: due[d]: the handlers d ticks away from the next tick

wheelVars == <<nodes, cur_slot, wild, wheelFault, due>>

Bins == 0..(WHEEL_BIN_NUMBER - 1)

WheelTypeOK ==
  /\ nodes \in [Bins -> Seq(Handlers)]
  /\ cur_slot \in Bins
  /\ wild \subseteq Bins
  /\ wheelFault \in BOOLEAN
  /\ due \in [Bins -> Seq(Handlers)]

\* The loop that clears the list heads starts at an uninitialised i.  The heads
\* it skips hold what malloc returned, which may be null all the same.
WheelInit ==
  /\ nodes = [s \in Bins |-> <<>>]
  /\ cur_slot = 0
  /\ wild \in SUBSET Bins
  /\ wheelFault = FALSE
  /\ due = [d \in Bins |-> <<>>]

Installed == Cardinality({e \in Bins \X (1..MaxInstalled) : e[2] <= Len(nodes[e[1]])})

\* Mutant of WheelIndex: the slot is counted from the start of the array.
WheelIndexStraight(deadline) == (deadline \div GRANULARITY) % WHEEL_BIN_NUMBER

\* The slot of a handler installed now.
WheelIndex(deadline) == (cur_slot + deadline \div GRANULARITY) % WHEEL_BIN_NUMBER

\* A deadline beyond the span of the wheel is refused and changes nothing.
install_handler(deadline, new_cb) ==
  /\ ~wheelFault
  /\ Installed < MaxInstalled
  /\ deadline \div GRANULARITY < WHEEL_BIN_NUMBER
  /\ IF WheelIndex(deadline) \in wild
     THEN /\ wheelFault' = TRUE
          /\ UNCHANGED <<nodes, due>>
     ELSE /\ nodes' = [nodes EXCEPT ![WheelIndex(deadline)] = Append(@, new_cb)]
          /\ due' = [due EXCEPT ![deadline \div GRANULARITY] = Append(@, new_cb)]
          /\ UNCHANGED wheelFault
  /\ UNCHANGED <<cur_slot, wild>>

\* Calls and frees every handler of the current slot.
tick ==
  /\ ~wheelFault
  /\ IF cur_slot \in wild
     THEN /\ wheelFault' = TRUE
          /\ UNCHANGED <<nodes, cur_slot, due>>
     ELSE /\ nodes' = [nodes EXCEPT ![cur_slot] = <<>>]
          /\ cur_slot' = (cur_slot + 1) % WHEEL_BIN_NUMBER
          /\ due' = [d \in Bins |-> IF d + 1 \in Bins THEN due[d + 1] ELSE <<>>]
          /\ UNCHANGED wheelFault
  /\ UNCHANGED wild

WheelNext ==
  \/ \E deadline \in Deadlines, new_cb \in Handlers : install_handler(deadline, new_cb)
  \/ tick

WheelSpec == WheelInit /\ [][WheelNext]_wheelVars

(* The slot a tick will reach after d others holds the handlers installed   *)
(* for that tick, in the order of their installation, and no others: every  *)
(* handler is called once, by the tick its deadline falls in, however often *)
(* the wheel has turned.                                                    *)
CalledWhenDue == \A d \in Bins : nodes[(cur_slot + d) % WHEEL_BIN_NUMBER] = due[d]

=============================================================================
