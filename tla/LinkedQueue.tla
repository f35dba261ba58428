---------------------------- MODULE LinkedQueue ----------------------------
(***************************************************************************)
(* The two linked queues of the repository, queue/queue.c and              *)
(* queue/queue_advance.c.  Both add behind rear (tail) and remove at front *)
(* (head); the first tells an empty queue by rear, and clears it; the      *)
(* second counts the nodes, and leaves tail alone.                         *)
(***************************************************************************)
EXTENDS Integers, Sequences

CONSTANTS
  Nodes,       \* the nodes malloc can return
  NoNode,      \* NULL
  Freed,       \* the content of a node that is not allocated
  Cap          \* cap of queue_advance.c

ASSUME QueueAssumption ==
  /\ NoNode \notin Nodes /\ Freed \notin Nodes /\ NoNode # Freed
  /\ Cap \in Nat \ {0}

VARIABLES
  counted,     \* the queue is that of queue_advance.c
  front, rear,
  next,        \* next[n], Freed for a node that is not allocated
  size,        \* size of queue_advance.c
  queue        \* history: the nodes added and not removed, in order

queueVars == <<counted, front, rear, next, size, queue>>

QueueTypeOK ==
  /\ counted \in BOOLEAN
  /\ front \in Nodes \union {NoNode}
  /\ rear \in Nodes \union {NoNode}
  /\ next \in [Nodes -> Nodes \union {NoNode, Freed}]
  /\ size \in 0..Cap
  /\ queue \in Seq(Nodes)

QueueInit ==
  /\ counted \in BOOLEAN
  /\ front = NoNode /\ rear = NoNode
  /\ next = [n \in Nodes |-> Freed]
  /\ size = 0
  /\ queue = <<>>

\* temp is the new node: the first one, or the one behind the old rear.  The
\* write through rear is not checked: rear may point to a freed node.
Link(temp, first) ==
  /\ next[temp] = Freed
  /\ rear' = temp
  /\ IF first
     THEN front' = temp /\ next' = [next EXCEPT ![temp] = NoNode]
     ELSE /\ next' = [next EXCEPT ![temp] = NoNode, ![rear] = temp]
          /\ UNCHANGED front
  /\ queue' = Append(queue, temp)

enQueue(temp) ==
  /\ ~counted
  /\ Link(temp, rear = NoNode)
  /\ UNCHANGED <<counted, size>>

\* A full queue refuses the value.
pushQ(temp) ==
  /\ counted
  /\ size < Cap
  /\ size' = size + 1
  /\ Link(temp, size' = 1)
  /\ UNCHANGED counted

Unlink ==
  /\ front # NoNode
  /\ front' = next[front]
  /\ next' = [next EXCEPT ![front] = Freed]
  /\ queue' = Tail(queue)

\* Mutant of RearAfter: rear keeps pointing to the freed node.
RearAfterKept(n) == rear

\* rear when front has become n.
RearAfter(n) == IF n = NoNode THEN NoNode ELSE rear

deQueue ==
  /\ ~counted
  /\ Unlink
  /\ rear' = RearAfter(front')
  /\ UNCHANGED <<counted, size>>

\* pop dereferences head: callers keep from popping an empty queue.
pop ==
  /\ counted
  /\ Unlink
  /\ size' = size - 1
  /\ UNCHANGED <<counted, rear>>

QueueNext == (\E n \in Nodes : enQueue(n) \/ pushQ(n)) \/ deQueue \/ pop

QueueSpec == QueueInit /\ [][QueueNext]_queueVars

(* The list from front is the queue: what was added and not removed, in the *)
(* order it was added, with rear at its end while it is not empty; no write *)
(* has reached a freed node.                                                *)
ListIsQueue ==
  /\ front = IF queue = <<>> THEN NoNode ELSE Head(queue)
  /\ \A i \in 1..Len(queue) :
       next[queue[i]] = IF i < Len(queue) THEN queue[i + 1] ELSE NoNode
  /\ queue # <<>> => rear = queue[Len(queue)]
  /\ \A n \in Nodes : next[n] = Freed <=> \A i \in 1..Len(queue) : queue[i] # n
  /\ counted => size = Len(queue)

=============================================================================
