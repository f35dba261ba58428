--------------------------- MODULE ContainerProofs ---------------------------
(***************************************************************************)
(* Proofs about the data structures that one thread uses: the timing       *)
(* wheel, the linked queues, the overlapping copy, the hash tables, the    *)
(* heaps and the deck of cards, each for every size.  They share no state. *)
(***************************************************************************)
EXTENDS TimerWheel, LinkedQueue, Memcpy, OpenHash, ChainHash, MaxHeap, Deck,
        FiniteSetTheorems, SequenceTheorems, TLAPS

(***************************************************************************)
(* The copy                                                                *)
(***************************************************************************)

InMemory == pSrc + length <= MemorySize /\ pDest + length <= MemorySize

\* The destination addresses whose byte the loop has written.
Written ==
  IF Downwards(pSrc, pDest, length)
  THEN (pDest + byte + 1)..(pDest + length - 1)
  ELSE pDest..(pDest + byte - 1)

CopiedSoFar ==
  \A a \in Addresses : memory[a] = IF a \in Written THEN a - pDest + pSrc ELSE a

ByteInRange ==
  byte \in IF Downwards(pSrc, pDest, length) THEN -1..(length - 1) ELSE 0..length

CopyInv == MemcpyTypeOK /\ InMemory /\ ByteInRange /\ CopiedSoFar

LEMMA CopyStarts == MemcpyInit => CopyInv
<1> SUFFICES ASSUME MemcpyInit PROVE CopyInv
  OBVIOUS
<1>1. ByteInRange /\ InMemory
  BY DEF MemcpyInit, ByteInRange, InMemory
<1>2. Written = {}
  BY DEF MemcpyInit, Written
<1>3. MemcpyTypeOK
  BY <1>1, MemcpyAssumption DEF MemcpyInit, MemcpyTypeOK, ByteInRange
<1> QED
  BY <1>1, <1>2, <1>3 DEF CopyInv, CopiedSoFar, MemcpyInit

\* The byte to copy next has not been overwritten, whichever end the loop began at.
LEMMA CopyGoesOn ==
  ASSUME CopyInv, CopyByte  PROVE  CopyInv'
<1>1. /\ pSrc \in Nat /\ pDest \in Nat /\ length \in Nat /\ byte \in 0..(length - 1)
      /\ pSrc + byte \in Addresses /\ pDest + byte \in Addresses
  BY MemcpyAssumption
  DEF CopyInv, MemcpyTypeOK, InMemory, ByteInRange, CopyByte, copying, Addresses
<1>2. /\ pSrc' = pSrc /\ pDest' = pDest /\ length' = length
      /\ Downwards(pSrc, pDest, length)' = Downwards(pSrc, pDest, length)
  BY DEF CopyByte, Downwards
<1>3. memory[pSrc + byte] = pSrc + byte
  <2>1. pSrc + byte \notin Written
    BY <1>1 DEF Written, Downwards
  <2> QED
    BY <1>1, <2>1 DEF CopyInv, CopiedSoFar
<1>4. ByteInRange' /\ InMemory'
  BY <1>1, <1>2 DEF CopyInv, ByteInRange, InMemory, CopyByte
<1>5. \A a \in Addresses : a \in Written' <=> a \in Written \/ a = pDest + byte
  <2>1. CASE Downwards(pSrc, pDest, length)
    BY <1>1, <1>2, <2>1 DEF Written, CopyByte, Addresses
  <2>2. CASE ~Downwards(pSrc, pDest, length)
    BY <1>1, <1>2, <2>2 DEF Written, CopyByte, Addresses
  <2> QED
    BY <2>1, <2>2
<1>6. memory' = [memory EXCEPT ![pDest + byte] = pSrc + byte]
  BY <1>3 DEF CopyByte
<1>7. CopiedSoFar'
  <2>1. ASSUME NEW a \in Addresses
        PROVE  memory'[a] = IF a \in Written' THEN a - pDest + pSrc ELSE a
    <3>1. CASE a = pDest + byte
      BY <1>1, <1>5, <1>6, <3>1 DEF CopyInv, MemcpyTypeOK
    <3>2. CASE a # pDest + byte
      BY <1>1, <1>5, <1>6, <3>2 DEF CopyInv, MemcpyTypeOK, CopiedSoFar
    <3> QED
      BY <3>1, <3>2
  <2> QED
    BY <1>2, <2>1 DEF CopiedSoFar
<1>8. MemcpyTypeOK'
  <2>1. byte' \in -1..length
    BY <1>1, <1>2, <1>4 DEF ByteInRange
  <2>2. memory' \in [Addresses -> Addresses]
    BY <1>1, <1>6 DEF CopyInv, MemcpyTypeOK
  <2> QED
    BY <1>2, <2>1, <2>2 DEF CopyInv, MemcpyTypeOK
<1> QED
  BY <1>4, <1>7, <1>8 DEF CopyInv

LEMMA CopySteps == CopyInv /\ [CopyByte]_memcpyVars => CopyInv'
<1>1. CopyInv /\ UNCHANGED memcpyVars => CopyInv'
  BY DEF CopyInv, MemcpyTypeOK, InMemory, ByteInRange, CopiedSoFar, Written, Downwards,
         memcpyVars
<1> QED
  BY <1>1, CopyGoesOn

\* When the loop has ended, it has written the whole destination.
LEMMA CopyEnds == CopyInv => CopyIsExact
<1> SUFFICES ASSUME CopyInv, ~copying  PROVE CopyIsExact
  BY DEF CopyIsExact
<1>1. Written = pDest..(pDest + length - 1)
  BY DEF CopyInv, MemcpyTypeOK, ByteInRange, copying, Written
<1> QED
  BY <1>1 DEF CopyInv, CopiedSoFar, CopyIsExact

\* Wherever the two areas lie, the destination receives what the source held.
THEOREM Copied == MemcpySpec => []CopyIsExact
BY CopyStarts, CopySteps, CopyEnds, PTL DEF MemcpySpec

-----------------------------------------------------------------------------
(***************************************************************************)
(* The timing wheel                                                        *)
(***************************************************************************)

\* The remainder of a sum of two slot numbers.
LEMMA TurnAgain ==
  ASSUME NEW N \in Nat \ {0}, NEW i \in 0..(2 * N - 1)
  PROVE  i % N = IF i < N THEN i ELSE i - N
OBVIOUS

LEMMA Quotient ==
  ASSUME NEW a \in Nat, NEW b \in Nat \ {0}  PROVE  a \div b \in Nat
OBVIOUS

\* The slot d ticks ahead.
Ahead(s, d) == (s + d) % WHEEL_BIN_NUMBER

Wrap(i) == IF i < WHEEL_BIN_NUMBER THEN i ELSE i - WHEEL_BIN_NUMBER

LEMMA AheadIs ==
  ASSUME NEW s \in Bins, NEW d \in Bins
  PROVE  /\ Ahead(s, d) \in Bins
         /\ Ahead(s, d) = Wrap(s + d)
<1>1. PICK i : i = s + d
  OBVIOUS
<1>2. Ahead(s, d) = i % WHEEL_BIN_NUMBER
  BY <1>1, Zenon DEF Ahead
<1>3. i \in 0..(2 * WHEEL_BIN_NUMBER - 1) /\ WHEEL_BIN_NUMBER \in Nat \ {0}
  BY <1>1, WheelAssumption DEF Bins
<1>4. Ahead(s, d) = IF i < WHEEL_BIN_NUMBER THEN i ELSE i - WHEEL_BIN_NUMBER
  BY <1>2, <1>3, TurnAgain
<1> QED
  BY <1>1, <1>3, <1>4 DEF Bins, Wrap

WheelInv == WheelTypeOK /\ CalledWhenDue

LEMMA InstallKeeps ==
  ASSUME WheelInv, NEW deadline \in Deadlines, NEW cb \in Handlers,
         install_handler(deadline, cb)
  PROVE  WheelInv'
<1> DEFINE d == deadline \div GRANULARITY
<1>1. d \in Bins /\ cur_slot \in Bins
  <2>1. d \in Nat
    BY Quotient, WheelAssumption
  <2> QED
    BY <2>1, WheelAssumption DEF install_handler, Bins, WheelInv, WheelTypeOK
<1> HIDE DEF d
<1>2. CASE WheelIndex(deadline) \in wild
  BY <1>2 DEF install_handler, WheelInv, WheelTypeOK, CalledWhenDue
<1>3. CASE WheelIndex(deadline) \notin wild
  <2>1. /\ nodes' = [nodes EXCEPT ![Ahead(cur_slot, d)] = Append(@, cb)]
        /\ due' = [due EXCEPT ![d] = Append(@, cb)]
        /\ UNCHANGED <<cur_slot, wild, wheelFault>>
    BY <1>3 DEF install_handler, WheelIndex, Ahead, d
  <2>2. nodes \in [Bins -> Seq(Handlers)] /\ due \in [Bins -> Seq(Handlers)]
    BY DEF WheelInv, WheelTypeOK
  <2>3. WheelTypeOK'
    BY <1>1, <2>1, <2>2, AheadIs DEF WheelInv, WheelTypeOK
  <2>4. ASSUME NEW e \in Bins  PROVE  nodes'[Ahead(cur_slot, e)] = due'[e]
    <3>1. Ahead(cur_slot, e) = Ahead(cur_slot, d) <=> e = d
      <4>1. /\ Ahead(cur_slot, e) = Wrap(cur_slot + e)
            /\ Ahead(cur_slot, d) = Wrap(cur_slot + d)
        BY <1>1, AheadIs
      <4> QED
        BY <1>1, <4>1, WheelAssumption DEF Bins, Wrap
    <3>2. Ahead(cur_slot, e) \in Bins /\ Ahead(cur_slot, d) \in Bins
      BY <1>1, AheadIs
    <3>3. nodes[Ahead(cur_slot, e)] = due[e]
      BY DEF WheelInv, CalledWhenDue, Ahead
    <3> QED
      BY <1>1, <2>1, <2>2, <3>1, <3>2, <3>3
  <2> QED
    BY <2>1, <2>3, <2>4 DEF WheelInv, CalledWhenDue, Ahead
<1> QED
  BY <1>2, <1>3

LEMMA TickKeeps ==
  ASSUME WheelInv, tick  PROVE  WheelInv'
<1>1. CASE cur_slot \in wild
  BY <1>1 DEF tick, WheelInv, WheelTypeOK, CalledWhenDue
<1>2. CASE cur_slot \notin wild
  <2>0. 0 \in Bins /\ cur_slot \in Bins /\ (cur_slot + 1) % WHEEL_BIN_NUMBER \in Bins
    BY WheelAssumption DEF Bins, WheelInv, WheelTypeOK
  <2>1. /\ nodes' = [nodes EXCEPT ![cur_slot] = <<>>]
        /\ cur_slot' = IF cur_slot + 1 < WHEEL_BIN_NUMBER THEN cur_slot + 1 ELSE 0
        /\ due' = [e \in Bins |-> IF e + 1 \in Bins THEN due[e + 1] ELSE <<>>]
        /\ UNCHANGED <<wild, wheelFault>>
        /\ cur_slot' \in Bins
    <3>1. PICK i : i = cur_slot + 1
      OBVIOUS
    <3>2. i \in 0..(2 * WHEEL_BIN_NUMBER - 1) /\ WHEEL_BIN_NUMBER \in Nat \ {0}
      BY <2>0, <3>1, WheelAssumption DEF Bins
    <3>3. i % WHEEL_BIN_NUMBER = IF i < WHEEL_BIN_NUMBER THEN i ELSE i - WHEEL_BIN_NUMBER
      BY <3>2, TurnAgain
    <3>4. i % WHEEL_BIN_NUMBER = IF cur_slot + 1 < WHEEL_BIN_NUMBER THEN cur_slot + 1 ELSE 0
      BY <2>0, <3>1, <3>2, <3>3 DEF Bins
    <3> QED
      BY <1>2, <2>0, <3>1, <3>4 DEF tick
  <2>2. nodes \in [Bins -> Seq(Handlers)] /\ due \in [Bins -> Seq(Handlers)]
    BY DEF WheelInv, WheelTypeOK
  <2>3. WheelTypeOK'
    BY <2>0, <2>1, <2>2 DEF WheelInv, WheelTypeOK
  <2>4. ASSUME NEW e \in Bins  PROVE  nodes'[Ahead(cur_slot', e)] = due'[e]
    <3>1. CASE e + 1 \in Bins
      <4>1. /\ Ahead(cur_slot', e) = Ahead(cur_slot, e + 1)
            /\ Ahead(cur_slot, e + 1) # cur_slot
            /\ Ahead(cur_slot, e + 1) \in Bins
        <5>1. /\ Ahead(cur_slot', e) = Wrap(cur_slot' + e)
              /\ Ahead(cur_slot, e + 1) = Wrap(cur_slot + (e + 1))
              /\ Ahead(cur_slot, e + 1) \in Bins
          BY <2>0, <2>1, <3>1, AheadIs
        <5> QED
          BY <2>0, <2>1, <3>1, <5>1, WheelAssumption DEF Bins, Wrap
      <4>2. nodes[Ahead(cur_slot, e + 1)] = due[e + 1]
        BY <3>1 DEF WheelInv, CalledWhenDue, Ahead
      <4> QED
        BY <2>1, <2>2, <3>1, <4>1, <4>2
    <3>2. CASE e + 1 \notin Bins
      <4>1. Ahead(cur_slot', e) = cur_slot
        <5>1. Ahead(cur_slot', e) = Wrap(cur_slot' + e)
          BY <2>0, <2>1, AheadIs
        <5> QED
          BY <2>0, <2>1, <3>2, <5>1, WheelAssumption, SMTT(30) DEF Bins, Wrap
      <4> QED
        BY <2>0, <2>1, <2>2, <3>2, <4>1
    <3> QED
      BY <3>1, <3>2
  <2> QED
    BY <2>3, <2>4 DEF WheelInv, CalledWhenDue, Ahead
<1> QED
  BY <1>1, <1>2

LEMMA WheelStarts == WheelInit => WheelInv
<1> SUFFICES ASSUME WheelInit PROVE WheelInv
  OBVIOUS
<1>1. 0 \in Bins /\ <<>> \in Seq(Handlers)
  BY WheelAssumption DEF Bins
<1>2. WheelTypeOK
  BY <1>1 DEF WheelInit, WheelTypeOK
<1>3. \A d \in Bins : Ahead(0, d) \in Bins
  BY <1>1, AheadIs
<1> QED
  BY <1>2, <1>3 DEF WheelInit, WheelInv, CalledWhenDue, Ahead

LEMMA WheelSteps == WheelInv /\ [WheelNext]_wheelVars => WheelInv'
<1>1. WheelInv /\ UNCHANGED wheelVars => WheelInv'
  BY DEF WheelInv, WheelTypeOK, CalledWhenDue, wheelVars
<1> QED
  BY <1>1, InstallKeeps, TickKeeps DEF WheelNext

\* However often the wheel turns, a handler is called by the tick it was installed
\* for, and by no other.
THEOREM CalledByItsTick == WheelSpec => []CalledWhenDue
BY WheelStarts, WheelSteps, PTL DEF WheelSpec, WheelInv

-----------------------------------------------------------------------------
(***************************************************************************)
(* The linked queues                                                       *)
(***************************************************************************)

\* No node is in the queue twice, and queue.c clears rear with the last node.
InLineOnce == \A i, j \in 1..Len(queue) : queue[i] = queue[j] => i = j

RearCleared == ~counted => (queue = <<>> <=> rear = NoNode)

QueueInv == QueueTypeOK /\ ListIsQueue /\ InLineOnce /\ RearCleared

LEMMA LinkKeeps ==
  ASSUME QueueInv, NEW temp \in Nodes, NEW first \in BOOLEAN, Link(temp, first),
         first <=> queue = <<>>, counted' = counted,
         size' \in 0..Cap, counted => size' = size + 1
  PROVE  QueueInv'
<1> DEFINE n == Len(queue)
<1>1. /\ n \in Nat /\ queue \in Seq(Nodes) /\ \A i \in 1..n : queue[i] \in Nodes
      /\ queue = <<>> <=> n = 0
  BY DEF QueueInv, QueueTypeOK
<1>2. queue' = Append(queue, temp)
  BY DEF Link
<1>3. /\ Len(queue') = n + 1 /\ queue'[n + 1] = temp
      /\ \A i \in 1..n : queue'[i] = queue[i]
      /\ queue' \in Seq(Nodes) /\ queue' # <<>>
  BY <1>1, <1>2
<1>4. rear' = temp /\ next[temp] = Freed
  BY DEF Link
<1>5. /\ next \in [Nodes -> Nodes \union {NoNode, Freed}]
      /\ front \in Nodes \union {NoNode}
      /\ \A x \in Nodes : next[x] = Freed <=> \A i \in 1..n : queue[i] # x
      /\ \A i \in 1..n : next[queue[i]] = IF i < n THEN queue[i + 1] ELSE NoNode
      /\ \A i, j \in 1..n : queue[i] = queue[j] => i = j
      /\ n # 0 => front = queue[1] /\ rear = queue[n]
      /\ counted => size = n
  BY <1>1 DEF QueueInv, QueueTypeOK, ListIsQueue, InLineOnce
<1>6. \A i \in 1..n : queue[i] # temp
  BY <1>4, <1>5
<1> HIDE DEF n
<1>7. InLineOnce'
  <2>1. ASSUME NEW i \in 1..(n + 1), NEW j \in 1..(n + 1), queue'[i] = queue'[j]
        PROVE  i = j
    <3>1. CASE i \in 1..n /\ j \in 1..n
      BY <1>3, <1>5, <2>1, <3>1
    <3>2. CASE i = n + 1 \/ j = n + 1
      BY <1>1, <1>3, <1>6, <2>1, <3>2
    <3> QED
      BY <1>1, <3>1, <3>2
  <2> QED
    BY <1>3, <2>1 DEF InLineOnce
<1>8. /\ front' = queue'[1]
      /\ \A x \in Nodes :
           next'[x] = IF x = temp THEN NoNode
                      ELSE IF n # 0 /\ x = queue[n] THEN temp ELSE next[x]
      /\ next' \in [Nodes -> Nodes \union {NoNode, Freed}]
      /\ front' \in Nodes
  <2>1. CASE n = 0
    <3>1. front' = temp /\ next' = [next EXCEPT ![temp] = NoNode]
      BY <1>1, <2>1 DEF Link
    <3> QED
      BY <1>1, <1>3, <1>5, <2>1, <3>1
  <2>2. CASE n # 0
    <3>1. front' = front /\ next' = [next EXCEPT ![temp] = NoNode, ![rear] = temp]
      BY <1>1, <2>2 DEF Link
    <3>2. n \in 1..n /\ 1 \in 1..n
      BY <1>1, <2>2
    <3>3. front = queue[1] /\ rear = queue[n] /\ rear # temp /\ rear \in Nodes
      BY <1>1, <1>5, <1>6, <2>2, <3>2
    <3> QED
      BY <1>1, <1>3, <1>5, <2>2, <3>1, <3>2, <3>3
  <2> QED
    BY <2>1, <2>2
<1>9. \A i \in 1..(n + 1) :
        next'[queue'[i]] = IF i < n + 1 THEN queue'[i + 1] ELSE NoNode
  <2>1. ASSUME NEW i \in 1..n
        PROVE  next'[queue'[i]] = queue'[i + 1]
    <3>1. /\ queue'[i] = queue[i] /\ queue[i] # temp /\ queue[i] \in Nodes
          /\ n # 0 /\ n \in 1..n
      BY <1>1, <1>3, <1>6
    <3>2. CASE i = n
      BY <1>3, <1>8, <3>1, <3>2
    <3>3. CASE i # n
      <4>1. queue[i] # queue[n]
        BY <1>5, <3>1, <3>3
      <4>2. i + 1 \in 1..n /\ i < n
        BY <1>1, <3>3
      <4>3. next[queue[i]] = queue[i + 1] /\ queue'[i + 1] = queue[i + 1]
        BY <1>3, <1>5, <4>2
      <4> QED
        BY <1>8, <3>1, <4>1, <4>3
    <3> QED
      BY <3>2, <3>3
  <2>2. next'[queue'[n + 1]] = NoNode
    BY <1>3, <1>8
  <2> QED
    BY <1>1, <2>1, <2>2
<1>10. \A x \in Nodes : next'[x] = Freed <=> \A i \in 1..(n + 1) : queue'[i] # x
  <2>1. ASSUME NEW x \in Nodes
        PROVE  next'[x] = Freed <=> next[x] = Freed /\ x # temp
    <3>1. n # 0 => queue[n] \in Nodes /\ next[queue[n]] # Freed
      BY <1>1, <1>5
    <3> QED
      BY <1>8, <2>1, <3>1, QueueAssumption
  <2>2. ASSUME NEW x \in Nodes
        PROVE  (\A i \in 1..(n + 1) : queue'[i] # x)
               <=> (\A i \in 1..n : queue[i] # x) /\ x # temp
    BY <1>1, <1>3
  <2> QED
    BY <1>5, <2>1, <2>2
<1>11. ListIsQueue'
  <2>1. Head(queue') = queue'[1]
    BY <1>3
  <2> QED
    BY <1>3, <1>4, <1>5, <1>8, <1>9, <1>10, <2>1 DEF ListIsQueue
<1>12. QueueTypeOK' /\ RearCleared'
  BY <1>3, <1>4, <1>8, QueueAssumption DEF QueueInv, QueueTypeOK, RearCleared
<1> QED
  BY <1>7, <1>11, <1>12 DEF QueueInv

LEMMA UnlinkKeeps ==
  ASSUME QueueInv, Unlink, counted' = counted,
         counted => size' = size - 1 /\ rear' = rear,
         ~counted => size' = size /\ rear' = RearAfter(front')
  PROVE  QueueInv'
<1> DEFINE n == Len(queue)
<1>1. /\ n \in Nat /\ queue \in Seq(Nodes) /\ \A i \in 1..n : queue[i] \in Nodes
      /\ queue = <<>> <=> n = 0
  BY DEF QueueInv, QueueTypeOK
<1>2. n # 0 /\ front = queue[1] /\ front \in Nodes
  BY <1>1, QueueAssumption DEF Unlink, QueueInv, ListIsQueue
<1>3. /\ queue' = Tail(queue) /\ front' = next[front]
      /\ next' = [next EXCEPT ![front] = Freed]
  BY DEF Unlink
<1>4. /\ Len(queue') = n - 1 /\ queue' \in Seq(Nodes)
      /\ \A i \in 1..(n - 1) : queue'[i] = queue[i + 1] /\ i + 1 \in 1..n
      /\ queue' = <<>> <=> n = 1
  <2>1. queue # <<>> /\ n - 1 \in Nat
    BY <1>1, <1>2
  <2>2. Len(queue') = n - 1 /\ queue' \in Seq(Nodes)
    BY <1>1, <1>3, <2>1
  <2>3. \A i \in 1..(n - 1) : queue'[i] = queue[i + 1]
    BY <1>1, <1>3, <2>1
  <2>4. \A i \in 1..(n - 1) : i + 1 \in 1..n
    BY <1>1
  <2>5. queue' = <<>> <=> n = 1
    BY <1>1, <2>1, <2>2
  <2> QED
    BY <2>2, <2>3, <2>4, <2>5
<1>5. /\ next \in [Nodes -> Nodes \union {NoNode, Freed}]
      /\ \A x \in Nodes : next[x] = Freed <=> \A i \in 1..n : queue[i] # x
      /\ \A i \in 1..n : next[queue[i]] = IF i < n THEN queue[i + 1] ELSE NoNode
      /\ \A i, j \in 1..n : queue[i] = queue[j] => i = j
      /\ rear = queue[n] /\ rear \in Nodes
      /\ counted => size = n
  BY <1>1, <1>2 DEF QueueInv, QueueTypeOK, ListIsQueue, InLineOnce
<1> HIDE DEF n
<1>6. front' = IF n = 1 THEN NoNode ELSE queue'[1]
  BY <1>1, <1>2, <1>3, <1>4, <1>5
<1>7. InLineOnce'
  <2>1. ASSUME NEW i \in 1..(n - 1), NEW j \in 1..(n - 1), queue'[i] = queue'[j]
        PROVE  i = j
    <3>1. i + 1 = j + 1
      BY <1>4, <1>5, <2>1
    <3> QED
      BY <3>1
  <2> QED
    BY <1>4, <2>1 DEF InLineOnce
<1>8. ASSUME NEW i \in 1..(n - 1)
      PROVE  /\ queue'[i] # front /\ queue'[i] \in Nodes
             /\ next'[queue'[i]] = IF i < n - 1 THEN queue'[i + 1] ELSE NoNode
  <2>1. queue'[i] = queue[i + 1] /\ i + 1 \in 1..n /\ 1 \in 1..n
    BY <1>1, <1>2, <1>4
  <2>2. queue[i + 1] # queue[1]
    BY <1>5, <2>1
  <2>3. next[queue[i + 1]] = IF i + 1 < n THEN queue[i + 2] ELSE NoNode
    BY <1>5, <2>1
  <2>4. i < n - 1 => queue'[i + 1] = queue[i + 2]
    BY <1>1, <1>4
  <2>5. next'[queue[i + 1]] = next[queue[i + 1]]
    BY <1>1, <1>2, <1>3, <1>5, <2>1, <2>2
  <2> QED
    BY <1>1, <1>2, <2>1, <2>2, <2>3, <2>4, <2>5
<1>9. \A x \in Nodes : next'[x] = Freed <=> \A i \in 1..(n - 1) : queue'[i] # x
  <2>1. ASSUME NEW x \in Nodes, x # front, NEW i \in 1..n, queue[i] = x
        PROVE  \E j \in 1..(n - 1) : queue'[j] = x
    <3>1. i - 1 \in 1..(n - 1)
      BY <1>1, <1>2, <2>1
    <3>2. queue'[i - 1] = queue[i]
      BY <1>4, <3>1
    <3> QED
      BY <2>1, <3>1, <3>2
  <2>2. ASSUME NEW x \in Nodes, x # front, NEW j \in 1..(n - 1), queue'[j] = x
        PROVE  \E i \in 1..n : queue[i] = x
    BY <1>4, <2>2
  <2>3. ASSUME NEW x \in Nodes, x # front
        PROVE  next'[x] = Freed <=> \A i \in 1..(n - 1) : queue'[i] # x
    BY <1>3, <1>5, <2>1, <2>2, <2>3, ZenonT(60)
  <2>4. next'[front] = Freed /\ \A i \in 1..(n - 1) : queue'[i] # front
    BY <1>2, <1>3, <1>5, <1>8
  <2> QED
    BY <2>3, <2>4
<1>10. /\ n # 1 => queue'[n - 1] = queue[n] /\ queue'[1] \in Nodes
       /\ rear' = IF ~counted /\ n = 1 THEN NoNode ELSE rear
  <2>1. n # 1 => 1 \in 1..(n - 1) /\ n - 1 \in 1..(n - 1)
    BY <1>1, <1>2
  <2>2. n # 1 => queue'[n - 1] = queue[n] /\ queue'[1] \in Nodes
    BY <1>1, <1>4, <1>8, <2>1
  <2> QED
    BY <1>6, <2>2, QueueAssumption DEF RearAfter
<1>11. ListIsQueue'
  <2>1. n # 1 => Head(queue') = queue'[1]
    BY <1>4
  <2> QED
    BY <1>2, <1>4, <1>5, <1>6, <1>8, <1>9, <1>10, <2>1 DEF ListIsQueue
<1>12. QueueTypeOK'
  <2>1. size' \in 0..Cap
    BY <1>1, <1>2, <1>5, QueueAssumption DEF QueueInv, QueueTypeOK
  <2> QED
    BY <1>2, <1>3, <1>4, <1>5, <1>6, <1>10, <2>1 DEF QueueInv, QueueTypeOK
<1>13. RearCleared'
  BY <1>4, <1>5, <1>10, QueueAssumption DEF RearCleared
<1> QED
  BY <1>7, <1>11, <1>12, <1>13 DEF QueueInv

LEMMA QueueStarts == QueueInit => QueueInv
BY QueueAssumption
DEF QueueInit, QueueInv, QueueTypeOK, ListIsQueue, InLineOnce, RearCleared

LEMMA QueueSteps == QueueInv /\ [QueueNext]_queueVars => QueueInv'
<1> SUFFICES ASSUME QueueInv, [QueueNext]_queueVars PROVE QueueInv'
  OBVIOUS
<1>1. ASSUME NEW n \in Nodes, enQueue(n)  PROVE QueueInv'
  <2>1. (rear = NoNode) <=> queue = <<>>
    BY <1>1 DEF enQueue, QueueInv, RearCleared
  <2>2. (rear = NoNode) \in BOOLEAN
    OBVIOUS
  <2> QED
    BY <1>1, <2>1, <2>2, LinkKeeps DEF enQueue, QueueInv, QueueTypeOK
<1>2. ASSUME NEW n \in Nodes, pushQ(n)  PROVE QueueInv'
  <2>1. (size' = 1) <=> queue = <<>>
    BY <1>2 DEF pushQ, QueueInv, QueueTypeOK, ListIsQueue
  <2>2. (size' = 1) \in BOOLEAN /\ size' \in 0..Cap
    BY <1>2, QueueAssumption DEF pushQ, QueueInv, QueueTypeOK
  <2> QED
    BY <1>2, <2>1, <2>2, LinkKeeps DEF pushQ
<1>3. CASE deQueue
  BY <1>3, UnlinkKeeps DEF deQueue
<1>4. CASE pop
  BY <1>4, UnlinkKeeps DEF pop
<1>5. CASE UNCHANGED queueVars
  BY <1>5 DEF QueueInv, QueueTypeOK, ListIsQueue, InLineOnce, RearCleared, queueVars
<1> QED
  BY <1>1, <1>2, <1>3, <1>4, <1>5 DEF QueueNext

\* Both queues give their nodes back in the order they took them, and neither
\* follows or writes through a pointer to a node it has freed.
THEOREM FirstInFirstOut == QueueSpec => []ListIsQueue
BY QueueStarts, QueueSteps, PTL DEF QueueSpec, QueueInv

-----------------------------------------------------------------------------
(***************************************************************************)
(* The hash table with open addressing                                     *)
(***************************************************************************)

\* The cells probed from h before i is reached, round the end of the array.
Before(h, i) == {j \in Cells : IF h <= i THEN h <= j /\ j < i ELSE h <= j \/ j < i}

\* No cell on the way to a key is empty.
PathsFull ==
  \A i \in Cells : hashArray[i] \in Keys =>
    \A j \in Before(hashCode(hashArray[i]), i) : hashArray[j] # Null

\* What the loop of a call has passed since it began, or came round, is not what
\* it looks for.
Passed ==
  call # "none" =>
    /\ key \in Keys
    /\ \A j \in Before(hashCode(key), hashIndex) :
         hashArray[j] \notin (IF call = "insert" THEN {Null, Dummy} ELSE {Null, key})

TableInv == OpenHashTypeOK /\ PathsFull /\ Passed

\* The numbers -1 and -2 are no keys.
LEMMA KeysAre == Dummy \notin Keys /\ Null \notin Keys /\ Dummy # Null
BY OpenHashAssumption DEF Dummy, Null

LEMMA HashCodeType ==
  ASSUME NEW k \in Keys  PROVE  hashCode(k) \in Cells
<1>1. k \in Nat /\ SIZE \in Nat \ {0}
  BY OpenHashAssumption
<1>2. k % SIZE \in 0..(SIZE - 1)
  BY <1>1
<1> QED
  BY <1>2 DEF hashCode, Cells

LEMMA NextCellIs ==
  ASSUME NEW i \in Cells
  PROVE  NextCell(i) \in Cells /\ NextCell(i) = IF i + 1 < SIZE THEN i + 1 ELSE 0
<1>1. PICK k : k = i + 1
  OBVIOUS
<1>2. NextCell(i) = k % SIZE
  BY <1>1, Zenon DEF NextCell
<1>3. k \in 0..(2 * SIZE - 1) /\ SIZE \in Nat \ {0}
  BY <1>1, OpenHashAssumption DEF Cells
<1>4. k % SIZE = IF k < SIZE THEN k ELSE k - SIZE
  BY <1>3, TurnAgain
<1> QED
  BY <1>1, <1>2, <1>3, <1>4 DEF Cells

\* One more probe passes one more cell, or comes round.
LEMMA BeforeNext ==
  ASSUME NEW h \in Cells, NEW i \in Cells
  PROVE  Before(h, NextCell(i)) \subseteq Before(h, i) \union {i}
<1>1. SIZE \in Nat
  BY OpenHashAssumption
<1>2. PICK k \in Cells : k = NextCell(i) /\ k = IF i + 1 < SIZE THEN i + 1 ELSE 0
  BY NextCellIs
<1>3. Before(h, k) \subseteq Before(h, i) \union {i}
  BY <1>1, <1>2 DEF Before, Cells
<1> QED
  BY <1>2, <1>3

\* Of two cells, the one that is not before the other is not passed on its way.
LEMMA BeforeOrder ==
  ASSUME NEW h \in Cells, NEW i \in Cells, NEW j \in Cells,
         j \notin Before(h, i), j # i
  PROVE  i \in Before(h, j)
BY OpenHashAssumption DEF Before, Cells

LEMMA BeginKeeps ==
  ASSUME TableInv, NEW k \in Keys, NEW f \in {"search", "insert", "delete"}, Begin(f, k)
  PROVE  TableInv'
<1>1. hashCode(k) \in Cells
  BY HashCodeType
<1>2. Before(hashCode(k), hashCode(k)) = {}
  BY <1>1, OpenHashAssumption DEF Before, Cells
<1>3. key' = k /\ hashIndex' = hashCode(k) /\ hashArray' = hashArray /\ call' = f
  BY DEF Begin
<1>4. OpenHashTypeOK' /\ PathsFull'
  BY <1>1 DEF TableInv, OpenHashTypeOK, PathsFull, Begin
<1>5. Passed'
  BY <1>2, <1>3 DEF Passed
<1> QED
  BY <1>4, <1>5 DEF TableInv

LEMMA ProbeKeeps ==
  ASSUME TableInv, Probe  PROVE  TableInv'
<1>1. key \in Keys /\ hashCode(key) \in Cells /\ hashIndex \in Cells
  BY HashCodeType DEF TableInv, Passed, Probe, OpenHashTypeOK
<1>2. /\ hashIndex' = NextCell(hashIndex) /\ hashIndex' \in Cells
      /\ UNCHANGED <<hashArray, call, key, item>>
  BY <1>1, NextCellIs DEF Probe
<1>3. hashArray[hashIndex] \notin (IF call = "insert" THEN {Null, Dummy} ELSE {Null, key})
  BY DEF Probe, Ends
<1>4. Before(hashCode(key), hashIndex') \subseteq Before(hashCode(key), hashIndex) \union {hashIndex}
  BY <1>1, <1>2, BeforeNext
<1>5. Passed'
  BY <1>2, <1>3, <1>4 DEF TableInv, Passed
<1>6. OpenHashTypeOK' /\ PathsFull'
  BY <1>2 DEF TableInv, OpenHashTypeOK, PathsFull
<1> QED
  BY <1>5, <1>6 DEF TableInv

LEMMA ReturnKeeps ==
  ASSUME TableInv, SearchReturns \/ InsertReturns \/ DeleteReturns  PROVE  TableInv'
<1>1. key \in Keys /\ hashIndex \in Cells /\ hashArray \in [Cells -> Keys \union {Dummy, Null}]
  BY DEF TableInv, Passed, OpenHashTypeOK, SearchReturns, InsertReturns, DeleteReturns
<1>2. Passed' /\ call' = "none" /\ key' = Null /\ hashIndex' \in Cells
  BY OpenHashAssumption
  DEF Passed, SearchReturns, InsertReturns, DeleteReturns, Return, Cells
<1>3. CASE SearchReturns
  <2>1. item' \in Keys \union {Null}
    BY <1>1, <1>3 DEF SearchReturns, Ends
  <2> QED
    BY <1>2, <1>3, <2>1 DEF TableInv, OpenHashTypeOK, PathsFull, SearchReturns
<1>4. CASE InsertReturns
  <2>1. hashArray' = [hashArray EXCEPT ![hashIndex] = key] /\ item' = item
    BY <1>4 DEF InsertReturns
  <2>2. OpenHashTypeOK'
    BY <1>1, <1>2, <2>1 DEF TableInv, OpenHashTypeOK
  <2>3. ASSUME NEW i \in Cells, hashArray'[i] \in Keys,
               NEW j \in Before(hashCode(hashArray'[i]), i)
        PROVE  hashArray'[j] # Null
    <3>1. j \in Cells
      BY DEF Before
    <3>2. CASE i = hashIndex
      <4>1. hashArray'[i] = key /\ j \in Before(hashCode(key), hashIndex)
        BY <1>1, <2>1, <2>3, <3>2
      <4>2. hashArray[j] # Null
        BY <1>4, <4>1 DEF TableInv, Passed, InsertReturns
      <4> QED
        BY <1>1, <2>1, <3>1, <4>2, KeysAre
    <3>3. CASE i # hashIndex
      <4>1. hashArray'[i] = hashArray[i]
        BY <1>1, <2>1, <3>3
      <4>2. hashArray[j] # Null
        BY <2>3, <4>1 DEF TableInv, PathsFull
      <4> QED
        BY <1>1, <2>1, <3>1, <4>2, KeysAre
    <3> QED
      BY <3>2, <3>3
  <2> QED
    BY <1>2, <2>2, <2>3 DEF TableInv, PathsFull
<1>5. CASE DeleteReturns
  <2>1. \/ hashArray' = hashArray
        \/ hashArray' = [hashArray EXCEPT ![hashIndex] = Dummy]
    BY <1>5 DEF DeleteReturns, Deleted
  <2>2. OpenHashTypeOK'
    BY <1>1, <1>2, <1>5, <2>1 DEF TableInv, OpenHashTypeOK, DeleteReturns
  <2>3. \A i \in Cells : \/ hashArray'[i] = hashArray[i]
                         \/ hashArray'[i] = Dummy
    BY <1>1, <2>1
  <2>4. PathsFull'
    <3> SUFFICES ASSUME NEW i \in Cells, hashArray'[i] \in Keys,
                        NEW j \in Before(hashCode(hashArray'[i]), i)
                 PROVE  hashArray'[j] # Null
      BY DEF PathsFull
    <3>1. hashArray'[i] = hashArray[i] /\ j \in Cells
      BY <2>3, KeysAre DEF Before
    <3>2. hashArray[j] # Null
      BY <3>1 DEF TableInv, PathsFull
    <3> QED
      BY <2>3, <3>1, <3>2, KeysAre
  <2> QED
    BY <1>2, <2>2, <2>4 DEF TableInv
<1> QED
  BY <1>3, <1>4, <1>5

LEMMA TableStarts == OpenHashInit => TableInv
<1> SUFFICES ASSUME OpenHashInit PROVE TableInv
  OBVIOUS
<1>1. 0 \in Cells /\ hashArray = [i \in Cells |-> Null]
  BY OpenHashAssumption DEF OpenHashInit, Cells
<1>2. OpenHashTypeOK
  BY <1>1 DEF OpenHashInit, OpenHashTypeOK
<1>3. PathsFull
  BY <1>1, KeysAre DEF PathsFull
<1> QED
  BY <1>2, <1>3 DEF OpenHashInit, TableInv, Passed

LEMMA TableSteps == TableInv /\ [OpenHashNext]_openHashVars => TableInv'
<1> SUFFICES ASSUME TableInv, [OpenHashNext]_openHashVars PROVE TableInv'
  OBVIOUS
<1>1. CASE BeginCall
  <2>1. item # Null => item \in Keys
    BY DEF TableInv, OpenHashTypeOK
  <2> QED
    BY <1>1, <2>1, BeginKeeps DEF BeginCall
<1>2. CASE OpenHashStep
  BY <1>2, ProbeKeeps, ReturnKeeps DEF OpenHashStep
<1>3. CASE UNCHANGED openHashVars
  BY <1>3 DEF TableInv, OpenHashTypeOK, PathsFull, Passed, openHashVars
<1> QED
  BY <1>1, <1>2, <1>3 DEF OpenHashNext

LEMMA TableInvariance == OpenHashSpec => []TableInv
BY TableStarts, TableSteps, PTL DEF OpenHashSpec

LEMMA SearchAnswer ==
  ASSUME TableInv, [OpenHashNext]_openHashVars, call = "search", call' = "none"
  PROVE  item' # Null <=> \E i \in Cells : hashArray[i] = key
<1>1. SearchReturns
  BY DEF OpenHashNext, OpenHashStep, BeginCall, Begin, Probe, InsertReturns, DeleteReturns,
      openHashVars
<1>2. /\ item' = hashArray[hashIndex] /\ hashArray[hashIndex] \in {Null, key}
      /\ key \in Keys /\ hashIndex \in Cells /\ hashCode(key) \in Cells
      /\ \A j \in Before(hashCode(key), hashIndex) : hashArray[j] # key
  BY <1>1, HashCodeType
  DEF SearchReturns, Ends, TableInv, Passed, OpenHashTypeOK
<1>3. ASSUME NEW i \in Cells, hashArray[i] = key, item' = Null  PROVE FALSE
  <2>1. i # hashIndex /\ i \notin Before(hashCode(key), hashIndex)
    BY <1>2, <1>3, KeysAre
  <2>2. hashIndex \in Before(hashCode(key), i)
    BY <1>2, <2>1, BeforeOrder
  <2> QED
    BY <1>2, <1>3, <2>2 DEF TableInv, PathsFull
<1> QED
  BY <1>2, <1>3, KeysAre

\* A search returns an item if and only if one with its key is in the table,
\* after any sequence of insertions and deletions.
THEOREM SearchFinds == OpenHashSpec => SearchIsExact
BY SearchAnswer, TableInvariance, PTL DEF OpenHashSpec, SearchIsExact

-----------------------------------------------------------------------------
(***************************************************************************)
(* The heaps                                                               *)
(***************************************************************************)

CellsWith(f, n, v) == {i \in 0..(n - 1) : f[i] = v}

InUse == \A i \in 0..(curIdx - 1) : data[i] \in Entries

Counted == \A v \in Entries : held[v] = Cardinality(CellsWith(data, curIdx, v))

AtEntry == eleIdx # 0 \/ heapPc = "up" => eleIdx < curIdx

\* In binaryHeap.c every entry is below a larger one, but for the entry on its way
\* up, or those below the entry on its way down; those are below the one above it.
Sifted ==
  heapProgram = "binaryHeap" =>
    \A i \in 1..(curIdx - 1) :
      /\ \/ heapPc = "up" /\ i = eleIdx
         \/ heapPc = "heapify" /\ parent(i) = eleIdx
         \/ data[i] <= data[parent(i)]
      /\ heapPc # "idle" /\ parent(i) = eleIdx /\ eleIdx # 0
           => data[i] <= data[parent(eleIdx)]

MaxHeapInv == HeapTypeOK /\ InUse /\ Counted /\ AtEntry /\ Sifted

LEMMA InUseInt ==
  ASSUME MaxHeapInv
  PROVE  /\ curIdx \in Nat /\ curIdx <= HeapCapacity
         /\ \A i \in 0..(curIdx - 1) : i \in Places /\ data[i] \in Int
<1>1. curIdx \in Nat /\ curIdx <= HeapCapacity /\ HeapCapacity \in Nat
  BY HeapAssumption DEF MaxHeapInv, HeapTypeOK
<1>2. \A i \in 0..(curIdx - 1) : data[i] \in Int
  BY HeapAssumption DEF MaxHeapInv, InUse
<1> QED
  BY <1>1, <1>2 DEF Places

LEMMA ParentIs ==
  ASSUME NEW i \in Nat \ {0}
  PROVE  /\ parent(i) \in 0..(i - 1)
         /\ i = left_child(parent(i)) \/ i = right_child(parent(i))
BY DEF parent, left_child, right_child

LEMMA ChildrenAre ==
  ASSUME NEW i \in Nat
  PROVE  /\ left_child(i) \in Nat \ {0} /\ parent(left_child(i)) = i
         /\ right_child(i) \in Nat \ {0} /\ parent(right_child(i)) = i
         /\ left_child(i) > i /\ right_child(i) > i /\ left_child(i) # right_child(i)
BY DEF parent, left_child, right_child

-----------------------------------------------------------------------------
LEMMA CopiesFinite ==
  ASSUME NEW f, NEW n \in Nat, NEW v
  PROVE  /\ IsFiniteSet(CellsWith(f, n, v))
         /\ Cardinality(CellsWith(f, n, v)) \in 0..n
<1>1. IsFiniteSet(0..(n - 1)) /\ Cardinality(0..(n - 1)) = n
  <2>1. 0 \in Int /\ n - 1 \in Int /\ (0 > n - 1 => n = 0) /\ n - 1 - 0 + 1 = n
    OBVIOUS
  <2> QED
    BY <2>1, FS_Interval
<1>2. CellsWith(f, n, v) \subseteq 0..(n - 1)
  BY DEF CellsWith
<1> QED
  BY <1>1, <1>2, FS_Subset, FS_CardinalityType

\* g holds the n entries of f, those at i and j exchanged.
Exchanged(f, g, n, i, j) ==
  g[i] = f[j] /\ g[j] = f[i] /\ \A k \in 0..(n - 1) : k \notin {i, j} => g[k] = f[k]

\* An exchange of two entries loses no copy.
LEMMA SwapCopies ==
  ASSUME NEW n \in Nat, NEW f, NEW g, NEW v,
         NEW i \in 0..(n - 1), NEW j \in 0..(n - 1), Exchanged(f, g, n, i, j)
  PROVE  Cardinality(CellsWith(g, n, v)) = Cardinality(CellsWith(f, n, v))
<1>1. g[i] = f[j] /\ g[j] = f[i] /\ \A k \in 0..(n - 1) : k \notin {i, j} => g[k] = f[k]
  BY DEF Exchanged
<1> DEFINE rest == CellsWith(f, n, v) \ {i, j}
<1>2. CASE f[i] = v <=> f[j] = v
  <2>1. CellsWith(g, n, v) = CellsWith(f, n, v)
    BY <1>1, <1>2 DEF CellsWith
  <2> QED
    BY <2>1
<1>3. CASE f[i] = v /\ f[j] # v
  <2>1. CellsWith(f, n, v) = rest \union {i} /\ CellsWith(g, n, v) = rest \union {j}
    BY <1>1, <1>3 DEF CellsWith
  <2>2. IsFiniteSet(rest) /\ i \notin rest /\ j \notin rest
    BY CopiesFinite, FS_Subset
  <2>3. Cardinality(rest \union {i}) = Cardinality(rest \union {j})
    BY <2>2, FS_AddElement, ZenonT(60)
  <2> QED
    BY <2>1, <2>3
<1>4. CASE f[i] # v /\ f[j] = v
  <2>1. CellsWith(f, n, v) = rest \union {j} /\ CellsWith(g, n, v) = rest \union {i}
    BY <1>1, <1>4 DEF CellsWith
  <2>2. IsFiniteSet(rest) /\ i \notin rest /\ j \notin rest
    BY CopiesFinite, FS_Subset
  <2>3. Cardinality(rest \union {i}) = Cardinality(rest \union {j})
    BY <2>2, FS_AddElement, ZenonT(60)
  <2> QED
    BY <2>1, <2>3
<1> QED
  BY <1>2, <1>3, <1>4

\* One more entry in use is one more copy of it.
LEMMA AddCopies ==
  ASSUME NEW n \in Nat, NEW f, NEW g, NEW v,
         \A k \in 0..(n - 1) : g[k] = f[k]
  PROVE  Cardinality(CellsWith(g, n + 1, v))
         = Cardinality(CellsWith(f, n, v)) + (IF g[n] = v THEN 1 ELSE 0)
<1>1. CellsWith(g, n + 1, v) = IF g[n] = v THEN CellsWith(f, n, v) \union {n} ELSE CellsWith(f, n, v)
  BY DEF CellsWith
<1>2. IsFiniteSet(CellsWith(f, n, v)) /\ n \notin CellsWith(f, n, v)
  <2>1. n \notin CellsWith(f, n, v)
    BY DEF CellsWith
  <2> QED
    BY <2>1, CopiesFinite
<1>3. Cardinality(CellsWith(f, n, v) \union {n}) = Cardinality(CellsWith(f, n, v)) + 1
  BY <1>2, FS_AddElement
<1>4. Cardinality(CellsWith(f, n, v)) \in 0..n
  BY CopiesFinite
<1> QED
  BY <1>1, <1>3, <1>4

LEMMA SwapKeeps ==
  ASSUME MaxHeapInv, NEW i \in 0..(curIdx - 1), NEW j \in 0..(curIdx - 1), Swap(i, j),
         curIdx' = curIdx, held' = held
  PROVE  /\ data' \in [Places -> Entries \union {Unwritten}]
         /\ InUse' /\ Counted'
         /\ data'[i] = data[j] /\ data'[j] = data[i]
         /\ \A k \in 0..(curIdx - 1) : k \notin {i, j} => data'[k] = data[k]
<1>1. /\ curIdx \in Nat /\ 0..(curIdx - 1) \subseteq Places
      /\ data \in [Places -> Entries \union {Unwritten}]
  BY HeapAssumption DEF MaxHeapInv, HeapTypeOK, Places
<1>2. data' = [data EXCEPT ![i] = data[j], ![j] = data[i]]
  BY DEF Swap
<1>3. /\ data' \in [Places -> Entries \union {Unwritten}]
      /\ data'[i] = data[j] /\ data'[j] = data[i]
      /\ \A k \in 0..(curIdx - 1) : k \notin {i, j} => data'[k] = data[k]
  BY <1>1, <1>2
<1>4. InUse'
  BY <1>3 DEF MaxHeapInv, InUse
<1>5. \A v \in Entries :
        Cardinality(CellsWith(data', curIdx, v)) = Cardinality(CellsWith(data, curIdx, v))
  <2>1. PICK g : g = data'
    OBVIOUS
  <2>2. Exchanged(data, g, curIdx, i, j)
    BY <1>3, <2>1 DEF Exchanged
  <2>3. \A v \in Entries :
          Cardinality(CellsWith(g, curIdx, v)) = Cardinality(CellsWith(data, curIdx, v))
    BY <1>1, <2>2, SwapCopies
  <2> QED
    BY <2>1, <2>3
<1>6. Counted'
  BY <1>5 DEF MaxHeapInv, Counted
<1> QED
  BY <1>3, <1>4, <1>6

\* There are no more copies than there are places.
LEMMA HeldType ==
  ASSUME NEW f, NEW n \in 0..HeapCapacity, NEW h \in [Entries -> Int],
         \A v \in Entries : h[v] = Cardinality(CellsWith(f, n, v))
  PROVE  h \in [Entries -> 0..HeapCapacity]
<1>1. \A v \in Entries : Cardinality(CellsWith(f, n, v)) \in 0..n
  BY CopiesFinite, HeapAssumption
<1>2. \A v \in Entries : h[v] \in 0..HeapCapacity
  BY <1>1, HeapAssumption
<1> QED
  BY <1>2

LEMMA PlaceKeeps ==
  ASSUME MaxHeapInv, NEW e \in Entries, HeapInsert(e)  PROVE  MaxHeapInv'
<1>1. /\ curIdx \in Nat /\ HeapCapacity \in Nat /\ curIdx \in Places
      /\ curIdx + 1 \in 0..HeapCapacity
      /\ data \in [Places -> Entries \union {Unwritten}] /\ held \in [Entries -> 0..HeapCapacity]
      /\ 0..(curIdx - 1) \subseteq Places
  BY HeapAssumption DEF MaxHeapInv, HeapTypeOK, HeapInsert, Places
<1>2. /\ data' = [data EXCEPT ![curIdx] = e] /\ curIdx' = curIdx + 1
      /\ heapPc' = "up" /\ eleIdx' = curIdx /\ heapPc = "idle"
      /\ held' = [held EXCEPT ![e] = @ + 1] /\ heapProgram' = heapProgram
  BY DEF HeapInsert
<1>3. data'[curIdx] = e /\ \A k \in 0..(curIdx - 1) : data'[k] = data[k]
  BY <1>1, <1>2
<1>4. InUse' /\ AtEntry'
  BY <1>1, <1>2, <1>3 DEF MaxHeapInv, InUse, AtEntry
<1>5. \A v \in Entries : held'[v] = Cardinality(CellsWith(data', curIdx + 1, v))
  <2> SUFFICES ASSUME NEW v \in Entries
               PROVE  held'[v] = Cardinality(CellsWith(data', curIdx + 1, v))
    OBVIOUS
  <2>1. Cardinality(CellsWith(data', curIdx + 1, v))
        = Cardinality(CellsWith(data, curIdx, v)) + (IF data'[curIdx] = v THEN 1 ELSE 0)
    BY <1>1, <1>3, AddCopies
  <2>2. held'[v] = held[v] + (IF e = v THEN 1 ELSE 0)
    BY <1>1, <1>2
  <2>3. held[v] = Cardinality(CellsWith(data, curIdx, v))
    BY DEF MaxHeapInv, Counted
  <2> QED
    BY <1>3, <2>1, <2>2, <2>3
<1>6. HeapTypeOK' /\ Counted'
  <2>1. held' \in [Entries -> Int]
    BY <1>1, <1>2
  <2>2. held' \in [Entries -> 0..HeapCapacity]
    BY <1>1, <1>5, <2>1, HeldType
  <2> QED
    BY <1>1, <1>2, <1>5, <2>2 DEF MaxHeapInv, HeapTypeOK, Counted
<1>7. Sifted'
  <2> SUFFICES ASSUME heapProgram = "binaryHeap", NEW i \in 1..curIdx
               PROVE  /\ i = curIdx \/ data'[i] <= data'[parent(i)]
                      /\ parent(i) # curIdx
    BY <1>1, <1>2 DEF Sifted
  <2>1. parent(i) \in 0..(i - 1)
    BY <1>1, ParentIs
  <2>2. ASSUME i # curIdx  PROVE  data[i] <= data[parent(i)]
    BY <1>1, <1>2, <2>2 DEF MaxHeapInv, Sifted
  <2> QED
    BY <1>1, <1>3, <2>1, <2>2
<1> QED
  BY <1>4, <1>6, <1>7 DEF MaxHeapInv

\* heapPc and eleIdx once a loop ends.
LEMMA StopKeeps ==
  ASSUME MaxHeapInv, Idle, UNCHANGED <<data, curIdx, held, heapProgram>>,
         heapProgram = "binaryHeap" =>
           \A i \in 1..(curIdx - 1) : data[i] <= data[parent(i)]
  PROVE  MaxHeapInv'
<1>1. HeapTypeOK' /\ AtEntry'
  BY HeapAssumption DEF MaxHeapInv, HeapTypeOK, AtEntry, Idle, Places
<1>2. InUse' /\ Counted' /\ Sifted'
  BY DEF MaxHeapInv, InUse, Counted, Sifted, Idle
<1> QED
  BY <1>1, <1>2 DEF MaxHeapInv

LEMMA UpKeeps ==
  ASSUME MaxHeapInv, Up  PROVE  MaxHeapInv'
<1> DEFINE q == parent(eleIdx)
<1>1. /\ heapPc = "up" /\ eleIdx \in 0..(curIdx - 1) /\ curIdx \in Nat
      /\ UNCHANGED <<heapProgram, curIdx, held>>
      /\ \A i \in 0..(curIdx - 1) : data[i] \in Int
  BY InUseInt DEF Up, MaxHeapInv, HeapTypeOK, AtEntry, Places
<1>2. heapProgram = "binaryHeap" =>
        \A i \in 1..(curIdx - 1) :
          /\ i = eleIdx \/ data[i] <= data[parent(i)]
          /\ parent(i) = eleIdx /\ eleIdx # 0 => data[i] <= data[q]
  BY <1>1 DEF MaxHeapInv, Sifted
<1>3. CASE eleIdx # 0 /\ data[q] < data[eleIdx]
  <2>1. q \in 0..(eleIdx - 1)
    BY <1>1, <1>3, ParentIs
  <2>2. Swap(eleIdx, q) /\ eleIdx' = q /\ heapPc' = heapPc
    BY <1>3 DEF Up
  <2> HIDE DEF q
  <2>3. q \in 0..(curIdx - 1)
    BY <1>1, <2>1
  <2>4. /\ data' \in [Places -> Entries \union {Unwritten}]
        /\ InUse' /\ Counted'
        /\ data'[eleIdx] = data[q] /\ data'[q] = data[eleIdx]
        /\ \A k \in 0..(curIdx - 1) : k \notin {eleIdx, q} => data'[k] = data[k]
    BY <1>1, <2>2, <2>3, SwapKeeps
  <2>5. HeapTypeOK' /\ AtEntry'
    <3>1. held' \in [Entries -> 0..HeapCapacity] /\ q \in Places
      BY <1>1, <2>3, InUseInt DEF MaxHeapInv, HeapTypeOK
    <3> QED
      BY <1>1, <2>2, <2>3, <2>4, <3>1 DEF MaxHeapInv, HeapTypeOK, AtEntry
  <2>6. Sifted'
    <3> SUFFICES ASSUME heapProgram = "binaryHeap", NEW i \in 1..(curIdx - 1)
                 PROVE  /\ i = q \/ data'[i] <= data'[parent(i)]
                        /\ parent(i) = q /\ q # 0 => data'[i] <= data'[parent(q)]
      BY <1>1, <2>2 DEF Sifted
    <3>1. parent(i) \in 0..(i - 1) /\ parent(i) \in 0..(curIdx - 1)
      BY <1>1, ParentIs
    <3>2. parent(eleIdx) = q
      BY DEF q
    <3>3. q # 0 => parent(q) \in 0..(q - 1) /\ data[q] <= data[parent(q)]
      BY <1>1, <1>2, <2>1, <2>3, ParentIs
    <3>4. /\ i = eleIdx \/ data[i] <= data[parent(i)]
          /\ parent(i) = eleIdx => data[i] <= data[q]
      BY <1>2, <1>3
    <3>5. CASE i = eleIdx
      BY <1>1, <1>3, <2>1, <2>3, <2>4, <3>1, <3>2, <3>3, <3>5
    <3>6. CASE i # eleIdx /\ parent(i) = eleIdx
      BY <1>1, <1>3, <2>1, <2>3, <2>4, <3>1, <3>4, <3>6
    <3>7. CASE i # eleIdx /\ parent(i) = q
      BY <1>1, <1>3, <2>1, <2>3, <2>4, <3>1, <3>3, <3>4, <3>7
    <3>8. CASE i # eleIdx /\ parent(i) # eleIdx /\ parent(i) # q
      BY <1>1, <1>3, <2>1, <2>3, <2>4, <3>1, <3>4, <3>8
    <3> QED
      BY <3>5, <3>6, <3>7, <3>8
  <2> QED
    BY <2>4, <2>5, <2>6 DEF MaxHeapInv
<1>4. CASE ~(eleIdx # 0 /\ data[q] < data[eleIdx])
  <2>1. Idle /\ data' = data
    BY <1>4 DEF Up
  <2>2. eleIdx # 0 => data[eleIdx] <= data[q]
    <3>1. eleIdx # 0 => q \in 0..(curIdx - 1)
      BY <1>1, ParentIs
    <3> QED
      BY <1>1, <1>4, <3>1
  <2>3. heapProgram = "binaryHeap" =>
          \A i \in 1..(curIdx - 1) : data[i] <= data[parent(i)]
    BY <1>2, <2>2
  <2> QED
    BY <1>1, <2>1, <2>3, StopKeeps
<1> QED
  BY <1>3, <1>4

LEMMA PopKeeps ==
  ASSUME MaxHeapInv, HeapPop  PROVE  MaxHeapInv'
<1> DEFINE n == curIdx - 1
<1>1. /\ curIdx \in Nat /\ HeapCapacity \in Nat /\ n \in 0..HeapCapacity
      /\ 0 \in 0..n /\ n \in 0..n /\ curIdx = n + 1
      /\ data \in [Places -> Entries \union {Unwritten}] /\ held \in [Entries -> 0..HeapCapacity]
      /\ 0..n \subseteq Places /\ 0 \in Places
      /\ data[0] \in Entries /\ data[n] \in Entries
  BY HeapAssumption DEF MaxHeapInv, HeapTypeOK, HeapPop, Places, InUse
<1>2. /\ data' = [data EXCEPT ![0] = data[n]] /\ curIdx' = n
      /\ heapPc' = "heapify" /\ eleIdx' = 0 /\ heapPc = "idle"
      /\ held' = [held EXCEPT ![data[0]] = @ - 1] /\ heapProgram' = heapProgram
  BY DEF HeapPop
<1> HIDE DEF n
<1>3. data'[0] = data[n] /\ \A k \in 1..(n - 1) : data'[k] = data[k]
  BY <1>1, <1>2
<1>4. InUse' /\ AtEntry'
  BY <1>1, <1>2, <1>3 DEF MaxHeapInv, InUse, AtEntry
<1>5. \A v \in Entries : held'[v] = Cardinality(CellsWith(data', n, v))
  <2> SUFFICES ASSUME NEW v \in Entries
               PROVE  held'[v] = Cardinality(CellsWith(data', n, v))
    OBVIOUS
  <2>0. PICK g : g = [data EXCEPT ![0] = data[n], ![n] = data[0]]
    OBVIOUS
  <2>1. Cardinality(CellsWith(g, n + 1, v)) = Cardinality(CellsWith(data, n + 1, v))
    <3>1. n + 1 \in Nat /\ 0 \in 0..(n + 1 - 1) /\ n \in 0..(n + 1 - 1)
      BY <1>1
    <3>2. Exchanged(data, g, n + 1, 0, n)
      BY <1>1, <2>0 DEF Exchanged
    <3> QED
      BY <3>1, <3>2, SwapCopies
  <2>2. \A k \in 0..(n - 1) : g[k] = data'[k]
    BY <1>1, <1>2, <2>0
  <2>3. g[n] = data[0]
    BY <1>1, <2>0
  <2>4. Cardinality(CellsWith(g, n + 1, v))
        = Cardinality(CellsWith(data', n, v)) + (IF g[n] = v THEN 1 ELSE 0)
    BY <1>1, <2>2, AddCopies
  <2>5. held'[v] = held[v] - (IF data[0] = v THEN 1 ELSE 0)
    BY <1>1, <1>2
  <2>6. held[v] = Cardinality(CellsWith(data, n + 1, v))
    BY <1>1 DEF MaxHeapInv, Counted
  <2>7. Cardinality(CellsWith(data', n, v)) \in 0..n
    BY <1>1, CopiesFinite
  <2> QED
    BY <2>1, <2>3, <2>4, <2>5, <2>6, <2>7
<1>6. HeapTypeOK' /\ Counted'
  <2>1. held' \in [Entries -> Int]
    BY <1>1, <1>2
  <2>2. held' \in [Entries -> 0..HeapCapacity]
    BY <1>1, <1>5, <2>1, HeldType
  <2> QED
    BY <1>1, <1>2, <1>5, <2>2 DEF MaxHeapInv, HeapTypeOK, Counted
<1>7. Sifted'
  <2> SUFFICES ASSUME heapProgram = "binaryHeap", NEW i \in 1..(n - 1), parent(i) # 0
               PROVE  data'[i] <= data'[parent(i)]
    BY <1>1, <1>2 DEF Sifted
  <2>1. parent(i) \in 1..(n - 1) /\ i \in 1..(curIdx - 1)
    BY <1>1, ParentIs
  <2>2. data[i] <= data[parent(i)]
    BY <1>2, <2>1 DEF MaxHeapInv, Sifted
  <2> QED
    BY <1>3, <2>1, <2>2
<1> QED
  BY <1>4, <1>6, <1>7 DEF MaxHeapInv

\* Either file exchanges an entry with a child in use; binaryHeap.c with the largest
\* of the three.
LEMMA DownIs ==
  ASSUME MaxHeapInv, NEW e \in Places, e = 0 \/ e < curIdx
  PROVE  /\ Down(e) # e => /\ Down(e) \in 1..(curIdx - 1) /\ e \in 0..(curIdx - 1)
                           /\ parent(Down(e)) = e
         /\ heapProgram = "binaryHeap" =>
              /\ \A i \in 1..(curIdx - 1) : parent(i) = e => data[i] <= data[Down(e)]
              /\ Down(e) # e => data[e] < data[Down(e)]
<1>1. /\ curIdx \in Nat /\ e \in Nat /\ \A i \in 0..(curIdx - 1) : data[i] \in Int
  BY InUseInt DEF Places
<1>2. PICK l \in Nat \ {0}, r \in Nat \ {0} :
        /\ l = left_child(e) /\ r = right_child(e) /\ l > e /\ r > e /\ l # r
        /\ parent(l) = e /\ parent(r) = e
  BY <1>1, ChildrenAre
<1>3. \A i \in 1..(curIdx - 1) : parent(i) = e => i = l \/ i = r
  BY <1>2, ParentIs
<1>4. Down(e) \in {e, l, r} /\ (Down(e) # e => Down(e) < curIdx)
  BY <1>1, <1>2 DEF Down, Largest, target_index, Larger
<1>5. ASSUME heapProgram = "binaryHeap"
      PROVE  /\ l < curIdx => data[l] <= data[Down(e)]
             /\ r < curIdx => data[r] <= data[Down(e)]
             /\ Down(e) # e => data[e] < data[Down(e)]
  <2>1. Down(e) = Larger(Larger(e, l), r)
    BY <1>2, <1>5 DEF Down, Largest
  <2>2. e \in 0..(curIdx - 1) \/ curIdx = 0
    BY <1>1
  <2>3. CASE curIdx = 0
    BY <1>1, <1>2, <2>1, <2>3 DEF Larger
  <2>4. CASE e \in 0..(curIdx - 1)
    BY <1>1, <1>2, <2>1, <2>4 DEF Larger
  <2> QED
    BY <2>2, <2>3, <2>4
<1> QED
  BY <1>1, <1>2, <1>3, <1>4, <1>5

LEMMA HeapifyKeeps ==
  ASSUME MaxHeapInv, heapify  PROVE  MaxHeapInv'
<1> DEFINE e == eleIdx
           j == Down(eleIdx)
<1>1. /\ heapPc = "heapify" /\ e \in Places /\ (e = 0 \/ e < curIdx) /\ curIdx \in Nat
      /\ UNCHANGED <<heapProgram, curIdx, held>>
      /\ \A i \in 0..(curIdx - 1) : data[i] \in Int
  BY InUseInt DEF heapify, MaxHeapInv, HeapTypeOK, AtEntry
<1>2. /\ j # e => j \in 1..(curIdx - 1) /\ e \in 0..(curIdx - 1) /\ parent(j) = e
      /\ heapProgram = "binaryHeap" =>
           /\ \A i \in 1..(curIdx - 1) : parent(i) = e => data[i] <= data[j]
           /\ j # e => data[e] < data[j]
  BY <1>1, DownIs
<1>3. heapProgram = "binaryHeap" =>
        \A i \in 1..(curIdx - 1) :
          /\ parent(i) = e \/ data[i] <= data[parent(i)]
          /\ parent(i) = e /\ e # 0 => data[i] <= data[parent(e)]
  BY <1>1 DEF MaxHeapInv, Sifted
<1>4. CASE j # e
  <2>1. Swap(e, j) /\ eleIdx' = j /\ heapPc' = heapPc
    BY <1>4 DEF heapify
  <2>2. /\ j \in 1..(curIdx - 1) /\ e \in 0..(curIdx - 1) /\ j \in 0..(curIdx - 1)
        /\ parent(j) = e /\ e < j
    BY <1>1, <1>2, <1>4, ParentIs
  <2> HIDE DEF e, j
  <2>3. /\ data' \in [Places -> Entries \union {Unwritten}]
        /\ InUse' /\ Counted'
        /\ data'[e] = data[j] /\ data'[j] = data[e]
        /\ \A k \in 0..(curIdx - 1) : k \notin {e, j} => data'[k] = data[k]
    BY <1>1, <2>1, <2>2, SwapKeeps
  <2>4. HeapTypeOK' /\ AtEntry'
    <3>1. held' \in [Entries -> 0..HeapCapacity] /\ j \in Places
      BY <1>1, <2>2, InUseInt DEF MaxHeapInv, HeapTypeOK
    <3> QED
      BY <1>1, <2>1, <2>2, <2>3, <3>1 DEF MaxHeapInv, HeapTypeOK, AtEntry
  <2>5. Sifted'
    <3> SUFFICES ASSUME heapProgram = "binaryHeap", NEW i \in 1..(curIdx - 1)
                 PROVE  /\ parent(i) = j \/ data'[i] <= data'[parent(i)]
                        /\ parent(i) = j => data'[i] <= data'[parent(j)]
      BY <1>1, <2>1 DEF Sifted
    <3>1. parent(i) \in 0..(i - 1) /\ parent(i) \in 0..(curIdx - 1)
      BY <1>1, ParentIs
    <3>2. /\ parent(i) = e \/ data[i] <= data[parent(i)]
          /\ parent(i) = e /\ e # 0 => data[i] <= data[parent(e)]
          /\ parent(i) = e => data[i] <= data[j]
          /\ data[e] < data[j]
      BY <1>2, <1>3, <1>4
    <3>3. CASE parent(i) = j
      <4>1. data'[i] = data[i] /\ data'[parent(j)] = data[j]
        BY <2>2, <2>3, <3>1, <3>3
      <4> QED
        BY <2>2, <3>2, <3>3, <4>1
    <3>4. CASE parent(i) = e
      BY <1>1, <2>2, <2>3, <3>1, <3>2, <3>4
    <3>5. CASE parent(i) # e /\ parent(i) # j /\ i = e
      <4>1. j # i /\ e # 0
        BY <2>2, <3>5
      <4>2. data[j] <= data[parent(e)]
        BY <1>3, <2>2, <4>1
      <4> QED
        BY <2>3, <3>1, <3>5, <4>2
    <3>6. CASE parent(i) # e /\ parent(i) # j /\ i # e
      <4>1. i # j
        BY <2>2, <3>6
      <4> QED
        BY <2>3, <3>1, <3>2, <3>6, <4>1
    <3> QED
      BY <3>3, <3>4, <3>5, <3>6, <2>2
  <2> QED
    BY <2>3, <2>4, <2>5 DEF MaxHeapInv
<1>5. CASE j = e
  <2>1. Idle /\ data' = data
    BY <1>5 DEF heapify
  <2>2. heapProgram = "binaryHeap" =>
          \A i \in 1..(curIdx - 1) : data[i] <= data[parent(i)]
    BY <1>2, <1>3, <1>5
  <2> QED
    BY <1>1, <2>1, <2>2, StopKeeps
<1> QED
  BY <1>4, <1>5

-----------------------------------------------------------------------------
\* A non-empty set of natural numbers has a least element.
LEMMA LeastPlace ==
  ASSUME NEW S \in SUBSET Nat, S # {}
  PROVE  \E m \in S : \A k \in S : m <= k
<1>1. PICK m \in S : \A k \in S : ~ (<<k, m>> \in OpToRel(<, Nat))
  BY NatLessThanWellFounded, WFMin, Zenon
<1>2. ASSUME NEW k \in S, k < m  PROVE  <<k, m>> \in OpToRel(<, Nat)
  BY <1>2 DEF OpToRel
<1>3. \A k \in S : ~ (k < m)
  BY <1>1, <1>2, Zenon
<1>4. m \in Nat /\ \A k \in S : k \in Nat
  OBVIOUS
<1> QED
  BY <1>3, <1>4

\* Where every entry is below a larger one, the root is the largest: the first entry
\* larger than the root would be larger than the one above it.
LEMMA RootIsMaximum ==
  ASSUME MaxHeapInv, \A i \in 1..(curIdx - 1) : data[i] <= data[parent(i)]
  PROVE  RootLargest
<1> DEFINE S == {i \in 0..(curIdx - 1) : ~(data[i] <= data[0])}
<1>1. /\ curIdx \in Nat /\ S \in SUBSET Nat
      /\ \A i \in 0..(curIdx - 1) : data[i] \in Int
  BY InUseInt
<1>2. ASSUME NEW m \in S, \A k \in S : m <= k  PROVE FALSE
  <2>1. m \in 1..(curIdx - 1)
    BY <1>1
  <2>2. parent(m) \in 0..(m - 1)
    BY <2>1, ParentIs
  <2>3. parent(m) \notin S /\ parent(m) \in 0..(curIdx - 1) /\ 0 \in 0..(curIdx - 1)
    BY <1>1, <1>2, <2>1, <2>2
  <2>4. data[m] <= data[parent(m)] /\ data[parent(m)] <= data[0]
    BY <2>1, <2>3
  <2> QED
    BY <1>1, <2>1, <2>3, <2>4
<1>3. S = {}
  <2> HIDE DEF S
  <2> QED
    BY <1>1, <1>2, LeastPlace
<1> QED
  BY <1>3 DEF RootLargest

LEMMA HeapStarts == HeapInit => MaxHeapInv
<1> SUFFICES ASSUME HeapInit PROVE MaxHeapInv
  OBVIOUS
<1>1. \A v \in Entries : CellsWith(data, 0, v) = {}
  BY DEF CellsWith
<1>2. Counted
  BY <1>1, FS_EmptySet DEF HeapInit, Counted
<1>3. HeapTypeOK /\ InUse /\ AtEntry /\ Sifted
  BY HeapAssumption DEF HeapInit, HeapTypeOK, InUse, AtEntry, Sifted, Places
<1> QED
  BY <1>2, <1>3 DEF MaxHeapInv

LEMMA HeapSteps == MaxHeapInv /\ [HeapNext]_heapVars => MaxHeapInv'
<1>1. MaxHeapInv /\ UNCHANGED heapVars => MaxHeapInv'
  BY DEF MaxHeapInv, HeapTypeOK, InUse, Counted, AtEntry, Sifted, heapVars
<1> QED
  BY <1>1, PlaceKeeps, UpKeeps, PopKeeps, HeapifyKeeps DEF HeapNext

\* Between calls the invariant is the property the run checks.
LEMMA HeapIdle == MaxHeapInv => PopsLargest
<1> SUFFICES ASSUME MaxHeapInv, heapPc = "idle" PROVE PopsLargest
  BY DEF PopsLargest
<1>1. heapProgram = "binaryHeap" => RootLargest
  BY RootIsMaximum DEF MaxHeapInv, Sifted
<1>2. \A v \in Entries : held[v] = Cardinality({i \in 0..(curIdx - 1) : data[i] = v})
  BY DEF MaxHeapInv, Counted, CellsWith
<1> QED
  BY <1>1, <1>2 DEF PopsLargest

\* Between calls a heap of binaryHeap.c has its largest entry at the root, and
\* either heap holds exactly what was inserted and not popped.
THEOREM LargestFirst == HeapSpec => []PopsLargest
BY HeapStarts, HeapSteps, HeapIdle, PTL DEF HeapSpec

(***************************************************************************)
(* The hash table with chains                                              *)
(***************************************************************************)

LEMMA InChain ==
  ASSUME NEW s \in Seq(ChainKeys), NEW x
  PROVE  x \in ToSet(s) <=> \E i \in 1..Len(s) : s[i] = x
BY DEF ToSet

\* A sequence without its i-th element.
LEMMA WithoutOne ==
  ASSUME NEW c \in Seq(ChainKeys), IsInjective(c), NEW i \in 1..Len(c),
         NEW d \in Seq(ChainKeys), Len(d) = Len(c) - 1,
         \A j \in 1..(i - 1) : d[j] = c[j],
         \A j \in i..(Len(c) - 1) : d[j] = c[j + 1]
  PROVE  IsInjective(d) /\ ToSet(d) = ToSet(c) \ {c[i]}
<1> DEFINE up(j) == IF j < i THEN j ELSE j + 1
<1>1. Len(c) \in Nat /\ Len(d) \in Nat /\ DOMAIN c = 1..Len(c) /\ DOMAIN d = 1..Len(d)
  OBVIOUS
<1>2. \A j \in 1..Len(d) : up(j) \in 1..Len(c) /\ up(j) # i /\ d[j] = c[up(j)]
  BY <1>1
<1>3. \A j \in 1..Len(c) : j # i => \E k \in 1..Len(d) : up(k) = j
  <2>1. ASSUME NEW j \in 1..Len(c), j < i PROVE j \in 1..Len(d) /\ up(j) = j
    BY <1>1, <2>1
  <2>2. ASSUME NEW j \in 1..Len(c), j > i PROVE j - 1 \in 1..Len(d) /\ up(j - 1) = j
    BY <1>1, <2>2
  <2> SUFFICES ASSUME NEW j \in 1..Len(c), j # i  PROVE \E k \in 1..Len(d) : up(k) = j
    OBVIOUS
  <2> HIDE DEF up
  <2>3. CASE j < i
    BY <2>1, <2>3
  <2>4. CASE j > i
    <3>1. PICK k : k = j - 1
      OBVIOUS
    <3> QED
      BY <2>2, <2>4, <3>1
  <2> QED
    BY <1>1, <2>3, <2>4
<1>4. \A j, k \in 1..Len(d) : up(j) = up(k) => j = k
  BY <1>1
<1>5. \A j, k \in 1..Len(c) : c[j] = c[k] => j = k
  BY <1>1 DEF IsInjective
<1> HIDE DEF up
<1>6. IsInjective(d)
  <2>1. ASSUME NEW j \in 1..Len(d), NEW k \in 1..Len(d), d[j] = d[k]  PROVE j = k
    BY <1>2, <1>4, <1>5, <2>1
  <2> QED
    BY <1>1, <2>1 DEF IsInjective
<1>7. ASSUME NEW x  PROVE x \in ToSet(d) <=> x \in ToSet(c) /\ x # c[i]
  <2>1. ASSUME NEW k \in 1..Len(d), d[k] = x  PROVE x \in ToSet(c) /\ x # c[i]
    BY <1>2, <1>5, <2>1, InChain
  <2>2. ASSUME NEW j \in 1..Len(c), c[j] = x, x # c[i]  PROVE x \in ToSet(d)
    <3>1. PICK k \in 1..Len(d) : up(k) = j
      BY <1>3, <2>2
    <3> QED
      BY <1>2, <2>2, <3>1, InChain
  <2> QED
    BY <2>1, <2>2, InChain
<1> QED
  BY <1>6, <1>7

ChainInv == ChainTypeOK /\ ChainsHoldMembers

LEMMA BucketType ==
  ASSUME NEW k \in ChainKeys  PROVE Bucket(k) \in Buckets
<1>1. k \in Nat /\ ChainSize \in Nat \ {0}
  BY ChainAssumption
<1>2. k % ChainSize \in 0..(ChainSize - 1)
  BY <1>1
<1> QED
  BY <1>2 DEF Bucket, Buckets

\* What remains to be shown of a step that writes the list of one key.
LEMMA ListWritten ==
  ASSUME ChainInv, NEW k \in ChainKeys, NEW c \in Seq(ChainKeys), IsInjective(c),
         chains' = [chains EXCEPT ![Bucket(k)] = c],
         \/ members' = members \union {k} /\ ToSet(c) = ToSet(chains[Bucket(k)]) \union {k}
         \/ members' = members \ {k} /\ ToSet(c) = ToSet(chains[Bucket(k)]) \ {k}
  PROVE  ChainInv'
<1>1. Bucket(k) \in Buckets /\ chains \in [Buckets -> Seq(ChainKeys)] /\ members \subseteq ChainKeys
  BY BucketType DEF ChainInv, ChainTypeOK
<1>2. ChainTypeOK'
  BY <1>1 DEF ChainTypeOK
<1>3. ASSUME NEW b \in Buckets
      PROVE  /\ IsInjective(chains'[b])
             /\ ToSet(chains'[b]) = {m \in members' : Bucket(m) = b}
  <2>1. IsInjective(chains[b]) /\ ToSet(chains[b]) = {m \in members : Bucket(m) = b}
    BY DEF ChainInv, ChainsHoldMembers
  <2>2. CASE b = Bucket(k)
    <3>1. chains'[b] = c
      BY <1>1, <2>2
    <3> QED
      BY <2>1, <2>2, <3>1
  <2>3. CASE b # Bucket(k)
    <3>1. chains'[b] = chains[b]
      BY <1>1, <2>3
    <3>2. {m \in members' : Bucket(m) = b} = {m \in members : Bucket(m) = b}
      BY <2>3
    <3> QED
      BY <2>1, <3>1, <3>2
  <2> QED
    BY <2>2, <2>3
<1> QED
  BY <1>2, <1>3 DEF ChainInv, ChainsHoldMembers

LEMMA ChainInsertKeeps ==
  ASSUME ChainInv, NEW k \in ChainKeys, ChainInsert(k)  PROVE ChainInv'
<1> DEFINE c == chains[Bucket(k)]
           d == Append(c, k)
<1>1. c \in Seq(ChainKeys) /\ IsInjective(c)
  BY BucketType DEF ChainInv, ChainTypeOK, ChainsHoldMembers
<1>2. \A j \in 1..Len(c) : c[j] # k
  BY <1>1 DEF ChainInsert, Found, Contains
<1>3. chains' = [chains EXCEPT ![Bucket(k)] = d] /\ members' = members \union {k}
  BY DEF ChainInsert
<1> HIDE DEF c
<1>4. /\ d \in Seq(ChainKeys) /\ Len(d) = Len(c) + 1 /\ Len(c) \in Nat
      /\ d[Len(c) + 1] = k /\ \A j \in 1..Len(c) : d[j] = c[j]
  BY <1>1
<1> HIDE DEF d
<1>5. IsInjective(d)
  <2>1. ASSUME NEW i \in 1..Len(d), NEW j \in 1..Len(d), d[i] = d[j]  PROVE i = j
    BY <1>1, <1>2, <1>4, <2>1 DEF IsInjective
  <2> QED
    BY <1>4, <2>1 DEF IsInjective
<1>6. ASSUME NEW x  PROVE x \in ToSet(d) <=> x \in ToSet(c) \/ x = k
  <2>1. x \in ToSet(d) <=> \E i \in 1..(Len(c) + 1) : d[i] = x
    BY <1>4, InChain
  <2>2. x \in ToSet(c) <=> \E i \in 1..Len(c) : c[i] = x
    BY <1>1, InChain
  <2> QED
    BY <1>4, <2>1, <2>2
<1>7. ToSet(d) = ToSet(c) \union {k}
  BY <1>6
<1> QED
  BY <1>3, <1>4, <1>5, <1>7, ListWritten DEF c

LEMMA ChainDeleteKeeps ==
  ASSUME ChainInv, NEW k \in ChainKeys, ChainDelete(k)  PROVE ChainInv'
<1> DEFINE c == chains[Bucket(k)]
<1>1. c \in Seq(ChainKeys) /\ IsInjective(c) /\ Len(c) \in Nat
  BY BucketType DEF ChainInv, ChainTypeOK, ChainsHoldMembers
<1>2. ASSUME NEW d \in Seq(ChainKeys), NEW i \in 1..Len(c), c[i] = k, Replace(k, d),
             Len(d) = Len(c) - 1,
             \A j \in 1..(i - 1) : d[j] = c[j],
             \A j \in i..(Len(c) - 1) : d[j] = c[j + 1]
      PROVE  ChainInv'
  <2> HIDE DEF c
  <2>1. IsInjective(d) /\ ToSet(d) = ToSet(c) \ {k}
    BY <1>1, <1>2, WithoutOne
  <2> QED
    BY <1>2, <2>1, ListWritten DEF Replace, c
<1>3. CASE c # <<>> /\ c[1] = k /\ Replace(k, Tail(c))
  <2>1. /\ 1 \in 1..Len(c) /\ Tail(c) \in Seq(ChainKeys) /\ Len(Tail(c)) = Len(c) - 1
        /\ \A j \in 1..(Len(c) - 1) : Tail(c)[j] = c[j + 1]
    BY <1>1, <1>3
  <2>2. PICK d \in Seq(ChainKeys) : d = Tail(c)
    BY <2>1
  <2>3. PICK i \in 1..Len(c) : i = 1
    BY <2>1
  <2>4. /\ c[i] = k /\ Replace(k, d) /\ Len(d) = Len(c) - 1
        /\ \A j \in 1..(i - 1) : d[j] = c[j]
        /\ \A j \in i..(Len(c) - 1) : d[j] = c[j + 1]
    <3> HIDE DEF c
    <3> QED
      BY <1>1, <1>3, <2>1, <2>2, <2>3
  <2> QED
    BY <1>2, <2>4
<1>4. ASSUME NEW i \in 2..(Len(c) - 1), c[i] = k, Replace(k, WithoutMiddle(c, i))
      PROVE  ChainInv'
  <2> DEFINE d == WithoutMiddle(c, i)
  <2>1. d = SubSeq(c, 1, i - 1) \o SubSeq(c, i + 1, Len(c))
    BY DEF WithoutMiddle, RemoveAt
  <2>2. /\ SubSeq(c, 1, i - 1) \in Seq(ChainKeys) /\ Len(SubSeq(c, 1, i - 1)) = i - 1
        /\ SubSeq(c, i + 1, Len(c)) \in Seq(ChainKeys)
        /\ Len(SubSeq(c, i + 1, Len(c))) = Len(c) - i
        /\ \A j \in 1..(i - 1) : SubSeq(c, 1, i - 1)[j] = c[j]
        /\ \A j \in 1..(Len(c) - i) : SubSeq(c, i + 1, Len(c))[j] = c[j + i]
    BY <1>1, SMTT(60)
  <2>3. /\ d \in Seq(ChainKeys) /\ Len(d) = Len(c) - 1
        /\ \A j \in 1..(i - 1) : d[j] = c[j]
        /\ \A j \in i..(Len(c) - 1) : d[j] = c[j + 1]
    <3>1. PICK u \in Seq(ChainKeys) : u = SubSeq(c, 1, i - 1)
      BY <2>2
    <3>2. PICK w \in Seq(ChainKeys) : w = SubSeq(c, i + 1, Len(c))
      BY <2>2
    <3>3. /\ Len(u) = i - 1 /\ \A j \in 1..(i - 1) : u[j] = c[j]
          /\ Len(w) = Len(c) - i /\ \A j \in 1..(Len(c) - i) : w[j] = c[j + i]
      BY <2>2, <3>1, <3>2
    <3>4. d = u \o w
      BY <2>1, <3>1, <3>2
    <3> HIDE DEF c, d
    <3>5. d \in Seq(ChainKeys) /\ Len(d) = Len(c) - 1
      <4>1. d \in Seq(ChainKeys) /\ Len(d) = Len(u) + Len(w)
        BY <3>4
      <4>2. Len(u) = i - 1 /\ Len(w) = Len(c) - i /\ Len(c) \in Nat /\ i \in Nat
        BY <1>1, <3>3
      <4> QED
        BY <4>1, <4>2
    <3>6. \A j \in 1..(i - 1) : d[j] = c[j]
      BY <1>1, <3>3, <3>4
    <3>7. ASSUME NEW j \in i..(Len(c) - 1)  PROVE d[j] = c[j + 1]
      <4>1. d[j] = w[j - (i - 1)]
        BY <1>1, <3>3, <3>4, SMTT(30)
      <4>2. PICK m \in 1..(Len(c) - i) : m = j - (i - 1)
        BY <1>1
      <4> QED
        BY <1>1, <3>3, <4>1, <4>2
    <3> QED
      BY <3>5, <3>6, <3>7
  <2> QED
    BY <1>1, <1>2, <1>4, <2>3, SMTT(30)
<1>5. CASE Len(c) > 1 /\ c[Len(c)] = k /\ Replace(k, Front(c))
  <2>1. /\ Front(c) \in Seq(ChainKeys) /\ Len(Front(c)) = Len(c) - 1
        /\ \A j \in 1..(Len(c) - 1) : Front(c)[j] = c[j]
        /\ Len(c) \in 1..Len(c)
    BY <1>1, <1>5 DEF Front
  <2> QED
    BY <1>2, <1>5, <2>1
<1> QED
  BY <1>3, <1>4, <1>5 DEF ChainDelete

LEMMA ChainStarts == ChainInit => ChainInv
BY DEF ChainInit, ChainInv, ChainTypeOK, ChainsHoldMembers, IsInjective, ToSet

LEMMA ChainSteps == ChainInv /\ [ChainNext]_chainVars => ChainInv'
<1>1. ChainInv /\ UNCHANGED chainVars => ChainInv'
  BY DEF ChainInv, ChainTypeOK, ChainsHoldMembers, chainVars
<1> QED
  BY <1>1, ChainInsertKeeps, ChainDeleteKeeps DEF ChainNext

\* After any sequence of insertions and deletions, also of keys that collide, each
\* list holds the keys of its hash code that were inserted and not deleted, once.
THEOREM ChainsExact == ChainSpec => []ChainsHoldMembers
BY ChainStarts, ChainSteps, PTL DEF ChainSpec, ChainInv

-----------------------------------------------------------------------------
(***************************************************************************)
(* The cards                                                               *)
(***************************************************************************)

CardsAt(deck) == {i \in 1..Len(deck) : IsCard(deck[i])}
InFront(A, i) == {j \in A : j < i}

\* Each number of cards in front is that of one card.
LEMMA InFrontIs ==
  ASSUME NEW A \in SUBSET Nat, IsFiniteSet(A)
  PROVE  /\ Cardinality(A) \in Nat
         /\ \A k \in 1..Cardinality(A) :
              \E i \in A : /\ Cardinality(InFront(A, i)) = k - 1
                           /\ \A j \in A : Cardinality(InFront(A, j)) = k - 1 => j = i
         /\ \A i \in A : Cardinality(InFront(A, i)) + 1 \in 1..Cardinality(A)
<1> DEFINE n == Cardinality(A)
           h == [i \in A |-> Cardinality(InFront(A, i)) + 1]
<1>1. n \in Nat
  BY FS_CardinalityType
<1>2. ASSUME NEW i \in A
      PROVE  /\ IsFiniteSet(InFront(A, i)) /\ Cardinality(InFront(A, i)) \in Nat
             /\ Cardinality(InFront(A, i)) < n
  <2>1. InFront(A, i) \in SUBSET A /\ InFront(A, i) # A
    BY DEF InFront
  <2>2. IsFiniteSet(InFront(A, i)) /\ Cardinality(InFront(A, i)) <= n /\ n # Cardinality(InFront(A, i))
    BY <2>1, FS_Subset
  <2>3. Cardinality(InFront(A, i)) \in Nat
    BY <2>2, FS_CardinalityType
  <2> QED
    BY <1>1, <2>2, <2>3
<1>3. ASSUME NEW i \in A, NEW j \in A, i < j
      PROVE  Cardinality(InFront(A, i)) < Cardinality(InFront(A, j))
  <2>1. InFront(A, i) \in SUBSET InFront(A, j) /\ i \in InFront(A, j) /\ i \notin InFront(A, i)
    <3>1. i \in Nat /\ j \in Nat /\ \A x \in A : x \in Nat
      OBVIOUS
    <3>2. \A x \in InFront(A, i) : x \in InFront(A, j)
      BY <1>3, <3>1 DEF InFront
    <3>3. i \in InFront(A, j) /\ i \notin InFront(A, i)
      BY <1>3, <3>1 DEF InFront
    <3> QED
      BY <3>2, <3>3
  <2>2. /\ Cardinality(InFront(A, i)) <= Cardinality(InFront(A, j))
        /\ Cardinality(InFront(A, j)) # Cardinality(InFront(A, i))
    BY <1>2, <2>1, FS_Subset
  <2> QED
    BY <1>2, <2>2
<1>4. ASSUME NEW i \in A, NEW j \in A, Cardinality(InFront(A, i)) = Cardinality(InFront(A, j))
      PROVE  i = j
  <2>1. i \in Nat /\ j \in Nat
    OBVIOUS
  <2>2. Cardinality(InFront(A, i)) \in Nat /\ Cardinality(InFront(A, j)) \in Nat
    BY <1>2
  <2>3. ~(i < j) /\ ~(j < i)
    BY <1>3, <1>4, <2>2
  <2> QED
    BY <2>1, <2>3
<1>5. ASSUME NEW i \in A  PROVE h[i] \in 1..n
  BY <1>1, <1>2
<1>6. h \in Injection(A, 1..n)
  <2>1. h \in [A -> 1..n]
    BY <1>5
  <2>2. ASSUME NEW i \in A, NEW j \in A, h[i] = h[j]  PROVE i = j
    <3>1. Cardinality(InFront(A, i)) = Cardinality(InFront(A, j))
      BY <1>2, <2>2
    <3> QED
      BY <1>4, <3>1
  <2> HIDE DEF h
  <2> QED
    BY <2>1, <2>2 DEF Injection, IsInjective
<1>7. IsFiniteSet(1..n) /\ Cardinality(1..n) = n
  BY <1>1, FS_Interval
<1>8. h \in Surjection(A, 1..n)
  <2> HIDE DEF h
  <2> QED
    BY <1>6, <1>7, FS_Injection
<1>9. \A k \in 1..n : \E i \in A : h[i] = k
  BY <1>8 DEF Surjection
<1>10. ASSUME NEW k \in 1..n
       PROVE  \E i \in A : /\ Cardinality(InFront(A, i)) = k - 1
                           /\ \A j \in A : Cardinality(InFront(A, j)) = k - 1 => j = i
  <2>1. PICK i \in A : h[i] = k
    BY <1>9
  <2>2. Cardinality(InFront(A, i)) = k - 1
    BY <1>1, <1>2, <2>1
  <2> QED
    BY <1>4, <2>2
<1> QED
  BY <1>1, <1>5, <1>10

\* Cards picks each place of a card once.
LEMMA CardsAre ==
  ASSUME NEW deck, Len(deck) \in Nat
  PROVE  /\ IsFiniteSet(CardsAt(deck)) /\ Cardinality(CardsAt(deck)) \in Nat
         /\ \E at \in [1..Cardinality(CardsAt(deck)) -> CardsAt(deck)] :
              /\ Cards(deck) = [k \in 1..Cardinality(CardsAt(deck)) |-> deck[at[k]]]
              /\ \A k, m \in 1..Cardinality(CardsAt(deck)) : at[k] = at[m] => k = m
              /\ \A i \in CardsAt(deck) : \E k \in 1..Cardinality(CardsAt(deck)) : at[k] = i
<1> DEFINE A == CardsAt(deck)
           n == Cardinality(A)
           at == [k \in 1..n |-> CHOOSE i \in A : Cardinality(InFront(A, i)) = k - 1]
<1>1. A \in SUBSET Nat /\ IsFiniteSet(A)
  <2>1. IsFiniteSet(1..Len(deck)) /\ A \in SUBSET (1..Len(deck))
    BY FS_Interval DEF CardsAt
  <2> QED
    BY <2>1, FS_Subset DEF CardsAt
<1>2. /\ n \in Nat
      /\ \A k \in 1..n :
           \E i \in A : /\ Cardinality(InFront(A, i)) = k - 1
                        /\ \A j \in A : Cardinality(InFront(A, j)) = k - 1 => j = i
      /\ \A i \in A : Cardinality(InFront(A, i)) + 1 \in 1..n
  <2> HIDE DEF A
  <2> QED
    BY <1>1, InFrontIs
<1>3. Cards(deck) = [k \in 1..n |-> deck[at[k]]]
  BY DEF Cards, CardsAt, InFront
<1> HIDE DEF A
<1>4. ASSUME NEW k \in 1..n
      PROVE  at[k] \in A /\ Cardinality(InFront(A, at[k])) = k - 1
  BY <1>2
<1> HIDE DEF at
<1>5. at \in [1..n -> A]
  BY <1>4 DEF at
<1>6. ASSUME NEW k \in 1..n, NEW m \in 1..n, at[k] = at[m]  PROVE k = m
  BY <1>2, <1>4, <1>6
<1>7. ASSUME NEW i \in A  PROVE \E k \in 1..n : at[k] = i
  <2>1. PICK k \in 1..n : k = Cardinality(InFront(A, i)) + 1
    BY <1>2
  <2>2. \A j \in A : Cardinality(InFront(A, j)) \in Int
    BY <1>1, FS_CardinalityType, FS_Subset DEF InFront
  <2>3. Cardinality(InFront(A, i)) = k - 1
    BY <1>2, <2>1, <2>2
  <2>4. at[k] = i
    BY <1>2, <1>4, <2>3
  <2> QED
    BY <2>4
<1> QED
  BY <1>1, <1>2, <1>3, <1>5, <1>6, <1>7 DEF A

\* The value v is somewhere in s, and in one place at most.
In(s, v) == \E i \in 1..Len(s) : s[i] = v
Single(s, v) == \A i, j \in 1..Len(s) : s[i] = v /\ s[j] = v => i = j

DeckOf(n) == Seq(-1..(n - 1))

\* A deck with each card once.
Full(deck, n) == \A v \in 0..(n - 1) : In(deck, v) /\ Single(deck, v)

LEMMA CardsOfFull ==
  ASSUME NEW n \in Nat, NEW deck \in DeckOf(n), Full(deck, n)
  PROVE  /\ IsInjective(Cards(deck)) /\ ToSet(Cards(deck)) = 0..(n - 1)
<1>1. Len(deck) \in Nat /\ \A i \in 1..Len(deck) : deck[i] \in -1..(n - 1)
  BY ElementOfSeq DEF DeckOf
<1>2. PICK m \in Nat : m = Cardinality(CardsAt(deck))
  BY <1>1, CardsAre
<1>3. PICK at \in [1..m -> CardsAt(deck)] :
        /\ Cards(deck) = [k \in 1..m |-> deck[at[k]]]
        /\ \A k, j \in 1..m : at[k] = at[j] => k = j
        /\ \A i \in CardsAt(deck) : \E k \in 1..m : at[k] = i
  <2>1. \E at \in [1..Cardinality(CardsAt(deck)) -> CardsAt(deck)] :
          /\ Cards(deck) = [k \in 1..Cardinality(CardsAt(deck)) |-> deck[at[k]]]
          /\ \A k, j \in 1..Cardinality(CardsAt(deck)) : at[k] = at[j] => k = j
          /\ \A i \in CardsAt(deck) : \E k \in 1..Cardinality(CardsAt(deck)) : at[k] = i
    BY <1>1, CardsAre
  <2> QED
    BY <1>2, <2>1
<1>4. ASSUME NEW i \in CardsAt(deck)  PROVE i \in 1..Len(deck) /\ deck[i] \in 0..(n - 1)
  BY <1>1 DEF CardsAt, IsCard, dummy
<1>5. ASSUME NEW k \in 1..m, NEW j \in 1..m, Cards(deck)[k] = Cards(deck)[j]  PROVE k = j
  <2>1. at[k] \in CardsAt(deck) /\ at[j] \in CardsAt(deck) /\ deck[at[k]] = deck[at[j]]
    BY <1>3, <1>5
  <2>2. Single(deck, deck[at[k]])
    BY <1>4, <2>1 DEF Full
  <2>3. at[k] = at[j]
    BY <1>4, <2>1, <2>2 DEF Single
  <2> QED
    BY <1>3, <2>3
<1>6. IsInjective(Cards(deck))
  BY <1>3, <1>5 DEF IsInjective
<1>7. ASSUME NEW v \in 0..(n - 1)  PROVE \E k \in 1..m : Cards(deck)[k] = v
  <2>1. PICK i \in 1..Len(deck) : deck[i] = v
    BY DEF Full, In
  <2>2. i \in CardsAt(deck)
    BY <2>1 DEF CardsAt, IsCard, dummy
  <2> QED
    BY <1>3, <2>1, <2>2
<1>8. ASSUME NEW k \in 1..m  PROVE Cards(deck)[k] \in 0..(n - 1)
  BY <1>3, <1>4
<1>9. DOMAIN Cards(deck) = 1..m
  BY <1>3
<1>10. ToSet(Cards(deck)) = 0..(n - 1)
  BY <1>7, <1>8, <1>9 DEF ToSet
<1> QED
  BY <1>6, <1>10

\* C is an order of the n cards.
Order(C, n) ==
  /\ C \in Seq(0..(n - 1)) /\ Len(C) = n
  /\ \A i, j \in 1..n : C[i] = C[j] => i = j
  /\ \A v \in 0..(n - 1) : \E i \in 1..n : C[i] = v

LEMMA CardsType ==
  ASSUME NEW n \in Nat, NEW deck, Len(deck) \in Nat,
         IsInjective(Cards(deck)), ToSet(Cards(deck)) = 0..(n - 1)
  PROVE  Order(Cards(deck), n)
<1>1. PICK m \in Nat : m = Cardinality(CardsAt(deck))
  BY CardsAre
<1>2. PICK c : c = Cards(deck)
  OBVIOUS
<1>3. DOMAIN c = 1..m /\ c = [k \in 1..m |-> c[k]]
  <2>1. \E at \in [1..Cardinality(CardsAt(deck)) -> CardsAt(deck)] :
          /\ Cards(deck) = [k \in 1..Cardinality(CardsAt(deck)) |-> deck[at[k]]]
          /\ \A k, j \in 1..Cardinality(CardsAt(deck)) : at[k] = at[j] => k = j
          /\ \A i \in CardsAt(deck) : \E k \in 1..Cardinality(CardsAt(deck)) : at[k] = i
    BY CardsAre
  <2>2. PICK at \in [1..m -> CardsAt(deck)] : c = [k \in 1..m |-> deck[at[k]]]
    BY <1>1, <1>2, <2>1
  <2> QED
    BY <2>2
<1>4. \A k \in 1..m : c[k] \in 0..(n - 1)
  BY <1>2, <1>3 DEF ToSet
<1>5. c \in [1..m -> 0..(n - 1)]
  BY <1>3, <1>4
<1>6. \A i, j \in 1..m : c[i] = c[j] => i = j
  BY <1>2, <1>3 DEF IsInjective
<1>7. \A v \in 0..(n - 1) : \E i \in 1..m : c[i] = v
  BY <1>2, <1>3 DEF ToSet
<1>8. m = n
  <2>1. c \in Injection(1..m, 0..(n - 1)) /\ c \in Surjection(1..m, 0..(n - 1))
    BY <1>5, <1>6, <1>7 DEF Injection, IsInjective, Surjection
  <2>2. /\ IsFiniteSet(0..(n - 1)) /\ Cardinality(0..(n - 1)) = n /\ Cardinality(1..m) = m
    <3>1. n - 1 \in Int /\ 0 \in Int /\ 1 \in Int /\ m \in Int
      OBVIOUS
    <3>2. IsFiniteSet(0..(n - 1)) /\ Cardinality(0..(n - 1)) = IF 0 > n - 1 THEN 0 ELSE (n - 1) - 0 + 1
      BY <3>1, FS_Interval
    <3>3. Cardinality(1..m) = IF 1 > m THEN 0 ELSE m - 1 + 1
      BY <3>1, FS_Interval
    <3> QED
      BY <3>2, <3>3
  <2>3. Cardinality(1..m) = Cardinality(0..(n - 1))
    BY <2>1, <2>2, FS_Injection
  <2> QED
    BY <2>2, <2>3
<1>9. c \in Seq(0..(n - 1)) /\ Len(c) = n
  BY <1>3, <1>5, <1>8
<1> QED
  BY <1>2, <1>6, <1>7, <1>8, <1>9 DEF Order

-----------------------------------------------------------------------------
(***************************************************************************)
(* The piles                                                               *)
(***************************************************************************)

LEMMA JoinedDecks ==
  ASSUME NEW n \in Nat, NEW a \in DeckOf(n), NEW b \in DeckOf(n)
  PROVE  /\ a \o b \in DeckOf(n) /\ Len(a \o b) = Len(a) + Len(b)
         /\ \A v : In(a \o b, v) <=> In(a, v) \/ In(b, v)
         /\ \A v : /\ Single(a, v) /\ Single(b, v) /\ ~(In(a, v) /\ In(b, v))
                   => Single(a \o b, v)
<1>1. PICK c \in DeckOf(n) : c = a \o b
  <2>1. a \o b \in DeckOf(n)
    BY DEF DeckOf
  <2> QED
    BY <2>1
<1>2. /\ Len(c) = Len(a) + Len(b) /\ Len(a) \in Nat /\ Len(b) \in Nat
      /\ \A i \in 1..Len(a) : c[i] = a[i]
      /\ \A i \in 1..Len(b) : c[Len(a) + i] = b[i]
  BY <1>1 DEF DeckOf
<1>3. ASSUME NEW i \in 1..Len(c)
      PROVE  \/ i \in 1..Len(a) /\ c[i] = a[i]
             \/ \E j \in 1..Len(b) : i = Len(a) + j /\ c[i] = b[j]
  <2>1. CASE i <= Len(a)
    BY <1>2, <2>1
  <2>2. CASE i > Len(a)
    <3>1. i - Len(a) \in 1..Len(b) /\ i = Len(a) + (i - Len(a))
      BY <1>2, <2>2
    <3> QED
      BY <1>2, <3>1
  <2> QED
    BY <1>2, <2>1, <2>2
<1>4. \A i \in 1..Len(a) : i \in 1..Len(c)
  BY <1>2
<1>5. \A i \in 1..Len(b) : Len(a) + i \in 1..Len(c)
  BY <1>2
<1>6. ASSUME NEW v  PROVE In(c, v) <=> In(a, v) \/ In(b, v)
  <2>1. In(c, v) => In(a, v) \/ In(b, v)
    BY <1>3 DEF In
  <2>2. In(a, v) => In(c, v)
    BY <1>2, <1>4 DEF In
  <2>3. In(b, v) => In(c, v)
    BY <1>2, <1>5 DEF In
  <2> QED
    BY <2>1, <2>2, <2>3
<1>7. ASSUME NEW v, Single(a, v), Single(b, v), ~(In(a, v) /\ In(b, v))
      PROVE  Single(c, v)
  <2>1. ASSUME NEW i \in 1..Len(c), NEW j \in 1..Len(c), c[i] = v, c[j] = v  PROVE i = j
    <3>1. CASE i \in 1..Len(a) /\ c[i] = a[i] /\ j \in 1..Len(a) /\ c[j] = a[j]
      BY <1>7, <2>1, <3>1 DEF Single
    <3>2. ASSUME NEW k \in 1..Len(b), NEW m \in 1..Len(b), i = Len(a) + k, j = Len(a) + m,
                 c[i] = b[k], c[j] = b[m]
          PROVE  i = j
      BY <1>7, <2>1, <3>2 DEF Single
    <3>3. ASSUME NEW k \in 1..Len(a), NEW m \in 1..Len(b), a[k] = v, b[m] = v
          PROVE  FALSE
      BY <1>7, <3>3 DEF In
    <3> QED
      BY <1>3, <2>1, <3>1, <3>2, <3>3
  <2> QED
    BY <2>1 DEF Single
<1> QED
  BY <1>1, <1>2, <1>6, <1>7

\* f[i]: the first i sequences of s, one behind the other.
Joining(s, f) == f[1] = s[1] /\ \A i \in 2..Len(s) : f[i] = f[i - 1] \o s[i]

\* FlattenSeq of at most five sequences puts one behind the other.
LEMMA Flattened ==
  ASSUME NEW s, Len(s) \in 1..5
  PROVE  \E f : FlattenSeq(s) = f[Len(s)] /\ Joining(s, f)
<1> DEFINE Joins(f) == f = [i \in 1..Len(s) |-> IF i = 1 THEN s[i] ELSE f[i - 1] \o s[i]]
           c == CHOOSE f : Joins(f)
           two == s[1] \o s[2]
           three == two \o s[3]
           four == three \o s[4]
           five == four \o s[5]
           g == [i \in 1..Len(s) |-> IF i = 1 THEN s[1] ELSE IF i = 2 THEN two
                                     ELSE IF i = 3 THEN three ELSE IF i = 4 THEN four ELSE five]
<1>1. FlattenSeq(s) = c[Len(s)]
  <2>1. FlattenSeq(s) =
          IF Len(s) = 0 THEN s
          ELSE (CHOOSE f : f = [i \in 1..Len(s) |-> IF i = 1 THEN s[i] ELSE f[i - 1] \o s[i]])
                 [Len(s)]
    BY DEF FlattenSeq
  <2> QED
    BY <2>1, SMTT(30)
<1>2. Joins(g)
  <2>1. ASSUME NEW i \in 1..Len(s)  PROVE g[i] = IF i = 1 THEN s[i] ELSE g[i - 1] \o s[i]
    <3>1. /\ g[1] = s[1]
          /\ Len(s) >= 2 => g[2] = two
          /\ Len(s) >= 3 => g[3] = three
          /\ Len(s) >= 4 => g[4] = four
          /\ Len(s) >= 5 => g[5] = five
      <4> HIDE DEF two, three, four, five
      <4>1. ASSUME NEW k \in 1..Len(s)
            PROVE  g[k] = IF k = 1 THEN s[1] ELSE IF k = 2 THEN two
                          ELSE IF k = 3 THEN three ELSE IF k = 4 THEN four ELSE five
        OBVIOUS
      <4>2. /\ 1 \in 1..Len(s)
            /\ Len(s) >= 2 => 2 \in 1..Len(s)
            /\ Len(s) >= 3 => 3 \in 1..Len(s)
            /\ Len(s) >= 4 => 4 \in 1..Len(s)
            /\ Len(s) >= 5 => 5 \in 1..Len(s)
        OBVIOUS
      <4> HIDE DEF g
      <4> QED
        BY <4>1, <4>2
    <3> HIDE DEF g
    <3>2. CASE i = 1
      BY <3>1, <3>2
    <3>3. CASE i = 2
      <4>1. i - 1 = 1 /\ Len(s) >= 2
        BY <3>3
      <4>2. g[i - 1] \o s[i] = two
        BY <3>1, <3>3, <4>1
      <4> QED
        BY <3>1, <3>3, <4>1, <4>2
    <3>4. CASE i = 3
      <4>1. i - 1 = 2 /\ Len(s) >= 3
        BY <3>4
      <4>2. g[i - 1] \o s[i] = three
        <5>1. g[2] = two
          <6>1. Len(s) >= 2
            BY <4>1
          <6> HIDE DEF two, three, four, five
          <6> QED
            BY <3>1, <6>1
        <5> QED
          BY <3>4, <4>1, <5>1
      <4> QED
        BY <3>1, <3>4, <4>1, <4>2
    <3>5. CASE i = 4
      <4>1. i - 1 = 3 /\ Len(s) >= 4
        BY <3>5
      <4>2. g[i - 1] \o s[i] = four
        <5>1. g[3] = three
          <6>1. Len(s) >= 3
            BY <4>1
          <6> HIDE DEF two, three, four, five
          <6> QED
            BY <3>1, <6>1
        <5> QED
          BY <3>5, <4>1, <5>1
      <4> QED
        BY <3>1, <3>5, <4>1, <4>2
    <3>6. CASE i = 5
      <4>1. i - 1 = 4 /\ Len(s) >= 5
        BY <3>6
      <4>2. g[i - 1] \o s[i] = five
        <5>1. g[4] = four
          <6>1. Len(s) >= 4
            BY <4>1
          <6> HIDE DEF two, three, four, five
          <6> QED
            BY <3>1, <6>1
        <5> QED
          BY <3>6, <4>1, <5>1
      <4> QED
        BY <3>1, <3>6, <4>1, <4>2
    <3> QED
      BY <3>2, <3>3, <3>4, <3>5, <3>6
  <2>2. g = [i \in 1..Len(s) |-> g[i]]
    OBVIOUS
  <2> HIDE DEF g
  <2> QED
    BY <2>1, <2>2
<1> HIDE DEF g, Joins
<1>3. Joins(c)
  BY <1>2, Zenon
<1>4. c = [i \in 1..Len(s) |-> IF i = 1 THEN s[i] ELSE c[i - 1] \o s[i]]
  BY <1>3 DEF Joins
<1> HIDE DEF c
<1>5. c[1] = s[1]
  BY <1>4
<1>6. ASSUME NEW i \in 2..Len(s)  PROVE c[i] = c[i - 1] \o s[i]
  <2>1. i \in 1..Len(s) /\ i # 1
    OBVIOUS
  <2> QED
    BY <1>4, <2>1
<1>7. Joining(s, c)
  BY <1>5, <1>6 DEF Joining
<1> QED
  BY <1>1, <1>7

\* How many of n cards pile p of P gets, and the place in the deck of its j-th one.
Share(n, P, p) == IF n <= p THEN 0 ELSE (n - 1 - p) \div P + 1
PlaceIn(P, p, j) == p + 1 + (j - 1) * P

\* The places of m cards are those of the cards that pile p gets.
Shared(m, n, P, p) ==
  /\ \A i \in 1..n : (i - 1) % P = p => \E j \in 1..m : PlaceIn(P, p, j) = i
  /\ \A j \in 1..m : PlaceIn(P, p, j) \in 1..n /\ (PlaceIn(P, p, j) - 1) % P = p
  /\ \A i, j \in 1..m : PlaceIn(P, p, i) = PlaceIn(P, p, j) => i = j

LEMMA ShareIs ==
  ASSUME NEW n \in Nat, NEW P \in 3..5, NEW p \in 0..(P - 1)
  PROVE  Share(n, P, p) \in Nat /\ Shared(Share(n, P, p), n, P, p)
<1>1. Share(n, P, p) \in Nat
  <2>1. CASE P = 3
    BY <2>1 DEF Share
  <2>2. CASE P = 4
    BY <2>2 DEF Share
  <2>3. CASE P = 5
    BY <2>3 DEF Share
  <2> QED
    BY <2>1, <2>2, <2>3
<1>2. ASSUME NEW i \in 1..n, (i - 1) % P = p
      PROVE  (i - 1) \div P + 1 \in 1..Share(n, P, p) /\ PlaceIn(P, p, (i - 1) \div P + 1) = i
  <2>1. CASE P = 3
    BY <1>2, <2>1 DEF Share, PlaceIn
  <2>2. CASE P = 4
    BY <1>2, <2>2 DEF Share, PlaceIn
  <2>3. CASE P = 5
    BY <1>2, <2>3 DEF Share, PlaceIn
  <2> QED
    BY <2>1, <2>2, <2>3
<1>3. ASSUME NEW j \in 1..Share(n, P, p)
      PROVE  PlaceIn(P, p, j) \in 1..n /\ (PlaceIn(P, p, j) - 1) % P = p
  <2>1. CASE P = 3
    BY <1>1, <2>1 DEF Share, PlaceIn
  <2>2. CASE P = 4
    BY <1>1, <2>2 DEF Share, PlaceIn
  <2>3. CASE P = 5
    BY <1>1, <2>3 DEF Share, PlaceIn
  <2> QED
    BY <2>1, <2>2, <2>3
<1>4. ASSUME NEW i \in 1..Share(n, P, p), NEW j \in 1..Share(n, P, p),
             PlaceIn(P, p, i) = PlaceIn(P, p, j)
      PROVE  i = j
  <2>1. CASE P = 3
    BY <1>1, <1>4, <2>1 DEF PlaceIn
  <2>2. CASE P = 4
    BY <1>1, <1>4, <2>2 DEF PlaceIn
  <2>3. CASE P = 5
    BY <1>1, <1>4, <2>3 DEF PlaceIn
  <2> QED
    BY <2>1, <2>2, <2>3
<1> QED
  BY <1>1, <1>2, <1>3, <1>4 DEF Shared

\* Pile p of P, with the last card on top.
PileOf(C, n, P, p) ==
  IF Share(n, P, p) = 0 THEN <<dummy>>
  ELSE [j \in 1..Share(n, P, p) |-> C[PlaceIn(P, p, Share(n, P, p) - j + 1)]]

LEMMA PileIs ==
  ASSUME NEW n \in Nat, NEW deck, NEW C \in Seq(0..(n - 1)), C = Cards(deck), Len(C) = n,
         NEW P \in 3..5, NEW p \in 0..(P - 1)
  PROVE  Pile(deck, P, p) = PileOf(C, n, P, p)
<1>1. PICK m \in Nat : m = Share(n, P, p)
  BY ShareIs
<1> DEFINE D == {i \in 1..n : (i - 1) % P = p}
           f == [j \in 1..m |-> PlaceIn(P, p, j)]
           g == [j \in 1..m |-> C[PlaceIn(P, p, j)]]
<1>2. /\ \A i \in 1..n : (i - 1) % P = p => \E j \in 1..m : PlaceIn(P, p, j) = i
      /\ \A j \in 1..m : PlaceIn(P, p, j) \in 1..n /\ (PlaceIn(P, p, j) - 1) % P = p
      /\ \A i, j \in 1..m : PlaceIn(P, p, i) = PlaceIn(P, p, j) => i = j
  <2>1. Shared(m, n, P, p)
    BY <1>1, ShareIs
  <2> QED
    BY <2>1, Zenon DEF Shared
<1>3. IsFiniteSet(D) /\ Cardinality(D) = m
  <2>1. f \in [1..m -> D]
    BY <1>2
  <2>2. \A i \in D : \E j \in 1..m : f[j] = i
    BY <1>2
  <2>3. \A i, j \in 1..m : f[i] = f[j] => i = j
    BY <1>2
  <2> HIDE DEF f, D
  <2>4. f \in Injection(1..m, D) /\ f \in Surjection(1..m, D)
    BY <2>1, <2>2, <2>3 DEF Injection, IsInjective, Surjection
  <2>5. ExistsBijection(1..m, D)
    BY <2>4 DEF ExistsBijection, Bijection
  <2>6. IsFiniteSet(1..m) /\ Cardinality(1..m) = m
    <3>1. 1 \in Int /\ m \in Int
      OBVIOUS
    <3>2. IsFiniteSet(1..m) /\ Cardinality(1..m) = IF 1 > m THEN 0 ELSE m - 1 + 1
      BY <3>1, FS_Interval
    <3> QED
      BY <3>2
  <2> QED
    BY <2>5, <2>6, FS_Bijection
<1>4. D = {} <=> m = 0
  <2> HIDE DEF D
  <2> QED
    BY <1>3, FS_EmptySet
<1>5. Pile(deck, P, p) = IF D = {} THEN EmptyPile
                         ELSE Reverse([i \in 1..Cardinality(D) |-> C[p + 1 + (i - 1) * P]])
  BY DEF Pile
<1> HIDE DEF D
<1>6. [i \in 1..Cardinality(D) |-> C[p + 1 + (i - 1) * P]] = g
  BY <1>3 DEF PlaceIn
<1>7. Reverse(g) = [j \in 1..m |-> C[PlaceIn(P, p, m - j + 1)]]
  <2>1. Len(g) = m
    OBVIOUS
  <2>2. ASSUME NEW j \in 1..m  PROVE m - j + 1 \in 1..m
    OBVIOUS
  <2>3. ASSUME NEW j \in 1..m  PROVE g[(m - j) + 1] = C[PlaceIn(P, p, m - j + 1)]
    BY <2>2
  <2> HIDE DEF g
  <2> QED
    BY <2>1, <2>3 DEF Reverse
<1> QED
  BY <1>1, <1>4, <1>5, <1>6, <1>7 DEF EmptyPile, PileOf

\* The nodes of a pile.
Height(n, P, p) == IF Share(n, P, p) = 0 THEN 1 ELSE Share(n, P, p)

\* d holds the cards dealt to pile p, each in one place.
PileWith(d, n, C, P, p) ==
  /\ d \in DeckOf(n) /\ Len(d) = Height(n, P, p)
  /\ \A i \in 1..n : (In(d, C[i]) <=> (i - 1) % P = p) /\ Single(d, C[i])

LEMMA PileHolds ==
  ASSUME NEW n \in Nat, NEW deck, NEW C, C = Cards(deck), Order(C, n),
         NEW P \in 3..5, NEW p \in 0..(P - 1)
  PROVE  PileWith(Pile(deck, P, p), n, C, P, p)
<1>1. PICK m \in Nat : m = Share(n, P, p)
  BY ShareIs
<1>2. /\ \A i \in 1..n : (i - 1) % P = p => \E j \in 1..m : PlaceIn(P, p, j) = i
      /\ \A j \in 1..m : PlaceIn(P, p, j) \in 1..n /\ (PlaceIn(P, p, j) - 1) % P = p
      /\ \A i, j \in 1..m : PlaceIn(P, p, i) = PlaceIn(P, p, j) => i = j
  <2>1. Shared(m, n, P, p)
    BY <1>1, ShareIs
  <2> QED
    BY <2>1, Zenon DEF Shared
<1>3. PICK s : s = Pile(deck, P, p)
  OBVIOUS
<1>4. s = IF m = 0 THEN <<dummy>> ELSE [j \in 1..m |-> C[PlaceIn(P, p, m - j + 1)]]
  <2>1. C \in Seq(0..(n - 1)) /\ Len(C) = n
    BY DEF Order
  <2>2. s = PileOf(C, n, P, p)
    BY <1>3, <2>1, PileIs, SMTT(30)
  <2> QED
    BY <1>1, <2>2, Zenon DEF PileOf
<1>5. /\ \A i \in 1..n : C[i] \in 0..(n - 1)
      /\ \A i, j \in 1..n : C[i] = C[j] => i = j
  BY ElementOfSeq DEF Order
<1>6. ASSUME m = 0  PROVE PileWith(s, n, C, P, p)
  <2>1. s = <<dummy>> /\ Len(s) = 1 /\ s[1] = dummy
    BY <1>4, <1>6
  <2>2. s \in DeckOf(n)
    BY <2>1 DEF DeckOf, dummy
  <2>3. ASSUME NEW i \in 1..n
        PROVE  ~In(s, C[i]) /\ Single(s, C[i]) /\ (i - 1) % P # p
    <3>1. C[i] # dummy
      BY <1>5 DEF dummy
    <3>2. ~In(s, C[i]) /\ Single(s, C[i])
      BY <2>1, <3>1 DEF In, Single
    <3> QED
      BY <1>2, <1>6, <3>2
  <2> QED
    BY <1>1, <1>6, <2>1, <2>2, <2>3 DEF PileWith, Height
<1>7. ASSUME m # 0  PROVE PileWith(s, n, C, P, p)
  <2>1. s = [j \in 1..m |-> C[PlaceIn(P, p, m - j + 1)]]
    BY <1>4, <1>7
  <2>2. \A j \in 1..m : m - j + 1 \in 1..m
    OBVIOUS
  <2>3. \A j \in 1..m : s[j] = C[PlaceIn(P, p, m - j + 1)] /\ PlaceIn(P, p, m - j + 1) \in 1..n
    BY <1>2, <2>1, <2>2
  <2>4. s \in DeckOf(n) /\ Len(s) = m
    <3>1. \A j \in 1..m : s[j] \in -1..(n - 1)
      <4>1. \A i \in 1..n : C[i] \in -1..(n - 1)
        BY <1>5
      <4> QED
        BY <2>3, <4>1
    <3>2. s \in [1..m -> -1..(n - 1)]
      BY <2>1, <3>1
    <3> QED
      BY <3>2 DEF DeckOf
  <2>5. ASSUME NEW i \in 1..n  PROVE In(s, C[i]) <=> (i - 1) % P = p
    <3>1. ASSUME In(s, C[i])  PROVE (i - 1) % P = p
      <4>1. PICK j \in 1..m : s[j] = C[i]
        BY <2>4, <3>1 DEF In
      <4>2. PICK k \in 1..m : k = m - j + 1
        BY <2>2
      <4>3. C[PlaceIn(P, p, k)] = C[i] /\ PlaceIn(P, p, k) \in 1..n
        BY <2>3, <4>1, <4>2
      <4> QED
        BY <1>2, <1>5, <4>3
    <3>2. ASSUME (i - 1) % P = p  PROVE In(s, C[i])
      <4>1. PICK j \in 1..m : PlaceIn(P, p, j) = i
        BY <1>2, <3>2
      <4>2. PICK k \in 1..m : k = m - j + 1
        BY <2>2
      <4>3. m - k + 1 = j
        BY <4>2
      <4>4. s[k] = C[i]
        BY <2>3, <4>1, <4>3
      <4> QED
        BY <2>4, <4>4 DEF In
    <3> QED
      BY <3>1, <3>2
  <2>6. ASSUME NEW j \in 1..m, NEW k \in 1..m, s[j] = s[k]  PROVE j = k
    <3>1. PlaceIn(P, p, m - j + 1) = PlaceIn(P, p, m - k + 1)
      BY <1>5, <2>3, <2>6
    <3>2. m - j + 1 = m - k + 1
      BY <1>2, <2>2, <3>1
    <3> QED
      BY <3>2
  <2>7. \A v : Single(s, v)
    BY <2>4, <2>6 DEF Single
  <2> QED
    BY <1>1, <1>7, <2>4, <2>5, <2>7 DEF PileWith, Height
<1> QED
  BY <1>3, <1>6, <1>7

-----------------------------------------------------------------------------
(***************************************************************************)
(* A round                                                                 *)
(***************************************************************************)

\* d holds the cards of the first i of P piles, each in one place.
Holds(d, i, C, n, P) ==
  /\ d \in DeckOf(n)
  /\ \A k \in 1..n : (In(d, C[k]) <=> (k - 1) % P < i) /\ Single(d, C[k])

LEMMA NextPile ==
  ASSUME NEW n \in Nat, NEW P \in 3..5, NEW C, NEW i \in 1..(P - 1),
         NEW d, Holds(d, i, C, n, P), NEW e, PileWith(e, n, C, P, i)
  PROVE  Holds(d \o e, i + 1, C, n, P)
<1>1. d \in DeckOf(n) /\ e \in DeckOf(n)
  BY DEF Holds, PileWith
<1>2. d \o e \in DeckOf(n) /\ Len(d \o e) = Len(d) + Len(e)
  BY <1>1, JoinedDecks
<1>3. ASSUME NEW k \in 1..n
      PROVE  (In(d \o e, C[k]) <=> (k - 1) % P < i + 1) /\ Single(d \o e, C[k])
  <2>1. /\ In(d, C[k]) <=> (k - 1) % P < i
        /\ In(e, C[k]) <=> (k - 1) % P = i
        /\ Single(d, C[k]) /\ Single(e, C[k])
    BY DEF Holds, PileWith
  <2>2. (k - 1) % P \in Int
    OBVIOUS
  <2>3. PICK r \in Int : r = (k - 1) % P
    BY <2>2
  <2>4. ~(r < i /\ r = i) /\ (r < i + 1 <=> r < i \/ r = i)
    OBVIOUS
  <2>5. In(d \o e, C[k]) <=> In(d, C[k]) \/ In(e, C[k])
    BY <1>1, JoinedDecks
  <2>6. Single(d \o e, C[k])
    BY <1>1, <2>1, <2>3, <2>4, JoinedDecks
  <2> QED
    BY <2>1, <2>3, <2>4, <2>5, <2>6
<1> QED
  BY <1>1, <1>2, <1>3 DEF Holds

\* Each pile gets q cards, and the first r get one more.
Divided(n, P, q, r) ==
  /\ n = P * q + r
  /\ \A p \in 0..(P - 1) : Share(n, P, p) = q + (IF p < r THEN 1 ELSE 0)

LEMMA ShareOf ==
  ASSUME NEW n \in Nat, NEW P \in 3..5
  PROVE  \E q \in Nat : \E r \in 0..(P - 1) : Divided(n, P, q, r)
<1>1. CASE P = 3
  <2>1. PICK q \in Nat, r \in 0..2 : n = 3 * q + r
    <3>1. n \div 3 \in Nat /\ n % 3 \in 0..2 /\ n = 3 * (n \div 3) + (n % 3)
      OBVIOUS
    <3> QED
      BY <3>1
  <2>2. ASSUME NEW p \in 0..2  PROVE Share(n, 3, p) = q + (IF p < r THEN 1 ELSE 0)
    BY <2>1 DEF Share
  <2> QED
    BY <1>1, <2>1, <2>2 DEF Divided
<1>2. CASE P = 4
  <2>1. PICK q \in Nat, r \in 0..3 : n = 4 * q + r
    <3>1. n \div 4 \in Nat /\ n % 4 \in 0..3 /\ n = 4 * (n \div 4) + (n % 4)
      OBVIOUS
    <3> QED
      BY <3>1
  <2>2. ASSUME NEW p \in 0..3  PROVE Share(n, 4, p) = q + (IF p < r THEN 1 ELSE 0)
    BY <2>1 DEF Share
  <2> QED
    BY <1>2, <2>1, <2>2 DEF Divided
<1>3. CASE P = 5
  <2>1. PICK q \in Nat, r \in 0..4 : n = 5 * q + r
    <3>1. n \div 5 \in Nat /\ n % 5 \in 0..4 /\ n = 5 * (n \div 5) + (n % 5)
      OBVIOUS
    <3> QED
      BY <3>1
  <2>2. ASSUME NEW p \in 0..4  PROVE Share(n, 5, p) = q + (IF p < r THEN 1 ELSE 0)
    BY <2>1 DEF Share
  <2> QED
    BY <1>3, <2>1, <2>2 DEF Divided
<1> QED
  BY <1>1, <1>2, <1>3

Piles(s, deck, P) == s = [q \in 1..P |-> Pile(deck, P, q - 1)]

\* The nodes of P piles of n cards.
PlacesOf(n, P) == IF n < P THEN P ELSE n

LEMMA PilesTogether ==
  ASSUME NEW n \in Nat, NEW deck, NEW C, C = Cards(deck), Order(C, n),
         NEW P \in 3..5,
         NEW s, Piles(s, deck, P)
  PROVE  /\ Holds(FlattenSeq(s), P, C, n, P)
         /\ Len(FlattenSeq(s)) = PlacesOf(n, P)
<1>1. Len(s) = P /\ \A q \in 1..P : s[q] = Pile(deck, P, q - 1)
  BY DEF Piles
<1>2. PICK f : /\ FlattenSeq(s) = f[P] /\ f[1] = s[1]
               /\ \A i \in 2..P : f[i] = f[i - 1] \o s[i]
  <2>1. Len(s) \in 1..5
    BY <1>1
  <2>2. PICK f : FlattenSeq(s) = f[Len(s)] /\ Joining(s, f)
    BY <2>1, Flattened
  <2>3. /\ FlattenSeq(s) = f[P] /\ f[1] = s[1]
        /\ \A i \in 2..P : f[i] = f[i - 1] \o s[i]
    BY <1>1, <2>2 DEF Joining
  <2> QED
    BY <2>3
<1>3. ASSUME NEW p \in 0..(P - 1)  PROVE PileWith(s[p + 1], n, C, P, p)
  <2>1. p + 1 \in 1..P /\ (p + 1) - 1 = p
    OBVIOUS
  <2>2. s[p + 1] = Pile(deck, P, p)
    BY <1>1, <2>1
  <2>3. PileWith(Pile(deck, P, p), n, C, P, p)
    BY PileHolds
  <2> QED
    BY <2>2, <2>3
<1>4. Holds(f[1], 1, C, n, P) /\ Len(f[1]) = Height(n, P, 0)
  <2>1. 0 \in 0..(P - 1) /\ 0 + 1 = 1
    OBVIOUS
  <2>2. PileWith(f[1], n, C, P, 0)
    BY <1>2, <1>3, <2>1
  <2>3. \A k \in 1..n : (k - 1) % P < 1 <=> (k - 1) % P = 0
    <3>1. CASE P = 3
      BY <3>1
    <3>2. CASE P = 4
      BY <3>2
    <3>3. CASE P = 5
      BY <3>3
    <3> QED
      BY <3>1, <3>2, <3>3
  <2> QED
    BY <2>2, <2>3 DEF Holds, PileWith
<1>5. ASSUME NEW i \in 1..(P - 1), Holds(f[i], i, C, n, P)
      PROVE  Holds(f[i + 1], i + 1, C, n, P) /\ Len(f[i + 1]) = Len(f[i]) + Height(n, P, i)
  <2>1. i + 1 \in 2..P /\ (i + 1) - 1 = i /\ i \in 0..(P - 1)
    OBVIOUS
  <2>2. f[i + 1] = f[i] \o s[i + 1]
    BY <1>2, <2>1
  <2> QED
    <3>1. PICK d, e : d = f[i] /\ e = s[i + 1]
      OBVIOUS
    <3>2. Holds(d, i, C, n, P) /\ PileWith(e, n, C, P, i)
      BY <1>3, <1>5, <2>1, <3>1
    <3>3. Holds(d \o e, i + 1, C, n, P)
      BY <3>2, NextPile
    <3>4. Len(d \o e) = Len(d) + Height(n, P, i)
      <4>1. d \in DeckOf(n) /\ e \in DeckOf(n) /\ Len(e) = Height(n, P, i)
        BY <3>2 DEF Holds, PileWith
      <4> QED
        BY <4>1, JoinedDecks
    <3> QED
      BY <2>2, <3>1, <3>3, <3>4
<1>6. CASE P = 3
  <2>1. 1 \in 1..(P - 1) /\ 2 \in 1..(P - 1) /\ 1 + 1 = 2 /\ 2 + 1 = 3
    BY <1>6
  <2>2. Holds(f[2], 2, C, n, P) /\ Len(f[2]) = Len(f[1]) + Height(n, P, 1)
    BY <1>4, <1>5, <2>1
  <2>3. Holds(f[3], 3, C, n, P) /\ Len(f[3]) = Len(f[2]) + Height(n, P, 2)
    BY <1>5, <2>1, <2>2
  <2>4. Height(n, P, 0) + Height(n, P, 1) + Height(n, P, 2) = PlacesOf(n, P)
    <3>1. PICK q \in Nat, r \in 0..2 :
            /\ n = 3 * q + r
            /\ \A p \in 0..2 : Share(n, P, p) = q + (IF p < r THEN 1 ELSE 0)
      <4>1. PICK q \in Nat, r \in 0..(P - 1) : Divided(n, P, q, r)
        BY ShareOf
      <4> QED
        BY <1>6, <4>1 DEF Divided
    <3>2. /\ Height(n, P, 0) = IF q = 0 THEN 1 ELSE q + (IF 0 < r THEN 1 ELSE 0)
          /\ Height(n, P, 1) = IF q = 0 THEN 1 ELSE q + (IF 1 < r THEN 1 ELSE 0)
          /\ Height(n, P, 2) = IF q = 0 THEN 1 ELSE q + (IF 2 < r THEN 1 ELSE 0)
      <4>1. ASSUME NEW p \in 0..2
            PROVE  Height(n, P, p) = IF q = 0 THEN 1 ELSE q + (IF p < r THEN 1 ELSE 0)
        <5>1. Share(n, P, p) = q + (IF p < r THEN 1 ELSE 0)
          BY <3>1
        <5>2. q = 0 => (Share(n, P, p) = 0 \/ Share(n, P, p) = 1)
          BY <3>1, <5>1
        <5>3. q # 0 => Share(n, P, p) # 0
          BY <3>1, <5>1
        <5> QED
          BY <5>1, <5>2, <5>3 DEF Height
      <4> QED
        BY <4>1
    <3>3. n < P <=> q = 0
      BY <1>6, <3>1
    <3>4. CASE q = 0
      BY <1>6, <3>1, <3>2, <3>3, <3>4 DEF PlacesOf
    <3>5. CASE q # 0
      <4>1. CASE r = 0
        BY <1>6, <3>1, <3>2, <3>3, <3>5, <4>1 DEF PlacesOf
      <4>2. CASE r = 1
        BY <1>6, <3>1, <3>2, <3>3, <3>5, <4>2 DEF PlacesOf
      <4>3. CASE r = 2
        BY <1>6, <3>1, <3>2, <3>3, <3>5, <4>3 DEF PlacesOf
      <4> QED
        BY <4>1, <4>2, <4>3
    <3> QED
      BY <3>4, <3>5
  <2> QED
    BY <1>2, <1>4, <1>6, <2>2, <2>3, <2>4
<1>7. CASE P = 4
  <2>1. /\ 1 \in 1..(P - 1) /\ 2 \in 1..(P - 1) /\ 3 \in 1..(P - 1)
        /\ 1 + 1 = 2 /\ 2 + 1 = 3 /\ 3 + 1 = 4
    BY <1>7
  <2>2. Holds(f[2], 2, C, n, P) /\ Len(f[2]) = Len(f[1]) + Height(n, P, 1)
    BY <1>4, <1>5, <2>1
  <2>3. Holds(f[3], 3, C, n, P) /\ Len(f[3]) = Len(f[2]) + Height(n, P, 2)
    BY <1>5, <2>1, <2>2
  <2>4. Holds(f[4], 4, C, n, P) /\ Len(f[4]) = Len(f[3]) + Height(n, P, 3)
    BY <1>5, <2>1, <2>3
  <2>5. Height(n, P, 0) + Height(n, P, 1) + Height(n, P, 2) + Height(n, P, 3)
        = PlacesOf(n, P)
    <3>1. PICK q \in Nat, r \in 0..3 :
            /\ n = 4 * q + r
            /\ \A p \in 0..3 : Share(n, P, p) = q + (IF p < r THEN 1 ELSE 0)
      <4>1. PICK q \in Nat, r \in 0..(P - 1) : Divided(n, P, q, r)
        BY ShareOf
      <4> QED
        BY <1>7, <4>1 DEF Divided
    <3>2. /\ Height(n, P, 0) = IF q = 0 THEN 1 ELSE q + (IF 0 < r THEN 1 ELSE 0)
          /\ Height(n, P, 1) = IF q = 0 THEN 1 ELSE q + (IF 1 < r THEN 1 ELSE 0)
          /\ Height(n, P, 2) = IF q = 0 THEN 1 ELSE q + (IF 2 < r THEN 1 ELSE 0)
          /\ Height(n, P, 3) = IF q = 0 THEN 1 ELSE q + (IF 3 < r THEN 1 ELSE 0)
      <4>1. ASSUME NEW p \in 0..3
            PROVE  Height(n, P, p) = IF q = 0 THEN 1 ELSE q + (IF p < r THEN 1 ELSE 0)
        <5>1. Share(n, P, p) = q + (IF p < r THEN 1 ELSE 0)
          BY <3>1
        <5>2. q = 0 => (Share(n, P, p) = 0 \/ Share(n, P, p) = 1)
          BY <3>1, <5>1
        <5>3. q # 0 => Share(n, P, p) # 0
          BY <3>1, <5>1
        <5> QED
          BY <5>1, <5>2, <5>3 DEF Height
      <4> QED
        BY <4>1
    <3>3. n < P <=> q = 0
      BY <1>7, <3>1
    <3>4. CASE q = 0
      BY <1>7, <3>1, <3>2, <3>3, <3>4 DEF PlacesOf
    <3>5. CASE q # 0
      <4>1. CASE r = 0
        BY <1>7, <3>1, <3>2, <3>3, <3>5, <4>1 DEF PlacesOf
      <4>2. CASE r = 1
        BY <1>7, <3>1, <3>2, <3>3, <3>5, <4>2 DEF PlacesOf
      <4>3. CASE r = 2
        BY <1>7, <3>1, <3>2, <3>3, <3>5, <4>3 DEF PlacesOf
      <4>4. CASE r = 3
        BY <1>7, <3>1, <3>2, <3>3, <3>5, <4>4 DEF PlacesOf
      <4> QED
        BY <4>1, <4>2, <4>3, <4>4
    <3> QED
      BY <3>4, <3>5
  <2> QED
    BY <1>2, <1>4, <1>7, <2>2, <2>3, <2>4, <2>5
<1>8. CASE P = 5
  <2>1. /\ 1 \in 1..(P - 1) /\ 2 \in 1..(P - 1) /\ 3 \in 1..(P - 1) /\ 4 \in 1..(P - 1)
        /\ 1 + 1 = 2 /\ 2 + 1 = 3 /\ 3 + 1 = 4 /\ 4 + 1 = 5
    BY <1>8
  <2>2. Holds(f[2], 2, C, n, P) /\ Len(f[2]) = Len(f[1]) + Height(n, P, 1)
    BY <1>4, <1>5, <2>1
  <2>3. Holds(f[3], 3, C, n, P) /\ Len(f[3]) = Len(f[2]) + Height(n, P, 2)
    BY <1>5, <2>1, <2>2
  <2>4. Holds(f[4], 4, C, n, P) /\ Len(f[4]) = Len(f[3]) + Height(n, P, 3)
    BY <1>5, <2>1, <2>3
  <2>5. Holds(f[5], 5, C, n, P) /\ Len(f[5]) = Len(f[4]) + Height(n, P, 4)
    BY <1>5, <2>1, <2>4
  <2>6. Height(n, P, 0) + Height(n, P, 1) + Height(n, P, 2) + Height(n, P, 3)
        + Height(n, P, 4) = PlacesOf(n, P)
    <3>1. PICK q \in Nat, r \in 0..4 :
            /\ n = 5 * q + r
            /\ \A p \in 0..4 : Share(n, P, p) = q + (IF p < r THEN 1 ELSE 0)
      <4>1. PICK q \in Nat, r \in 0..(P - 1) : Divided(n, P, q, r)
        BY ShareOf
      <4> QED
        BY <1>8, <4>1 DEF Divided
    <3>2. /\ Height(n, P, 0) = IF q = 0 THEN 1 ELSE q + (IF 0 < r THEN 1 ELSE 0)
          /\ Height(n, P, 1) = IF q = 0 THEN 1 ELSE q + (IF 1 < r THEN 1 ELSE 0)
          /\ Height(n, P, 2) = IF q = 0 THEN 1 ELSE q + (IF 2 < r THEN 1 ELSE 0)
          /\ Height(n, P, 3) = IF q = 0 THEN 1 ELSE q + (IF 3 < r THEN 1 ELSE 0)
          /\ Height(n, P, 4) = IF q = 0 THEN 1 ELSE q + (IF 4 < r THEN 1 ELSE 0)
      <4>1. ASSUME NEW p \in 0..4
            PROVE  Height(n, P, p) = IF q = 0 THEN 1 ELSE q + (IF p < r THEN 1 ELSE 0)
        <5>1. Share(n, P, p) = q + (IF p < r THEN 1 ELSE 0)
          BY <3>1
        <5>2. q = 0 => (Share(n, P, p) = 0 \/ Share(n, P, p) = 1)
          BY <3>1, <5>1
        <5>3. q # 0 => Share(n, P, p) # 0
          BY <3>1, <5>1
        <5> QED
          BY <5>1, <5>2, <5>3 DEF Height
      <4> QED
        BY <4>1
    <3>3. n < P <=> q = 0
      BY <1>8, <3>1
    <3>4. CASE q = 0
      BY <1>8, <3>1, <3>2, <3>3, <3>4 DEF PlacesOf
    <3>5. CASE q # 0
      <4>1. CASE r = 0
        BY <1>8, <3>1, <3>2, <3>3, <3>5, <4>1 DEF PlacesOf
      <4>2. CASE r = 1
        BY <1>8, <3>1, <3>2, <3>3, <3>5, <4>2 DEF PlacesOf
      <4>3. CASE r = 2
        BY <1>8, <3>1, <3>2, <3>3, <3>5, <4>3 DEF PlacesOf
      <4>4. CASE r = 3
        BY <1>8, <3>1, <3>2, <3>3, <3>5, <4>4 DEF PlacesOf
      <4>5. CASE r = 4
        BY <1>8, <3>1, <3>2, <3>3, <3>5, <4>5 DEF PlacesOf
      <4> QED
        BY <4>1, <4>2, <4>3, <4>4, <4>5
    <3> QED
      BY <3>4, <3>5
  <2> QED
    BY <1>2, <1>4, <1>8, <2>2, <2>3, <2>4, <2>5, <2>6
<1> QED
  BY <1>6, <1>7, <1>8

\* A round makes a full deck of one whose cards are all there.
LEMMA DealtFull ==
  ASSUME NEW n \in Nat, NEW deck, Len(deck) \in Nat,
         IsInjective(Cards(deck)), ToSet(Cards(deck)) = 0..(n - 1), NEW P \in 3..5
  PROVE  /\ Dealt(deck, P) \in DeckOf(n) /\ Full(Dealt(deck, P), n)
         /\ Len(Dealt(deck, P)) = 1 + PlacesOf(n, P)
<1>1. PICK C : C = Cards(deck)
  OBVIOUS
<1>2. Order(C, n)
  BY <1>1, CardsType
<1>3. PICK s : s = [q \in 1..P |-> Pile(deck, P, q - 1)]
  OBVIOUS
<1>4. PICK d : d = FlattenSeq(s)
  OBVIOUS
<1>5. Holds(d, P, C, n, P) /\ Len(d) = PlacesOf(n, P)
  <2>1. Piles(s, deck, P)
    BY <1>3 DEF Piles
  <2> QED
    <3>1. Holds(FlattenSeq(s), P, C, n, P)
      BY <1>1, <1>2, <2>1, PilesTogether
    <3>2. Len(FlattenSeq(s)) = PlacesOf(n, P)
      BY <1>1, <1>2, <2>1, PilesTogether
    <3> QED
      BY <1>4, <3>1, <3>2
<1>6. /\ d \in DeckOf(n) /\ <<dummy>> \in DeckOf(n)
      /\ Len(<<dummy>>) = 1 /\ <<dummy>>[1] = dummy
  <2>1. d \in DeckOf(n)
    BY <1>5 DEF Holds
  <2> QED
    BY <2>1 DEF DeckOf, dummy
<1>7. PICK e : e = <<dummy>>
  OBVIOUS
<1>8. e \in DeckOf(n) /\ Len(e) = 1 /\ e[1] = dummy
  BY <1>6, <1>7
<1>9. Dealt(deck, P) = e \o d
  BY <1>3, <1>4, <1>7 DEF Dealt
<1>10. e \o d \in DeckOf(n) /\ Len(e \o d) = 1 + Len(d)
  <2>1. e \o d \in DeckOf(n) /\ Len(e \o d) = Len(e) + Len(d)
    BY <1>6, <1>8, JoinedDecks, ZenonT(60)
  <2> QED
    BY <1>8, <2>1
<1>11. ASSUME NEW v \in 0..(n - 1)  PROVE In(e \o d, v) /\ Single(e \o d, v)
  <2>1. ~In(e, v) /\ Single(e, v)
    BY <1>8 DEF In, Single, dummy
  <2>2. PICK k \in 1..n : C[k] = v
    BY <1>2 DEF Order
  <2>3. (k - 1) % P < P
    <3>1. CASE P = 3
      BY <3>1
    <3>2. CASE P = 4
      BY <3>2
    <3>3. CASE P = 5
      BY <3>3
    <3> QED
      BY <3>1, <3>2, <3>3
  <2>4. In(d, v) /\ Single(d, v)
    BY <1>5, <2>2, <2>3 DEF Holds
  <2> QED
    BY <1>6, <1>8, <2>1, <2>4, JoinedDecks
<1> QED
  BY <1>5, <1>9, <1>10, <1>11 DEF Full

-----------------------------------------------------------------------------
(***************************************************************************)
(* The deck                                                                *)
(***************************************************************************)

DeckInv == DeckTypeOK /\ CardsKept

LEMMA DeckStart ==
  ASSUME DeckInit
  PROVE  DeckInv
<1>1. PICK n \in Nat : n = numCards
  BY DeckAssumption DEF DeckInit
<1>2. PICK d : d = FirstDeck(n)
  OBVIOUS
<1>3. d \in DeckOf(n) /\ Full(d, n) /\ Len(d) \in Nat /\ Len(d) - n <= 1
  <2>1. CASE n = 0
    <3>1. d = <<dummy>> /\ Len(d) = 1
      BY <1>2, <2>1 DEF FirstDeck
    <3>2. d \in DeckOf(n) /\ 0..(n - 1) = {}
      BY <2>1, <3>1 DEF DeckOf, dummy
    <3> QED
      BY <2>1, <3>1, <3>2 DEF Full
  <2>2. CASE n # 0
    <3>1. d = [i \in 1..n |-> i - 1]
      BY <1>2, <2>2 DEF FirstDeck
    <3>2. d \in [1..n -> -1..(n - 1)]
      BY <3>1
    <3>3. d \in DeckOf(n) /\ Len(d) = n
      BY <3>2 DEF DeckOf
    <3>4. ASSUME NEW v \in 0..(n - 1)  PROVE In(d, v) /\ Single(d, v)
      <4>1. v + 1 \in 1..Len(d) /\ d[v + 1] = v
        BY <3>1, <3>3
      <4>2. \A i, j \in 1..Len(d) : d[i] = v /\ d[j] = v => i = j
        BY <3>1, <3>3
      <4> QED
        BY <4>1, <4>2 DEF In, Single
    <3> QED
      BY <3>3, <3>4 DEF Full
  <2> QED
    BY <2>1, <2>2
<1>4. IsInjective(Cards(d)) /\ ToSet(Cards(d)) = 0..(n - 1)
  BY <1>3, CardsOfFull
<1>5. Cardinality((n + 1)..5) \in Nat
  <2>1. IsFiniteSet((n + 1)..5)
    BY FS_Interval
  <2> QED
    BY <2>1, FS_CardinalityType
<1>6. curr_deck = d /\ numCards = n
  BY <1>1, <1>2 DEF DeckInit
<1>7. CardsKept
  BY <1>3, <1>4, <1>5, <1>6 DEF CardsKept
<1>8. DeckTypeOK
  <2>1. d \in Seq(-1..(n - 1))
    BY <1>3 DEF DeckOf
  <2>2. numCards \in CardCounts /\ pileNumInd = 0 /\ originalOrder = FALSE
    BY DEF DeckInit
  <2> QED
    <3>1. curr_deck \in Seq(-1..(numCards - 1))
      BY <1>6, <2>1
    <3>2. pileNumInd \in 0..2
      BY <2>2, SMT
    <3>3. originalOrder \in BOOLEAN
      BY <2>2, Zenon
    <3> QED
      BY <2>2, <3>1, <3>2, <3>3, Zenon DEF DeckTypeOK
<1> QED
  BY <1>7, <1>8 DEF DeckInv

LEMMA DeckStep ==
  ASSUME DeckInv, [Round]_deckVars
  PROVE  DeckInv'
<1>1. CASE UNCHANGED deckVars
  BY <1>1 DEF deckVars, DeckInv, DeckTypeOK, CardsKept
<1>2. CASE Round
  <2>1. PICK n \in Nat : n = numCards
    BY DeckAssumption DEF DeckInv, DeckTypeOK
  <2>2. PICK c : c = curr_deck
    OBVIOUS
  <2>3. Len(c) \in Nat
    BY <2>2 DEF DeckInv, DeckTypeOK
  <2>4. IsInjective(Cards(c)) /\ ToSet(Cards(c)) = 0..(n - 1)
    BY <2>1, <2>2 DEF DeckInv, CardsKept
  <2>5. PICK P \in 3..5 : P = PilesOf(pileNumInd)
    <3>1. pileNumInd \in 0..2
      BY DEF DeckInv, DeckTypeOK
    <3>2. PilesOf(pileNumInd) \in 3..5
      BY <3>1 DEF PilesOf, pileNumberTable
    <3> QED
      BY <3>2
  <2>6. PICK d : d = Dealt(c, P)
    OBVIOUS
  <2>7. d \in DeckOf(n) /\ Full(d, n) /\ Len(d) = 1 + PlacesOf(n, P)
    BY <2>3, <2>4, <2>6, DealtFull
  <2>8. curr_deck' = d /\ numCards' = n /\ numCards' = numCards
    BY <1>2, <2>1, <2>2, <2>5, <2>6 DEF Round
  <2>9. IsInjective(Cards(d)) /\ ToSet(Cards(d)) = 0..(n - 1)
    BY <2>7, CardsOfFull
  <2>10. Len(d) - n <= 1 + Cardinality((n + 1)..5)
    <3>1. n + 1 \in Int /\ 5 \in Int
      OBVIOUS
    <3>2. Cardinality((n + 1)..5) = IF n + 1 > 5 THEN 0 ELSE 5 - (n + 1) + 1
      BY <3>1, FS_Interval
    <3> QED
      BY <2>7, <3>2 DEF PlacesOf
  <2>11. CardsKept'
    BY <2>8, <2>9, <2>10 DEF CardsKept
  <2>12. DeckTypeOK'
    <3>1. pileNumInd' \in 0..2
      <4>1. pileNumInd' = (pileNumInd + 1) % 3 /\ pileNumInd \in 0..2
        BY <1>2 DEF Round, DeckInv, DeckTypeOK, pileNumberTable
      <4> QED
        BY <4>1
    <3>2. originalOrder' \in BOOLEAN
      BY <1>2 DEF Round, checkOrder
    <3>3. curr_deck' \in Seq(-1..(numCards' - 1)) /\ numCards' \in CardCounts
      BY <2>7, <2>8 DEF DeckOf, DeckInv, DeckTypeOK
    <3> QED
      BY <3>1, <3>2, <3>3 DEF DeckTypeOK
  <2> QED
    BY <2>11, <2>12 DEF DeckInv
<1> QED
  BY <1>1, <1>2

\* No round of the card program loses, repeats or invents a card, and the dummies
\* do not pile up, for every number of cards.
THEOREM DeckKeepsCards == DeckSpec => []CardsKept
<1>1. DeckInit => DeckInv
  BY DeckStart
<1>2. DeckInv /\ [Round]_deckVars => DeckInv'
  BY DeckStep
<1>3. DeckInv => CardsKept
  BY DEF DeckInv
<1> QED
  BY <1>1, <1>2, <1>3, PTL DEF DeckSpec

=============================================================================
