--------------------------- MODULE ProgramsProofs ---------------------------
(***************************************************************************)
(* Proofs about Programs, the specification TLC runs: whichever program a  *)
(* behaviour runs, each one's invariant holds throughout, so that what the *)
(* other modules prove of each program alone holds here for every value of *)
(* all the constants at once.                                              *)
(***************************************************************************)
EXTENDS Programs, BufferProofs, PoolProofs, ContainerProofs, SortProofs, TreeProofs

ProgramsInv ==
  /\ program \in Programs
  /\ WheelInv /\ TableInv /\ ChainInv /\ MaxHeapInv /\ QueueInv /\ TreeInv
  /\ RingInv /\ Endings /\ SemInv /\ Ledger
  /\ PoolInv /\ DeckInv /\ SortInv /\ CopyInv

LEMMA ProgramsStart == Init => ProgramsInv
<1> SUFFICES ASSUME Init  PROVE ProgramsInv
  OBVIOUS
<1>1. WheelInv /\ TableInv /\ ChainInv /\ MaxHeapInv
  BY WheelStarts, TableStarts, ChainStarts, HeapStarts DEF Init
<1>2. QueueInv /\ TreeInv /\ RingInv /\ Endings /\ SemInv /\ Ledger
  BY QueueStarts, TreeStart, RingStart, EndingsStart, SemStart, LedgerStart DEF Init
<1>3. PoolInv /\ DeckInv /\ SortInv /\ CopyInv
  BY PoolStart, DeckStart, SortStart, CopyStarts DEF Init
<1> QED
  BY <1>1, <1>2, <1>3 DEF ProgramsInv, Init

\* A step of Programs is a step of one program, and leaves each of the others alone.
LEMMA EachSteps ==
  ASSUME [Next]_vars
  PROVE  /\ program' = program
         /\ [WheelNext]_wheelVars /\ [OpenHashNext]_openHashVars /\ [ChainNext]_chainVars
         /\ [HeapNext]_heapVars /\ [QueueNext]_queueVars /\ [BstNext]_bstVars
         /\ [RingNext]_ringVars /\ [SemNext]_semVars /\ [PoolNext]_poolVars
         /\ [Round]_deckVars /\ [SortNext]_sortVars /\ [CopyByte]_memcpyVars
<1>1. CASE RunWheel \/ RunOpenHash \/ RunChain \/ RunHeap
  BY <1>1 DEF RunWheel, RunOpenHash, RunChain, RunHeap
<1>2. CASE RunQueue \/ RunBst \/ RunRing \/ RunSem
  BY <1>2 DEF RunQueue, RunBst, RunRing, RunSem
<1>3. CASE RunPool \/ RunDeck \/ RunSort \/ RunMemcpy
  BY <1>3 DEF RunPool, RunDeck, RunSort, RunMemcpy
<1>4. CASE UNCHANGED vars
  BY <1>4 DEF vars
<1> QED
  BY <1>1, <1>2, <1>3, <1>4 DEF Next

LEMMA ProgramsStep == ProgramsInv /\ [Next]_vars => ProgramsInv'
<1> SUFFICES ASSUME ProgramsInv, [Next]_vars  PROVE ProgramsInv'
  OBVIOUS
<1>1. WheelInv' /\ TableInv' /\ ChainInv' /\ MaxHeapInv'
  BY EachSteps, WheelSteps, TableSteps, ChainSteps, HeapSteps DEF ProgramsInv
<1>2. QueueInv' /\ TreeInv' /\ RingInv' /\ Endings' /\ SemInv' /\ Ledger'
  BY EachSteps, QueueSteps, TreeStep, RingStep, EndingsStep, SemStep, LedgerStep
  DEF ProgramsInv
<1>3. PoolInv' /\ DeckInv' /\ SortInv' /\ CopyInv'
  BY EachSteps, PoolSteps, DeckStep, SortStep, CopySteps DEF ProgramsInv
<1> QED
  BY <1>1, <1>2, <1>3, EachSteps DEF ProgramsInv

\* The programs keep their invariants side by side.
THEOREM ProgramsInvariance == Spec => []ProgramsInv
<1>1. Init => ProgramsInv
  BY ProgramsStart
<1>2. ProgramsInv /\ [Next]_vars => ProgramsInv'
  BY ProgramsStep
<1> QED
  BY <1>1, <1>2, PTL DEF Spec

\* Every variable of every program keeps its type: no index leaves its table, array
\* or buffer, no count its range, and no pointer leads outside the nodes there are.
THEOREM ProgramsTypeCorrect == Spec => []TypeOK
<1>1. ProgramsInv => TypeOK
  <2> SUFFICES ASSUME ProgramsInv  PROVE TypeOK
    OBVIOUS
  <2>1. WheelTypeOK /\ OpenHashTypeOK /\ ChainTypeOK /\ HeapTypeOK /\ QueueTypeOK
    BY DEF ProgramsInv, WheelInv, TableInv, ChainInv, MaxHeapInv, QueueInv
  <2>2. BstTypeOK
    BY TreeTyped DEF ProgramsInv
  <2>3. RingTypeOK /\ SemTypeOK /\ PoolTypeOK
    BY RingImplied, SemImplied DEF ProgramsInv, PoolInv
  <2>4. DeckTypeOK /\ MemcpyTypeOK
    BY DEF ProgramsInv, DeckInv, CopyInv
  <2>5. SortTypeOK
    BY SortTyped DEF ProgramsInv
  <2> QED
    BY <2>1, <2>2, <2>3, <2>4, <2>5 DEF TypeOK, ProgramsInv
<1> QED
  BY <1>1, ProgramsInvariance, PTL

\* Whichever program runs, every invariant TLC checks of it holds.
THEOREM ProgramsCorrect ==
  Spec => [](/\ CalledWhenDue /\ ChainsHoldMembers /\ PopsLargest /\ ListIsQueue
             /\ TreeIsExact /\ NoConflict /\ PlacesConserved /\ IndexAgrees
             /\ ItemsConserved /\ ThreadsProceed
             /\ FreeListEnds /\ Exclusive /\ Backed /\ NoLeak
             /\ CardsKept /\ SortsInput /\ CopyIsExact)
<1>1. ProgramsInv => /\ CalledWhenDue /\ ChainsHoldMembers /\ PopsLargest /\ ListIsQueue
                     /\ TreeIsExact
  BY HeapIdle, TreeExact DEF ProgramsInv, WheelInv, ChainInv, QueueInv
<1>2. ProgramsInv => /\ NoConflict /\ PlacesConserved /\ IndexAgrees
                     /\ ItemsConserved /\ ThreadsProceed
  BY RingImplied, RingProceeds, SemImplied, NotAllBlocked DEF ProgramsInv, ThreadsProceed
<1>3. ProgramsInv => FreeListEnds /\ Exclusive /\ Backed /\ NoLeak
  BY Implied DEF ProgramsInv
<1>4. ProgramsInv => CardsKept /\ SortsInput /\ CopyIsExact
  BY InTheEnd, CopyEnds DEF ProgramsInv, DeckInv
<1> QED
  BY <1>1, <1>2, <1>3, <1>4, ProgramsInvariance, PTL

\* In particular neither buffer's threads all wait for each other, on a test, a
\* semaphore or the mutex, however many there are and whatever they have to move.
THEOREM BuffersProceed == Spec => []ThreadsProceed
BY ProgramsCorrect, PTL

\* The searches of the table and the FIFO order of the ring buffer, which are about
\* steps, are not disturbed by the other programs either.
THEOREM ProgramsSearchFinds == Spec => SearchIsExact
<1>1. ProgramsInv => TableInv
  BY DEF ProgramsInv
<1>2. [Next]_vars => [OpenHashNext]_openHashVars
  BY EachSteps
<1> QED
  BY <1>1, <1>2, SearchAnswer, ProgramsInvariance, PTL DEF Spec, SearchIsExact

THEOREM ProgramsRefinement == Spec => ImplementsFifo
<1>1. Init => Fifo!FifoInit
  BY AbsInitial DEF Init
<1>2. ProgramsInv /\ [Next]_vars => [Fifo!Put \/ Fifo!Get]_(Fifo!fifoVars)
  BY EachSteps, AbsNext DEF ProgramsInv
<1> QED
  BY <1>1, <1>2, ProgramsInvariance, PTL DEF Spec, ImplementsFifo, Fifo!FifoSpec

=============================================================================
