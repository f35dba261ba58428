------------------------------ MODULE Programs ------------------------------
(***************************************************************************)
(* The programs of src/Data_Struct_Implementation, and the card program of *)
(* Interview/Company/Apple, together.  Each source file is a program of    *)
(* its own: a behaviour runs one of them, and the others stay in their     *)
(* initial state.                                                          *)
(***************************************************************************)
EXTENDS TimerWheel, OpenHash, ChainHash, MaxHeap, LinkedQueue, BST, RingBuffer, SemBuffer,
        Pool, Deck, Sorts, Memcpy

VARIABLE program    \* the program a behaviour runs

Programs == {
  "timer", "hashTable", "hashTable_chain", "binaryHeap", "queue", "bst", "ring_buffer",
  "buffer_multithread", "pool", "TakeHomeQ1", "sort", "memcpy"}

vars == <<program, wheelVars, openHashVars, chainVars, heapVars, queueVars, bstVars,
          ringVars, semVars, poolVars, deckVars, sortVars, memcpyVars>>

TypeOK ==
  /\ program \in Programs
  /\ WheelTypeOK /\ OpenHashTypeOK /\ ChainTypeOK /\ HeapTypeOK /\ QueueTypeOK /\ BstTypeOK
  /\ RingTypeOK /\ SemTypeOK /\ PoolTypeOK /\ DeckTypeOK /\ SortTypeOK /\ MemcpyTypeOK

\* What a program starts with matters to that program only: its uninitialised
\* list heads, which of several source files it is, and its arguments.
Init ==
  /\ program \in Programs
  /\ WheelInit /\ (program # "timer" => wild = {})
  /\ OpenHashInit /\ ChainInit
  /\ HeapInit /\ (program # "binaryHeap" => heapProgram = "binaryHeap")
  /\ QueueInit /\ (program # "queue" => counted)
  /\ BstInit /\ RingInit /\ SemInit /\ PoolInit
  /\ DeckInit /\ (program # "TakeHomeQ1" => \A n \in CardCounts : numCards <= n)
  /\ SortInit /\ (program # "sort" => original = <<>> /\ sortProgram = "bubblesort")
  /\ MemcpyInit /\ (program # "memcpy" => pSrc = 0 /\ pDest = 0 /\ length = 0)

RunWheel ==
  /\ program = "timer" /\ WheelNext
  /\ UNCHANGED <<program, openHashVars, chainVars, heapVars, queueVars,
                 bstVars, ringVars, semVars, poolVars, deckVars, sortVars,
                 memcpyVars>>

RunOpenHash ==
  /\ program = "hashTable" /\ OpenHashNext
  /\ UNCHANGED <<program, wheelVars, chainVars, heapVars, queueVars, bstVars,
                 ringVars, semVars, poolVars, deckVars, sortVars, memcpyVars>>

RunChain ==
  /\ program = "hashTable_chain" /\ ChainNext
  /\ UNCHANGED <<program, wheelVars, openHashVars, heapVars, queueVars,
                 bstVars, ringVars, semVars, poolVars, deckVars, sortVars,
                 memcpyVars>>

RunHeap ==
  /\ program = "binaryHeap" /\ HeapNext
  /\ UNCHANGED <<program, wheelVars, openHashVars, chainVars, queueVars,
                 bstVars, ringVars, semVars, poolVars, deckVars, sortVars,
                 memcpyVars>>

RunQueue ==
  /\ program = "queue" /\ QueueNext
  /\ UNCHANGED <<program, wheelVars, openHashVars, chainVars, heapVars,
                 bstVars, ringVars, semVars, poolVars, deckVars, sortVars,
                 memcpyVars>>

RunBst ==
  /\ program = "bst" /\ BstNext
  /\ UNCHANGED <<program, wheelVars, openHashVars, chainVars, heapVars,
                 queueVars, ringVars, semVars, poolVars, deckVars, sortVars,
                 memcpyVars>>

RunRing ==
  /\ program = "ring_buffer" /\ RingNext
  /\ UNCHANGED <<program, wheelVars, openHashVars, chainVars, heapVars,
                 queueVars, bstVars, semVars, poolVars, deckVars, sortVars,
                 memcpyVars>>

RunSem ==
  /\ program = "buffer_multithread" /\ SemNext
  /\ UNCHANGED <<program, wheelVars, openHashVars, chainVars, heapVars,
                 queueVars, bstVars, ringVars, poolVars, deckVars, sortVars,
                 memcpyVars>>

RunPool ==
  /\ program = "pool" /\ PoolNext
  /\ UNCHANGED <<program, wheelVars, openHashVars, chainVars, heapVars,
                 queueVars, bstVars, ringVars, semVars, deckVars, sortVars,
                 memcpyVars>>

RunDeck ==
  /\ program = "TakeHomeQ1" /\ Round
  /\ UNCHANGED <<program, wheelVars, openHashVars, chainVars, heapVars,
                 queueVars, bstVars, ringVars, semVars, poolVars, sortVars,
                 memcpyVars>>

RunSort ==
  /\ program = "sort" /\ SortNext
  /\ UNCHANGED <<program, wheelVars, openHashVars, chainVars, heapVars,
                 queueVars, bstVars, ringVars, semVars, poolVars, deckVars,
                 memcpyVars>>

RunMemcpy ==
  /\ program = "memcpy" /\ CopyByte
  /\ UNCHANGED <<program, wheelVars, openHashVars, chainVars, heapVars,
                 queueVars, bstVars, ringVars, semVars, poolVars, deckVars,
                 sortVars>>

Next ==
  \/ RunWheel \/ RunOpenHash \/ RunChain \/ RunHeap \/ RunQueue \/ RunBst
  \/ RunRing \/ RunSem \/ RunPool \/ RunDeck \/ RunSort \/ RunMemcpy

\* A call that can go on does, and so does each thread of the two buffers: the
\* fairness of each program's own specification.
Spec ==
  /\ Init /\ [][Next]_vars
  /\ WF_openHashVars(program = "hashTable" /\ OpenHashStep)
  /\ WF_ringVars(program = "ring_buffer" /\ writeHandler)
  /\ WF_ringVars(program = "ring_buffer" /\ readHandler)
  /\ \A t \in Threads : WF_semVars(program = "buffer_multithread" /\ ThreadStep(t))
  /\ WF_deckVars(RunDeck) /\ WF_sortVars(RunSort) /\ WF_memcpyVars(RunMemcpy)

(* While the threads of a buffer have not all ended, one of them has a step *)
(* that neither repeats a failed test nor waits on a semaphore or the       *)
(* mutex: in no state does everyone wait for everyone.                      *)
ThreadsProceed == NeverBothSpin /\ NeverAllBlocked

(* The programs that only have to finish do, whatever their input and the   *)
(* schedule of their threads: both buffers' threads end, so that no one     *)
(* waits for ever on a semaphore, the mutex or an index; every sort and     *)
(* every copy comes to an end.                                              *)
ProgramEnds ==
  <> \/ program = "ring_buffer" /\ RingEnded
     \/ program = "buffer_multithread" /\ SemEnded
     \/ program = "sort" /\ calls = <<>>
     \/ program = "memcpy" /\ ~copying
     \/ program \notin {"ring_buffer", "buffer_multithread", "sort", "memcpy"}

=============================================================================
