------------------------------ MODULE MaxHeap ------------------------------
(***************************************************************************)
(* The max-heaps in an array of binaryHeap/binaryHeap.c and                *)
(* binaryHeap/binaryHeap_2.c.  They differ in the child an entry is        *)
(* exchanged with on its way down.  One step per turn of the loop of       *)
(* insert (call of up_heapify) and per call of heapify (down_heapify).     *)
(***************************************************************************)
EXTENDS Integers, FiniteSets

CONSTANTS
  HeapCapacity,   \* capacity
  Entries,        \* the values callers insert
  HeapPrograms,   \* the source files a run is about
  Unwritten       \* the content of the array malloc returned

ASSUME HeapAssumption ==
  /\ HeapCapacity \in Nat \ {0} /\ Entries \subseteq Int /\ Unwritten \notin Entries
  /\ HeapPrograms \subseteq {"binaryHeap", "binaryHeap_2"}

VARIABLES
  heapProgram,
  data,      \* the array
  curIdx,    \* entries in use
  heapPc,    \* "idle", or the loop being executed: "up" or "heapify"
  eleIdx,    \* the place it is at
  held       \* history: held[v]: copies of v inserted and not popped since

heapVars == <<heapProgram, data, curIdx, heapPc, eleIdx, held>>

Places == 0..(HeapCapacity - 1)

HeapTypeOK ==
  /\ heapProgram \in HeapPrograms
  /\ data \in [Places -> Entries \union {Unwritten}]
  /\ curIdx \in 0..HeapCapacity
  /\ heapPc \in {"idle", "up", "heapify"}
  /\ eleIdx \in Places
  /\ held \in [Entries -> 0..HeapCapacity]

HeapInit ==
  /\ heapProgram \in HeapPrograms
  /\ data = [i \in Places |-> Unwritten]
  /\ curIdx = 0 /\ heapPc = "idle" /\ eleIdx = 0
  /\ held = [v \in Entries |-> 0]

parent(i) == (i - 1) \div 2
left_child(i) == 2 * i + 1
right_child(i) == 2 * i + 2

Swap(i, j) == data' = [data EXCEPT ![i] = data[j], ![j] = data[i]]
Idle == heapPc' = "idle" /\ eleIdx' = 0

\* A full queue refuses the entry.
HeapInsert(newEntry) ==
  /\ heapPc = "idle"
  /\ curIdx < HeapCapacity
  /\ data' = [data EXCEPT ![curIdx] = newEntry]
  /\ curIdx' = curIdx + 1
  /\ heapPc' = "up" /\ eleIdx' = curIdx
  /\ held' = [held EXCEPT ![newEntry] = @ + 1]
  /\ UNCHANGED heapProgram

\* Mutant of Up: "if" for "while".
UpOnce ==
  /\ heapPc = "up"
  /\ IF eleIdx # 0 /\ data[parent(eleIdx)] < data[eleIdx]
     THEN Swap(eleIdx, parent(eleIdx)) /\ Idle
     ELSE Idle /\ UNCHANGED data
  /\ UNCHANGED <<heapProgram, curIdx, held>>

\* The new entry is at eleIdx and goes up past smaller parents.
Up ==
  /\ heapPc = "up"
  /\ IF eleIdx # 0 /\ data[parent(eleIdx)] < data[eleIdx]
     THEN Swap(eleIdx, parent(eleIdx)) /\ eleIdx' = parent(eleIdx) /\ UNCHANGED heapPc
     ELSE Idle /\ UNCHANGED data
  /\ UNCHANGED <<heapProgram, curIdx, held>>

\* Pops data[0]; the last entry takes its place.  binaryHeap_2.c swaps the two;
\* what that leaves behind the last entry is never read.
HeapPop ==
  /\ heapPc = "idle"
  /\ curIdx > 0
  /\ data' = [data EXCEPT ![0] = data[curIdx - 1]]
  /\ curIdx' = curIdx - 1
  /\ heapPc' = "heapify" /\ eleIdx' = 0
  /\ held' = [held EXCEPT ![data[0]] = @ - 1]
  /\ UNCHANGED heapProgram

\* j if it is in use and larger, otherwise i.
Larger(i, j) == IF j < curIdx /\ data[j] > data[i] THEN j ELSE i

Largest(i) == Larger(Larger(i, left_child(i)), right_child(i))

\* down_heapify compares each child with the entry: a right child that is larger
\* than the entry is taken even if the left one is larger still.
target_index(i) ==
  IF Larger(i, right_child(i)) # i THEN right_child(i) ELSE Larger(i, left_child(i))

\* The place the entry at i goes to.
Down(i) == IF heapProgram = "binaryHeap" THEN Largest(i) ELSE target_index(i)

heapify ==
  /\ heapPc = "heapify"
  /\ IF Down(eleIdx) # eleIdx
     THEN Swap(eleIdx, Down(eleIdx)) /\ eleIdx' = Down(eleIdx) /\ UNCHANGED heapPc
     ELSE Idle /\ UNCHANGED data
  /\ UNCHANGED <<heapProgram, curIdx, held>>

HeapNext == (\E v \in Entries : HeapInsert(v)) \/ Up \/ HeapPop \/ heapify

HeapSpec == HeapInit /\ [][HeapNext]_heapVars

RootLargest == \A i \in 0..(curIdx - 1) : data[i] <= data[0]

(* Between calls the array holds what was inserted and not popped, and in   *)
(* binaryHeap.c the largest of it is at data[0], which the next pop returns.*)
PopsLargest ==
  heapPc = "idle" =>
    /\ \A v \in Entries :
         held[v] = Cardinality({i \in 0..(curIdx - 1) : data[i] = v})
    /\ heapProgram = "binaryHeap" => RootLargest

(* The highest priority is at the root between calls, in both files.        *)
RootIsLargest == heapPc = "idle" => RootLargest

=============================================================================
