SPECIFICATION Spec
CONSTANTS
  WHEEL_BIN_NUMBER = 3
  GRANULARITY = 2
  Handlers = {h1, h2}
  h1 = h1
  h2 = h2
  Deadlines = {0, 1, 3, 4, 5, 6}
  MaxInstalled = 3
  SIZE = 3
  Keys = {0, 1, 3, 5}
  ChainSize = 2
  ChainKeys = {0, 1, 2, 4, 6}
  HeapCapacity = 5
  Entries = {1, 2, 3, 4}
  HeapPrograms = {"binaryHeap", "binaryHeap_2"}
  Unwritten = Unwritten
  Nodes = {n1, n2, n3}
  n1 = n1
  n2 = n2
  n3 = n3
  NoNode = NoNode
  Freed = Freed
  Cap = 2
  BstValues = {1, 2, 3}
  MaxTree = 5
  RingSize = 4
  RingTarget = 9
  Nobody = Nobody
  Writers = {w1, w2}
  Readers = {r1, r2}
  SemSize = 2
  SemTarget = 2
  BlockSize = 2
  MaxBlocks = 3
  NULL = NULL
  Junk = Junk
  CardCounts = {0, 1, 2, 3, 4, 5, 6, 7, 8, 9, 10, 11, 12}
  SortPrograms = {"bubblesort", "insertionSort", "mergesort", "heapSort", "quicksort"}
  SortInputs <- ShortArrays
  MemorySize = 6
INVARIANTS TypeOK CalledWhenDue ChainsHoldMembers PopsLargest ListIsQueue TreeIsExact NoConflict PlacesConserved IndexAgrees ItemsConserved ThreadsProceed FreeListEnds Exclusive Backed NoLeak CardsKept SortsInput CopyIsExact
PROPERTIES SearchIsExact CallsReturn ImplementsFifo OrderRestored ProgramEnds
CHECK_DEADLOCK FALSE
