SPECIFICATION HeapSpec
CONSTANTS
  HeapCapacity = 5
  Entries = {1, 2, 3, 4, 5}
  HeapPrograms = {"binaryHeap_2"}
  Unwritten = Unwritten
INVARIANTS RootIsLargest
