SPECIFICATION SortSpec
CONSTANTS
  SortPrograms = {"quicksort"}
  SortInputs <- TestArrays
INVARIANTS QuickSortSorts
CHECK_DEADLOCK FALSE
