------------------------------- MODULE Sorts -------------------------------
(***************************************************************************)
(* The sorting programs: bubbleSort, insertionSort, mergeSort, heapSort    *)
(* and quickSort.  The C stack, and what is left of a loop, is the         *)
(* sequence of the calls still to be made, the next one in front.  A step  *)
(* is a call, or one turn of a loop of a todo.                             *)
(***************************************************************************)
EXTENDS Integers, Sequences, FiniteSets, SequencesExt

CONSTANTS
  SortPrograms,   \* the programs a run is about
  SortInputs      \* the arrays to sort, as sequences

ASSUME SortAssumption ==
  /\ SortPrograms \subseteq {"bubblesort", "insertionSort", "mergesort", "heapSort", "quicksort"}
  /\ SortInputs \subseteq Seq(Int)

VARIABLES
  sortProgram,
  original,    \* history: the array as it was given
  array,       \* the array, indexed from 0
  calls        \* the calls to be made

sortVars == <<sortProgram, original, array, calls>>

arraySize == Len(original)

SortTypeOK ==
  /\ sortProgram \in SortPrograms
  /\ original \in SortInputs
  /\ array \in [0..(arraySize - 1) -> ToSet(original)]
  /\ \A k \in DOMAIN calls :
       calls[k].f \in {"bubble", "insert", "merge_sort", "merge", "heapify", "extract",
                      "quick_sort", "partition"}

\* The calls and the loops of each program.
BubblePass(i, j) == [f |-> "bubble", i |-> i, j |-> j]
Insert(i) == [f |-> "insert", i |-> i]
MergeSort(st, end) == [f |-> "merge_sort", st |-> st, end |-> end]
Merge(st, mid, end) == [f |-> "merge", st |-> st, mid |-> mid, end |-> end, i |-> st, j |-> mid, arr |-> <<>>]
Heapify(n, i) == [f |-> "heapify", n |-> n, i |-> i]
Extract(i) == [f |-> "extract", i |-> i]
QuickSort(st, end) == [f |-> "quick_sort", st |-> st, end |-> end]

\* What main() calls, with the loops of heapSort and insertionSort unrolled.
FirstCalls(program, n) ==
  CASE program = "bubblesort" -> <<BubblePass(n, 0)>>
    [] program = "insertionSort" -> [k \in 1..n |-> Insert(k - 1)]
    [] program = "mergesort" -> <<MergeSort(0, n - 1)>>
    [] program = "heapSort" ->
         [k \in 1..(n \div 2) |-> Heapify(n, n \div 2 - k)]
           \o [k \in 1..(IF n = 0 THEN 0 ELSE n - 1) |-> Extract(n - k)]
    [] program = "quicksort" -> <<QuickSort(0, n - 1)>>

SortInit ==
  /\ sortProgram \in SortPrograms
  /\ original \in SortInputs
  /\ array = [k \in 0..(Len(original) - 1) |-> original[k + 1]]
  /\ calls = FirstCalls(sortProgram, Len(original))

\* The call in front, a call of function f; it is replaced by the calls it makes.
todo == Head(calls)
Calls(f) == calls # <<>> /\ todo.f = f
Continue(more) == calls' = more \o Tail(calls) /\ UNCHANGED <<sortProgram, original>>

Swapped(i, j) == [array EXCEPT ![i] = array[j], ![j] = array[i]]

\* bubblesort: a turn of the inner loop, or the end of it.
Bubble ==
  /\ Calls("bubble")
  /\ IF todo.j < todo.i - 1
     THEN /\ array' = IF array[todo.j] > array[todo.j + 1] THEN Swapped(todo.j, todo.j + 1) ELSE array
          /\ Continue(<<BubblePass(todo.i, todo.j + 1)>>)
     ELSE /\ Continue(IF todo.i > 0 THEN <<BubblePass(todo.i - 1, 0)>> ELSE <<>>)
          /\ UNCHANGED array

\* insertionSort: element i moves down to the first place j not behind a larger one.
InsertElement ==
  /\ Calls("insert")
  /\ LET i == todo.i
         j == CHOOSE j \in 0..i :
                /\ j = 0 \/ array[j - 1] <= array[i]
                /\ \A k \in (j + 1)..i : array[k - 1] > array[i]
     IN  array' = [k \in DOMAIN array |->
                     IF k = j THEN array[i] ELSE IF k \in j..i THEN array[k - 1] ELSE array[k]]
  /\ Continue(<<>>)

\* Mutant of MergeSplit: the second half starts at the middle.
MergeSplitOverlap(st, mid, end) == <<MergeSort(st, mid), MergeSort(mid + 1, end), Merge(st, mid, end)>>

MergeSplit(st, mid, end) == <<MergeSort(st, mid), MergeSort(mid + 1, end), Merge(st, mid + 1, end)>>

\* sort_helper of mergesort.c.
MergeSortCall ==
  /\ Calls("merge_sort")
  /\ Continue(IF todo.st < todo.end
              THEN MergeSplit(todo.st, (todo.end - todo.st) \div 2 + todo.st, todo.end)
              ELSE <<>>)
  /\ UNCHANGED array

\* merge_helper: the next element of either half, or the copy back.
MergeElement ==
  /\ Calls("merge")
  /\ LET more(half) == IF half = 1 THEN todo.i < todo.mid ELSE todo.j <= todo.end
         first == more(1) /\ (more(2) => array[todo.i] <= array[todo.j])
     IN  IF more(1) \/ more(2)
         THEN /\ Continue(<<IF first
                            THEN [todo EXCEPT !.arr = Append(@, array[todo.i]), !.i = @ + 1]
                            ELSE [todo EXCEPT !.arr = Append(@, array[todo.j]), !.j = @ + 1]>>)
              /\ UNCHANGED array
         ELSE /\ array' = [k \in DOMAIN array |->
                             IF k \in todo.st..todo.end THEN todo.arr[k - todo.st + 1] ELSE array[k]]
              /\ Continue(<<>>)

\* heapify of heapSort.c: one call, which may make the next one.
HeapifyCall ==
  /\ Calls("heapify")
  /\ LET i == todo.i
         larger(a, b) == IF b < todo.n /\ array[b] > array[a] THEN b ELSE a
         largest == larger(larger(i, 2 * i + 1), 2 * i + 2)
     IN  IF largest # i
         THEN array' = Swapped(i, largest) /\ Continue(<<Heapify(todo.n, largest)>>)
         ELSE Continue(<<>>) /\ UNCHANGED array

\* heapSort's second loop: the largest entry goes to place i.
ExtractLargest ==
  /\ Calls("extract")
  /\ array' = Swapped(0, todo.i)
  /\ Continue(<<Heapify(todo.i, 0)>>)

\* sort_helper of quicksort.c, up to its loop.
QuickSortCall ==
  /\ Calls("quick_sort")
  /\ Continue(IF todo.st >= todo.end THEN <<>>
              ELSE <<[f |-> "partition", st |-> todo.st, end |-> todo.end,
                      left |-> todo.st, right |-> todo.end,
                      pivot |-> array[todo.st + (todo.end - todo.st) \div 2]]>>)
  /\ UNCHANGED array

\* A turn of that loop, or the two recursive calls.  The two scans stop when left
\* and right meet; the element where they meet is in neither todo.
Partition ==
  /\ Calls("partition")
  /\ LET left == CHOOSE k \in todo.left..todo.right :
                   /\ k = todo.right \/ array[k] >= todo.pivot
                   /\ \A m \in todo.left..(k - 1) : array[m] < todo.pivot
         right == CHOOSE k \in left..todo.right :
                    /\ k = left \/ array[k] <= todo.pivot
                    /\ \A m \in (k + 1)..todo.right : array[m] > todo.pivot
     IN  IF todo.left >= todo.right
         THEN /\ Continue(<<QuickSort(todo.st, todo.left - 1), QuickSort(todo.right + 1, todo.end)>>)
              /\ UNCHANGED array
         ELSE IF left < right
         THEN /\ array' = Swapped(left, right)
              /\ Continue(<<[todo EXCEPT !.left = left + 1, !.right = right - 1]>>)
         ELSE /\ Continue(<<[todo EXCEPT !.left = left, !.right = right]>>)
              /\ UNCHANGED array

SortNext ==
  \/ Bubble \/ InsertElement \/ MergeSortCall \/ MergeElement
  \/ HeapifyCall \/ ExtractLargest \/ QuickSortCall \/ Partition

SortSpec == SortInit /\ [][SortNext]_sortVars /\ WF_sortVars(SortNext)

-----------------------------------------------------------------------------
Ordered == \A k \in 1..(arraySize - 1) : array[k - 1] <= array[k]

\* The array holds each element it was given, as often as it was given.
IsPermutation ==
  \A v \in ToSet(original) :
    Cardinality({k \in 1..arraySize : original[k] = v})
      = Cardinality({k \in 0..(arraySize - 1) : array[k] = v})

(* When a program is done, the array holds the elements it was given, each  *)
(* as often as before, and all programs but quicksort have put them in      *)
(* order.                                                                   *)
SortsInput ==
  calls = <<>> =>
    /\ IsPermutation
    /\ sortProgram # "quicksort" => Ordered

(* quicksort, too, has put the array in order when it is done.              *)
QuickSortSorts == calls = <<>> /\ sortProgram = "quicksort" => Ordered

=============================================================================
