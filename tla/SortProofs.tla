----------------------------- MODULE SortProofs -----------------------------
(***************************************************************************)
(* The sorting programs sort every array of integers: the array always     *)
(* holds the elements it was given, and all programs but quicksort leave   *)
(* them in order.                                                          *)
(***************************************************************************)
EXTENDS Sorts, FiniteSetTheorems, NaturalsInduction, WellFoundedInduction, TLAPS

Indices == 0..(arraySize - 1)

Call ==
  [f : {"bubble"}, i : Int, j : Int]
    \union [f : {"insert", "extract"}, i : Int]
    \union [f : {"heapify"}, n : Int, i : Int]
    \union [f : {"merge_sort", "quick_sort"}, st : Int, end : Int]
    \union [f : {"merge"}, st : Int, mid : Int, end : Int, i : Int, j : Int, arr : Seq(Int)]
    \union [f : {"partition"}, st : Int, end : Int, left : Int, right : Int, pivot : Int]

\* Place k of the array a of n elements holds element p[k] of the sequence s, and
\* each element is in one place.
Arranges(p, n, a, s) ==
  /\ \A j, k \in 0..(n - 1) : p[j] = p[k] => j = k
  /\ \A m \in 1..n : \E k \in 0..(n - 1) : p[k] = m
  /\ \A k \in 0..(n - 1) : a[k] = s[p[k]]

Arranged == \E p \in [Indices -> 1..arraySize] : Arranges(p, arraySize, array, original)

\* h maps 0..n - 1 onto itself, one to one.
Permutes(h, n) ==
  /\ h \in [0..(n - 1) -> 0..(n - 1)]
  /\ \A j, k \in 0..(n - 1) : h[j] = h[k] => j = k
  /\ \A m \in 0..(n - 1) : \E k \in 0..(n - 1) : h[k] = m

Common ==
  /\ sortProgram \in SortPrograms
  /\ original \in SortInputs
  /\ array \in [Indices -> Int]
  /\ calls \in Seq(Call)
  /\ Arranged

\* From place m on the array has its final contents.
Settled(m) == \A k \in Indices : k >= m => \A l \in Indices : l < k => array[l] <= array[k]

\* bubblesort: what the outer loop has left behind is settled, and place j holds
\* the largest element before it.
BubbleInv ==
  \/ calls = <<>> /\ Settled(0)
  \/ \E i \in 0..arraySize, j \in 0..arraySize :
       /\ calls = <<BubblePass(i, j)>>
       /\ j < i \/ j = 0
       /\ Settled(i)
       /\ \A l \in 0..(j - 1) : array[l] <= array[j]

\* insertionSort: the elements before the next one are in order.
Inserted == arraySize - Len(calls)
InsertInv ==
  /\ Inserted \in Nat
  /\ \A k \in 1..Len(calls) : calls[k] = Insert(Inserted + k - 1)
  /\ \A k, l \in 0..(Inserted - 1) : l < k => array[l] <= array[k]

\* heapSort: the calls c still to come when places 0..r - 1 are not yet in the
\* heap and places m.. have left it.
HeapRest(c, r, m) ==
  /\ Len(c) = r + (IF m = 0 THEN 0 ELSE m - 1)
  /\ \A k \in 1..r : c[k] = Heapify(m, r - k)
  /\ \A k \in (r + 1)..Len(c) : c[k] = Extract(m - (k - r))

Child(p, c) == c = 2 * p + 1 \/ c = 2 * p + 2

\* Indices r..m - 1 are a heap, but for the entry at i, which may be too small.
HeapBut(r, m, i) ==
  /\ \A p, c \in r..(m - 1) : Child(p, c) /\ p # i => array[c] <= array[p]
  /\ \A p, c \in r..(m - 1) : Child(p, i) /\ Child(i, c) => array[c] <= array[p]

HeapWhole(r, m) ==
  /\ r > 0 => m = arraySize
  /\ Settled(m)
  /\ HeapRest(calls, r, m)
  /\ HeapBut(r, m, -1)

HeapSinking(r, m, i) ==
  /\ r > 0 => m = arraySize
  /\ Settled(m)
  /\ calls # <<>> /\ calls[1] = Heapify(m, i) /\ HeapRest(Tail(calls), r, m)
  /\ HeapBut(r, m, i)

HeapInv ==
  \E r \in 0..arraySize, m \in 0..arraySize :
    HeapWhole(r, m) \/ \E i \in r..(m - 1) : HeapSinking(r, m, i)

\* mergesort: call k works on the places lo(k)..hi(k).
lo(k) == calls[k].st
hi(k) == calls[k].end
Apart(k, a, b) == hi(k) < a \/ b < lo(k)
InOrder(a, b) ==
  \A k, l \in Indices : a <= k /\ k < l /\ l <= b => array[k] <= array[l]

Within(k, a, b) == a <= lo(k) /\ hi(k) <= b

\* When call n is made, places a..b will be in order: one of the calls before it
\* sees to that, or they are already and no call before it touches them.
Ready(a, b, n) ==
  \/ \E k \in 1..(n - 1) : lo(k) = a /\ hi(k) = b
  \/ InOrder(a, b) /\ \A k \in 1..(n - 1) : Apart(k, a, b)

\* Call k comes before call l: they have no place in common, or k is about one
\* half of what l merges.
Nested(k, l) ==
  \/ Apart(k, lo(l), hi(l))
  \/ /\ calls[l].f = "merge"
     /\ Within(k, lo(l), calls[l].mid - 1) \/ Within(k, calls[l].mid, hi(l))

\* merge_helper has copied the elements of both halves before i and j into arr: in
\* order, none larger than those to come, and element k from place q[k].
Taken(c, l) == l \in c.st..(c.i - 1) \/ l \in c.mid..(c.j - 1)
ToCome(c, l) == l \in c.i..(c.mid - 1) \/ l \in c.j..c.end

Merging(c, q) ==
  /\ c.i \in c.st..c.mid /\ c.j \in c.mid..(c.end + 1)
  /\ Len(c.arr) = (c.i - c.st) + (c.j - c.mid)
  /\ \A k, l \in 1..Len(c.arr) : k < l => c.arr[k] <= c.arr[l]
  /\ \A k \in 1..Len(c.arr), l \in Indices : ToCome(c, l) => c.arr[k] <= array[l]
  /\ \A k \in 1..Len(c.arr) : Taken(c, q[k]) /\ c.arr[k] = array[q[k]]
  /\ \A k, l \in 1..Len(c.arr) : q[k] = q[l] => k = l
  /\ \A l \in Indices : Taken(c, l) => \E k \in 1..Len(c.arr) : q[k] = l

MergeCallOK(k) ==
  /\ calls[k].f \in {"merge_sort", "merge"}
  /\ 0 <= lo(k) /\ hi(k) < arraySize
  /\ lo(k) <= hi(k) \/ Len(calls) = 1
  /\ calls[k].f = "merge" =>
       /\ lo(k) < calls[k].mid /\ calls[k].mid <= hi(k)
       /\ Ready(lo(k), calls[k].mid - 1, k) /\ Ready(calls[k].mid, hi(k), k)
       /\ \E q \in [1..Len(calls[k].arr) -> Indices] : Merging(calls[k], q)
       /\ k > 1 => calls[k] = Merge(lo(k), calls[k].mid, hi(k))

MergeInv ==
  /\ \A k \in 1..Len(calls) : MergeCallOK(k)
  /\ \A k, l \in 1..Len(calls) : k < l => Nested(k, l)
  /\ Ready(0, arraySize - 1, Len(calls) + 1)

\* quicksort: the bounds stay inside the array.
QuickCallOK(c) ==
  /\ c.f \in {"quick_sort", "partition"}
  /\ 0 <= c.st /\ c.end < arraySize
  /\ c.f = "partition" => c.st <= c.left /\ c.left <= c.right + 1 /\ c.right <= c.end

QuickInv == \A k \in 1..Len(calls) : QuickCallOK(calls[k])

SortInv ==
  /\ Common
  /\ sortProgram = "bubblesort" => BubbleInv
  /\ sortProgram = "insertionSort" => InsertInv
  /\ sortProgram = "mergesort" => MergeInv
  /\ sortProgram = "heapSort" => HeapInv
  /\ sortProgram = "quicksort" => QuickInv

-----------------------------------------------------------------------------
(***************************************************************************)
(* Sequences of calls                                                      *)
(***************************************************************************)

LEMMA TailOf ==
  ASSUME NEW S, NEW c \in Seq(S), c # <<>>
  PROVE  /\ Tail(c) \in Seq(S) /\ Len(Tail(c)) = Len(c) - 1 /\ Len(c) >= 1 /\ Head(c) = c[1]
         /\ \A k \in 1..(Len(c) - 1) : Tail(c)[k] = c[k + 1]
OBVIOUS

LEMMA NoneMade ==
  ASSUME NEW S, NEW t \in Seq(S)  PROVE <<>> \o t = t
OBVIOUS

LEMMA OneMade ==
  ASSUME NEW S, NEW x \in S, NEW t \in Seq(S)
  PROVE  /\ <<x>> \o t \in Seq(S) /\ Len(<<x>> \o t) = Len(t) + 1 /\ (<<x>> \o t)[1] = x
         /\ \A k \in 1..Len(t) : (<<x>> \o t)[k + 1] = t[k]
         /\ Tail(<<x>> \o t) = t /\ <<x>> \o t # <<>>
OBVIOUS

LEMMA OnlyOneMade ==
  ASSUME NEW x  PROVE <<x>> \o <<>> = <<x>> /\ <<>> \o <<>> = <<>>
OBVIOUS

LEMMA TwoMade ==
  ASSUME NEW S, NEW x \in S, NEW y \in S, NEW t \in Seq(S)
  PROVE  /\ <<x, y>> \o t \in Seq(S) /\ Len(<<x, y>> \o t) = Len(t) + 2
         /\ (<<x, y>> \o t)[1] = x /\ (<<x, y>> \o t)[2] = y
         /\ \A k \in 1..Len(t) : (<<x, y>> \o t)[k + 2] = t[k]
OBVIOUS

LEMMA ThreeMade ==
  ASSUME NEW S, NEW x \in S, NEW y \in S, NEW z \in S, NEW t \in Seq(S)
  PROVE  /\ <<x, y, z>> \o t \in Seq(S) /\ Len(<<x, y, z>> \o t) = Len(t) + 3
         /\ (<<x, y, z>> \o t)[1] = x /\ (<<x, y, z>> \o t)[2] = y /\ (<<x, y, z>> \o t)[3] = z
         /\ \A k \in 1..Len(t) : (<<x, y, z>> \o t)[k + 3] = t[k]
OBVIOUS

(***************************************************************************)
(* Arrangements                                                            *)
(***************************************************************************)

LEMMA Moved ==
  ASSUME NEW n \in Nat, NEW s, NEW a, NEW b, NEW h,
         NEW p \in [0..(n - 1) -> 1..n], Arranges(p, n, a, s), Permutes(h, n),
         \A k \in 0..(n - 1) : b[k] = a[h[k]]
  PROVE  \E q \in [0..(n - 1) -> 1..n] : Arranges(q, n, b, s)
<1> DEFINE q == [k \in 0..(n - 1) |-> p[h[k]]]
<1>1. q \in [0..(n - 1) -> 1..n] /\ \A k \in 0..(n - 1) : q[k] = p[h[k]] /\ h[k] \in 0..(n - 1)
  BY DEF Permutes
<1> HIDE DEF q
<1>2. ASSUME NEW j \in 0..(n - 1), NEW k \in 0..(n - 1), q[j] = q[k]  PROVE j = k
  <2>1. h[j] = h[k]
    BY <1>1, <1>2, SMTT(30) DEF Arranges
  <2> QED
    BY <2>1 DEF Permutes
<1>3. ASSUME NEW m \in 1..n  PROVE \E k \in 0..(n - 1) : q[k] = m
  <2>1. PICK j \in 0..(n - 1) : p[j] = m
    BY DEF Arranges
  <2>2. PICK k \in 0..(n - 1) : h[k] = j
    BY DEF Permutes
  <2> QED
    BY <1>1, <2>1, <2>2
<1>4. ASSUME NEW k \in 0..(n - 1)  PROVE b[k] = s[q[k]]
  <2>1. PICK j \in 0..(n - 1) : j = h[k]
    BY <1>1
  <2>2. q[k] = p[j] /\ b[k] = a[j] /\ a[j] = s[p[j]]
    BY <1>1, <2>1 DEF Arranges
  <2> QED
    BY <2>2
<1>5. Arranges(q, n, b, s)
  BY <1>2, <1>3, <1>4 DEF Arranges
<1> QED
  BY <1>1, <1>5

LEMMA ArraySize ==
  ASSUME Common
  PROVE  arraySize \in Nat /\ original \in Seq(Int) /\ Indices = 0..(arraySize - 1)
BY SortAssumption DEF Common, arraySize, Indices

\* A step that moves the elements of the array.
LEMMA MovedStep ==
  ASSUME Common, original' = original, NEW h, Permutes(h, arraySize),
         array' \in [Indices -> Int], \A k \in Indices : array'[k] = array[h[k]]
  PROVE  Arranged' /\ array' \in [Indices' -> Int]
<1>1. arraySize \in Nat /\ arraySize' = arraySize /\ Indices' = Indices /\ Indices = 0..(arraySize - 1)
  BY ArraySize DEF arraySize, Indices
<1>2. PICK p \in [Indices -> 1..arraySize] : Arranges(p, arraySize, array, original)
  BY DEF Common, Arranged
<1>3. PICK b : b = array'
  OBVIOUS
<1>4. \E q \in [0..(arraySize - 1) -> 1..arraySize] : Arranges(q, arraySize, b, original)
  BY <1>1, <1>2, <1>3, Moved
<1> QED
  BY <1>1, <1>3, <1>4 DEF Arranged

LEMMA SwapStep ==
  ASSUME Common, original' = original, NEW i \in Indices, NEW j \in Indices,
         array' = Swapped(i, j)
  PROVE  /\ Arranged' /\ array' \in [Indices' -> Int]
         /\ array'[i] = array[j] /\ array'[j] = array[i]
         /\ \A k \in Indices : k # i /\ k # j => array'[k] = array[k]
<1>n. arraySize \in Nat /\ Indices = 0..(arraySize - 1)
  BY ArraySize
<1> DEFINE h == [k \in Indices |-> IF k = i THEN j ELSE IF k = j THEN i ELSE k]
<1>1. /\ h \in [Indices -> Indices] /\ h[i] = j /\ h[j] = i
      /\ \A k \in Indices : k # i /\ k # j => h[k] = k
  OBVIOUS
<1>2. /\ array' \in [Indices -> Int] /\ array'[i] = array[j] /\ array'[j] = array[i]
      /\ \A k \in Indices : k # i /\ k # j => array'[k] = array[k]
  BY DEF Common, Swapped
<1> HIDE DEF h
<1>3. \A k, l \in Indices : h[k] = h[l] => k = l
  BY <1>1
<1>4. \A m \in Indices : \E k \in Indices : h[k] = m
  <2> SUFFICES ASSUME NEW m \in Indices PROVE \E k \in Indices : h[k] = m
    OBVIOUS
  <2> QED
    BY <1>1
<1>5. \A k \in Indices : array'[k] = array[h[k]]
  BY <1>1, <1>2
<1>6. Permutes(h, arraySize)
  BY <1>n, <1>1, <1>3, <1>4 DEF Permutes
<1>7. Arranged' /\ array' \in [Indices' -> Int]
  BY <1>2, <1>5, <1>6, MovedStep
<1> QED
  BY <1>2, <1>7

\* A step that leaves the array alone.
LEMMA StillStep ==
  ASSUME Common, UNCHANGED <<sortProgram, original, array>>, calls' \in Seq(Call)
  PROVE  Common'
<1>1. arraySize' = arraySize /\ Indices' = Indices
  BY DEF arraySize, Indices
<1>2. Arranged'
  BY <1>1 DEF Common, Arranged
<1> QED
  BY <1>1, <1>2 DEF Common

LEMMA CommonStep ==
  ASSUME Common, UNCHANGED <<sortProgram, original>>, calls' \in Seq(Call),
         Arranged', array' \in [Indices' -> Int]
  PROVE  Common'
BY DEF Common

(***************************************************************************)
(* bubblesort                                                              *)
(***************************************************************************)

LEMMA BubbleKeeps ==
  ASSUME Common, BubbleInv, SortNext  PROVE Common' /\ BubbleInv'
<1>1. calls # <<>>
  BY DEF SortNext, Bubble, InsertElement, MergeSortCall, MergeElement, HeapifyCall,
         ExtractLargest, QuickSortCall, Partition, Calls
<1>2. PICK i \in 0..arraySize, j \in 0..arraySize :
        /\ calls = <<BubblePass(i, j)>>
        /\ j < i \/ j = 0
        /\ Settled(i)
        /\ \A l \in 0..(j - 1) : array[l] <= array[j]
  BY <1>1 DEF BubbleInv
<1>3. todo = BubblePass(i, j) /\ todo.f = "bubble" /\ todo.i = i /\ todo.j = j /\ Tail(calls) = <<>>
  BY <1>2 DEF todo, BubblePass
<1>4. Bubble
  BY <1>3 DEF SortNext, InsertElement, MergeSortCall, MergeElement, HeapifyCall,
              ExtractLargest, QuickSortCall, Partition, Calls
<1>n. /\ arraySize \in Nat /\ arraySize' = arraySize /\ Indices' = Indices /\ Indices = 0..(arraySize - 1)
      /\ array \in [Indices -> Int] /\ UNCHANGED <<sortProgram, original>>
  BY <1>3, <1>4, ArraySize DEF Bubble, Continue, arraySize, Indices, Common
<1>5. CASE j < i - 1
  <2>1. /\ array' = IF array[j] > array[j + 1] THEN Swapped(j, j + 1) ELSE array
        /\ calls' = <<BubblePass(i, j + 1)>>
    BY <1>3, <1>4, <1>5, OnlyOneMade DEF Bubble, Continue
  <2>2. BubblePass(i, j + 1) \in Call /\ calls' \in Seq(Call)
    BY <2>1 DEF BubblePass, Call
  <2>3. j \in Indices /\ j + 1 \in Indices
    BY <1>5, <1>n
  <2>4. CASE array[j] > array[j + 1]
    <3>1. array' = Swapped(j, j + 1)
      BY <2>1, <2>4
    <3>2. PICK k \in Indices : k = j + 1
      BY <2>3
    <3>3. /\ Arranged' /\ array' \in [Indices' -> Int]
          /\ array'[j] = array[k] /\ array'[k] = array[j]
          /\ \A l \in Indices : l # j /\ l # k => array'[l] = array[l]
      BY <1>n, <2>3, <3>1, <3>2, SwapStep
    <3>4. Settled(i)'
      <4>1. ASSUME NEW x \in Indices, NEW y \in Indices, x >= i, y < x  PROVE array'[y] <= array'[x]
        <5>1. array'[x] = array[x] /\ array[y] <= array[x] /\ array[j] <= array[x]
              /\ array[k] <= array[x]
          BY <1>2, <1>5, <1>n, <2>3, <3>2, <3>3, <4>1, SMTT(30) DEF Settled
        <5> QED
          BY <3>3, <5>1
      <4> QED
        BY <1>n, <4>1 DEF Settled
    <3>5. \A l \in 0..j : array'[l] <= array'[k]
      BY <1>2, <1>n, <2>3, <2>4, <3>2, <3>3, SMTT(30)
    <3>6. Common'
      BY <1>n, <2>2, <3>3, CommonStep
    <3> QED
      BY <1>5, <1>n, <2>1, <3>2, <3>4, <3>5, <3>6 DEF BubbleInv
  <2>5. CASE ~(array[j] > array[j + 1])
    <3>1. array' = array
      BY <2>1, <2>5
    <3>2. Settled(i)' /\ Common'
      BY <1>2, <1>n, <2>2, <3>1, StillStep DEF Settled
    <3>3. \A l \in 0..j : array'[l] <= array'[j + 1]
      BY <1>2, <1>n, <2>3, <2>5, <3>1
    <3> QED
      BY <1>5, <1>n, <2>1, <3>1, <3>2, <3>3, SMTT(30) DEF BubbleInv
  <2> QED
    BY <2>4, <2>5
<1>6. CASE ~(j < i - 1)
  <2>1. array' = array /\ calls' = IF i > 0 THEN <<BubblePass(i - 1, 0)>> ELSE <<>>
    BY <1>3, <1>4, <1>6, OnlyOneMade DEF Bubble, Continue
  <2>2. CASE i > 0
    <3>1. calls' = <<BubblePass(i - 1, 0)>> /\ calls' \in Seq(Call)
      BY <2>1, <2>2 DEF BubblePass, Call
    <3>2. j = i - 1 /\ Settled(i - 1)'
      BY <1>2, <1>6, <1>n, <2>1, <2>2 DEF Settled
    <3> QED
      BY <1>n, <2>1, <2>2, <3>1, <3>2, StillStep DEF BubbleInv
  <2>3. CASE i = 0
    <3>1. calls' = <<>> /\ calls' \in Seq(Call) /\ Settled(0)'
      BY <1>2, <1>n, <2>1, <2>3 DEF Settled
    <3> QED
      BY <1>n, <2>1, <3>1, StillStep DEF BubbleInv
  <2> QED
    BY <2>2, <2>3
<1> QED
  BY <1>5, <1>6, SMTT(30)


(***************************************************************************)
(* insertionSort                                                           *)
(***************************************************************************)

LEMMA SmallestIndex ==
  ASSUME NEW S \in SUBSET Nat, S # {}  PROVE \E m \in S : \A k \in S : m <= k
<1>1. PICK m \in S : \A y \in Nat : <<y, m>> \in OpToRel(<, Nat) => y \notin S
  BY NatLessThanWellFounded, WFMin
<1>2. \A k \in S : ~(k < m)
  BY <1>1 DEF OpToRel
<1> QED
  BY <1>2

LEMMA LargestIndex ==
  ASSUME NEW n \in Nat, NEW S \in SUBSET (0..n), S # {}
  PROVE  \E m \in S : \A k \in S : k <= m
<1> DEFINE T == {j \in 0..n : n - j \in S}
<1>1. T # {} /\ T \in SUBSET Nat
  <2>1. PICK k \in S : TRUE
    OBVIOUS
  <2>2. n - k \in 0..n /\ n - (n - k) = k
    BY <2>1
  <2>3. n - k \in T
    BY <2>1, <2>2
  <2>4. T \in SUBSET Nat
    OBVIOUS
  <2> HIDE DEF T
  <2> QED
    BY <2>3, <2>4
<1>2. PICK j \in T : \A k \in T : j <= k
  BY <1>1, SmallestIndex
<1>3. ASSUME NEW k \in S  PROVE k <= n - j
  <2>1. n - k \in T
    OBVIOUS
  <2> QED
    BY <1>2, <2>1, SMTT(30)
<1> QED
  BY <1>2, <1>3

\* Where InsertElement puts element i.
LEMMA InsertPlace ==
  ASSUME NEW n \in Nat, NEW a \in [0..(n - 1) -> Int], NEW i \in 0..(n - 1)
  PROVE  \E j \in 0..i :
           /\ j = 0 \/ a[j - 1] <= a[i]
           /\ \A k \in (j + 1)..i : a[k - 1] > a[i]
<1> DEFINE S == {j \in 0..i : j = 0 \/ a[j - 1] <= a[i]}
<1>1. S \in SUBSET (0..i) /\ 0 \in S /\ i \in Nat
  OBVIOUS
<1>2. PICK j \in S : \A k \in S : k <= j
  BY <1>1, LargestIndex
<1>3. ASSUME NEW k \in (j + 1)..i  PROVE a[k - 1] > a[i]
  <2>1. k \notin S /\ k \in 1..i /\ k - 1 \in 0..(n - 1)
    BY <1>1, <1>2
  <2> QED
    BY <2>1
<1> QED
  BY <1>2, <1>3

LEMMA ShiftPermutes ==
  ASSUME NEW n \in Nat, NEW i \in 0..(n - 1), NEW j \in 0..i, NEW h \in [0..(n - 1) -> 0..(n - 1)],
         \A k \in 0..(n - 1) : h[k] = IF k = j THEN i ELSE IF j < k /\ k <= i THEN k - 1 ELSE k
  PROVE  Permutes(h, n)
<1>1. ASSUME NEW k \in 0..(n - 1), NEW l \in 0..(n - 1), h[k] = h[l]  PROVE k = l
  <2>1. /\ h[k] = IF k = j THEN i ELSE IF j < k /\ k <= i THEN k - 1 ELSE k
        /\ h[l] = IF l = j THEN i ELSE IF j < l /\ l <= i THEN l - 1 ELSE l
    OBVIOUS
  <2>2. PICK x : x = h[k]
    OBVIOUS
  <2>3. /\ x = IF k = j THEN i ELSE IF j < k /\ k <= i THEN k - 1 ELSE k
        /\ x = IF l = j THEN i ELSE IF j < l /\ l <= i THEN l - 1 ELSE l
    BY <1>1, <2>1, <2>2
  <2>4. CASE k = j
    BY <2>3, <2>4
  <2>5. CASE k # j /\ l = j
    BY <2>3, <2>5
  <2>6. CASE k # j /\ l # j
    BY <2>3, <2>6
  <2> QED
    BY <2>4, <2>5, <2>6
<1>2. ASSUME NEW m \in 0..(n - 1)  PROVE \E k \in 0..(n - 1) : h[k] = m
  <2>1. PICK k \in 0..(n - 1) : k = IF m = i THEN j ELSE IF j <= m /\ m < i THEN m + 1 ELSE m
    OBVIOUS
  <2>2. h[k] = IF k = j THEN i ELSE IF j < k /\ k <= i THEN k - 1 ELSE k
    OBVIOUS
  <2>3. h[k] = m
    BY <2>1, <2>2
  <2> QED
    BY <2>3
<1> QED
  BY <1>1, <1>2 DEF Permutes

LEMMA InsertKeeps ==
  ASSUME Common, InsertInv, SortNext  PROVE Common' /\ InsertInv'
<1>n. /\ arraySize \in Nat /\ Indices = 0..(arraySize - 1) /\ calls \in Seq(Call)
      /\ array \in [0..(arraySize - 1) -> Int] /\ Len(calls) \in Nat
  BY ArraySize DEF Common
<1>1. calls # <<>>
  BY DEF SortNext, Bubble, InsertElement, MergeSortCall, MergeElement, HeapifyCall,
         ExtractLargest, QuickSortCall, Partition, Calls
<1>2. /\ Tail(calls) \in Seq(Call) /\ Len(Tail(calls)) = Len(calls) - 1 /\ Len(calls) >= 1
      /\ Head(calls) = calls[1] /\ \A k \in 1..(Len(calls) - 1) : Tail(calls)[k] = calls[k + 1]
  BY <1>n, <1>1, TailOf
<1>3. PICK i \in 0..(arraySize - 1) : i = Inserted /\ Len(calls) = arraySize - i
  <2>1. Inserted \in 0..(arraySize - 1) /\ Len(calls) = arraySize - Inserted
    BY <1>n, <1>2 DEF InsertInv, Inserted
  <2> QED
    BY <2>1
<1>4. todo.f = "insert" /\ todo.i = i
  BY <1>2, <1>3 DEF todo, InsertInv, Insert
<1>5. InsertElement
  BY <1>4 DEF SortNext, Bubble, MergeSortCall, MergeElement, HeapifyCall,
              ExtractLargest, QuickSortCall, Partition, Calls
<1>6. /\ calls' = Tail(calls) /\ UNCHANGED <<sortProgram, original>>
  BY <1>2, <1>5, NoneMade DEF InsertElement, Continue
<1>7. PICK j \in 0..i :
        /\ j = 0 \/ array[j - 1] <= array[i]
        /\ \A k \in (j + 1)..i : array[k - 1] > array[i]
        /\ array' = [k \in DOMAIN array |->
                       IF k = j THEN array[i] ELSE IF k \in j..i THEN array[k - 1] ELSE array[k]]
  <2>1. \E j \in 0..i :
           /\ j = 0 \/ array[j - 1] <= array[i]
           /\ \A k \in (j + 1)..i : array[k - 1] > array[i]
    BY <1>n, <1>3, InsertPlace
  <2> QED
    BY <1>4, <1>5, <2>1 DEF InsertElement
<1> DEFINE h == [k \in Indices |-> IF k = j THEN i ELSE IF k \in j..i THEN k - 1 ELSE k]
<1>8. /\ \A k \in Indices : h[k] = IF k = j THEN i ELSE IF j < k /\ k <= i THEN k - 1 ELSE k
      /\ h \in [Indices -> Indices]
  BY <1>n, <1>3
<1> HIDE DEF h
<1>9. /\ array' \in [Indices -> Int]
      /\ \A k \in Indices : array'[k] = IF k = j THEN array[i]
                                       ELSE IF j < k /\ k <= i THEN array[k - 1] ELSE array[k]
  BY <1>n, <1>3, <1>7, SMTT(30)
<1>10. Permutes(h, arraySize)
  BY <1>n, <1>3, <1>8, ShiftPermutes, ZenonT(60)
<1>11. \A k \in Indices : array'[k] = array[h[k]]
  BY <1>n, <1>3, <1>8, <1>9
<1>12. Common'
  BY <1>2, <1>6, <1>9, <1>10, <1>11, MovedStep, CommonStep
<1>13. Inserted' = i + 1 /\ Len(calls') = Len(calls) - 1 /\ arraySize' = arraySize
  BY <1>n, <1>2, <1>3, <1>6 DEF Inserted, arraySize
<1>14. \A k \in 1..Len(calls') : calls'[k] = Insert(Inserted' + k - 1)
  <2>1. ASSUME NEW k \in 1..Len(calls')  PROVE calls'[k] = Insert(Inserted' + k - 1)
    <3>1. PICK l \in 1..Len(calls) : l = k + 1
      BY <1>n, <1>13
    <3>2. calls'[k] = calls[l] /\ calls[l] = Insert(Inserted + l - 1)
      BY <1>n, <1>2, <1>6, <1>13, <3>1 DEF InsertInv
    <3>3. Inserted + l - 1 = Inserted' + k - 1
      BY <1>n, <1>3, <1>13, <3>1
    <3> QED
      BY <3>2, <3>3
  <2> QED
    BY <2>1
<1>15. ASSUME NEW k \in 0..i, NEW l \in 0..i, l < k  PROVE array'[l] <= array'[k]
  <2>1. \A x, y \in 0..(i - 1) : y < x => array[y] <= array[x]
    BY <1>3 DEF InsertInv
  <2>2. /\ array'[k] = IF k = j THEN array[i] ELSE IF j < k THEN array[k - 1] ELSE array[k]
        /\ array'[l] = IF l = j THEN array[i] ELSE IF j < l THEN array[l - 1] ELSE array[l]
    <3>1. k \in Indices /\ k <= i /\ l \in Indices /\ l <= i
      BY <1>n, <1>3
    <3> QED
      BY <1>9, <3>1
  <2>3. CASE k = j
    <3>1. array'[k] = array[i] /\ array'[l] = array[l] /\ array[l] <= array[j - 1]
      BY <1>n, <1>3, <1>15, <2>1, <2>2, <2>3, SMTT(30)
    <3> QED
      BY <1>n, <1>3, <1>7, <1>15, <2>3, <3>1
  <2>4. CASE l = j
    <3>1. array'[l] = array[i] /\ array'[k] = array[k - 1]
      BY <1>15, <2>2, <2>4
    <3>2. array[k - 1] > array[i]
      BY <1>7, <1>15, <2>4
    <3>3. k - 1 \in 0..(arraySize - 1) /\ array[k - 1] \in Int /\ array[i] \in Int
      BY <1>n, <1>3, <1>15, <2>4
    <3> QED
      BY <3>1, <3>2, <3>3
  <2>5. CASE k # j /\ l # j
    <3>1. PICK x \in 0..(i - 1) : x = IF j < k THEN k - 1 ELSE k
      BY <1>15, <2>5
    <3>2. PICK y \in 0..(i - 1) : y = IF j < l THEN l - 1 ELSE l
      BY <1>15, <2>5
    <3>3. array'[k] = array[x] /\ array'[l] = array[y]
      BY <2>2, <2>5, <3>1, <3>2
    <3>4. y < x
      BY <1>15, <2>5, <3>1, <3>2
    <3> QED
      BY <2>1, <3>3, <3>4
  <2> QED
    BY <2>3, <2>4, <2>5
<1> QED
  BY <1>12, <1>13, <1>14, <1>15 DEF InsertInv


(***************************************************************************)
(* heapSort                                                                *)
(***************************************************************************)

LEMMA OneParent ==
  ASSUME NEW p \in Nat, NEW c \in Nat, Child(p, c)
  PROVE  p < c /\ \A q \in Nat : Child(q, c) => q = p
BY DEF Child

LEMMA RootIsTop ==
  ASSUME NEW n \in Nat, NEW m \in 1..n, NEW a \in [0..(n - 1) -> Int],
         \A p, c \in 0..(m - 1) : Child(p, c) => a[c] <= a[p]
  PROVE  \A k \in 0..(m - 1) : a[k] <= a[0]
<1> DEFINE S == {k \in 0..(m - 1) : a[k] > a[0]}
<1>1. SUFFICES ASSUME S # {}  PROVE FALSE
  OBVIOUS
<1>2. PICK k \in S : \A l \in S : k <= l
  <2>1. S \in SUBSET Nat
    OBVIOUS
  <2> HIDE DEF S
  <2> QED
    BY <1>1, <2>1, SmallestIndex
<1>3. k \in 1..(m - 1) /\ a[k] > a[0]
  BY <1>2
<1>4. PICK p \in 0..(k - 1) : Child(p, k)
  <2>1. PICK p \in Int : p = (k - 1) \div 2
    BY <1>3
  <2>2. k - 1 = 2 * p + ((k - 1) % 2) /\ (k - 1) % 2 \in 0..1
    BY <1>3, <2>1
  <2>3. p \in 0..(k - 1) /\ (k = 2 * p + 1 \/ k = 2 * p + 2)
    BY <1>3, <2>2
  <2> QED
    BY <2>3 DEF Child
<1>5. p \in S
  BY <1>3, <1>4
<1> QED
  BY <1>2, <1>4, <1>5

\* What is left after the call in front.
LEMMA HeapRestTail ==
  ASSUME NEW c \in Seq(Call), NEW r \in Nat, NEW m \in Nat, HeapRest(c, r, m), c # <<>>
  PROVE  /\ r > 0 => c[1] = Heapify(m, r - 1) /\ HeapRest(Tail(c), r - 1, m)
         /\ r = 0 => m > 1 /\ c[1] = Extract(m - 1) /\ HeapRest(Tail(c), 0, m - 1)
<1>1. /\ Tail(c) \in Seq(Call) /\ Len(Tail(c)) = Len(c) - 1 /\ Len(c) >= 1 /\ Len(c) \in Nat
      /\ \A k \in 1..(Len(c) - 1) : Tail(c)[k] = c[k + 1]
  BY TailOf
<1>2. CASE r > 0
  <2>1. c[1] = Heapify(m, r - 1)
    BY <1>2 DEF HeapRest
  <2>2. Len(Tail(c)) = (r - 1) + (IF m = 0 THEN 0 ELSE m - 1)
    BY <1>1, <1>2 DEF HeapRest
  <2>3. ASSUME NEW k \in 1..(r - 1)  PROVE Tail(c)[k] = Heapify(m, (r - 1) - k)
    <3>1. PICK l \in 1..r : l = k + 1
      OBVIOUS
    <3>2. c[l] = Heapify(m, r - l) /\ r - l = (r - 1) - k /\ k \in 1..(Len(c) - 1)
      BY <1>1, <1>2, <3>1 DEF HeapRest
    <3> QED
      BY <1>1, <3>1, <3>2
  <2>4. ASSUME NEW k \in r..Len(Tail(c))  PROVE Tail(c)[k] = Extract(m - (k - (r - 1)))
    <3>1. PICK l \in (r + 1)..Len(c) : l = k + 1
      BY <1>1, <1>2
    <3>2. c[l] = Extract(m - (l - r)) /\ l - r = k - (r - 1) /\ k \in 1..(Len(c) - 1)
      BY <1>1, <1>2, <3>1 DEF HeapRest
    <3> QED
      BY <1>1, <3>1, <3>2
  <2> QED
    BY <1>2, <2>1, <2>2, <2>3, <2>4 DEF HeapRest
<1>3. CASE r = 0
  <2>1. m > 1 /\ Len(c) = m - 1
    BY <1>1, <1>3 DEF HeapRest
  <2>2. c[1] = Extract(m - 1)
    BY <1>1, <1>3, <2>1 DEF HeapRest
  <2>3. ASSUME NEW k \in 1..Len(Tail(c))  PROVE Tail(c)[k] = Extract((m - 1) - k)
    <3>1. PICK l \in 1..Len(c) : l = k + 1
      BY <1>1, <1>3
    <3>2. c[l] = Extract(m - l) /\ m - l = (m - 1) - k /\ k \in 1..(Len(c) - 1)
      BY <1>1, <1>3, <3>1 DEF HeapRest
    <3> QED
      BY <1>1, <3>1, <3>2
  <2> QED
    BY <1>1, <1>3, <2>1, <2>2, <2>3 DEF HeapRest
<1> QED
  BY <1>2, <1>3

\* One call of heapify: the entry at i sinks below its larger child, or stays.
LEMMA HeapifySinks ==
  ASSUME Common, HeapifyCall, NEW r \in 0..arraySize, NEW m \in 0..arraySize,
         NEW i \in r..(m - 1), HeapSinking(r, m, i)
  PROVE  Common' /\ HeapInv'
<1>s. /\ r > 0 => m = arraySize
      /\ Settled(m) /\ calls[1] = Heapify(m, i) /\ HeapRest(Tail(calls), r, m) /\ HeapBut(r, m, i)
  BY DEF HeapSinking
<1>n. /\ arraySize \in Nat /\ Indices = 0..(arraySize - 1) /\ calls \in Seq(Call)
      /\ array \in [0..(arraySize - 1) -> Int] /\ i \in 0..(arraySize - 1)
  BY ArraySize DEF Common
<1>1. /\ calls # <<>> /\ todo = calls[1] /\ todo.n = m /\ todo.i = i /\ Tail(calls) \in Seq(Call)
  BY <1>n, <1>s, TailOf DEF HeapifyCall, Calls, todo, Heapify
<1>2. PICK l : /\ l = IF 2 * i + 1 < m /\ array[2 * i + 1] > array[i] THEN 2 * i + 1 ELSE i
  OBVIOUS
<1>3. PICK c : /\ c = IF 2 * i + 2 < m /\ array[2 * i + 2] > array[l] THEN 2 * i + 2 ELSE l
  OBVIOUS
<1>4. /\ c # i => array' = Swapped(i, c) /\ Continue(<<Heapify(m, c)>>)
      /\ c = i => Continue(<<>>) /\ array' = array
  BY <1>1, <1>2, <1>3 DEF HeapifyCall
<1>5. /\ c \in Indices /\ c \in r..(m - 1) /\ (c # i => Child(i, c))
      /\ array[i] <= array[c]
      /\ \A d \in r..(m - 1) : Child(i, d) => array[d] <= array[c]
  <2>1. \A d \in r..(m - 1) : d \in Indices /\ array[d] \in Int
    BY <1>n
  <2>2. /\ l \in r..(m - 1) /\ (l # i => Child(i, l)) /\ array[i] <= array[l]
        /\ 2 * i + 1 \in r..(m - 1) => array[2 * i + 1] <= array[l]
    BY <1>n, <1>2, <2>1, SMTT(30) DEF Child
  <2>3. /\ c \in r..(m - 1) /\ (c # l => Child(i, c)) /\ array[l] <= array[c]
        /\ 2 * i + 2 \in r..(m - 1) => array[2 * i + 2] <= array[c]
    BY <1>n, <1>3, <2>1, <2>2, SMTT(30) DEF Child
  <2>4. ASSUME NEW d \in r..(m - 1), Child(i, d)  PROVE array[d] <= array[c]
    BY <2>1, <2>2, <2>3, <2>4 DEF Child
  <2>5. array[i] <= array[c]
    BY <2>1, <2>2, <2>3
  <2> QED
    BY <2>1, <2>2, <2>3, <2>4, <2>5
<1>a. i \in Nat /\ c \in Nat /\ r \in Nat /\ m \in Nat /\ i \in Indices
  BY <1>n, <1>5
<1>b. c # i => \A q \in Nat : (Child(q, c) => q = i) /\ (Child(c, q) => q # i /\ q # c)
  BY <1>a, <1>5, OneParent
<1>6. CASE c # i
  <2>1. /\ Arranged' /\ array' \in [Indices' -> Int]
        /\ array'[i] = array[c] /\ array'[c] = array[i]
        /\ \A k \in Indices : k # i /\ k # c => array'[k] = array[k]
    <3>1. array' = Swapped(i, c) /\ original' = original
      BY <1>4, <1>6 DEF Continue
    <3> QED
      BY <1>a, <1>5, <3>1, SwapStep
  <2>2. calls' = <<Heapify(m, c)>> \o Tail(calls) /\ UNCHANGED <<sortProgram, original>>
    BY <1>4, <1>6 DEF Continue
  <2>3. /\ calls' \in Seq(Call) /\ calls'[1] = Heapify(m, c) /\ Tail(calls') = Tail(calls)
        /\ calls' # <<>>
    <3>1. Heapify(m, c) \in Call
      BY <1>a DEF Heapify, Call
    <3> QED
      BY <1>1, <2>2, <3>1, OneMade
  <2>4. Settled(m)'
    <3>1. ASSUME NEW x \in Indices, NEW y \in Indices, x >= m, y < x  PROVE array'[y] <= array'[x]
      <4>1. i < x /\ c < x
        BY <1>n, <1>5, <3>1
      <4>2. array'[x] = array[x] /\ array[y] <= array[x] /\ array[i] <= array[x]
            /\ array[c] <= array[x]
        BY <1>a, <1>s, <1>5, <2>1, <3>1, <4>1 DEF Settled
      <4> QED
        BY <2>1, <4>2
    <3>2. Indices' = Indices
      BY <2>2 DEF Indices, arraySize
    <3> QED
      BY <3>1, <3>2 DEF Settled
  <2>5. HeapBut(r, m, c)'
    <3> SUFFICES ASSUME NEW p \in r..(m - 1), NEW d \in r..(m - 1)
                 PROVE  /\ Child(p, d) /\ p # c => array'[d] <= array'[p]
                        /\ Child(p, c) /\ Child(c, d) => array'[d] <= array'[p]
      BY DEF HeapBut, Child
    <3>1. p \in Indices /\ d \in Indices /\ p \in Nat /\ d \in Nat
      BY <1>n
    <3>2. ASSUME Child(p, d), p # c  PROVE array'[d] <= array'[p]
      <4>1. CASE p = i
        BY <1>5, <1>6, <2>1, <3>1, <3>2, <4>1 DEF Child
      <4>2. CASE p # i /\ d = i
        <5>1. array[c] <= array[p]
          BY <1>s, <1>5, <1>6, <3>2, <4>2 DEF HeapBut
        <5> QED
          BY <2>1, <3>1, <3>2, <4>2, <5>1
      <4>3. CASE p # i /\ d # i
        <5>1. d # c
          BY <1>b, <1>6, <3>1, <3>2, <4>3
        <5>2. array[d] <= array[p]
          BY <1>s, <3>2, <4>3 DEF HeapBut
        <5> QED
          BY <2>1, <3>1, <3>2, <4>3, <5>1, <5>2
      <4> QED
        BY <4>1, <4>2, <4>3
    <3>3. ASSUME Child(p, c), Child(c, d)  PROVE array'[d] <= array'[p]
      <4>1. p = i /\ d # i /\ d # c
        BY <1>b, <1>6, <3>1, <3>3
      <4>2. array[d] <= array[c]
        BY <1>s, <1>5, <1>6, <3>3 DEF HeapBut
      <4> QED
        BY <2>1, <3>1, <4>1, <4>2
    <3> QED
      BY <3>2, <3>3
  <2>6. Common' /\ arraySize' = arraySize
    BY <2>1, <2>2, <2>3, CommonStep DEF arraySize
  <2>7. HeapSinking(r, m, c)'
    BY <1>s, <2>3, <2>4, <2>5, <2>6 DEF HeapSinking
  <2> QED
    BY <1>5, <2>6, <2>7 DEF HeapInv
<1>7. CASE c = i
  <2>1. /\ array' = array /\ calls' = Tail(calls) /\ UNCHANGED <<sortProgram, original>>
    BY <1>1, <1>4, <1>7, NoneMade DEF Continue
  <2>2. Common' /\ arraySize' = arraySize /\ Settled(m)'
    BY <1>s, <1>1, <2>1, StillStep DEF arraySize, Settled, Indices
  <2>3. HeapBut(r, m, -1)'
    <3> SUFFICES ASSUME NEW p \in r..(m - 1), NEW d \in r..(m - 1), Child(p, d)
                 PROVE  array[d] <= array[p]
      BY <1>n, <2>1 DEF HeapBut, Child
    <3> QED
      BY <1>s, <1>5, <1>7 DEF HeapBut
  <2>4. HeapWhole(r, m)'
    BY <1>s, <2>1, <2>2, <2>3 DEF HeapWhole
  <2> QED
    BY <2>2, <2>4 DEF HeapInv
<1> QED
  BY <1>6, <1>7

\* The largest entry leaves the heap.
LEMMA LargestLeaves ==
  ASSUME Common, ExtractLargest, NEW m \in 2..arraySize, HeapWhole(0, m),
         calls[1] = Extract(m - 1), HeapRest(Tail(calls), 0, m - 1)
  PROVE  Common' /\ HeapInv'
<1>n. /\ arraySize \in Nat /\ Indices = 0..(arraySize - 1) /\ calls \in Seq(Call)
      /\ array \in [0..(arraySize - 1) -> Int]
  BY ArraySize DEF Common
<1>1. /\ todo = calls[1] /\ todo.i = m - 1 /\ Tail(calls) \in Seq(Call)
  BY <1>n, TailOf DEF ExtractLargest, Calls, todo, Extract
<1>2. PICK l \in Indices : l = m - 1
  BY <1>n
<1>3. /\ array' = Swapped(0, l) /\ calls' = <<Heapify(l, 0)>> \o Tail(calls)
      /\ UNCHANGED <<sortProgram, original>>
  BY <1>1, <1>2 DEF ExtractLargest, Continue
<1>4. /\ Arranged' /\ array' \in [Indices' -> Int]
      /\ array'[0] = array[l] /\ array'[l] = array[0]
      /\ \A k \in Indices : k # 0 /\ k # l => array'[k] = array[k]
  BY <1>n, <1>3, SwapStep
<1>5. /\ calls' \in Seq(Call) /\ calls'[1] = Heapify(l, 0) /\ Tail(calls') = Tail(calls)
      /\ calls' # <<>>
  <2>1. Heapify(l, 0) \in Call
    BY <1>n DEF Heapify, Call
  <2> QED
    BY <1>1, <1>3, <2>1, OneMade
<1>6. \A k \in 0..(m - 1) : array[k] <= array[0]
  <2>1. \A p, c \in 0..(m - 1) : Child(p, c) => array[c] <= array[p]
    BY DEF HeapWhole, HeapBut
  <2>2. m \in 1..arraySize
    BY <1>n
  <2> QED
    BY <1>n, <2>1, <2>2, RootIsTop
<1>7. Settled(l)'
  <2>1. ASSUME NEW x \in Indices, NEW y \in Indices, x >= l, y < x  PROVE array'[y] <= array'[x]
    <3>1. CASE x = l
      BY <1>n, <1>2, <1>4, <1>6, <2>1, <3>1
    <3>2. CASE x > l
      <4>1. array'[x] = array[x] /\ array[y] <= array[x] /\ array[0] <= array[x]
            /\ array[l] <= array[x]
        BY <1>n, <1>2, <1>4, <2>1, <3>2, SMTT(30) DEF HeapWhole, Settled
      <4> QED
        BY <1>4, <4>1
    <3> QED
      BY <1>n, <2>1, <3>1, <3>2
  <2>2. Indices' = Indices
    BY <1>3 DEF Indices, arraySize
  <2> QED
    BY <2>1, <2>2 DEF Settled
<1>8. HeapBut(0, l, 0)'
  <2> SUFFICES ASSUME NEW p \in 0..(l - 1), NEW d \in 0..(l - 1)
               PROVE  /\ Child(p, d) /\ p # 0 => array'[d] <= array'[p]
                      /\ ~Child(p, 0)
    BY DEF HeapBut, Child
  <2>1. ASSUME Child(p, d), p # 0  PROVE array'[d] <= array'[p]
    <3>1. array[d] <= array[p] /\ d # 0
      BY <1>2, <2>1 DEF HeapWhole, HeapBut, Child
    <3> QED
      BY <1>n, <1>2, <1>4, <2>1, <3>1
  <2> QED
    BY <2>1 DEF Child
<1>9. Common' /\ arraySize' = arraySize
  BY <1>3, <1>4, <1>5, CommonStep DEF arraySize
<1>10. l \in 0..arraySize /\ 0 \in 0..arraySize /\ 0 \in 0..(l - 1) /\ HeapRest(Tail(calls'), 0, l)
  <2>1. HeapRest(Tail(calls'), 0, l)
    BY <1>2, <1>5
  <2> QED
    BY <1>n, <1>2, <2>1
<1>11. HeapSinking(0, l, 0)'
  BY <1>5, <1>7, <1>8, <1>9, <1>10 DEF HeapSinking
<1> QED
  BY <1>9, <1>10, <1>11 DEF HeapInv

LEMMA HeapKeeps ==
  ASSUME Common, HeapInv, SortNext  PROVE Common' /\ HeapInv'
<1>n. arraySize \in Nat /\ Indices = 0..(arraySize - 1) /\ calls \in Seq(Call)
  BY ArraySize DEF Common
<1>1. calls # <<>> /\ todo = calls[1]
  <2>1. calls # <<>>
    BY DEF SortNext, Bubble, InsertElement, MergeSortCall, MergeElement, HeapifyCall,
           ExtractLargest, QuickSortCall, Partition, Calls
  <2> QED
    BY <1>n, <2>1, TailOf DEF todo
<1>2. PICK r \in 0..arraySize, m \in 0..arraySize :
        HeapWhole(r, m) \/ \E i \in r..(m - 1) : HeapSinking(r, m, i)
  BY DEF HeapInv
<1>h. ASSUME NEW i, calls[1] = Heapify(m, i)  PROVE HeapifyCall
  BY <1>1, <1>h DEF SortNext, Bubble, InsertElement, MergeSortCall, MergeElement,
       ExtractLargest, QuickSortCall, Partition, Calls, Heapify
<1>3. CASE HeapWhole(r, m) /\ r > 0
  <2>1. calls[1] = Heapify(m, r - 1) /\ HeapRest(Tail(calls), r - 1, m)
    BY <1>n, <1>1, <1>3, HeapRestTail DEF HeapWhole
  <2>2. PICK s \in 0..arraySize : s = r - 1
    BY <1>n, <1>3
  <2>3. HeapBut(s, m, s)
    BY <1>3, <2>2 DEF HeapWhole, HeapBut, Child
  <2>4. s \in s..(m - 1) /\ m = arraySize
    BY <1>n, <1>3, <2>2 DEF HeapWhole
  <2>5. HeapSinking(s, m, s)
    BY <1>1, <1>3, <2>1, <2>2, <2>3, <2>4 DEF HeapWhole, HeapSinking
  <2> QED
    BY <1>h, <2>1, <2>2, <2>4, <2>5, HeapifySinks
<1>4. CASE HeapWhole(r, m) /\ r = 0
  <2>1. m > 1 /\ calls[1] = Extract(m - 1) /\ HeapRest(Tail(calls), 0, m - 1)
    BY <1>n, <1>1, <1>4, HeapRestTail DEF HeapWhole
  <2>2. ExtractLargest
    BY <1>1, <2>1 DEF SortNext, Bubble, InsertElement, MergeSortCall, MergeElement,
       HeapifyCall, QuickSortCall, Partition, Calls, Extract
  <2>3. m \in 2..arraySize
    BY <1>n, <2>1
  <2> QED
    BY <1>4, <2>1, <2>2, <2>3, LargestLeaves
<1>5. ASSUME NEW i \in r..(m - 1), HeapSinking(r, m, i)  PROVE Common' /\ HeapInv'
  BY <1>h, <1>5, HeapifySinks DEF HeapSinking
<1> QED
  BY <1>2, <1>3, <1>4, <1>5


(***************************************************************************)
(* mergesort                                                               *)
(***************************************************************************)

LEMMA RangeCalls ==
  ASSUME NEW c \in Call
  PROVE  /\ c.f \in {"merge_sort", "merge", "quick_sort", "partition"} => c.st \in Int /\ c.end \in Int
         /\ c.f = "merge" => /\ c.mid \in Int /\ c.i \in Int /\ c.j \in Int /\ c.arr \in Seq(Int)
                             /\ c = [f |-> "merge", st |-> c.st, mid |-> c.mid, end |-> c.end,
                                     i |-> c.i, j |-> c.j, arr |-> c.arr]
         /\ c.f = "partition" => c.left \in Int /\ c.right \in Int /\ c.pivot \in Int
BY DEF Call

LEMMA MergeTypes ==
  ASSUME Common, MergeInv, NEW k \in 1..Len(calls)
  PROVE  /\ calls[k].f \in {"merge_sort", "merge"} /\ lo(k) \in Int /\ hi(k) \in Int
         /\ calls[k].f = "merge" =>
              calls[k].mid \in Int /\ lo(k) < calls[k].mid /\ calls[k].mid <= hi(k)
BY RangeCalls DEF Common, MergeInv, MergeCallOK, lo, hi

\* The call in front has put its places in order and is taken away.
LEMMA ReadyNext ==
  ASSUME Common, MergeInv, calls # <<>>, calls' = Tail(calls), original' = original,
         lo(1) <= hi(1),
         \A x \in Indices : x < lo(1) \/ hi(1) < x => array'[x] = array[x],
         \A x, y \in Indices : lo(1) <= x /\ x < y /\ y <= hi(1) => array'[x] <= array'[y],
         NEW a \in Int, NEW b \in Int, NEW l \in 2..(Len(calls) + 1), Ready(a, b, l),
         \A k \in 2..(l - 1) : Apart(k, a, b) \/ Within(k, a, b)
  PROVE  Ready(a, b, l - 1)'
<1>n. /\ calls \in Seq(Call) /\ Len(calls) \in Nat /\ Len(calls) >= 1 /\ Indices' = Indices
      /\ \A k \in 1..(Len(calls) - 1) : calls'[k] = calls[k + 1]
  BY TailOf DEF Common, Indices, arraySize
<1>t. \A k \in 1..Len(calls) : lo(k) \in Int /\ hi(k) \in Int
  BY MergeTypes
<1>1. \A k \in 1..(Len(calls) - 1) : lo(k)' = lo(k + 1) /\ hi(k)' = hi(k + 1)
  BY <1>n DEF lo, hi
<1>2. ASSUME NEW k \in 2..(l - 1), lo(k) = a, hi(k) = b  PROVE Ready(a, b, l - 1)'
  <2>1. PICK m \in 1..(l - 2) : k = m + 1
    BY <1>n
  <2>2. lo(m)' = a /\ hi(m)' = b
    BY <1>1, <1>2, <1>n, <2>1
  <2> QED
    BY <1>n, <2>1, <2>2 DEF Ready
<1>3. ASSUME \A x, y \in Indices : a <= x /\ x < y /\ y <= b => array'[x] <= array'[y],
             \A k \in 2..(l - 1) : Apart(k, a, b)
      PROVE  Ready(a, b, l - 1)'
  <2>1. InOrder(a, b)'
    BY <1>3, <1>n DEF InOrder
  <2>2. ASSUME NEW m \in 1..((l - 1) - 1)  PROVE Apart(m, a, b)'
    <3>1. PICK k \in 2..(l - 1) : k = m + 1
      BY <1>n
    <3>2. Apart(k, a, b) /\ lo(m)' = lo(k) /\ hi(m)' = hi(k)
      BY <1>1, <1>3, <1>n, <3>1
    <3> QED
      BY <3>2 DEF Apart
  <2> QED
    BY <2>1, <2>2 DEF Ready
<1>4. CASE lo(1) = a /\ hi(1) = b
  <2>1. ASSUME NEW k \in 2..(l - 1)  PROVE Apart(k, a, b) \/ (lo(k) = a /\ hi(k) = b)
    <3>1. Nested(1, k) /\ (Apart(k, a, b) \/ Within(k, a, b)) /\ k \in 1..Len(calls)
      BY <1>n DEF MergeInv
    <3>2. CASE Apart(1, lo(k), hi(k))
      BY <1>4, <1>n, <1>t, <3>1, <3>2 DEF Apart
    <3>3. CASE /\ calls[k].f = "merge"
               /\ Within(1, lo(k), calls[k].mid - 1) \/ Within(1, calls[k].mid, hi(k))
      <4>1. /\ calls[k].mid \in Int /\ lo(k) < calls[k].mid /\ calls[k].mid <= hi(k)
            /\ lo(1) \in Int /\ hi(1) \in Int /\ lo(k) \in Int /\ hi(k) \in Int
        BY <1>n, <1>t, <3>1, <3>3, MergeTypes
      <4> QED
        BY <1>4, <3>1, <3>3, <4>1 DEF Apart, Within
    <3> QED
      BY <3>1, <3>2, <3>3 DEF Nested
  <2>2. CASE \E k \in 2..(l - 1) : lo(k) = a /\ hi(k) = b
    BY <1>2, <2>2
  <2>3. CASE ~ \E k \in 2..(l - 1) : lo(k) = a /\ hi(k) = b
    BY <1>3, <1>4, <2>1, <2>3
  <2> QED
    BY <2>2, <2>3
<1>5. CASE InOrder(a, b) /\ \A k \in 1..(l - 1) : Apart(k, a, b)
  <2>1. Apart(1, a, b) /\ lo(1) \in Int /\ hi(1) \in Int
    BY <1>5, <1>n, <1>t
  <2>2. ASSUME NEW x \in Indices, NEW y \in Indices, a <= x, x < y, y <= b
        PROVE  array'[x] <= array'[y]
    <3>1. x \in Int /\ y \in Int
      BY ArraySize
    <3>2. array'[x] = array[x] /\ array'[y] = array[y]
      BY <2>1, <2>2, <3>1 DEF Apart
    <3> QED
      BY <1>5, <2>2, <3>2 DEF InOrder
  <2> QED
    BY <1>3, <1>5, <2>2
<1>6. ASSUME NEW k \in 1..(l - 1), lo(k) = a, hi(k) = b  PROVE Ready(a, b, l - 1)'
  BY <1>2, <1>4, <1>6
<1> QED
  BY <1>5, <1>6 DEF Ready

LEMMA FrontDone ==
  ASSUME Common, MergeInv, calls # <<>>, calls' = Tail(calls), original' = original,
         lo(1) <= hi(1),
         \A x \in Indices : x < lo(1) \/ hi(1) < x => array'[x] = array[x],
         \A x, y \in Indices : lo(1) <= x /\ x < y /\ y <= hi(1) => array'[x] <= array'[y]
  PROVE  MergeInv'
<1>n. /\ calls \in Seq(Call) /\ Len(calls) \in Nat /\ Len(calls) >= 1 /\ Indices' = Indices
      /\ Len(calls') = Len(calls) - 1 /\ arraySize' = arraySize /\ arraySize \in Nat
      /\ \A k \in 1..(Len(calls) - 1) : calls'[k] = calls[k + 1]
  BY TailOf, ArraySize DEF Common, Indices, arraySize
<1>t. \A k \in 1..Len(calls) : lo(k) \in Int /\ hi(k) \in Int
  BY MergeTypes
<1>1. ASSUME NEW k \in 1..Len(calls')  PROVE MergeCallOK(k)'
  <2>1. PICK l \in 2..Len(calls) : l = k + 1
    BY <1>n
  <2>2. PICK c \in Call : c = calls[l]
    BY <1>n
  <2>3. MergeCallOK(l) /\ calls'[k] = c /\ lo(l) = c.st /\ hi(l) = c.end /\ c.st <= c.end
    <3>1. MergeCallOK(l) /\ calls'[k] = c /\ lo(l) = c.st /\ hi(l) = c.end
      BY <1>n, <2>1, <2>2 DEF MergeInv, lo, hi
    <3> QED
      BY <1>n, <3>1 DEF MergeCallOK
  <2>4. ASSUME c.f = "merge"
        PROVE  /\ Ready(c.st, c.mid - 1, k)' /\ Ready(c.mid, c.end, k)'
               /\ \E q \in [1..Len(c.arr) -> Indices'] : Merging(c, q)'
               /\ c = Merge(c.st, c.mid, c.end)
    <3>1. /\ c.mid \in Int /\ c.st \in Int /\ c.end \in Int
          /\ c.st < c.mid /\ c.mid <= c.end
      BY <1>n, <2>2, <2>3, <2>4, MergeTypes
    <3>2. PICK a \in Int, b \in Int, x \in Int, y \in Int :
            a = c.mid - 1 /\ b = c.mid /\ x = c.st /\ y = c.end
      BY <3>1
    <3>3. ASSUME NEW m \in 2..(l - 1)
          PROVE  /\ Apart(m, x, a) \/ Within(m, x, a)
                 /\ Apart(m, b, y) \/ Within(m, b, y)
      <4>1. Nested(m, l) /\ lo(m) \in Int /\ hi(m) \in Int /\ lo(m) <= hi(m)
        <5>1. m \in 1..Len(calls) /\ l \in 1..Len(calls) /\ m < l /\ Len(calls) # 1
          BY <1>n
        <5>2. Nested(m, l) /\ MergeCallOK(m)
          BY <5>1 DEF MergeInv
        <5> QED
          BY <1>t, <5>1, <5>2 DEF MergeCallOK
      <4>2. x <= a /\ a + 1 = b /\ b <= y
        BY <3>1, <3>2
      <4>3. Apart(m, x, y) \/ Within(m, x, a) \/ Within(m, b, y)
        BY <2>2, <2>3, <3>2, <4>1 DEF Nested
      <4> QED
        BY <4>1, <4>2, <4>3 DEF Apart, Within
    <3>4. Ready(x, a, l) /\ Ready(b, y, l)
      BY <2>2, <2>3, <2>4, <3>2 DEF MergeCallOK
    <3>5. l \in 2..(Len(calls) + 1)
      BY <1>n
    <3>6. Ready(x, a, l - 1)'
      BY <3>3, <3>4, <3>5, ReadyNext
    <3>7. Ready(b, y, l - 1)'
      BY <3>3, <3>4, <3>5, ReadyNext
    <3>8. Ready(x, a, k)' /\ Ready(b, y, k)'
      BY <2>1, <3>6, <3>7
    <3>9. c = Merge(c.st, c.mid, c.end)
      BY <2>1, <2>2, <2>3, <2>4 DEF MergeCallOK
    <3>10. /\ c.arr = <<>> /\ c.i = c.st /\ c.j = c.mid /\ Len(c.arr) = 0
      BY <3>9 DEF Merge
    <3>11. Merging(c, <<>>)' /\ <<>> \in [1..Len(c.arr) -> Indices']
      BY <3>1, <3>10 DEF Merging, Taken
    <3> QED
      BY <3>2, <3>8, <3>9, <3>11
  <2>5. lo(k)' = c.st /\ hi(k)' = c.end
    BY <2>3 DEF lo, hi
  <2>6. c.f \in {"merge_sort", "merge"} /\ 0 <= c.st /\ c.end < arraySize
    BY <1>n, <2>2, <2>3 DEF MergeCallOK
  <2>7. calls'[k].f = "merge" =>
         /\ lo(k)' < calls'[k].mid /\ calls'[k].mid <= hi(k)'
         /\ Ready(lo(k), calls[k].mid - 1, k)' /\ Ready(calls[k].mid, hi(k), k)'
         /\ (\E q \in [1..Len(calls[k].arr) -> Indices] : Merging(calls[k], q))'
         /\ calls'[k] = Merge(lo(k), calls[k].mid, hi(k))'
    <3> SUFFICES ASSUME c.f = "merge" PROVE
         /\ c.st < c.mid /\ c.mid <= c.end
         /\ Ready(c.st, c.mid - 1, k)' /\ Ready(c.mid, c.end, k)'
         /\ \E q \in [1..Len(c.arr) -> Indices'] : Merging(c, q)'
         /\ c = Merge(c.st, c.mid, c.end)
      BY <2>3, <2>5
    <3>1. c.st < c.mid /\ c.mid <= c.end
      BY <1>n, <2>2, <2>3, MergeTypes
    <3> QED
      BY <2>4, <3>1
  <2> QED
    BY <1>n, <2>3, <2>5, <2>6, <2>7 DEF MergeCallOK
<1>2. ASSUME NEW k \in 1..Len(calls'), NEW l \in 1..Len(calls'), k < l  PROVE Nested(k, l)'
  <2>1. PICK m \in 1..Len(calls), o \in 1..Len(calls) : m = k + 1 /\ o = l + 1
    BY <1>n
  <2>2. Nested(m, o) /\ calls'[k] = calls[m] /\ calls'[l] = calls[o]
    BY <1>n, <1>2, <2>1 DEF MergeInv
  <2> QED
    BY <2>2 DEF Nested, Apart, Within, lo, hi
<1>3. Ready(0, arraySize - 1, Len(calls) + 1)'
  <2>1. PICK b \in Int : b = arraySize - 1
    BY <1>n
  <2>2. ASSUME NEW k \in 2..Len(calls)  PROVE Within(k, 0, b)
    BY <1>n, <1>t, <2>1 DEF MergeInv, MergeCallOK, Within
  <2>3. PICK l \in 2..(Len(calls) + 1) : l = Len(calls) + 1
    BY <1>n
  <2>4. Ready(0, b, l)
    BY <2>1, <2>3 DEF MergeInv
  <2>5. Ready(0, b, l - 1)'
    BY <2>2, <2>3, <2>4, <1>n, ReadyNext
  <2>6. l - 1 = Len(calls') + 1 /\ arraySize' - 1 = b
    BY <1>n, <2>1, <2>3
  <2> QED
    BY <2>5, <2>6
<1> QED
  BY <1>1, <1>2, <1>3 DEF MergeInv

\* sort_helper replaces its call by those of its two halves and their merge.
LEMMA SplitKeeps ==
  ASSUME Common, MergeInv, calls # <<>>, UNCHANGED <<original, array>>,
         NEW u \in Int, NEW v \in Int, NEW w \in Int, lo(1) = u, hi(1) = w, u <= v, v < w,
         calls' = <<MergeSort(u, v), MergeSort(v + 1, w), Merge(u, v + 1, w)>> \o Tail(calls)
  PROVE  calls' \in Seq(Call) /\ MergeInv'
<1> DEFINE x == MergeSort(u, v)
           y == MergeSort(v + 1, w)
           z == Merge(u, v + 1, w)
<1>c. x \in Call /\ y \in Call /\ z \in Call
  <2>1. <<>> \in Seq(Int)
    OBVIOUS
  <2>2. x \in [f : {"merge_sort", "quick_sort"}, st : Int, end : Int]
    BY DEF MergeSort
  <2>3. y \in [f : {"merge_sort", "quick_sort"}, st : Int, end : Int]
    BY DEF MergeSort
  <2>4. z \in [f : {"merge"}, st : Int, mid : Int, end : Int, i : Int, j : Int, arr : Seq(Int)]
    BY <2>1 DEF Merge
  <2> HIDE DEF x, y, z
  <2> QED
    BY <2>2, <2>3, <2>4 DEF Call
<1>f. /\ x.f = "merge_sort" /\ x.st = u /\ x.end = v
      /\ y.f = "merge_sort" /\ y.st = v + 1 /\ y.end = w
      /\ z.f = "merge" /\ z.st = u /\ z.mid = v + 1 /\ z.end = w
      /\ z.i = u /\ z.j = v + 1 /\ z.arr = <<>>
  BY DEF MergeSort, Merge
<1>z. z = Merge(z.st, z.mid, z.end)
  BY <1>f
<1>e. calls' = <<x, y, z>> \o Tail(calls)
  OBVIOUS
<1> HIDE DEF x, y, z
<1>n. /\ calls \in Seq(Call) /\ Len(calls) \in Nat /\ Len(calls) >= 1 /\ Indices' = Indices
      /\ Tail(calls) \in Seq(Call) /\ Len(Tail(calls)) = Len(calls) - 1
      /\ \A k \in 1..(Len(calls) - 1) : Tail(calls)[k] = calls[k + 1]
      /\ arraySize' = arraySize /\ arraySize \in Nat
  BY TailOf, ArraySize DEF Common, Indices, arraySize
<1>1. /\ calls' \in Seq(Call) /\ Len(calls') = Len(calls) + 2
      /\ calls'[1] = x /\ calls'[2] = y /\ calls'[3] = z
      /\ \A k \in 1..(Len(calls) - 1) : calls'[k + 3] = Tail(calls)[k]
  BY <1>c, <1>e, <1>n, ThreeMade
<1>2. ASSUME NEW k \in 2..Len(calls)  PROVE calls'[k + 2] = calls[k]
  <2>1. PICK m \in 1..(Len(calls) - 1) : k = m + 1
    BY <1>n
  <2>2. calls'[m + 3] = calls[m + 1] /\ m + 3 = k + 2
    BY <1>n, <1>1, <2>1
  <2> QED
    BY <2>1, <2>2
<1>3. \A k \in 2..Len(calls) : lo(k + 2)' = lo(k) /\ hi(k + 2)' = hi(k)
  BY <1>2 DEF lo, hi
<1>4. /\ lo(1)' = u /\ hi(1)' = v /\ lo(2)' = v + 1 /\ hi(2)' = w /\ lo(3)' = u /\ hi(3)' = w
  BY <1>1, <1>f DEF lo, hi
<1>t. \A k \in 1..Len(calls) : lo(k) \in Int /\ hi(k) \in Int
  BY MergeTypes
<1>5. ASSUME NEW l \in 2..(Len(calls) + 1), NEW a \in Int, NEW b \in Int, Ready(a, b, l)
      PROVE  Ready(a, b, l + 2)'
  <2>1. CASE lo(1) = a /\ hi(1) = b
    <3>1. lo(3)' = a /\ hi(3)' = b /\ 3 \in 1..((l + 2) - 1)
      BY <1>4, <2>1
    <3> QED
      BY <3>1 DEF Ready
  <2>2. ASSUME NEW k \in 2..(l - 1), lo(k) = a, hi(k) = b  PROVE Ready(a, b, l + 2)'
    <3>1. PICK m \in 1..((l + 2) - 1) : m = k + 2
      OBVIOUS
    <3>2. lo(m)' = a /\ hi(m)' = b
      BY <1>3, <1>n, <2>2, <3>1
    <3> QED
      BY <3>2 DEF Ready
  <2>3. CASE InOrder(a, b) /\ \A k \in 1..(l - 1) : Apart(k, a, b)
    <3>1. InOrder(a, b)'
      BY <1>n, <2>3 DEF InOrder
    <3>2. ASSUME NEW k \in 1..((l + 2) - 1)  PROVE Apart(k, a, b)'
      <4>1. Apart(1, a, b)
        BY <2>3
      <4>2. CASE k \in {1, 2, 3}
        BY <1>4, <4>1, <4>2 DEF Apart
      <4>3. CASE k > 3
        <5>1. PICK m \in 2..(l - 1) : k = m + 2
          BY <4>3
        <5>2. Apart(m, a, b) /\ lo(k)' = lo(m) /\ hi(k)' = hi(m)
          BY <1>3, <1>n, <2>3, <5>1
        <5> QED
          BY <5>2 DEF Apart
      <4> QED
        BY <4>2, <4>3
    <3>3. \A k \in 1..((l + 2) - 1) : Apart(k, a, b)'
      BY <3>2
    <3> QED
      BY <3>1, <3>3 DEF Ready
  <2>4. ASSUME NEW k \in 1..(l - 1), lo(k) = a, hi(k) = b  PROVE Ready(a, b, l + 2)'
    BY <2>1, <2>2, <2>4
  <2> QED
    BY <1>5, <2>3, <2>4 DEF Ready
<1>u. 0 <= u /\ w < arraySize
  BY <1>n DEF MergeInv, MergeCallOK
<1>6. MergeCallOK(1)' /\ MergeCallOK(2)'
  BY <1>n, <1>1, <1>4, <1>f, <1>u DEF MergeCallOK
<1>7. MergeCallOK(3)'
  <2>1. PICK p \in Int : p = v + 1
    OBVIOUS
  <2>2. Ready(u, p - 1, 3)' /\ Ready(p, w, 3)'
    <3>1. lo(1)' = u /\ hi(1)' = p - 1 /\ lo(2)' = p /\ hi(2)' = w
          /\ 1 \in 1..(3 - 1) /\ 2 \in 1..(3 - 1)
      BY <1>4, <2>1
    <3> QED
      BY <3>1 DEF Ready
  <2>3. Merging(z, <<>>)' /\ <<>> \in [1..Len(z.arr) -> Indices']
    BY <1>f DEF Merging, Taken
  <2>4. /\ calls'[3] = z /\ z.f = "merge" /\ z.mid = p /\ lo(3)' = u /\ hi(3)' = w /\ z = Merge(u, p, w)
    BY <1>1, <1>4, <1>f, <1>z, <2>1
  <2> HIDE DEF z
  <2>5. (\E q \in [1..Len(calls[3].arr) -> Indices] : Merging(calls[3], q))'
    BY <2>3, <2>4
  <2>6. u < p /\ p <= w /\ u <= w
    BY <2>1
  <2>7. /\ (Ready(lo(3), calls[3].mid - 1, 3) /\ Ready(calls[3].mid, hi(3), 3))'
        /\ lo(3)' < calls'[3].mid /\ calls'[3].mid <= hi(3)'
        /\ calls'[3] = Merge(lo(3), calls[3].mid, hi(3))'
    BY <2>2, <2>4, <2>6
  <2>8. calls'[3].f = "merge" /\ 0 <= lo(3)' /\ hi(3)' < arraySize' /\ lo(3)' <= hi(3)'
    BY <1>u, <1>n, <2>4, <2>6
  <2> QED
    BY <2>5, <2>7, <2>8 DEF MergeCallOK
<1>8. ASSUME NEW l \in 2..Len(calls), NEW k, k = l + 2  PROVE MergeCallOK(k)'
  <2>2. PICK c \in Call : c = calls[l]
    BY <1>n
  <2>3. /\ MergeCallOK(l) /\ calls'[k] = c /\ lo(l) = c.st /\ hi(l) = c.end /\ c.st <= c.end
        /\ lo(k)' = c.st /\ hi(k)' = c.end
    <3>1. MergeCallOK(l) /\ lo(l) = c.st /\ hi(l) = c.end
      BY <1>n, <2>2 DEF MergeInv, lo, hi
    <3>2. c.st <= c.end
      <4>1. lo(l) <= hi(l) \/ Len(calls) = 1
        BY <3>1 DEF MergeCallOK
      <4>2. Len(calls) # 1
        BY <1>n, SMTT(30)
      <4> QED
        BY <3>1, <4>1, <4>2
    <3>3. calls'[k] = c
      BY <1>2, <1>8, <2>2
    <3> QED
      BY <3>1, <3>2, <3>3 DEF lo, hi
  <2>4. ASSUME c.f = "merge"
        PROVE  /\ Ready(c.st, c.mid - 1, k)' /\ Ready(c.mid, c.end, k)'
               /\ \E q \in [1..Len(c.arr) -> Indices'] : Merging(c, q)'
               /\ c = Merge(c.st, c.mid, c.end) /\ c.st < c.mid /\ c.mid <= c.end
    <3>1. /\ c.mid \in Int /\ c.st \in Int /\ c.end \in Int
          /\ c.st < c.mid /\ c.mid <= c.end
      BY <1>n, <2>2, <2>3, <2>4, MergeTypes, SMTT(30)
    <3>2. PICK a \in Int, b \in Int : a = c.mid - 1 /\ b = c.mid
      BY <3>1
    <3>3. Ready(c.st, a, l) /\ Ready(b, c.end, l)
      BY <2>2, <2>3, <2>4, <3>2 DEF MergeCallOK
    <3>4. Ready(c.st, a, l + 2)' /\ Ready(b, c.end, l + 2)'
      <4>1. l \in 2..(Len(calls) + 1)
        BY <1>n
      <4> QED
        BY <1>5, <3>1, <3>2, <3>3, <4>1
    <3>5. PICK q \in [1..Len(c.arr) -> Indices] : Merging(c, q)
      BY <2>2, <2>3, <2>4 DEF MergeCallOK
    <3>6. Merging(c, q)'
      BY <1>n, <3>5 DEF Merging
    <3>7. c = Merge(c.st, c.mid, c.end)
      BY <2>2, <2>3, <2>4 DEF MergeCallOK
    <3> QED
      BY <1>n, <1>8, <3>1, <3>2, <3>4, <3>5, <3>6, <3>7
  <2>5. c.f \in {"merge_sort", "merge"} /\ 0 <= c.st /\ c.end < arraySize
    BY <1>n, <2>2, <2>3 DEF MergeCallOK
  <2>6. calls'[k].f = "merge" =>
         /\ lo(k)' < calls'[k].mid /\ calls'[k].mid <= hi(k)'
         /\ Ready(lo(k), calls[k].mid - 1, k)' /\ Ready(calls[k].mid, hi(k), k)'
         /\ (\E q \in [1..Len(calls[k].arr) -> Indices] : Merging(calls[k], q))'
         /\ calls'[k] = Merge(lo(k), calls[k].mid, hi(k))'
    BY <2>3, <2>4
  <2> QED
    BY <1>n, <2>3, <2>5, <2>6 DEF MergeCallOK
<1>9. ASSUME NEW k \in 1..Len(calls'), NEW l \in 1..Len(calls'), k < l  PROVE Nested(k, l)'
  <2>1. CASE l \in {2, 3}
    BY <1>1, <1>4, <1>9, <1>f, <2>1 DEF Nested, Apart, Within
  <2>2. CASE l > 3
    <3>1. PICK n \in 2..Len(calls) : l = n + 2
      BY <1>1, <1>n, <2>2
    <3>2. calls'[l] = calls[n] /\ lo(l)' = lo(n) /\ hi(l)' = hi(n)
      BY <1>2, <1>3, <3>1
    <3>3. CASE k \in {1, 2, 3}
      <4>1. Nested(1, n)
        BY <1>n DEF MergeInv
      <4>2. u <= lo(k)' /\ hi(k)' <= w /\ lo(k)' \in Int /\ hi(k)' \in Int
        BY <1>4, <3>3
      <4>3. /\ lo(n) \in Int /\ hi(n) \in Int
            /\ calls[n].f = "merge" => calls[n].mid \in Int
        BY <1>n, MergeTypes
      <4>4. CASE Apart(1, lo(n), hi(n))
        BY <3>2, <4>2, <4>3, <4>4 DEF Nested, Apart
      <4>5. CASE calls[n].f = "merge" /\ (Within(1, lo(n), calls[n].mid - 1)
                                          \/ Within(1, calls[n].mid, hi(n)))
        <5>1. CASE Within(1, lo(n), calls[n].mid - 1)
          <6>1. lo(n) <= lo(k)' /\ hi(k)' <= calls[n].mid - 1
            <7>1. PICK e \in Int : e = calls[n].mid - 1
              BY <4>3, <4>5
            <7>2. lo(n) <= u /\ w <= e
              BY <5>1, <7>1 DEF Within
            <7>3. PICK p \in Int, q \in Int : p = lo(k)' /\ q = hi(k)'
              BY <4>2
            <7>4. lo(n) <= p /\ q <= e
              BY <4>2, <4>3, <7>2, <7>3, SMTT(30)
            <7> QED
              BY <7>1, <7>3, <7>4
          <6> QED
            BY <3>2, <4>5, <6>1 DEF Nested, Within
        <5>2. CASE Within(1, calls[n].mid, hi(n))
          <6>1. calls[n].mid <= lo(k)' /\ hi(k)' <= hi(n)
            <7>1. calls[n].mid <= u /\ w <= hi(n)
              BY <5>2 DEF Within
            <7>2. PICK p \in Int, q \in Int : p = lo(k)' /\ q = hi(k)'
              BY <4>2
            <7>3. calls[n].mid <= p /\ q <= hi(n)
              BY <4>2, <4>3, <4>5, <7>1, <7>2, SMTT(30)
            <7> QED
              BY <7>2, <7>3
          <6> QED
            BY <3>2, <4>5, <6>1 DEF Nested, Within
        <5> QED
          BY <4>5, <5>1, <5>2
      <4> QED
        BY <4>1, <4>4, <4>5 DEF Nested
    <3>4. CASE k > 3
      <4>1. PICK m \in 2..Len(calls) : k = m + 2
        BY <1>1, <1>n, <1>9, <3>4
      <4>2. Nested(m, n) /\ lo(k)' = lo(m) /\ hi(k)' = hi(m)
        BY <1>3, <1>9, <1>n, <3>1, <4>1 DEF MergeInv
      <4> QED
        BY <3>2, <4>2 DEF Nested, Apart, Within
    <3> QED
      BY <3>3, <3>4
  <2> QED
    BY <1>9, <2>1, <2>2
<1>10. Ready(0, arraySize - 1, Len(calls) + 1)'
  <2>1. PICK b \in Int : b = arraySize - 1
    BY <1>n
  <2>2. PICK l \in 2..(Len(calls) + 1) : l = Len(calls) + 1
    BY <1>n
  <2>3. Ready(0, b, l)
    BY <2>1, <2>2 DEF MergeInv
  <2>4. Ready(0, b, l + 2)'
    <3>1. PICK a \in Int : a = 0
      OBVIOUS
    <3>2. Ready(a, b, l + 2)'
      BY <1>5, <2>3, <3>1
    <3> QED
      BY <3>1, <3>2
  <2>5. l + 2 = Len(calls') + 1 /\ arraySize' - 1 = b
    BY <1>n, <1>1, <2>1, <2>2
  <2> QED
    BY <2>4, <2>5
<1>11. ASSUME NEW k \in 1..Len(calls')  PROVE MergeCallOK(k)'
  <2>1. CASE k \in {1, 2, 3}
    BY <1>6, <1>7, <2>1
  <2>2. CASE k > 3
    <3>1. PICK l \in 2..Len(calls) : k = l + 2
      BY <1>1, <1>n, <2>2
    <3> QED
      BY <1>8, <3>1
  <2> QED
    BY <2>1, <2>2
<1> QED
  BY <1>1, <1>9, <1>10, <1>11 DEF MergeInv

\* A turn of merge_helper changes only what it has copied.
LEMMA TurnKeeps ==
  ASSUME Common, MergeInv, calls # <<>>, UNCHANGED <<original, array>>,
         NEW c, c = calls[1], c.f = "merge",
         NEW d \in Call, d.f = "merge", d.st = c.st, d.mid = c.mid, d.end = c.end,
         calls' = <<d>> \o Tail(calls),
         NEW q \in [1..Len(d.arr) -> Indices], Merging(d, q)
  PROVE  calls' \in Seq(Call) /\ MergeInv'
<1>n. /\ calls \in Seq(Call) /\ Len(calls) \in Nat /\ Len(calls) >= 1 /\ Indices' = Indices
      /\ Tail(calls) \in Seq(Call) /\ Len(Tail(calls)) = Len(calls) - 1
      /\ \A k \in 1..(Len(calls) - 1) : Tail(calls)[k] = calls[k + 1]
      /\ arraySize' = arraySize /\ arraySize \in Nat
  BY TailOf, ArraySize DEF Common, Indices, arraySize
<1>1. /\ calls' \in Seq(Call) /\ Len(calls') = Len(calls) /\ calls'[1] = d
      /\ \A k \in 1..(Len(calls) - 1) : calls'[k + 1] = Tail(calls)[k]
  BY <1>n, OneMade
<1>2. ASSUME NEW k \in 2..Len(calls)  PROVE calls'[k] = calls[k]
  <2>1. PICK m \in 1..(Len(calls) - 1) : k = m + 1
    BY <1>n
  <2> QED
    BY <1>n, <1>1, <2>1
<1>3. ASSUME NEW k \in 1..Len(calls)
      PROVE  /\ lo(k)' = lo(k) /\ hi(k)' = hi(k) /\ calls'[k].f = calls[k].f
             /\ calls[k].f = "merge" => calls'[k].mid = calls[k].mid
  <2>1. CASE k = 1
    BY <1>1, <2>1 DEF lo, hi
  <2>2. CASE k # 1
    <3>1. k \in 2..Len(calls)
      BY <2>2
    <3> QED
      BY <1>2, <3>1 DEF lo, hi
  <2> QED
    BY <2>1, <2>2
<1>4. ASSUME NEW l \in 1..(Len(calls) + 1), NEW a, NEW b, Ready(a, b, l)
      PROVE  Ready(a, b, l)'
  <2>1. \A k \in 1..(l - 1) : k \in 1..Len(calls)
    BY <1>n
  <2>2. CASE \E k \in 1..(l - 1) : lo(k) = a /\ hi(k) = b
    BY <1>3, <2>1, <2>2 DEF Ready
  <2>3. CASE InOrder(a, b) /\ \A k \in 1..(l - 1) : Apart(k, a, b)
    <3>1. InOrder(a, b)'
      BY <1>n, <2>3 DEF InOrder
    <3>2. \A k \in 1..(l - 1) : Apart(k, a, b)'
      BY <1>3, <2>1, <2>3 DEF Apart
    <3> QED
      BY <3>1, <3>2 DEF Ready
  <2> QED
    BY <1>4, <2>2, <2>3 DEF Ready
<1>5. ASSUME NEW k \in 1..Len(calls)  PROVE MergeCallOK(k)'
  <2>1. MergeCallOK(k)
    BY DEF MergeInv
  <2>2. /\ calls'[k].f \in {"merge_sort", "merge"}
        /\ 0 <= lo(k)' /\ hi(k)' < arraySize' /\ (lo(k)' <= hi(k)' \/ Len(calls') = 1)
    BY <1>1, <1>3, <1>n, <2>1 DEF MergeCallOK
  <2>3. ASSUME calls'[k].f = "merge"
        PROVE  /\ lo(k)' < calls'[k].mid /\ calls'[k].mid <= hi(k)'
               /\ Ready(lo(k), calls[k].mid - 1, k)' /\ Ready(calls[k].mid, hi(k), k)'
    <3>1. /\ calls[k].f = "merge" /\ lo(k)' = lo(k) /\ hi(k)' = hi(k)
          /\ calls'[k].mid = calls[k].mid
      BY <1>3, <2>3
    <3>2. PICK a, b, x, y : a = calls[k].mid - 1 /\ b = calls[k].mid /\ x = lo(k) /\ y = hi(k)
      OBVIOUS
    <3>3. Ready(x, a, k) /\ Ready(b, y, k) /\ x < b /\ b <= y /\ k \in 1..(Len(calls) + 1)
      BY <1>n, <2>1, <3>1, <3>2 DEF MergeCallOK
    <3>4. Ready(x, a, k)' /\ Ready(b, y, k)'
      BY <1>4, <3>3
    <3> QED
      BY <3>1, <3>2, <3>3, <3>4
  <2>4. ASSUME calls'[k].f = "merge"
        PROVE  /\ (\E r \in [1..Len(calls[k].arr) -> Indices] : Merging(calls[k], r))'
               /\ k > 1 => calls'[k] = Merge(lo(k), calls[k].mid, hi(k))'
    <3>1. CASE k = 1
      <4>1. Merging(d, q)'
        BY <1>n DEF Merging
      <4> QED
        BY <1>1, <1>n, <3>1, <4>1
    <3>2. CASE k # 1
      <4>1. PICK e : e = calls[k]
        OBVIOUS
      <4>2. calls'[k] = e /\ e.f = "merge"
        BY <1>2, <2>4, <3>2, <4>1
      <4>3. PICK r \in [1..Len(e.arr) -> Indices] : Merging(e, r)
        BY <2>1, <4>1, <4>2 DEF MergeCallOK
      <4>4. Merging(e, r)'
        BY <1>n, <4>3 DEF Merging
      <4>5. e = Merge(lo(k), e.mid, hi(k))
        BY <2>1, <3>2, <4>1, <4>2 DEF MergeCallOK
      <4> QED
        BY <1>3, <1>n, <4>2, <4>3, <4>4, <4>5
    <3> QED
      BY <3>1, <3>2
  <2> QED
    BY <2>2, <2>3, <2>4 DEF MergeCallOK
<1>6. ASSUME NEW k \in 1..Len(calls), NEW l \in 1..Len(calls), k < l  PROVE Nested(k, l)'
  <2>1. Nested(k, l)
    BY <1>6 DEF MergeInv
  <2> QED
    BY <1>3, <2>1 DEF Nested, Apart, Within
<1>7. Ready(0, arraySize - 1, Len(calls) + 1)'
  <2>1. PICK b \in Int, l \in 1..(Len(calls) + 1) : b = arraySize - 1 /\ l = Len(calls) + 1
    BY <1>n
  <2>2. Ready(0, b, l)
    BY <2>1 DEF MergeInv
  <2>3. Ready(0, b, l)'
    BY <1>4, <2>2
  <2> QED
    BY <1>1, <1>n, <2>1, <2>3
<1> QED
  BY <1>1, <1>5, <1>6, <1>7 DEF MergeInv

\* Element x, not larger than the others to come, goes to arr.
LEMMA TakesOne ==
  ASSUME Common, NEW c \in Call, c.f = "merge", NEW q \in [1..Len(c.arr) -> Indices],
         Merging(c, q), 0 <= c.st, c.end < arraySize, c.st < c.mid, c.mid <= c.end,
         NEW d \in Call, d.f = "merge", d.st = c.st, d.mid = c.mid, d.end = c.end,
         NEW x \in Indices, d.arr = Append(c.arr, array[x]),
         \/ x = c.i /\ c.i < c.mid /\ d.i = c.i + 1 /\ d.j = c.j
         \/ x = c.j /\ c.j <= c.end /\ d.i = c.i /\ d.j = c.j + 1,
         \A l \in Indices : ToCome(c, l) => array[x] <= array[l]
  PROVE  \E r \in [1..Len(d.arr) -> Indices] : Merging(d, r)
<1>c. /\ c.st \in Int /\ c.mid \in Int /\ c.end \in Int /\ c.i \in Int /\ c.j \in Int
      /\ c.arr \in Seq(Int) /\ Len(c.arr) \in Nat /\ array[x] \in Int
      /\ d.st \in Int /\ d.mid \in Int /\ d.end \in Int /\ d.i \in Int /\ d.j \in Int
  BY RangeCalls DEF Common
<1>a. /\ d.arr \in Seq(Int) /\ Len(d.arr) = Len(c.arr) + 1
      /\ \A k \in 1..Len(c.arr) : d.arr[k] = c.arr[k]
      /\ d.arr[Len(c.arr) + 1] = array[x]
  BY <1>c
<1>m. c.i \in c.st..c.mid /\ c.j \in c.mid..(c.end + 1)
  BY DEF Merging
<1>1. ASSUME NEW l \in Indices
      PROVE  /\ Taken(d, l) <=> Taken(c, l) \/ l = x
             /\ ToCome(d, l) => ToCome(c, l)
             /\ ~(Taken(c, l) /\ ToCome(c, l))
  <2>1. l \in Int /\ x \in Int
    BY ArraySize
  <2>2. CASE x = c.i /\ c.i < c.mid /\ d.i = c.i + 1 /\ d.j = c.j
    BY <1>c, <1>m, <2>1, <2>2, SMTT(30) DEF Taken, ToCome
  <2>3. CASE x = c.j /\ c.j <= c.end /\ d.i = c.i /\ d.j = c.j + 1
    BY <1>c, <1>m, <2>1, <2>3, SMTT(30) DEF Taken, ToCome
  <2> QED
    BY <2>2, <2>3
<1>2. ToCome(c, x)
  BY <1>c, <1>m DEF ToCome
<1> DEFINE r == [k \in 1..Len(d.arr) |-> IF k <= Len(c.arr) THEN q[k] ELSE x]
<1>3. /\ r \in [1..Len(d.arr) -> Indices] /\ r[Len(d.arr)] = x
      /\ \A k \in 1..Len(c.arr) : r[k] = q[k] /\ q[k] \in Indices /\ k \in 1..Len(d.arr)
  BY <1>a, <1>c, SMTT(30)
<1> HIDE DEF r
<1>4. PICK n \in Nat : n = Len(c.arr)
  BY <1>c
<1>5. \A k \in 1..Len(d.arr) : k \in 1..n \/ k = n + 1
  BY <1>a, <1>4
<1>6. d.i \in d.st..d.mid /\ d.j \in d.mid..(d.end + 1)
      /\ Len(d.arr) = (d.i - d.st) + (d.j - d.mid)
  <2>1. PICK st \in Int, mid \in Int, end \in Int, i \in Int, j \in Int :
          c.st = st /\ c.mid = mid /\ c.end = end /\ c.i = i /\ c.j = j
    BY <1>c
  <2>2. PICK i1 \in Int, j1 \in Int : d.i = i1 /\ d.j = j1
    BY <1>c
  <2>3. \/ i1 = i + 1 /\ j1 = j /\ i < mid
        \/ i1 = i /\ j1 = j + 1 /\ j <= end
    BY <2>1, <2>2
  <2>4. i \in st..mid /\ j \in mid..(end + 1) /\ n = (i - st) + (j - mid)
    BY <1>4, <2>1 DEF Merging
  <2>5. i1 \in st..mid /\ j1 \in mid..(end + 1) /\ n + 1 = (i1 - st) + (j1 - mid)
    BY <2>3, <2>4
  <2>6. Len(d.arr) = n + 1
    BY <1>a, <1>4
  <2> QED
    BY <2>1, <2>2, <2>5, <2>6
<1>7. ASSUME NEW k \in 1..Len(d.arr), NEW l \in 1..Len(d.arr), k < l
      PROVE  d.arr[k] <= d.arr[l]
  <2>1. CASE l \in 1..n
    <3>1. k \in 1..n
      BY <1>7, <2>1, <1>5
    <3> QED
      BY <1>7, <1>a, <1>4, <2>1, <3>1 DEF Merging
  <2>2. CASE l = n + 1
    <3>1. k \in 1..n
      BY <1>7, <2>2, <1>5
    <3>2. c.arr[k] <= array[x]
      BY <1>2, <1>4, <3>1 DEF Merging
    <3> QED
      BY <1>a, <1>4, <2>2, <3>1, <3>2
  <2> QED
    BY <1>5, <2>1, <2>2
<1>8. ASSUME NEW k \in 1..Len(d.arr), NEW l \in Indices, ToCome(d, l)  PROVE d.arr[k] <= array[l]
  <2>1. ToCome(c, l)
    BY <1>1, <1>8
  <2>2. CASE k \in 1..n
    BY <1>a, <1>4, <2>1, <2>2 DEF Merging
  <2>3. CASE k = n + 1
    BY <1>a, <1>4, <2>1, <2>3
  <2> QED
    BY <1>5, <2>2, <2>3
<1>9. ASSUME NEW k \in 1..Len(d.arr)  PROVE Taken(d, r[k]) /\ d.arr[k] = array[r[k]]
  <2>1. CASE k \in 1..n
    BY <1>1, <1>3, <1>4, <1>a, <2>1 DEF Merging
  <2>2. CASE k = n + 1
    BY <1>1, <1>3, <1>4, <1>a, <2>2
  <2> QED
    BY <1>5, <2>1, <2>2
<1>10. ASSUME NEW k \in 1..n  PROVE r[k] # x
  BY <1>1, <1>2, <1>3, <1>4 DEF Merging
<1>11. ASSUME NEW k \in 1..Len(d.arr), NEW l \in 1..Len(d.arr), r[k] = r[l]  PROVE k = l
  <2>1. CASE k \in 1..n /\ l \in 1..n
    BY <1>3, <1>4, <1>11, <2>1 DEF Merging
  <2>2. CASE ~(k \in 1..n /\ l \in 1..n)
    BY <1>3, <1>4, <1>5, <1>10, <1>11, <1>a, <2>2
  <2> QED
    BY <2>1, <2>2
<1>12. ASSUME NEW l \in Indices, Taken(d, l)  PROVE \E k \in 1..Len(d.arr) : r[k] = l
  <2>1. CASE l = x
    <3>1. Len(d.arr) \in 1..Len(d.arr)
      BY <1>a, <1>c
    <3> QED
      BY <1>3, <2>1, <3>1
  <2>2. CASE Taken(c, l)
    <3>1. PICK k \in 1..Len(c.arr) : q[k] = l
      BY <2>2 DEF Merging
    <3> QED
      BY <1>3, <3>1
  <2> QED
    BY <1>1, <1>12, <2>1, <2>2
<1>13. Merging(d, r)
  BY <1>6, <1>7, <1>8, <1>9, <1>11, <1>12 DEF Merging
<1> QED
  BY <1>3, <1>13

\* q lists the places u..w, each once.
CopiesFrom(q, u, w) ==
  /\ \A k \in 1..(w - u + 1) : q[k] \in u..w
  /\ \A k, l \in 1..(w - u + 1) : q[k] = q[l] => k = l
  /\ \A m \in u..w : \E k \in 1..(w - u + 1) : q[k] = m

\* Place k gets what was in h[k] when the places u..w are copied in the order q.
Copying(h, n, q, u, w) ==
  /\ \A k \in u..w : h[k] = q[k - u + 1]
  /\ \A k \in 0..(n - 1) : k \notin u..w => h[k] = k

LEMMA CopyPermutes ==
  ASSUME NEW n \in Nat, NEW u \in Nat, NEW w \in Nat, u <= w, w < n,
         NEW q, CopiesFrom(q, u, w)
  PROVE  \E h : Permutes(h, n) /\ Copying(h, n, q, u, w)
<1> DEFINE h == [k \in 0..(n - 1) |-> IF k \in u..w THEN q[k - u + 1] ELSE k]
<1>1. \A k \in u..w : k \in 0..(n - 1) /\ k - u + 1 \in 1..(w - u + 1)
  OBVIOUS
<1>2. \A k \in u..w : h[k] = q[k - u + 1] /\ h[k] \in u..w
  BY <1>1 DEF CopiesFrom
<1>3. \A k \in 0..(n - 1) : k \notin u..w => h[k] = k
  OBVIOUS
<1>d. DOMAIN h = 0..(n - 1) /\ h = [k \in 0..(n - 1) |-> h[k]]
  OBVIOUS
<1> HIDE DEF h
<1>4. \A k \in 0..(n - 1) : h[k] \in 0..(n - 1)
  <2> SUFFICES ASSUME NEW k \in 0..(n - 1) PROVE h[k] \in 0..(n - 1)
    OBVIOUS
  <2>1. CASE k \in u..w
    BY <1>1, <1>2, <2>1
  <2>2. CASE k \notin u..w
    BY <1>3, <2>2
  <2> QED
    BY <2>1, <2>2
<1>5. h \in [0..(n - 1) -> 0..(n - 1)]
  BY <1>4, <1>d
<1>6. ASSUME NEW j \in 0..(n - 1), NEW k \in 0..(n - 1), h[j] = h[k]  PROVE j = k
  <2>1. CASE j \in u..w /\ k \in u..w
    <3>1. PICK a \in 1..(w - u + 1), b \in 1..(w - u + 1) : a = j - u + 1 /\ b = k - u + 1
      BY <1>1, <2>1
    <3>2. q[a] = q[b]
      BY <1>2, <1>6, <2>1, <3>1
    <3>3. a = b
      BY <3>2 DEF CopiesFrom
    <3> QED
      BY <3>1, <3>3
  <2>2. CASE j \notin u..w /\ k \notin u..w
    BY <1>3, <1>6, <2>2
  <2>3. CASE j \in u..w /\ k \notin u..w
    BY <1>2, <1>3, <1>6, <2>3
  <2>4. CASE j \notin u..w /\ k \in u..w
    BY <1>2, <1>3, <1>6, <2>4
  <2> QED
    BY <2>1, <2>2, <2>3, <2>4
<1>7. ASSUME NEW m \in 0..(n - 1)  PROVE \E k \in 0..(n - 1) : h[k] = m
  <2>1. CASE m \notin u..w
    BY <1>3, <2>1
  <2>2. CASE m \in u..w
    <3>1. PICK a \in 1..(w - u + 1) : q[a] = m
      BY <2>2 DEF CopiesFrom
    <3>2. PICK k \in Int : k = a + u - 1
      OBVIOUS
    <3>3. k - u + 1 = a /\ k \in u..w
      BY <3>2
    <3>4. h[k] = m /\ k \in 0..(n - 1)
      BY <1>1, <1>2, <3>1, <3>3
    <3> QED
      BY <3>4
  <2> QED
    BY <2>1, <2>2
<1>8. Permutes(h, n)
  BY <1>5, <1>6, <1>7 DEF Permutes
<1> QED
  BY <1>2, <1>3, <1>8 DEF Copying

\* merge_helper copies arr back over the two halves.
LEMMA CopyBack ==
  ASSUME Common, MergeInv, calls # <<>>, UNCHANGED <<sortProgram, original>>, calls' = Tail(calls),
         NEW c \in Call, c = calls[1], c.f = "merge", c.i = c.mid, c.j = c.end + 1,
         array' = [k \in DOMAIN array |->
                     IF k \in c.st..c.end THEN c.arr[k - c.st + 1] ELSE array[k]]
  PROVE  Common' /\ MergeInv'
<1>n. /\ calls \in Seq(Call) /\ Len(calls) \in Nat /\ Len(calls) >= 1
      /\ arraySize \in Nat /\ Indices = 0..(arraySize - 1)
      /\ array \in [Indices -> Int] /\ DOMAIN array = Indices
      /\ calls' \in Seq(Call)
  BY TailOf, ArraySize DEF Common
<1>1. MergeCallOK(1) /\ lo(1) = c.st /\ hi(1) = c.end
  BY <1>n DEF MergeInv, lo, hi
<1>2. PICK q \in [1..Len(c.arr) -> Indices] : Merging(c, q)
  BY <1>1 DEF MergeCallOK
<1>3. PICK u \in Int, mid \in Int, w \in Int : c.st = u /\ c.mid = mid /\ c.end = w
  BY RangeCalls
<1>4. c.arr \in Seq(Int) /\ Len(c.arr) \in Nat
  BY RangeCalls
<1>5. 0 <= u /\ u < mid /\ mid <= w /\ w < arraySize
  BY <1>1, <1>3 DEF MergeCallOK
<1>6. Len(c.arr) = w - u + 1
  <2>1. Len(c.arr) = (mid - u) + ((w + 1) - mid)
    BY <1>2, <1>3 DEF Merging
  <2> QED
    BY <2>1
<1>7. \A l \in Indices : Taken(c, l) <=> l \in u..w
  BY <1>3, <1>5, <1>n DEF Taken
<1>8. /\ q \in [1..(w - u + 1) -> 0..(arraySize - 1)]
      /\ \A k \in 1..(w - u + 1) : q[k] \in u..w /\ c.arr[k] = array[q[k]]
      /\ \A k, l \in 1..(w - u + 1) : q[k] = q[l] => k = l
  <2>1. /\ \A k \in 1..Len(c.arr) : Taken(c, q[k]) /\ c.arr[k] = array[q[k]] /\ q[k] \in Indices
        /\ \A k, l \in 1..Len(c.arr) : q[k] = q[l] => k = l
    BY <1>2 DEF Merging
  <2> QED
    BY <1>n, <1>6, <1>7, <2>1
<1>9. \A m \in u..w : \E k \in 1..(w - u + 1) : q[k] = m
  <2> SUFFICES ASSUME NEW m \in u..w PROVE \E k \in 1..(w - u + 1) : q[k] = m
    OBVIOUS
  <2>1. m \in Indices
    BY <1>n, <1>5
  <2>2. Taken(c, m)
    BY <1>7, <2>1
  <2> QED
    BY <1>2, <1>6, <2>1, <2>2 DEF Merging
<1>10. u \in Nat /\ w \in Nat /\ u <= w
  BY <1>5
<1>11. PICK h : /\ Permutes(h, arraySize)
                /\ \A k \in u..w : h[k] = q[k - u + 1]
                /\ \A k \in 0..(arraySize - 1) : k \notin u..w => h[k] = k
  <2>1. CopiesFrom(q, u, w)
    BY <1>8, <1>9 DEF CopiesFrom
  <2>2. PICK n \in Nat : n = arraySize
    BY <1>n
  <2>3. w < n
    BY <1>5, <2>2
  <2>4. \E h : Permutes(h, n) /\ Copying(h, n, q, u, w)
    BY <1>10, <2>1, <2>3, CopyPermutes
  <2> QED
    BY <2>2, <2>4 DEF Copying
<1>12. \A k \in Indices : array'[k] = IF k \in u..w THEN c.arr[k - u + 1] ELSE array[k]
  BY <1>n, <1>3
<1>13. DOMAIN array' = Indices /\ array' = [k \in Indices |-> array'[k]]
  BY <1>n
<1>14. ASSUME NEW k \in u..w
       PROVE  /\ k \in Indices /\ k - u + 1 \in 1..(w - u + 1)
              /\ array'[k] = c.arr[k - u + 1] /\ array'[k] = array[h[k]]
              /\ h[k] \in Indices
  <2>1. k \in Indices /\ k - u + 1 \in 1..(w - u + 1)
    BY <1>n, <1>5
  <2>2. PICK m \in 1..(w - u + 1) : m = k - u + 1
    BY <2>1
  <2>3. array'[k] = c.arr[m] /\ c.arr[m] = array[q[m]] /\ h[k] = q[m] /\ q[m] \in Indices
    BY <1>8, <1>11, <1>12, <1>n, <2>1, <2>2
  <2> QED
    BY <2>1, <2>2, <2>3
<1>15. \A k \in Indices : array'[k] = array[h[k]] /\ array'[k] \in Int
  <2> SUFFICES ASSUME NEW k \in Indices PROVE array'[k] = array[h[k]] /\ array'[k] \in Int
    OBVIOUS
  <2>1. CASE k \in u..w
    BY <1>14, <1>n, <2>1
  <2>2. CASE k \notin u..w
    BY <1>11, <1>12, <1>n, <2>2
  <2> QED
    BY <2>1, <2>2
<1>16. array' \in [Indices -> Int]
  BY <1>13, <1>15
<1>17. Arranged' /\ array' \in [Indices' -> Int]
  BY <1>11, <1>15, <1>16, MovedStep
<1>18. Common'
  BY <1>17, <1>n, CommonStep
<1>19. \A x \in Indices : x < lo(1) \/ hi(1) < x => array'[x] = array[x]
  BY <1>1, <1>3, <1>12, <1>n
<1>20. ASSUME NEW x \in Indices, NEW y \in Indices, lo(1) <= x, x < y, y <= hi(1)
       PROVE  array'[x] <= array'[y]
  <2>1. x \in u..w /\ y \in u..w
    BY <1>1, <1>3, <1>20, <1>n
  <2>2. PICK a \in 1..(w - u + 1), b \in 1..(w - u + 1) : a = x - u + 1 /\ b = y - u + 1
    BY <1>14, <2>1
  <2>3. a < b
    BY <1>20, <1>n, <2>2
  <2>4. c.arr[a] <= c.arr[b]
    BY <1>2, <1>6, <2>3 DEF Merging
  <2> QED
    BY <1>14, <2>1, <2>2, <2>4, ZenonT(60)
<1>21. lo(1) <= hi(1)
  BY <1>1, <1>3, <1>5
<1>22. MergeInv'
  BY <1>19, <1>20, <1>21, FrontDone
<1> QED
  BY <1>18, <1>22

MergeFrame == [f : {"merge"}, st : Int, mid : Int, end : Int, i : Int, j : Int, arr : Seq(Int)]

FirstTaken(c, e, d) == d = [c EXCEPT !.arr = Append(@, e), !.i = @ + 1]

LEMMA TakeFirst ==
  ASSUME NEW c \in MergeFrame, NEW e \in Int, NEW d, FirstTaken(c, e, d)
  PROVE  /\ d \in MergeFrame /\ d.st = c.st /\ d.mid = c.mid /\ d.end = c.end
         /\ d.arr = Append(c.arr, e) /\ d.i = c.i + 1 /\ d.j = c.j
<1>0. c.arr \in Seq(Int) /\ Append(c.arr, e) \in Seq(Int) /\ c.i \in Int /\ c.i + 1 \in Int
  BY DEF MergeFrame
<1>1. PICK a, x : /\ a = Append(c.arr, e) /\ a \in Seq(Int)
                  /\ x = c.i + 1 /\ x \in Int
  BY <1>0
<1>2. d = [c EXCEPT !.arr = a, !.i = x]
  BY <1>1 DEF FirstTaken
<1>3. d \in MergeFrame
  BY <1>1, <1>2 DEF MergeFrame
<1>4. d.st = c.st /\ d.mid = c.mid /\ d.end = c.end /\ d.arr = a /\ d.i = x /\ d.j = c.j
  BY <1>2 DEF MergeFrame
<1> QED
  BY <1>1, <1>3, <1>4

SecondTaken(c, e, d) == d = [c EXCEPT !.arr = Append(@, e), !.j = @ + 1]

LEMMA TakeSecond ==
  ASSUME NEW c \in MergeFrame, NEW e \in Int, NEW d, SecondTaken(c, e, d)
  PROVE  /\ d \in MergeFrame /\ d.st = c.st /\ d.mid = c.mid /\ d.end = c.end
         /\ d.arr = Append(c.arr, e) /\ d.i = c.i /\ d.j = c.j + 1
<1>0. c.arr \in Seq(Int) /\ Append(c.arr, e) \in Seq(Int) /\ c.j \in Int /\ c.j + 1 \in Int
  BY DEF MergeFrame
<1>1. PICK a, x : /\ a = Append(c.arr, e) /\ a \in Seq(Int)
                  /\ x = c.j + 1 /\ x \in Int
  BY <1>0
<1>2. d = [c EXCEPT !.arr = a, !.j = x]
  BY <1>1 DEF SecondTaken
<1>3. d \in MergeFrame
  BY <1>1, <1>2 DEF MergeFrame
<1>4. d.st = c.st /\ d.mid = c.mid /\ d.end = c.end /\ d.arr = a /\ d.j = x /\ d.i = c.i
  BY <1>2 DEF MergeFrame
<1> QED
  BY <1>1, <1>3, <1>4

LEMMA MergeFrames ==
  ASSUME NEW d
  PROVE  /\ d \in MergeFrame => d \in Call /\ d.f = "merge"
         /\ d \in Call /\ d.f = "merge" => d \in MergeFrame
BY DEF MergeFrame, Call

LEMMA MergeSortCallKeeps ==
  ASSUME Common, MergeInv, MergeSortCall  PROVE Common' /\ MergeInv'
<1>n. /\ calls \in Seq(Call) /\ calls # <<>> /\ Len(calls) \in Nat /\ Len(calls) >= 1
      /\ todo = calls[1] /\ Tail(calls) \in Seq(Call) /\ Len(Tail(calls)) = Len(calls) - 1
      /\ arraySize \in Nat /\ arraySize' = arraySize /\ Indices' = Indices
      /\ Indices = 0..(arraySize - 1) /\ UNCHANGED <<sortProgram, original, array>>
  BY TailOf, ArraySize DEF MergeSortCall, Calls, todo, Continue, Common, arraySize, Indices
<1>1. MergeCallOK(1) /\ 1 \in 1..Len(calls)
  BY <1>n DEF MergeInv
<1>2. PICK u \in Int, w \in Int : u = lo(1) /\ w = hi(1) /\ u = todo.st /\ w = todo.end
  BY <1>1, <1>n, MergeTypes DEF lo, hi
<1>3. CASE u < w
  <2>1. PICK v \in Int : v = (w - u) \div 2 + u
    OBVIOUS
  <2>2. u <= v /\ v < w
    BY <1>3, <2>1
  <2>3. calls' = MergeSplit(u, v, w) \o Tail(calls)
    BY <1>2, <1>3, <2>1 DEF MergeSortCall, Continue
  <2>4. calls' = <<MergeSort(u, v), MergeSort(v + 1, w), Merge(u, v + 1, w)>> \o Tail(calls)
    BY <2>3 DEF MergeSplit
  <2>5. calls' \in Seq(Call) /\ MergeInv'
    <3>1. lo(1) = u /\ hi(1) = w /\ UNCHANGED <<original, array>>
      BY <1>n, <1>2
    <3> QED
      BY <1>n, <2>2, <2>4, <3>1, SplitKeeps
  <2> QED
    BY <1>n, <2>5, StillStep
<1>4. CASE ~(u < w)
  <2>1. calls' = Tail(calls) /\ calls' \in Seq(Call)
    <3>1. calls' = <<>> \o Tail(calls)
      BY <1>2, <1>4 DEF MergeSortCall, Continue
    <3> QED
      BY <1>n, <3>1, NoneMade
  <2>2. Common'
    BY <1>n, <2>1, StillStep
  <2>3. CASE u = w
    <3>1. \A x, y \in Indices : lo(1) <= x /\ x < y /\ y <= hi(1) => array'[x] <= array'[y]
      BY <1>2, <1>n, <2>3
    <3>2. lo(1) <= hi(1) /\ \A x \in Indices : array'[x] = array[x]
      BY <1>2, <1>n, <2>3
    <3> QED
      BY <1>n, <2>1, <2>2, <3>1, <3>2, FrontDone
  <2>4. CASE u # w
    <3>1. Len(calls) = 1
      BY <1>1, <1>2, <1>4, <2>4 DEF MergeCallOK
    <3>2. calls' = <<>> /\ Len(calls') = 0
      BY <1>n, <2>1, <3>1
    <3>3. PICK b \in Int : b = arraySize - 1
      BY <1>n
    <3>4. Ready(0, b, 2)
      BY <3>1, <3>3 DEF MergeInv
    <3>5. InOrder(0, b)
      <4>1. CASE InOrder(0, b)
        BY <4>1
      <4>2. CASE lo(1) = 0 /\ hi(1) = b
        BY <1>2, <1>4, <1>n, <3>3, <4>2 DEF InOrder
      <4>3. \A k \in 1..(2 - 1) : k = 1
        OBVIOUS
      <4> QED
        BY <3>4, <4>1, <4>2, <4>3 DEF Ready
    <3>6. InOrder(0, b)'
      BY <1>n, <3>5 DEF InOrder
    <3>7. Ready(0, b, 1)'
      BY <3>6 DEF Ready
    <3>8. Ready(0, arraySize - 1, Len(calls) + 1)'
      <4>1. PICK l : l = 1
        OBVIOUS
      <4>2. Len(calls') + 1 = l /\ arraySize' - 1 = b
        BY <1>n, <3>2, <3>3, <4>1
      <4>3. Ready(0, b, l)'
        BY <3>7, <4>1
      <4> QED
        BY <4>2, <4>3
    <3>9. \A k \in 1..Len(calls') : FALSE
      BY <3>2
    <3>10. \A k \in 1..Len(calls') : MergeCallOK(k)'
      BY <3>9
    <3>11. \A k, l \in 1..Len(calls') : k < l => Nested(k, l)'
      BY <3>9
    <3> QED
      BY <2>2, <3>8, <3>10, <3>11 DEF MergeInv
  <2> QED
    BY <2>2, <2>3, <2>4
<1> QED
  BY <1>3, <1>4

\* The next of the two halves' elements is none larger than the others to come.
LEMMA MergeElementKeeps ==
  ASSUME Common, MergeInv, MergeElement  PROVE Common' /\ MergeInv'
<1>n. /\ calls \in Seq(Call) /\ calls # <<>> /\ Len(calls) \in Nat /\ Len(calls) >= 1
      /\ todo = calls[1] /\ Tail(calls) \in Seq(Call) /\ todo.f = "merge"
      /\ arraySize \in Nat /\ arraySize' = arraySize /\ Indices' = Indices
      /\ Indices = 0..(arraySize - 1) /\ UNCHANGED <<sortProgram, original>>
      /\ array \in [Indices -> Int]
  BY TailOf, ArraySize DEF MergeElement, Calls, todo, Continue, Common, arraySize, Indices
<1>1. PICK c \in Call : c = calls[1] /\ c = todo /\ c.f = "merge"
  BY <1>n
<1>2. MergeCallOK(1) /\ lo(1) = c.st /\ hi(1) = c.end
  BY <1>1, <1>n DEF MergeInv, lo, hi
<1>3. PICK st \in Int, mid \in Int, end \in Int, i \in Int, j \in Int :
        c.st = st /\ c.mid = mid /\ c.end = end /\ c.i = i /\ c.j = j
  BY <1>1, RangeCalls
<1>4. 0 <= st /\ st < mid /\ mid <= end /\ end < arraySize
  BY <1>1, <1>2, <1>3 DEF MergeCallOK
<1>5. PICK q \in [1..Len(c.arr) -> Indices] : Merging(c, q)
  BY <1>1, <1>2 DEF MergeCallOK
<1>6. st <= i /\ i <= mid /\ mid <= j /\ j <= end + 1
  BY <1>3, <1>5 DEF Merging
<1>7. InOrder(st, mid - 1) /\ InOrder(mid, end)
  <2>1. PICK e \in Int : e = mid - 1
    OBVIOUS
  <2>2. Ready(st, e, 1) /\ Ready(mid, end, 1)
    BY <1>1, <1>2, <1>3, <2>1 DEF MergeCallOK
  <2>3. \A k \in 1..(1 - 1) : FALSE
    OBVIOUS
  <2> QED
    BY <2>1, <2>2, <2>3 DEF Ready
<1>8. \A l \in Indices : ToCome(c, l) <=> l \in i..(mid - 1) \/ l \in j..end
  BY <1>3 DEF ToCome
<1>9. ASSUME NEW l \in Indices, l \in i..(mid - 1)  PROVE i \in Indices /\ i < mid /\ array[i] <= array[l]
  <2>1. i \in Indices /\ i < mid
    BY <1>4, <1>6, <1>9, <1>n
  <2>2. CASE l = i
    BY <2>1, <2>2, <1>n
  <2>3. CASE l # i
    <3>1. st <= i /\ i < l /\ l <= mid - 1
      BY <1>6, <1>9, <2>3
    <3> QED
      BY <1>7, <2>1, <3>1 DEF InOrder
  <2> QED
    BY <2>1, <2>2, <2>3
<1>10. ASSUME NEW l \in Indices, l \in j..end  PROVE j \in Indices /\ j <= end /\ array[j] <= array[l]
  <2>1. j \in Indices /\ j <= end
    BY <1>4, <1>6, <1>10, <1>n
  <2>2. CASE l = j
    BY <2>1, <2>2, <1>n
  <2>3. CASE l # j
    <3>1. mid <= j /\ j < l /\ l <= end
      BY <1>6, <1>10, <2>3
    <3> QED
      BY <1>7, <2>1, <3>1 DEF InOrder
  <2> QED
    BY <2>1, <2>2, <2>3
<1>11. CASE i < mid /\ (j <= end => array[i] <= array[j])
  <2>0. PICK d : d = [c EXCEPT !.arr = Append(@, array[i]), !.i = @ + 1]
    OBVIOUS
  <2>1. i \in Indices /\ array[i] \in Int
    BY <1>4, <1>6, <1>11, <1>n
  <2>2. calls' = <<d>> \o Tail(calls) /\ UNCHANGED array
    BY <1>1, <1>3, <1>11, <2>0 DEF MergeElement, Continue
  <2>3. PICK e \in Int : e = array[i]
    BY <2>1
  <2>4. FirstTaken(c, e, d)
    BY <2>0, <2>3 DEF FirstTaken
  <2>5. /\ d \in Call /\ d.f = "merge" /\ d.st = c.st /\ d.mid = c.mid /\ d.end = c.end
        /\ d.arr = Append(c.arr, e) /\ d.i = c.i + 1 /\ d.j = c.j
    <3>1. c \in MergeFrame
      BY <1>1, MergeFrames
    <3>2. /\ d \in MergeFrame /\ d.st = c.st /\ d.mid = c.mid /\ d.end = c.end
          /\ d.arr = Append(c.arr, e) /\ d.i = c.i + 1 /\ d.j = c.j
      BY <2>4, <3>1, TakeFirst
    <3> QED
      BY <3>2, MergeFrames
  <2>6. d.arr = Append(c.arr, array[i]) /\ d.i = i + 1 /\ d.j = j
    BY <1>3, <2>3, <2>5
  <2>7. \A l \in Indices : ToCome(c, l) => array[i] <= array[l]
    <3> SUFFICES ASSUME NEW l \in Indices, ToCome(c, l) PROVE array[i] <= array[l]
      OBVIOUS
    <3>1. CASE l \in i..(mid - 1)
      BY <1>9, <3>1
    <3>2. CASE l \in j..end
      <4>1. j \in Indices /\ j <= end /\ array[j] <= array[l]
        BY <1>10, <3>2
      <4>2. array[i] <= array[j] /\ array[l] \in Int /\ array[j] \in Int
        BY <1>11, <1>n, <4>1
      <4> QED
        BY <2>1, <4>1, <4>2
    <3> QED
      BY <1>8, <3>1, <3>2
  <2>8. PICK r \in [1..Len(d.arr) -> Indices] : Merging(d, r)
    BY <1>1, <1>3, <1>4, <1>5, <1>11, <2>1, <2>5, <2>6, <2>7, TakesOne
  <2>9. calls' \in Seq(Call) /\ MergeInv'
    BY <1>1, <1>n, <2>2, <2>5, <2>6, <2>8, TurnKeeps
  <2> QED
    BY <1>n, <2>2, <2>9, StillStep
<1>12. CASE j <= end /\ ~(i < mid /\ (j <= end => array[i] <= array[j]))
  <2>0. PICK d : d = [c EXCEPT !.arr = Append(@, array[j]), !.j = @ + 1]
    OBVIOUS
  <2>1. j \in Indices /\ array[j] \in Int
    BY <1>4, <1>6, <1>12, <1>n
  <2>2. calls' = <<d>> \o Tail(calls) /\ UNCHANGED array
    BY <1>1, <1>3, <1>12, <2>0 DEF MergeElement, Continue
  <2>3. PICK e \in Int : e = array[j]
    BY <2>1
  <2>4. SecondTaken(c, e, d)
    BY <2>0, <2>3 DEF SecondTaken
  <2>5. /\ d \in Call /\ d.f = "merge" /\ d.st = c.st /\ d.mid = c.mid /\ d.end = c.end
        /\ d.arr = Append(c.arr, e) /\ d.i = c.i /\ d.j = c.j + 1
    <3>1. c \in MergeFrame
      BY <1>1, MergeFrames
    <3>2. /\ d \in MergeFrame /\ d.st = c.st /\ d.mid = c.mid /\ d.end = c.end
          /\ d.arr = Append(c.arr, e) /\ d.i = c.i /\ d.j = c.j + 1
      BY <2>4, <3>1, TakeSecond
    <3> QED
      BY <3>2, MergeFrames
  <2>6. d.arr = Append(c.arr, array[j]) /\ d.i = i /\ d.j = j + 1
    BY <1>3, <2>3, <2>5
  <2>7. \A l \in Indices : ToCome(c, l) => array[j] <= array[l]
    <3> SUFFICES ASSUME NEW l \in Indices, ToCome(c, l) PROVE array[j] <= array[l]
      OBVIOUS
    <3>1. CASE l \in i..(mid - 1)
      <4>1. i \in Indices /\ i < mid /\ array[i] <= array[l]
        BY <1>9, <3>1
      <4> QED
        BY <1>12, <1>n, <2>1, <4>1
    <3>2. CASE l \in j..end
      BY <1>10, <3>2
    <3> QED
      BY <1>8, <3>1, <3>2
  <2>8. PICK r \in [1..Len(d.arr) -> Indices] : Merging(d, r)
    BY <1>1, <1>3, <1>4, <1>5, <1>12, <2>1, <2>5, <2>6, <2>7, TakesOne
  <2>9. calls' \in Seq(Call) /\ MergeInv'
    BY <1>1, <1>n, <2>2, <2>5, <2>6, <2>8, TurnKeeps
  <2> QED
    BY <1>n, <2>2, <2>9, StillStep
<1>13. CASE ~(i < mid) /\ ~(j <= end)
  <2>1. /\ array' = [k \in DOMAIN array |->
                       IF k \in c.st..c.end THEN c.arr[k - c.st + 1] ELSE array[k]]
        /\ calls' = Tail(calls)
    BY <1>1, <1>3, <1>13, <1>n, NoneMade DEF MergeElement, Continue
  <2>2. c.i = c.mid /\ c.j = c.end + 1
    BY <1>3, <1>6, <1>13
  <2> QED
    BY <1>1, <1>n, <2>1, <2>2, CopyBack
<1> QED
  BY <1>11, <1>12, <1>13

LEMMA MergeKeeps ==
  ASSUME Common, MergeInv, SortNext  PROVE Common' /\ MergeInv'
<1>1. calls # <<>>
  BY DEF SortNext, Bubble, InsertElement, MergeSortCall, MergeElement, HeapifyCall,
         ExtractLargest, QuickSortCall, Partition, Calls
<1>2. todo.f \in {"merge_sort", "merge"}
  <2>1. 1 \in 1..Len(calls) /\ todo = calls[1]
    BY <1>1, TailOf, SMTT(30) DEF Common, todo
  <2> QED
    BY <2>1, MergeTypes
<1>3. MergeSortCall \/ MergeElement
  BY <1>2 DEF SortNext, Bubble, InsertElement, HeapifyCall,
              ExtractLargest, QuickSortCall, Partition, Calls
<1> QED
  BY <1>3, MergeSortCallKeeps, MergeElementKeeps

(***************************************************************************)
(* quicksort                                                               *)
(***************************************************************************)

\* The call in front is replaced by more, each of them within the array.
LEMMA QuickMore ==
  ASSUME Common, QuickInv, calls # <<>>, original' = original,
         \/ calls' = Tail(calls)
         \/ \E d \in Call : QuickCallOK(d) /\ calls' = <<d>> \o Tail(calls)
         \/ \E d, e \in Call : QuickCallOK(d) /\ QuickCallOK(e) /\ calls' = <<d, e>> \o Tail(calls)
  PROVE  calls' \in Seq(Call) /\ QuickInv'
<1>n. /\ calls \in Seq(Call) /\ Len(calls) \in Nat /\ Len(calls) >= 1
      /\ Tail(calls) \in Seq(Call) /\ Len(Tail(calls)) = Len(calls) - 1
      /\ \A k \in 1..(Len(calls) - 1) : Tail(calls)[k] = calls[k + 1]
      /\ arraySize' = arraySize
  BY TailOf DEF Common, arraySize
<1>1. \A c : QuickCallOK(c)' <=> QuickCallOK(c)
  BY <1>n DEF QuickCallOK
<1>2. PICK t \in Seq(Call) : t = Tail(calls)
  BY <1>n
<1>3. Len(t) \in Nat /\ \A k \in 1..Len(t) : QuickCallOK(t[k])
  <2> SUFFICES ASSUME NEW k \in 1..Len(t) PROVE QuickCallOK(t[k])
    BY <1>2
  <2>1. PICK m \in 1..Len(calls) : m = k + 1
    BY <1>n, <1>2
  <2>2. t[k] = calls[m]
    BY <1>n, <1>2, <2>1
  <2> QED
    BY <2>2 DEF QuickInv
<1>4. CASE calls' = Tail(calls)
  BY <1>1, <1>2, <1>3, <1>4 DEF QuickInv
<1>5. ASSUME NEW d \in Call, QuickCallOK(d), calls' = <<d>> \o Tail(calls)
      PROVE  calls' \in Seq(Call) /\ QuickInv'
  <2>1. /\ calls' \in Seq(Call) /\ Len(calls') = Len(t) + 1 /\ calls'[1] = d
        /\ \A k \in 1..Len(t) : calls'[k + 1] = t[k]
    BY <1>2, <1>5, OneMade
  <2>2. ASSUME NEW k \in 1..Len(calls')  PROVE QuickCallOK(calls'[k])
    <3>1. CASE k = 1
      BY <1>5, <2>1, <3>1
    <3>2. CASE k # 1
      <4>1. PICK m \in 1..Len(t) : k = m + 1
        BY <1>3, <2>1, <3>2
      <4> QED
        BY <1>3, <2>1, <4>1
    <3> QED
      BY <3>1, <3>2
  <2> QED
    BY <1>1, <2>1, <2>2 DEF QuickInv
<1>6. ASSUME NEW d \in Call, NEW e \in Call, QuickCallOK(d), QuickCallOK(e),
             calls' = <<d, e>> \o Tail(calls)
      PROVE  calls' \in Seq(Call) /\ QuickInv'
  <2>1. /\ calls' \in Seq(Call) /\ Len(calls') = Len(t) + 2 /\ calls'[1] = d /\ calls'[2] = e
        /\ \A k \in 1..Len(t) : calls'[k + 2] = t[k]
    BY <1>2, <1>6, TwoMade
  <2>2. ASSUME NEW k \in 1..Len(calls')  PROVE QuickCallOK(calls'[k])
    <3>1. CASE k \in {1, 2}
      BY <1>6, <2>1, <3>1
    <3>2. CASE k \notin {1, 2}
      <4>1. Len(t) \in Nat /\ k \in 1..(Len(t) + 2)
        BY <1>3, <2>1
      <4>2. k - 2 \in 1..Len(t) /\ (k - 2) + 2 = k
        BY <3>2, <4>1
      <4>3. PICK m \in 1..Len(t) : m = k - 2 /\ m + 2 = k
        BY <4>2
      <4> QED
        BY <1>3, <2>1, <4>3
    <3> QED
      BY <3>1, <3>2
  <2> QED
    BY <1>1, <2>1, <2>2 DEF QuickInv
<1> QED
  BY <1>4, <1>5, <1>6

PartitionFrame ==
  [f : {"partition"}, st : Int, end : Int, left : Int, right : Int, pivot : Int]

LEMMA PartitionFrames ==
  ASSUME NEW d
  PROVE  /\ d \in PartitionFrame => d \in Call /\ d.f = "partition"
         /\ d \in Call /\ d.f = "partition" => d \in PartitionFrame
BY DEF PartitionFrame, Call

Bounded(c, a, b, d) == d = [c EXCEPT !.left = a, !.right = b]

LEMMA NewBounds ==
  ASSUME NEW c \in PartitionFrame, NEW a \in Int, NEW b \in Int, NEW d, Bounded(c, a, b, d)
  PROVE  /\ d \in PartitionFrame /\ d.st = c.st /\ d.end = c.end /\ d.left = a /\ d.right = b
<1>1. d \in PartitionFrame
  BY DEF PartitionFrame, Bounded
<1>2. d.st = c.st /\ d.end = c.end /\ d.left = a /\ d.right = b
  BY DEF PartitionFrame, Bounded
<1> QED
  BY <1>1, <1>2

LEMMA QuickSortCallKeeps ==
  ASSUME Common, QuickInv, QuickSortCall  PROVE Common' /\ QuickInv'
<1>n. /\ calls # <<>> /\ todo = calls[1] /\ todo.f = "quick_sort" /\ 1 \in 1..Len(calls)
      /\ calls \in Seq(Call) /\ Tail(calls) \in Seq(Call)
      /\ arraySize \in Nat /\ Indices = 0..(arraySize - 1) /\ array \in [Indices -> Int]
      /\ UNCHANGED <<sortProgram, original, array>>
  BY TailOf, ArraySize DEF QuickSortCall, Calls, Continue, Common, todo
<1>1. PICK c \in Call : c = todo
  BY <1>n
<1>2. QuickCallOK(c) /\ c.f = "quick_sort"
  BY <1>1, <1>n DEF QuickInv
<1>3. PICK u \in Int, w \in Int : u = c.st /\ w = c.end
  BY <1>2, RangeCalls
<1>4. 0 <= u /\ w < arraySize
  BY <1>2, <1>3 DEF QuickCallOK
<1>5. CASE u >= w
  <2>1. calls' = <<>> \o Tail(calls)
    BY <1>1, <1>3, <1>5 DEF QuickSortCall, Continue
  <2>2. calls' = Tail(calls)
    BY <1>n, <2>1, NoneMade
  <2>3. calls' \in Seq(Call) /\ QuickInv'
    BY <1>n, <2>2, QuickMore
  <2> QED
    BY <1>n, <2>3, StillStep
<1>6. CASE ~(u >= w)
  <2>1. PICK m \in Int : m = u + (w - u) \div 2
    OBVIOUS
  <2>2. m \in Indices
    <3>1. u <= m /\ m <= w
      BY <1>6, <2>1
    <3> QED
      BY <1>4, <1>n, <3>1
  <2>3. PICK e \in Int : e = array[m]
    BY <1>n, <2>2
  <2> DEFINE d == [f |-> "partition", st |-> u, end |-> w, left |-> u, right |-> w, pivot |-> e]
  <2>4. calls' = <<d>> \o Tail(calls)
    BY <1>1, <1>3, <1>6, <2>1, <2>3 DEF QuickSortCall, Continue
  <2>5. d \in PartitionFrame /\ d.st = u /\ d.end = w /\ d.left = u /\ d.right = w /\ d.f = "partition"
    BY DEF PartitionFrame
  <2> HIDE DEF d
  <2>6. QuickCallOK(d) /\ d \in Call
    BY <1>4, <1>6, <1>n, <2>5, PartitionFrames DEF QuickCallOK
  <2>7. calls' \in Seq(Call) /\ QuickInv'
    BY <1>n, <2>4, <2>6, QuickMore
  <2> QED
    BY <1>n, <2>7, StillStep
<1> QED
  BY <1>5, <1>6

\* Both scans end: at the first place from left on, and the last one from right down.
LEMMA ScansEnd ==
  ASSUME Common, NEW l \in Nat, NEW r \in Nat, NEW v \in Int, l <= r, r < arraySize
  PROVE  /\ \E k \in l..r : /\ k = r \/ array[k] >= v
                            /\ \A m \in l..(k - 1) : array[m] < v
         /\ \E k \in l..r : /\ k = l \/ array[k] <= v
                            /\ \A m \in (k + 1)..r : array[m] > v
<1>n. Indices = 0..(arraySize - 1) /\ array \in [Indices -> Int] /\ arraySize \in Nat
  BY ArraySize DEF Common
<1>a. \A k \in l..r : k \in Nat /\ array[k] \in Int
  BY <1>n
<1>1. \E k \in l..r : /\ k = r \/ array[k] >= v
                      /\ \A m \in l..(k - 1) : array[m] < v
  <2> DEFINE S == {k \in l..r : k = r \/ array[k] >= v}
  <2>1. S \in SUBSET Nat /\ r \in S
    OBVIOUS
  <2>2. \A k : k \in S <=> k \in l..r /\ (k = r \/ array[k] >= v)
    OBVIOUS
  <2> HIDE DEF S
  <2>3. PICK k \in S : \A m \in S : k <= m
    BY <2>1, SmallestIndex
  <2>4. k \in l..r /\ (k = r \/ array[k] >= v)
    BY <2>2
  <2>5. ASSUME NEW m \in l..(k - 1)  PROVE array[m] < v
    <3>1. m \in l..r /\ m < k
      BY <2>4
    <3>2. m \notin S
      BY <2>3, <2>4, <3>1
    <3> QED
      BY <1>a, <2>2, <3>1, <3>2
  <2> QED
    BY <2>4, <2>5
<1>2. \E k \in l..r : /\ k = l \/ array[k] <= v
                      /\ \A m \in (k + 1)..r : array[m] > v
  <2> DEFINE S == {k \in l..r : k = l \/ array[k] <= v}
  <2>1. S \in SUBSET (0..r) /\ l \in S
    OBVIOUS
  <2>2. \A k : k \in S <=> k \in l..r /\ (k = l \/ array[k] <= v)
    OBVIOUS
  <2> HIDE DEF S
  <2>3. PICK k \in S : \A m \in S : m <= k
    BY <2>1, LargestIndex
  <2>4. k \in l..r /\ (k = l \/ array[k] <= v)
    BY <2>2
  <2>5. ASSUME NEW m \in (k + 1)..r  PROVE array[m] > v
    <3>1. m \in l..r /\ k < m
      BY <2>4
    <3>2. m \notin S
      BY <2>3, <2>4, <3>1
    <3> QED
      BY <1>a, <2>2, <3>1, <3>2
  <2> QED
    BY <2>4, <2>5
<1> QED
  BY <1>1, <1>2

LEMMA PartitionKeeps ==
  ASSUME Common, QuickInv, Partition  PROVE Common' /\ QuickInv'
<1>n. /\ calls # <<>> /\ todo = calls[1] /\ todo.f = "partition" /\ 1 \in 1..Len(calls)
      /\ calls \in Seq(Call) /\ Tail(calls) \in Seq(Call)
      /\ arraySize \in Nat /\ Indices = 0..(arraySize - 1) /\ array \in [Indices -> Int]
      /\ UNCHANGED <<sortProgram, original>>
  <2>1. Calls("partition")
    BY DEF Partition
  <2>2. UNCHANGED <<sortProgram, original>>
    BY Zenon DEF Partition, Continue
  <2> QED
    BY <2>1, <2>2, TailOf, ArraySize DEF Calls, Common, todo
<1>1. PICK c \in Call : c = todo
  BY <1>n
<1>2. QuickCallOK(c) /\ c.f = "partition" /\ c \in PartitionFrame
  BY <1>1, <1>n, PartitionFrames DEF QuickInv
<1>3. PICK u \in Int, w \in Int, l \in Int, r \in Int, v \in Int :
        u = c.st /\ w = c.end /\ l = c.left /\ r = c.right /\ v = c.pivot
  BY <1>2, RangeCalls
<1>4. 0 <= u /\ w < arraySize /\ u <= l /\ l <= r + 1 /\ r <= w
  BY <1>2, <1>3 DEF QuickCallOK
<1>5. CASE l >= r
  <2> DEFINE d == QuickSort(u, l - 1)
             e == QuickSort(r + 1, w)
  <2>1. calls' = <<d, e>> \o Tail(calls) /\ UNCHANGED array
    BY <1>1, <1>3, <1>5 DEF Partition, Continue
  <2>2. /\ d.f = "quick_sort" /\ d.st = u /\ d.end = l - 1
        /\ e.f = "quick_sort" /\ e.st = r + 1 /\ e.end = w
    BY DEF QuickSort
  <2>3. /\ d \in [f : {"merge_sort", "quick_sort"}, st : Int, end : Int]
        /\ e \in [f : {"merge_sort", "quick_sort"}, st : Int, end : Int]
    BY DEF QuickSort
  <2> HIDE DEF d, e
  <2>4. d \in Call /\ e \in Call
    BY <2>3 DEF Call
  <2>5. QuickCallOK(d) /\ QuickCallOK(e)
    BY <1>4, <1>n, <2>2 DEF QuickCallOK
  <2>6. calls' \in Seq(Call) /\ QuickInv'
    BY <1>n, <2>1, <2>4, <2>5, QuickMore
  <2> QED
    BY <1>n, <2>1, <2>6, StillStep
<1>6. CASE ~(l >= r)
  <2>1. l \in Nat /\ r \in Nat /\ l <= r /\ r < arraySize
    BY <1>n, <1>4, <1>6
  <2>2. PICK left :
          /\ left = CHOOSE k \in l..r : /\ k = r \/ array[k] >= v
                                        /\ \A m \in l..(k - 1) : array[m] < v
    OBVIOUS
  <2>3. left \in l..r
    <3>1. \E k \in l..r : /\ k = r \/ array[k] >= v
                          /\ \A m \in l..(k - 1) : array[m] < v
      BY <2>1, ScansEnd
    <3> QED
      BY <2>2, <3>1
  <2>4. PICK right :
          /\ right = CHOOSE k \in left..r : /\ k = left \/ array[k] <= v
                                            /\ \A m \in (k + 1)..r : array[m] > v
    OBVIOUS
  <2>5. right \in left..r
    <3>1. left \in Nat /\ left <= r
      BY <2>1, <2>3
    <3>2. \E k \in left..r : /\ k = left \/ array[k] <= v
                             /\ \A m \in (k + 1)..r : array[m] > v
      BY <2>1, <3>1, ScansEnd
    <3> QED
      BY <2>4, <3>2
  <2>6. IF left < right
        THEN /\ array' = Swapped(left, right)
             /\ Continue(<<[c EXCEPT !.left = left + 1, !.right = right - 1]>>)
        ELSE /\ Continue(<<[c EXCEPT !.left = left, !.right = right]>>)
             /\ UNCHANGED array
    BY <1>1, <1>3, <1>6, <2>2, <2>4 DEF Partition
  <2>7. left \in Int /\ right \in Int /\ left \in Indices /\ right \in Indices
    BY <1>n, <2>1, <2>3, <2>5
  <2> DEFINE Moves(a, b) == calls' = <<[c EXCEPT !.left = a, !.right = b]>> \o Tail(calls)
  <2>8. ASSUME NEW a \in Int, NEW b \in Int, l <= a, a <= b + 1, b <= r, Moves(a, b)
        PROVE  calls' \in Seq(Call) /\ QuickInv'
    <3>1. PICK d : Bounded(c, a, b, d)
      BY DEF Bounded
    <3>2. calls' = <<d>> \o Tail(calls)
      BY <2>8, <3>1 DEF Bounded
    <3> HIDE DEF Moves
    <3>3. d \in PartitionFrame /\ d.st = c.st /\ d.end = c.end /\ d.left = a /\ d.right = b
      BY <1>2, <3>1, NewBounds
    <3>4. d \in Call /\ d.f = "partition"
      BY <3>3, PartitionFrames
    <3>5. 0 <= u /\ w < arraySize /\ u <= a /\ a <= b + 1 /\ b <= w
      BY <1>4, <2>8
    <3>6. QuickCallOK(d)
      BY <1>3, <3>3, <3>4, <3>5 DEF QuickCallOK
    <3> QED
      BY <1>n, <3>2, <3>4, <3>6, QuickMore
  <2>9. CASE left < right
    <3>1. calls' = <<[c EXCEPT !.left = left + 1, !.right = right - 1]>> \o Tail(calls)
          /\ array' = Swapped(left, right)
      BY <2>6, <2>9 DEF Continue
    <3>2. PICK a \in Int, b \in Int : a = left + 1 /\ b = right - 1
      BY <2>7
    <3>3. l <= a /\ a <= b + 1 /\ b <= r
      BY <2>3, <2>5, <2>7, <2>9, <3>2
    <3>m. Moves(a, b)
      BY <3>1, <3>2
    <3> HIDE DEF Moves
    <3>4. calls' \in Seq(Call) /\ QuickInv'
      BY <2>8, <3>2, <3>3, <3>m
    <3>5. Arranged' /\ array' \in [Indices' -> Int]
      BY <1>n, <2>7, <3>1, SwapStep
    <3> QED
      BY <1>n, <3>4, <3>5, CommonStep
  <2>10. CASE ~(left < right)
    <3>1. calls' = <<[c EXCEPT !.left = left, !.right = right]>> \o Tail(calls) /\ UNCHANGED array
      BY <2>6, <2>10 DEF Continue
    <3>2. l <= left /\ left <= right + 1 /\ right <= r
      BY <2>3, <2>5, <2>7
    <3>m. Moves(left, right)
      BY <3>1
    <3> HIDE DEF Moves
    <3>3. calls' \in Seq(Call) /\ QuickInv'
      BY <2>7, <2>8, <3>2, <3>m
    <3> QED
      BY <1>n, <3>1, <3>3, StillStep
  <2> QED
    BY <2>9, <2>10
<1> QED
  BY <1>5, <1>6

LEMMA QuickKeeps ==
  ASSUME Common, QuickInv, SortNext  PROVE Common' /\ QuickInv'
<1>1. calls # <<>>
  BY DEF SortNext, Bubble, InsertElement, MergeSortCall, MergeElement, HeapifyCall,
         ExtractLargest, QuickSortCall, Partition, Calls
<1>2. todo.f \in {"quick_sort", "partition"}
  <2>1. 1 \in 1..Len(calls) /\ todo = calls[1]
    BY <1>1, TailOf DEF Common, todo
  <2> QED
    BY <2>1 DEF QuickInv, QuickCallOK
<1>3. QuickSortCall \/ Partition
  BY <1>2 DEF SortNext, Bubble, InsertElement, HeapifyCall,
              ExtractLargest, MergeSortCall, MergeElement, Calls
<1> QED
  BY <1>3, QuickSortCallKeeps, PartitionKeeps

-----------------------------------------------------------------------------
(***************************************************************************)
(* The beginning                                                           *)
(***************************************************************************)

LEMMA FunctionSeq ==
  ASSUME NEW S, NEW n \in Nat, NEW s \in [1..n -> S]  PROVE s \in Seq(S) /\ Len(s) = n
OBVIOUS

LEMMA Joined ==
  ASSUME NEW S, NEW a \in Seq(S), NEW b \in Seq(S)
  PROVE  /\ a \o b \in Seq(S) /\ Len(a \o b) = Len(a) + Len(b)
         /\ \A k \in 1..Len(a) : (a \o b)[k] = a[k]
         /\ \A k \in 1..Len(b) : (a \o b)[Len(a) + k] = b[k]
OBVIOUS

LEMMA FirstCommon ==
  ASSUME SortInit
  PROVE  /\ arraySize \in Nat /\ Indices = 0..(arraySize - 1)
         /\ array \in [Indices -> Int] /\ Arranged
<1>1. original \in Seq(Int) /\ arraySize \in Nat /\ Indices = 0..(arraySize - 1)
  BY SortAssumption DEF SortInit, arraySize, Indices
<1>2. \A k \in Indices : k + 1 \in 1..arraySize /\ array[k] = original[k + 1]
  BY <1>1 DEF SortInit, arraySize
<1>3. array \in [Indices -> Int]
  BY <1>1 DEF SortInit, arraySize
<1> DEFINE p == [k \in Indices |-> k + 1]
<1>4. p \in [Indices -> 1..arraySize] /\ \A k \in Indices : p[k] = k + 1
  BY <1>1, <1>2
<1> HIDE DEF p
<1>5. \A j, k \in Indices : p[j] = p[k] => j = k
  BY <1>1, <1>4
<1>6. ASSUME NEW m \in 1..arraySize  PROVE \E k \in Indices : p[k] = m
  <2>1. PICK k \in Indices : k = m - 1
    BY <1>1
  <2> QED
    BY <1>4, <2>1
<1>7. Arranges(p, arraySize, array, original)
  BY <1>1, <1>2, <1>4, <1>5, <1>6 DEF Arranges
<1> QED
  BY <1>1, <1>3, <1>4, <1>7 DEF Arranged

LEMMA CallsMade ==
  ASSUME NEW i \in Int, NEW j \in Int
  PROVE  /\ BubblePass(i, j) \in Call /\ Insert(i) \in Call /\ Heapify(i, j) \in Call
         /\ Extract(i) \in Call /\ MergeSort(i, j) \in Call /\ QuickSort(i, j) \in Call
<1>1. /\ BubblePass(i, j) \in [f : {"bubble"}, i : Int, j : Int]
      /\ Insert(i) \in [f : {"insert", "extract"}, i : Int]
      /\ Extract(i) \in [f : {"insert", "extract"}, i : Int]
      /\ Heapify(i, j) \in [f : {"heapify"}, n : Int, i : Int]
      /\ MergeSort(i, j) \in [f : {"merge_sort", "quick_sort"}, st : Int, end : Int]
      /\ QuickSort(i, j) \in [f : {"merge_sort", "quick_sort"}, st : Int, end : Int]
  BY DEF BubblePass, Insert, Extract, Heapify, MergeSort, QuickSort
<1> QED
  BY <1>1 DEF Call

LEMMA SortStart == SortInit => SortInv
<1> SUFFICES ASSUME SortInit PROVE SortInv
  OBVIOUS
<1>1. /\ arraySize \in Nat /\ Indices = 0..(arraySize - 1)
      /\ array \in [Indices -> Int] /\ Arranged
  BY FirstCommon
<1>2. PICK n \in Nat : n = arraySize
  BY <1>1
<1>3. calls = FirstCalls(sortProgram, n) /\ sortProgram \in SortPrograms /\ original \in SortInputs
  BY <1>2 DEF SortInit, arraySize
<1>4. calls \in Seq(Call) => Common
  BY <1>1, <1>3 DEF Common
<1>5. CASE sortProgram = "bubblesort"
  <2>1. calls = <<BubblePass(n, 0)>>
    BY <1>3, <1>5 DEF FirstCalls
  <2>2. calls \in Seq(Call)
    BY <2>1, CallsMade
  <2>3. BubbleInv
    BY <1>1, <1>2, <2>1 DEF BubbleInv, Settled
  <2> QED
    BY <1>4, <1>5, <2>2, <2>3 DEF SortInv
<1>6. CASE sortProgram = "insertionSort"
  <2>1. calls = [k \in 1..n |-> Insert(k - 1)]
    BY <1>3, <1>6 DEF FirstCalls
  <2>2. \A k \in 1..n : calls[k] = Insert(k - 1) /\ Insert(k - 1) \in Call
    BY <2>1, CallsMade
  <2>3. calls \in [1..n -> Call]
    BY <2>1, <2>2
  <2>4. calls \in Seq(Call) /\ Len(calls) = n
    BY <2>3, FunctionSeq
  <2>5. Inserted = 0
    BY <1>2, <2>4 DEF Inserted
  <2>6. \A k \in 1..Len(calls) : calls[k] = Insert(Inserted + k - 1)
    BY <2>2, <2>4, <2>5
  <2>7. InsertInv
    BY <2>5, <2>6 DEF InsertInv
  <2> QED
    BY <1>4, <1>6, <2>4, <2>7 DEF SortInv
<1>7. CASE sortProgram = "mergesort"
  <2>1. calls = <<MergeSort(0, n - 1)>>
    BY <1>3, <1>7 DEF FirstCalls
  <2>2. calls \in Seq(Call) /\ Len(calls) = 1 /\ calls[1] = MergeSort(0, n - 1)
    BY <2>1, CallsMade
  <2>3. lo(1) = 0 /\ hi(1) = n - 1 /\ calls[1].f = "merge_sort"
    BY <2>2 DEF lo, hi, MergeSort
  <2>4. MergeCallOK(1)
    BY <1>1, <1>2, <2>2, <2>3 DEF MergeCallOK
  <2>5. Ready(0, arraySize - 1, Len(calls) + 1)
    <3>1. lo(1) = 0 /\ hi(1) = arraySize - 1 /\ 1 \in 1..((Len(calls) + 1) - 1)
      BY <1>2, <2>2, <2>3
    <3> QED
      BY <3>1 DEF Ready
  <2>6. \A k \in 1..Len(calls) : k = 1
    BY <2>2
  <2>7. MergeInv
    BY <2>4, <2>5, <2>6 DEF MergeInv
  <2> QED
    BY <1>4, <1>7, <2>2, <2>7 DEF SortInv
<1>8. CASE sortProgram = "heapSort"
  <2>1. PICK r \in Nat, l \in Nat : r = n \div 2 /\ l = IF n = 0 THEN 0 ELSE n - 1
    <3>1. n \div 2 \in Nat /\ (IF n = 0 THEN 0 ELSE n - 1) \in Nat
      OBVIOUS
    <3> QED
      BY <3>1
  <2> DEFINE a == [k \in 1..r |-> Heapify(n, r - k)]
             b == [k \in 1..l |-> Extract(n - k)]
  <2>2. calls = a \o b
    BY <1>3, <1>8, <2>1 DEF FirstCalls
  <2>3. /\ \A k \in 1..r : a[k] = Heapify(n, r - k) /\ a[k] \in Call
        /\ \A k \in 1..l : b[k] = Extract(n - k) /\ b[k] \in Call
    BY CallsMade
  <2>4. a \in [1..r -> Call] /\ b \in [1..l -> Call]
    BY <2>3
  <2> HIDE DEF a, b
  <2>5. a \in Seq(Call) /\ Len(a) = r /\ b \in Seq(Call) /\ Len(b) = l
    BY <2>4, FunctionSeq
  <2>6. /\ calls \in Seq(Call) /\ Len(calls) = r + l
        /\ \A k \in 1..r : calls[k] = a[k]
        /\ \A k \in 1..l : calls[r + k] = b[k]
    <3>1. PICK x \in Seq(Call), y \in Seq(Call) : x = a /\ y = b
      BY <2>5
    <3>2. /\ x \o y \in Seq(Call) /\ Len(x \o y) = Len(x) + Len(y)
          /\ \A k \in 1..Len(x) : (x \o y)[k] = x[k]
          /\ \A k \in 1..Len(y) : (x \o y)[Len(x) + k] = y[k]
      BY Joined
    <3>3. PICK z : z = x \o y
      OBVIOUS
    <3>4. calls = z /\ Len(x) = r /\ Len(y) = l
      BY <2>2, <2>5, <3>1, <3>3
    <3>5. /\ z \in Seq(Call) /\ Len(z) = r + l
          /\ \A k \in 1..r : z[k] = x[k]
          /\ \A k \in 1..l : z[r + k] = y[k]
      BY <3>2, <3>3, <3>4
    <3> QED
      BY <3>1, <3>4, <3>5
  <2>7. \A k \in 1..r : calls[k] = Heapify(n, r - k)
    BY <2>3, <2>6
  <2>8. ASSUME NEW k \in (r + 1)..(r + l)  PROVE calls[k] = Extract(n - (k - r))
    <3>1. PICK m \in 1..l : m = k - r /\ r + m = k
      BY <2>8
    <3>2. calls[k] = b[m]
      BY <2>6, <3>1
    <3> QED
      BY <2>3, <3>1, <3>2
  <2>9. HeapRest(calls, r, n)
    BY <2>1, <2>6, <2>7, <2>8 DEF HeapRest
  <2>10. n <= 2 * r + 1 /\ r <= n
    BY <2>1
  <2>11. HeapBut(r, n, -1)
    BY <2>10 DEF HeapBut, Child
  <2>12. Settled(n)
    BY <1>1, <1>2 DEF Settled
  <2>13. HeapWhole(r, n)
    BY <1>2, <2>9, <2>11, <2>12 DEF HeapWhole
  <2>14. r \in 0..arraySize /\ n \in 0..arraySize
    BY <1>2, <2>10
  <2>15. HeapInv
    BY <2>13, <2>14 DEF HeapInv
  <2> QED
    BY <1>4, <1>8, <2>6, <2>15 DEF SortInv
<1>9. CASE sortProgram = "quicksort"
  <2>1. calls = <<QuickSort(0, n - 1)>>
    BY <1>3, <1>9 DEF FirstCalls
  <2>2. calls \in Seq(Call) /\ Len(calls) = 1 /\ calls[1] = QuickSort(0, n - 1)
    BY <2>1, CallsMade
  <2>3. QuickCallOK(QuickSort(0, n - 1))
    BY <1>2 DEF QuickCallOK, QuickSort
  <2>4. QuickInv
    BY <2>2, <2>3 DEF QuickInv
  <2> QED
    BY <1>4, <1>9, <2>2, <2>4 DEF SortInv
<1> QED
  BY <1>3, <1>5, <1>6, <1>7, <1>8, <1>9, SortAssumption

-----------------------------------------------------------------------------
LEMMA SortStep == SortInv /\ [SortNext]_sortVars => SortInv'
<1>1. ASSUME SortInv, SortNext  PROVE SortInv'
  <2>1. sortProgram' = sortProgram
    BY <1>1, Zenon DEF SortNext, Bubble, InsertElement, MergeSortCall, MergeElement, HeapifyCall,
         ExtractLargest, QuickSortCall, Partition, Continue
  <2>2. Common
    BY <1>1 DEF SortInv
  <2>3. sortProgram \in {"bubblesort", "insertionSort", "mergesort", "heapSort", "quicksort"}
    BY <2>2, SortAssumption DEF Common
  <2>4. CASE sortProgram = "bubblesort"
    BY <1>1, <2>1, <2>2, <2>4, BubbleKeeps DEF SortInv
  <2>5. CASE sortProgram = "insertionSort"
    BY <1>1, <2>1, <2>2, <2>5, InsertKeeps DEF SortInv
  <2>6. CASE sortProgram = "mergesort"
    BY <1>1, <2>1, <2>2, <2>6, MergeKeeps DEF SortInv
  <2>7. CASE sortProgram = "heapSort"
    BY <1>1, <2>1, <2>2, <2>7, HeapKeeps DEF SortInv
  <2>8. CASE sortProgram = "quicksort"
    BY <1>1, <2>1, <2>2, <2>8, QuickKeeps DEF SortInv
  <2> QED
    BY <2>3, <2>4, <2>5, <2>6, <2>7, <2>8
<1>2. ASSUME SortInv, UNCHANGED sortVars  PROVE SortInv'
  <2>n. UNCHANGED <<sortProgram, original, array, calls>> /\ arraySize' = arraySize /\ Indices' = Indices
    BY <1>2 DEF sortVars, arraySize, Indices
  <2>1. Common'
    BY <1>2, <2>n, StillStep DEF SortInv, Common
  <2>2. BubbleInv <=> BubbleInv'
    BY <2>n DEF BubbleInv, Settled
  <2>3. InsertInv <=> InsertInv'
    BY <2>n DEF InsertInv, Inserted
  <2>4. MergeInv <=> MergeInv'
    BY <2>n DEF MergeInv, MergeCallOK, Ready, Nested, Apart, Within, InOrder, Merging, lo, hi
  <2>5. HeapInv <=> HeapInv'
    BY <2>n DEF HeapInv, HeapWhole, HeapSinking, HeapBut, Settled
  <2>6. QuickInv <=> QuickInv'
    BY <2>n DEF QuickInv, QuickCallOK
  <2> QED
    BY <1>2, <2>n, <2>1, <2>2, <2>3, <2>4, <2>5, <2>6 DEF SortInv
<1> QED
  BY <1>1, <1>2

(***************************************************************************)
(* The end                                                                 *)
(***************************************************************************)

LEMMA Permuted == Common => IsPermutation
<1> SUFFICES ASSUME Common, NEW v \in ToSet(original)
    PROVE Cardinality({k \in 1..arraySize : original[k] = v})
            = Cardinality({k \in 0..(arraySize - 1) : array[k] = v})
  BY DEF IsPermutation
<1>n. arraySize \in Nat /\ Indices = 0..(arraySize - 1)
  BY ArraySize
<1>1. PICK p \in [Indices -> 1..arraySize] : Arranges(p, arraySize, array, original)
  BY DEF Common, Arranged
<1> DEFINE A == {k \in 1..arraySize : original[k] = v}
           B == {k \in 0..(arraySize - 1) : array[k] = v}
           h == [k \in B |-> p[k]]
<1>2. \A k \in B : k \in Indices /\ h[k] = p[k] /\ p[k] \in A
  BY <1>n, <1>1 DEF Arranges
<1>3. h \in [B -> A]
  BY <1>2
<1>4. \A j, k \in B : h[j] = h[k] => j = k
  BY <1>n, <1>1, <1>2 DEF Arranges
<1>5. ASSUME NEW m \in A  PROVE \E k \in B : h[k] = m
  <2>1. PICK k \in 0..(arraySize - 1) : p[k] = m
    BY <1>1 DEF Arranges
  <2>2. array[k] = original[m]
    BY <1>1, <2>1 DEF Arranges
  <2>3. k \in B
    BY <2>2
  <2> QED
    BY <1>2, <2>1, <2>3
<1>6. IsFiniteSet(B)
  <2>1. IsFiniteSet(0..(arraySize - 1))
    BY <1>n, FS_Interval
  <2> QED
    BY <2>1, FS_Subset
<1> HIDE DEF A, B, h
<1>7. ExistsBijection(B, A)
  <2>1. h \in Injection(B, A)
    BY <1>3, <1>4 DEF Injection, IsInjective
  <2>2. h \in Surjection(B, A)
    BY <1>3, <1>5 DEF Surjection
  <2> QED
    BY <2>1, <2>2 DEF ExistsBijection, Bijection
<1>8. Cardinality(A) = Cardinality(B)
  BY <1>6, <1>7, FS_Bijection
<1> QED
  BY <1>8 DEF A, B

LEMMA InTheEnd == SortInv => SortsInput
<1> SUFFICES ASSUME SortInv, calls = <<>>, sortProgram # "quicksort"  PROVE Ordered
  BY Permuted DEF SortInv, SortsInput
<1>1. Common /\ arraySize \in Nat /\ Indices = 0..(arraySize - 1) /\ Len(calls) = 0
  BY ArraySize DEF SortInv
<1>2. sortProgram \in {"bubblesort", "insertionSort", "mergesort", "heapSort"}
  BY <1>1, SortAssumption DEF Common
<1> SUFFICES ASSUME NEW k \in 1..(arraySize - 1)  PROVE array[k - 1] <= array[k]
  BY DEF Ordered
<1>3. PICK j \in Indices : j = k - 1 /\ j < k /\ k \in Indices
  BY <1>1
<1>4. CASE sortProgram = "bubblesort"
  <2>1. Settled(0)
    BY <1>4 DEF SortInv, BubbleInv
  <2> QED
    BY <1>3, <2>1 DEF Settled
<1>5. CASE sortProgram = "insertionSort"
  <2>1. Inserted = arraySize /\ InsertInv
    BY <1>1, <1>5 DEF SortInv, Inserted
  <2> QED
    BY <1>1, <1>3, <2>1 DEF InsertInv
<1>6. CASE sortProgram = "mergesort"
  <2>1. PICK b \in Int : b = arraySize - 1
    BY <1>1
  <2>2. Ready(0, b, 1)
    BY <1>1, <1>6, <2>1 DEF SortInv, MergeInv
  <2>3. InOrder(0, b)
    BY <2>2 DEF Ready
  <2> QED
    BY <1>1, <1>3, <2>1, <2>3 DEF InOrder
<1>7. CASE sortProgram = "heapSort"
  <2>1. PICK r \in 0..arraySize, m \in 0..arraySize : HeapWhole(r, m)
    BY <1>7 DEF SortInv, HeapInv, HeapSinking
  <2>2. m <= 1 /\ Settled(m)
    BY <1>1, <2>1 DEF HeapWhole, HeapRest
  <2> QED
    BY <1>3, <2>2 DEF Settled
<1> QED
  BY <1>2, <1>4, <1>5, <1>6, <1>7

LEMMA SortTyped == SortInv => SortTypeOK
<1> SUFFICES ASSUME SortInv  PROVE SortTypeOK
  OBVIOUS
<1>1. Common /\ arraySize \in Nat /\ Indices = 0..(arraySize - 1) /\ original \in Seq(Int)
  BY ArraySize DEF SortInv
<1>2. PICK p \in [Indices -> 1..arraySize] : Arranges(p, arraySize, array, original)
  BY <1>1 DEF Common, Arranged
<1>3. ASSUME NEW k \in Indices  PROVE array[k] \in ToSet(original)
  <2>1. p[k] \in DOMAIN original
    BY <1>1, <1>2 DEF arraySize
  <2>2. array[k] = original[p[k]]
    BY <1>1, <1>2 DEF Arranges
  <2> QED
    BY <2>1, <2>2 DEF ToSet
<1>4. array \in [0..(arraySize - 1) -> ToSet(original)]
  BY <1>1, <1>3 DEF Common
<1>5. \A k \in DOMAIN calls : calls[k] \in Call
  BY <1>1 DEF Common
<1>6. \A k \in DOMAIN calls :
        calls[k].f \in {"bubble", "insert", "merge_sort", "merge", "heapify", "extract",
                       "quick_sort", "partition"}
  BY <1>5 DEF Call
<1> QED
  BY <1>1, <1>4, <1>6 DEF SortTypeOK, Common

LEMMA SortInvariance == SortSpec => []SortInv
BY SortStart, SortStep, PTL DEF SortSpec

\* When a program is done, the array holds what it was given, each element as often
\* as before, and bubbleSort, insertionSort, mergeSort and heapSort have put it in
\* order: for every array of integers.
THEOREM Sorted == SortSpec => []SortsInput
BY SortInvariance, InTheEnd, PTL

\* The array keeps to the elements it was given, and every call is one of the program's.
THEOREM SortTypeCorrect == SortSpec => []SortTypeOK
BY SortInvariance, SortTyped, PTL

=============================================================================
