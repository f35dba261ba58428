------------------------------ MODULE MCSorts ------------------------------
(***************************************************************************)
(* Arrays for Sorts: the arrays main() of quicksort.c sorts, and all short *)
(* arrays of a few values.                                                 *)
(***************************************************************************)
EXTENDS Sorts

TestArrays == {
  <<10, 7, 8, 9, 1, 5>>,
  <<1, 2, 4, 6, 8, 2, 3, 4, 0, -1, 10, 7, 8, 9, 1, 5>>,
  <<>>,
  <<10, 9, 8, 7, 6, 5, 4, 3, 2, 1>>,
  <<1, 2, -4, 6, -8, 2, 3, -4, 0, -1, 10, -1, 5>>}

ShortArrays == UNION {[1..n -> 1..3] : n \in 0..5}

=============================================================================
