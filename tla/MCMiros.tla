------------------------------- MODULE MCMiros -------------------------------
(* A small instance of Miros: three threads, each with two delays. *)
EXTENDS Miros

PriosSmall == {1, 2, 5}
DelaysSmall == [p \in PriosSmall |->
                  CASE p = 5 -> {1, 2} [] p = 2 -> {1, 3} [] p = 1 -> {2, 4}]

=============================================================================
