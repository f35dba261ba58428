---------------------------- MODULE MCFanControl ----------------------------
(* Small instances of FanControl. *)
EXTENDS FanControl, TLC

CONSTANTS c1, c2, c3, t1

\* Two processes, one after the other, for module 0 and one for module 1.
MidRestart == (c1 :> 0) @@ (c2 :> 1) @@ (c3 :> 0)
MidTwo == (c1 :> 0) @@ (c2 :> 1)
MidOne == (c1 :> 0) @@ (c2 :> 0)

=============================================================================
