----------------------------- MODULE MCPrograms -----------------------------
(***************************************************************************)
(* An instance of Programs, with the arrays MCSorts defines.               *)
(***************************************************************************)
EXTENDS Programs, MCSorts

=============================================================================
