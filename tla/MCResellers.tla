----------------------------- MODULE MCResellers -----------------------------
(***************************************************************************)
(* A small instance of Resellers.                                          *)
(***************************************************************************)
EXTENDS Resellers, TLC

Requests == Permutations(Slot)

=============================================================================
