------------------------------ MODULE MCLoyalty -----------------------------
(***************************************************************************)
(* Small instances of Loyalty for TLC.                                     *)
(***************************************************************************)
EXTENDS Loyalty, TLC

\* Sound for invariants only: no temporal property is checked with it.
Symmetry == Permutations(Orders) \cup Permutations(Workers)
=============================================================================
