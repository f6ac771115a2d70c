----------------------------- MODULE MCGraphics -----------------------------
(* Instances of Graphics for TLC. *)
EXTENDS Graphics, TLC

Symmetry == Permutations(Clients) \cup Permutations(Drivers) \cup Permutations(Engines)
=============================================================================
