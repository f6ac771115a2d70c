---------------------------- MODULE MCFramePath ----------------------------
(* Instances of FramePath for TLC. *)
EXTENDS FramePath, TLC

Symmetry == Permutations(Buffers)
=============================================================================
