---------------------------- MODULE MCRetention ----------------------------
(* Instances of Retention for TLC.                                         *)
EXTENDS Retention, TLC

Symmetry == Permutations(Messages) \cup Permutations(Runs) \cup Permutations(Workers)
=============================================================================
