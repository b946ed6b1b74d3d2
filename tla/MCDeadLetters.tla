---------------------------- MODULE MCDeadLetters ----------------------------
(* Instances of DeadLetters for TLC.                                       *)
EXTENDS DeadLetters, TLC

Symmetry == Permutations(Copies)
=============================================================================
