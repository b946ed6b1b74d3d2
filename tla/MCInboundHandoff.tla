-------------------------- MODULE MCInboundHandoff --------------------------
(* Instances of InboundHandoff for TLC.                                    *)
EXTENDS InboundHandoff, TLC

Symmetry == Permutations(Copies)
=============================================================================
