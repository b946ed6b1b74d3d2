-------------------------- MODULE MCOutboundCompose --------------------------
(* Instances of OutboundCompose for TLC.                                   *)
EXTENDS OutboundCompose, TLC

Symmetry == Permutations(Requests)
=============================================================================
