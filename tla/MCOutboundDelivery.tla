------------------------- MODULE MCOutboundDelivery -------------------------
(* Instances of OutboundDelivery for TLC.                                  *)
EXTENDS OutboundDelivery, TLC

Symmetry == Permutations(Workers) \cup Permutations(Copies)
=============================================================================
