------------------------------ MODULE MCMailRules -----------------------------
(* Instances of MailRules for TLC.                                         *)
EXTENDS MailRules, TLC

CONSTANTS l1

\* Trash or archive, with a label: what undo treats differently.
Sort  == [star |-> FALSE, archive |-> TRUE, trash |-> FALSE, labels |-> {l1}]
Throw == [star |-> FALSE, archive |-> FALSE, trash |-> TRUE, labels |-> {}]
TwoDefinitions == {Sort, Throw}

Symmetry == Permutations(Requests)
=============================================================================
