--------------------------- MODULE MCLegacyMigration --------------------------
(* Instances of LegacyMigration for TLC.                                   *)
EXTENDS LegacyMigration, TLC

CONSTANTS m1, m2, m3, l1, r1, r2, p1, raw1, raw2

OneAssignment == {[msg |-> m1, label |-> l1]}
\* m3 has the same raw MIME as m1: the stages refuse the two together.
TwoRaws   == (m1 :> raw1) @@ (m2 :> raw2) @@ (m3 :> raw1)
\* r1 applies the label at first; each rule may take the name the other has or had.
Names   == (r1 :> <<"a", "b">>) @@ (r2 :> <<"b", "a">>)
Applied == (r1 :> <<{l1}, {}>>) @@ (r2 :> <<{}, {}>>)

\* m1, p1 and a rule with each label are there from the beginning; m3 and r2 come later.
FirstVersions == {c \in Content : WellFormed(c) /\ c[m1] # Absent /\ c[m3] = Absent /\ c[p1] # Absent
                                    /\ (c[l1] # Absent <=> c[r1] # Absent) /\ c[r2] = Absent
                                    /\ \A x \in Key : c[x] \in {1, Absent}}
=============================================================================
