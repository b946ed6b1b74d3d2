----------------------------- MODULE MCDirectory -----------------------------
(* Instances of Directory for TLC.                                         *)
EXTENDS Directory, TLC

CONSTANTS u1, u2, i1, i2, i3, m1, m2, a1, a2

\* One user and one mailbox; then a second administrator and an alias.
Box(aliases, second) ==
  [m \in Mailboxes |->
     IF m = m1 THEN [address |-> a1, aliases |-> aliases, owner |-> u1,
                     members |-> [u \in Users |-> IF u = u2 THEN second ELSE None]]
     ELSE None]

First  == [users |-> (u1 :> [admin |-> TRUE, identities |-> {i1}]) @@ (u2 :> None),
           mailboxes |-> Box({}, None)]
Second == [users |-> (u1 :> [admin |-> TRUE, identities |-> {i1}])
                     @@ (u2 :> [admin |-> TRUE, identities |-> {i2, i3}]),
           mailboxes |-> Box({a2}, "owner")]
TwoManifests == {First, Second}
=============================================================================
