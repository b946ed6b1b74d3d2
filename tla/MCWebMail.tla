------------------------------ MODULE MCWebMail -------------------------------
(* A small instance of WebMail: two mailboxes, three messages, of which the first two are *)
(* of mailbox A, the search for one label of A, which the first message has, pages and    *)
(* chunks of one message.                                                                 *)
EXTENDS WebMail, TLC

MailA == "A"
MailB == "B"
Boxes == {MailA, MailB}
Mails == 1..3
HomeOf == [m \in Mails |-> IF m < 3 THEN MailA ELSE MailB]
Searches == {"all", "l"}
Marks == {"l"}
OfA == [l \in Marks |-> MailA]
Pairs == {<<1, "l">>}
Matching == {1, 3}

CONSTANTS c1, c2
TwoCalls == {c1, c2}
Symmetry == Permutations(TwoCalls)
===============================================================================
