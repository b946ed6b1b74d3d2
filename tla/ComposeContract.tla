--------------------------- MODULE ComposeContract ---------------------------
(***************************************************************************)
(* What POST /messages promises the browsers that use one Idempotency-Key: *)
(* one of their requests, at most, becomes the message, and every request  *)
(* that is answered names it.                                              *)
(***************************************************************************)
CONSTANTS Requests, NoMessage

VARIABLES message, \* the request that became the message
          reply    \* what each request was answered

contractVars == <<message, reply>>

\* An error names no message: the browser may ask again with the same key.
Unanswered == [code |-> "none", message |-> NoMessage]
Refusal    == [code |-> "error", message |-> NoMessage]

Init ==
  /\ message = NoMessage
  /\ reply = [r \in Requests |-> Unanswered]

Create(r) ==
  /\ message = NoMessage
  /\ message' = r
  /\ UNCHANGED reply

Respond(r, answer) ==
  /\ reply[r] = Unanswered
  /\ reply' = [reply EXCEPT ![r] = answer]
  /\ UNCHANGED message

\* Only the request that became the message may say that it was created.
Answer(r) ==
  /\ message # NoMessage
  /\ \/ Respond(r, [code |-> "200", message |-> message])
     \/ r = message /\ Respond(r, [code |-> "202", message |-> message])

Next == \E r \in Requests : Create(r) \/ Answer(r) \/ Respond(r, Refusal)

Spec == Init /\ [][Next]_contractVars
=============================================================================
