-------------------------- MODULE DeliveryContract --------------------------
(***************************************************************************)
(* What the outbound path promises about one message, with no queue, no    *)
(* consumers and no clock: the states its delivery may go through, and how *)
(* often the provider may accept it.  An excuse is an event after which    *)
(* the system cannot know whether the message was sent, or an operator's   *)
(* order to send it again; each allows one more acceptance.                *)
(***************************************************************************)
EXTENDS Naturals

CONSTANT MaxAttempts

VARIABLES status, attempts, accepted, excuses

contractVars == <<status, attempts, accepted, excuses>>

Init ==
  /\ status = "queued"
  /\ attempts = 0
  /\ accepted = 0
  /\ excuses = 0

Open == status \in {"queued", "sending"}

\* Each claim uses up one attempt, whoever held the delivery before.
Claim ==
  /\ Open
  /\ attempts < MaxAttempts
  /\ attempts' = attempts + 1
  /\ status' = "sending"
  /\ UNCHANGED <<accepted, excuses>>

\* The provider accepts: at most once more often than there were excuses.
Accept ==
  /\ accepted' = accepted + 1
  /\ excuses' \in {excuses, excuses + 1}
  /\ accepted' <= 1 + excuses'
  /\ UNCHANGED <<status, attempts>>

Excuse ==
  /\ excuses' = excuses + 1
  /\ UNCHANGED <<status, attempts, accepted>>

Sent ==
  /\ status = "sending"
  /\ accepted > 0
  /\ status' = "sent"
  /\ UNCHANGED <<attempts, accepted, excuses>>

Postpone ==
  /\ status = "sending"
  /\ status' = "queued"
  /\ UNCHANGED <<attempts, accepted, excuses>>

\* A delivery fails when it is refused for good, or when it is out of attempts.
Fail ==
  /\ status = "sending" \/ (status = "queued" /\ attempts = MaxAttempts)
  /\ status' = "failed"
  /\ UNCHANGED <<attempts, accepted, excuses>>

Retry ==
  /\ status = "failed"
  /\ status' = "queued"
  /\ attempts' = 0
  /\ excuses' = excuses + 1
  /\ UNCHANGED accepted

Next == Claim \/ Accept \/ Excuse \/ Sent \/ Postpone \/ Fail \/ Retry

Spec == Init /\ [][Next]_contractVars
=============================================================================
