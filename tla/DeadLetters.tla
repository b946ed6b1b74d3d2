----------------------------- MODULE DeadLetters -----------------------------
(***************************************************************************)
(* What becomes of a Queue message that its consumer cannot handle: the    *)
(* primary queue gives it up, the dead-letter consumer saves its payload   *)
(* in queue_dead_letters, an operator asks for it, and the Cron trigger    *)
(* publishes it again.  The row's id is the digest of the payload, so all  *)
(* copies of one payload share one row, and the module follows one         *)
(* payload.  The inbound and the outbound path run the same code.          *)
(***************************************************************************)
EXTENDS Naturals

CONSTANTS Copies,          \* places for Queue copies of the payload
          MaxRetries,      \* redeliveries of the primary queue (5 in wrangler.jsonc)
          MaxDeadRetries,  \* redeliveries of the dead-letter queue (100)
          MaxFaults,       \* bound: calls that fail and invocations that die
          MaxRequests,     \* bound: times an operator asks
          MaxExtras        \* bound: copies that other producers publish

ASSUME BoundsAssumption == /\ MaxRetries \in Nat
                           /\ MaxDeadRetries \in Nat
                           /\ MaxFaults \in Nat
                           /\ MaxRequests \in Nat
                           /\ MaxExtras \in Nat

VARIABLES letter,    \* queue_dead_letters.status, or absent
          valid,     \* the payload satisfies the contract: payload_valid
          copy,      \* where each Queue copy is
          tries,     \* its redeliveries by the queue that holds it
          cron,      \* the 'dead_letter' maintenance task
          handled,   \* the primary consumer has settled the message
          dropped,   \* the dead-letter queue gave a copy up unsaved
          overtaken, \* see CronMark
          asked, sent,  \* the operator's requests, and what the task published
          extras, faults

queue   == <<copy, tries>>
counts  == <<asked, sent, extras, faults>>
history == <<handled, dropped, overtaken>>
vars    == <<letter, valid, queue, cron, history, counts>>

Letter == {"absent", "pending", "retry_requested", "requeued", "resolved"}

\* In the primary queue; with its consumer; in the dead-letter queue; with its.
Waiting == {"waiting"}
Primary == {"working", "resolving", "acking"}
Dead    == {"dead"}
Saving  == {"saving", "saved"}
Where   == {"absent"} \cup Waiting \cup Primary \cup Dead \cup Saving

Init ==
  /\ letter = "absent"
  /\ valid \in BOOLEAN
  /\ \E first \in Copies : copy = [c \in Copies |-> IF c = first THEN "waiting" ELSE "absent"]
  /\ tries = [c \in Copies |-> 0]
  /\ cron = "idle"
  /\ handled = FALSE
  /\ dropped = FALSE
  /\ overtaken = "no"
  /\ asked = 0
  /\ sent = 0
  /\ extras = 0
  /\ faults = 0

Fault == faults < MaxFaults /\ faults' = faults + 1

Move(c, place) ==
  /\ copy' = [copy EXCEPT ![c] = place]
  /\ UNCHANGED tries

-----------------------------------------------------------------------------
(* The primary queue and its consumer.                                     *)

Enqueue(c) ==
  /\ copy[c] = "absent"
  /\ copy' = [copy EXCEPT ![c] = "waiting"]
  /\ tries' = [tries EXCEPT ![c] = 0]

\* message.retry(), or an invocation that died: after max_retries the copy is
\* moved to the dead-letter queue.
RetryPrimary(c) ==
  IF tries[c] < MaxRetries
    THEN /\ copy' = [copy EXCEPT ![c] = "waiting"]
         /\ tries' = [tries EXCEPT ![c] = @ + 1]
    ELSE /\ copy' = [copy EXCEPT ![c] = "dead"]
         /\ tries' = [tries EXCEPT ![c] = 0]

Receive(c) ==
  /\ copy[c] = "waiting"
  /\ Move(c, "working")
  /\ UNCHANGED <<letter, valid, cron, history, counts>>

\* processInboundQueueMessage or processOutboundQueueMessage settles the message.
Handle(c) ==
  /\ copy[c] = "working"
  /\ valid
  /\ Move(c, "resolving")
  /\ handled' = TRUE
  /\ UNCHANGED <<letter, valid, cron, dropped, overtaken, counts>>

\* The contract is invalid, or the handler throws.
Refuse(c) ==
  /\ copy[c] = "working"
  /\ RetryPrimary(c)
  /\ UNCHANGED <<letter, valid, cron, history, counts>>

\* Leaves the row to the operator.
Resolve_Nothing(c) ==
  /\ copy[c] = "resolving"
  /\ Move(c, "acking")
  /\ UNCHANGED <<letter, valid, cron, history, counts>>

\* resolveDeadLettersForMessage
Resolve(c) ==
  /\ copy[c] = "resolving"
  /\ letter' = IF letter = "requeued" THEN "resolved" ELSE letter
  /\ Move(c, "acking")
  /\ UNCHANGED <<valid, cron, history, counts>>

Ack(c) ==
  /\ copy[c] = "acking"
  /\ Move(c, "absent")
  /\ UNCHANGED <<letter, valid, cron, history, counts>>

\* The invocation dies, or the statement throws, carried out or not.
PrimaryDies(c) ==
  /\ copy[c] \in Primary
  /\ Fault
  /\ RetryPrimary(c)
  /\ UNCHANGED <<letter, valid, cron, history, asked, sent, extras>>

ResolveUnanswered(c) ==
  /\ copy[c] = "resolving"
  /\ Fault
  /\ letter' = IF letter = "requeued" THEN "resolved" ELSE letter
  /\ RetryPrimary(c)
  /\ UNCHANGED <<valid, cron, history, asked, sent, extras>>

\* Compose requests, /retry and the other recovery tasks publish as they like.
PublishBlindly(c) ==
  /\ extras < MaxExtras
  /\ extras' = extras + 1
  /\ Enqueue(c)
  /\ UNCHANGED <<letter, valid, cron, history, asked, sent, faults>>

-----------------------------------------------------------------------------
(* handleDeadLetterBatch.  The dead-letter queue has none of its own: what *)
(* it retries more than max_retries times is gone.                         *)

RetryDead(c) ==
  IF tries[c] < MaxDeadRetries
    THEN /\ copy' = [copy EXCEPT ![c] = "dead"]
         /\ tries' = [tries EXCEPT ![c] = @ + 1]
         /\ UNCHANGED dropped
    ELSE /\ Move(c, "absent")
         /\ dropped' = (dropped \/ copy[c] = "saving")

DeadReceive(c) ==
  /\ copy[c] = "dead"
  /\ Move(c, "saving")
  /\ UNCHANGED <<letter, valid, cron, history, counts>>

\* saveQueueDeadLetter: an upsert that puts the row back to pending.
Save(c) ==
  /\ copy[c] = "saving"
  /\ letter' = "pending"
  /\ overtaken' = IF cron = "mark" /\ overtaken = "no" THEN "saved" ELSE overtaken
  /\ Move(c, "saved")
  /\ UNCHANGED <<valid, cron, handled, dropped, counts>>

\* The inbound handoff is marked, which may fail, then message.ack().
DeadAck(c) ==
  /\ copy[c] = "saved"
  /\ Move(c, "absent")
  /\ UNCHANGED <<letter, valid, cron, history, counts>>

\* The invocation dies, or the upsert throws before it is carried out.
DeadDies(c) ==
  /\ copy[c] \in Saving
  /\ Fault
  /\ RetryDead(c)
  /\ UNCHANGED <<letter, valid, cron, handled, overtaken, asked, sent, extras>>

-----------------------------------------------------------------------------
(* The operator and recoverRequestedDeadLetters.                           *)

\* renderRetryDeadLetterSql
Request ==
  /\ asked < MaxRequests
  /\ letter = "pending"
  /\ valid
  /\ letter' = "retry_requested"
  /\ asked' = asked + 1
  /\ UNCHANGED <<valid, queue, cron, history, sent, extras, faults>>

\* Inverts the filter on payload_valid.
CronList_Invalid ==
  /\ cron = "idle"
  /\ letter = "retry_requested"
  /\ ~ valid
  /\ cron' = "send"
  /\ UNCHANGED <<letter, valid, queue, history, counts>>

\* listRequestedDeadLetters
CronList ==
  /\ cron = "idle"
  /\ letter = "retry_requested"
  /\ valid
  /\ cron' = "send"
  /\ UNCHANGED <<letter, valid, queue, history, counts>>

CronSend(c) ==
  /\ cron = "send"
  /\ Enqueue(c)
  /\ cron' = "mark"
  /\ sent' = sent + 1
  /\ UNCHANGED <<letter, valid, history, asked, extras, faults>>

\* queue.send throws, whether or not the copy was taken: the row keeps its
\* status, and the error.
CronSendThrows ==
  /\ cron = "send"
  /\ Fault
  /\ \/ UNCHANGED <<queue, sent>>
     \/ \E c \in Copies : Enqueue(c) /\ sent' = sent + 1
  /\ cron' = "idle"
  /\ UNCHANGED <<letter, valid, history, asked, extras>>

\* Puts every row of the batch to requeued, whatever became of it.
CronMark_AnyStatus ==
  /\ cron = "mark"
  /\ letter' = "requeued"
  /\ cron' = "idle"
  /\ UNCHANGED <<valid, queue, history, counts>>

\* markDeadLetterRequeued.  A row that was saved again since the send, and then
\* asked for again, is taken for the one that was sent: overtaken records it.
CronMark ==
  /\ cron = "mark"
  /\ letter' = IF letter = "retry_requested" THEN "requeued" ELSE letter
  /\ overtaken' = IF overtaken = "marked" \/
                     (overtaken = "saved" /\ letter = "retry_requested")
                    THEN "marked" ELSE "no"
  /\ cron' = "idle"
  /\ UNCHANGED <<valid, queue, handled, dropped, counts>>

\* The task dies, or its UPDATE is refused.
CronDies ==
  /\ cron # "idle"
  /\ Fault
  /\ cron' = "idle"
  /\ overtaken' = IF overtaken = "marked" THEN "marked" ELSE "no"
  /\ UNCHANGED <<letter, valid, queue, handled, dropped, asked, sent, extras>>

-----------------------------------------------------------------------------

PrimaryStep(c) == Handle(c) \/ Refuse(c) \/ Resolve(c) \/ Ack(c)

CopyStep(c) ==
  \/ Receive(c) \/ PrimaryStep(c) \/ PrimaryDies(c) \/ ResolveUnanswered(c)
  \/ DeadReceive(c) \/ Save(c) \/ DeadAck(c) \/ DeadDies(c)

Next ==
  \/ \E c \in Copies : CopyStep(c) \/ PublishBlindly(c) \/ CronSend(c)
  \/ Request
  \/ CronList \/ CronSendThrows \/ CronMark \/ CronDies

Spec == Init /\ [][Next]_vars

(* The queues deliver what they hold, invocations that neither die nor     *)
(* throw run on, and the Cron trigger fires again and again.  Whether the  *)
(* handler succeeds is not assumed.                                        *)
Fairness ==
  /\ \A c \in Copies :
       /\ WF_vars(Receive(c))
       /\ WF_vars(PrimaryStep(c))
       /\ WF_vars(DeadReceive(c))
       /\ WF_vars(Save(c))
       /\ WF_vars(DeadAck(c))
  /\ WF_vars(CronList)
  /\ WF_vars(\E c \in Copies : CronSend(c))
  /\ WF_vars(CronMark)

FairSpec == Spec /\ Fairness

-----------------------------------------------------------------------------
(* Properties.                                                             *)

TypeOK ==
  /\ letter \in Letter
  /\ valid \in BOOLEAN
  /\ copy \in [Copies -> Where]
  /\ tries \in [Copies -> Nat]
  /\ \A c \in Copies :
       /\ copy[c] \in Waiting \cup Primary => tries[c] <= MaxRetries
       /\ copy[c] \in Dead \cup Saving => tries[c] <= MaxDeadRetries
  /\ cron \in {"idle", "send", "mark"}
  /\ handled \in BOOLEAN
  /\ dropped \in BOOLEAN
  /\ overtaken \in {"no", "saved", "marked"}
  /\ asked \in 0..MaxRequests
  /\ sent \in Nat
  /\ extras \in 0..MaxExtras
  /\ faults \in 0..MaxFaults

\* A copy that may still be handled, or saved.
Underway == \E c \in Copies : copy[c] \notin {"absent", "saved"}

\* A message that no consumer has settled is not lost between the queues and
\* the ledger: a copy of it is on its way or its row waits for the operator or
\* the Cron trigger, unless the dead-letter queue gave up or a mark closed a
\* request that was not the one it had sent.
NothingLost ==
  (~ handled /\ ~ dropped /\ overtaken # "marked")
    => Underway \/ letter \in {"pending", "retry_requested"}

\* A dead letter is resolved only after a consumer has settled its message.
ResolvedWasHandled == letter = "resolved" => handled

\* The Cron trigger publishes a dead letter once for each time the operator
\* asked, and once more for each fault: it never republishes on its own.
SentWhenAsked == sent <= asked + faults

\* What an operator asked for leaves the state it was put in: it is published,
\* or its message dies again, whatever fails.
RequestHonoured == letter = "retry_requested" ~> letter # "retry_requested"

\* The consumer has not resolved the rows of this copy yet.
Unresolved(c) == copy[c] \in {"waiting", "working", "resolving", "dead", "saving"}

\* A requeued row does not stay requeued while a copy of it is on its way: the
\* copy's consumer resolves the row or the copy's death puts it back to pending,
\* unless the dead-letter queue gives the last copy up (handleDeadLetterBatch
\* retries a save that fails, and that queue's retries are limited).
RequeuedSettles ==
  (letter = "requeued" /\ \E c \in Copies : Unresolved(c))
    ~> (letter # "requeued" \/ (dropped /\ \A c \in Copies : ~ Unresolved(c)))
=============================================================================
