-------------------------- MODULE OutboundDelivery --------------------------
(***************************************************************************)
(* The life of one outbound message between the D1 row that records it     *)
(* (outbound_deliveries), the copy of its status the mailbox shows         *)
(* (messages.status), the at-least-once Queue, the consumers in apps/jobs, *)
(* the recovery task of the Cron trigger and the operator's retry.         *)
(*                                                                         *)
(* Every SQL statement the code runs names one message_id, so deliveries   *)
(* are independent and the module follows one of them.  D1 executes one    *)
(* statement, or one batch, atomically: an action runs at most one.        *)
(* Timestamps are compared with the clock and nothing else, so the row     *)
(* keeps the outcome of each comparison and the passing of time changes it.*)
(***************************************************************************)
EXTENDS Naturals, FiniteSets

CONSTANTS Workers,      \* Queue consumer invocations that may run at once
          NoWorker,     \* the empty lease token
          Copies,       \* places for Queue copies of this delivery's message
          NoCopy,       \* the job of an idle worker
          MaxAttempts,  \* claims the application allows (10 in the code)
          MaxRetries,   \* redeliveries the Queue allows (5 in wrangler.jsonc)
          MaxExcuses,   \* bound: events that may repeat a send, see excuses
          MaxAborts     \* bound: invocations that die or throw

ASSUME WorkersAssumption == IsFiniteSet(Workers) /\ NoWorker \notin Workers
ASSUME CopiesAssumption == NoCopy \notin Copies
ASSUME BoundsAssumption == /\ MaxAttempts \in Nat \ {0}
                           /\ MaxRetries \in Nat
                           /\ MaxExcuses \in Nat
                           /\ MaxAborts \in Nat

VARIABLES row,      \* the outbound_deliveries row
          mirror,   \* messages.status of the same message
          copy,     \* state of every Queue copy
          tries,    \* redeliveries a copy has had
          pc, job,  \* what each worker does next, and for which copy
          cron,     \* the 'outbound' maintenance task
          op,       \* the operator's HTTP request to send again
          accepted, \* times the provider accepted the message
          excuses,  \* events after which one more acceptance is unavoidable
          aborts    \* invocations that died or threw so far

store   == <<row, mirror>>
queue   == <<copy, tries>>
workers == <<pc, job>>
actors  == <<cron, op>>
history == <<accepted, excuses, aborts>>
vars    == <<store, queue, workers, actors, history>>

Status  == {"queued", "sending", "sent", "failed"}
Done    == {"sent", "failed"}
\* lease_expires_at: 0, after now, at or before now
Lease   == {"none", "live", "over"}
\* The lease token is a random UUID; the invocation that drew it stands for it.
Row     == [status: Status, attempts: 0..MaxAttempts, due: BOOLEAN,
            stale: BOOLEAN, lease: Lease, token: Workers \cup {NoWorker}]
WorkerPc == {"idle", "read", "exhaust", "claim", "recheck", "mirror", "send",
             "complete", "failRetry", "failPermanent", "ack"}

\* prepareDeliveryInsert, prepareOutboundMessageInsert: what the web Worker
\* committed before it publishes the first copy.
NewRow == [status |-> "queued", attempts |-> 0, due |-> TRUE, stale |-> FALSE,
           lease |-> "none", token |-> NoWorker]

Init ==
  /\ row = NewRow
  /\ mirror = "queued"
  /\ copy = [c \in Copies |-> "absent"]
  /\ tries = [c \in Copies |-> 0]
  /\ pc = [w \in Workers |-> "idle"]
  /\ job = [w \in Workers |-> NoCopy]
  /\ cron = "idle"
  /\ op = "idle"
  /\ accepted = 0
  /\ excuses = 0
  /\ aborts = 0

-----------------------------------------------------------------------------
(* The Queue.  A copy that is retried more than max_retries times moves to *)
(* the dead-letter queue and is gone from here.                            *)

Publish(c) ==
  /\ copy[c] = "absent"
  /\ copy' = [copy EXCEPT ![c] = "waiting"]
  /\ tries' = [tries EXCEPT ![c] = 0]

Finish(w) ==
  /\ pc' = [pc EXCEPT ![w] = "idle"]
  /\ job' = [job EXCEPT ![w] = NoCopy]

\* message.ack()
AckCopy(w) ==
  /\ Finish(w)
  /\ copy' = [copy EXCEPT ![job[w]] = "absent"]
  /\ UNCHANGED tries

\* message.retry(), and what the Queue does for an invocation that died.
RetryCopy(w) ==
  /\ Finish(w)
  /\ IF tries[job[w]] < MaxRetries
       THEN /\ copy' = [copy EXCEPT ![job[w]] = "waiting"]
            /\ tries' = [tries EXCEPT ![job[w]] = @ + 1]
       ELSE /\ copy' = [copy EXCEPT ![job[w]] = "absent"]
            /\ UNCHANGED tries

Goto(w, label) ==
  /\ pc' = [pc EXCEPT ![w] = label]
  /\ UNCHANGED <<job, queue>>

\* The Queue starts an invocation with a batch of one message.
Receive(w, c) ==
  /\ pc[w] = "idle"
  /\ copy[c] = "waiting"
  /\ copy' = [copy EXCEPT ![c] = "taken"]
  /\ pc' = [pc EXCEPT ![w] = "read"]
  /\ job' = [job EXCEPT ![w] = c]
  /\ UNCHANGED <<store, tries, actors, history>>

-----------------------------------------------------------------------------
(* The statements of outbound-delivery.ts.                                 *)

\* Claims whatever the lease says.
Claimable_LiveLeaseToo ==
  row.attempts < MaxAttempts /\ row.due /\ row.status \in {"queued", "sending"}

Claimable ==
  /\ row.attempts < MaxAttempts
  /\ row.due
  /\ \/ row.status = "queued"
     \/ row.status = "sending" /\ row.lease = "over"

\* Ignores the token: any worker settles a delivery being sent.
HoldsLease_AnyToken(w) == row.status = "sending"

HoldsLease(w) == row.status = "sending" /\ row.token = w

\* The outcome of this attempt is lost while its lease still protects it.
LosesOutcome(w) == HoldsLease(w) /\ row.lease = "live"

ExcuseIf(condition) ==
  IF condition THEN excuses < MaxExcuses /\ excuses' = excuses + 1
               ELSE UNCHANGED excuses

Released == [row EXCEPT !.lease = "none", !.token = NoWorker]

Exhausted ==
  /\ row.attempts >= MaxAttempts
  /\ \/ row.status = "queued"
     \/ row.status = "sending" /\ row.lease = "over"

\* The two UPDATEs of one batch carry the same condition, so they act together.
Settle(status, due) ==
  /\ row' = [Released EXCEPT !.status = status, !.due = due]
  /\ mirror' = status

ResetForRetry ==
  row' = [Released EXCEPT !.status = "queued", !.attempts = 0,
                          !.due = TRUE, !.stale = TRUE]

-----------------------------------------------------------------------------
(* processOutboundQueueMessage and the handler around it, a step per       *)
(* statement.  A thrown PermanentOutboundError is acknowledged, any other  *)
(* error is retried.                                                       *)

Read(w) ==
  /\ pc[w] = "read"
  /\ Goto(w, IF row.status \in Done THEN "ack"
             ELSE IF row.attempts >= MaxAttempts THEN "exhaust" ELSE "claim")
  /\ UNCHANGED <<store, actors, history>>

\* exhaustOutboundDelivery; when it changes nothing the error is delivery_busy.
Exhaust(w) ==
  /\ pc[w] = "exhaust"
  /\ IF Exhausted
       THEN Settle("failed", row.due) /\ Goto(w, "ack")
       ELSE RetryCopy(w) /\ UNCHANGED store
  /\ UNCHANGED <<actors, history>>

\* The first statement of claimOutboundDelivery.
Claim(w) ==
  /\ pc[w] = "claim"
  /\ IF Claimable
       THEN /\ row' = [row EXCEPT !.status = "sending", !.attempts = @ + 1,
                                  !.lease = "live", !.token = w]
            /\ Goto(w, "mirror")
       ELSE Goto(w, "recheck") /\ UNCHANGED row
  /\ UNCHANGED <<mirror, actors, history>>

Recheck(w) ==
  /\ pc[w] = "recheck"
  /\ IF row.status \in Done THEN Goto(w, "ack") ELSE RetryCopy(w)
  /\ UNCHANGED <<store, actors, history>>

\* The second statement of claimOutboundDelivery, which has no condition.
Mirror(w) ==
  /\ pc[w] = "mirror"
  /\ mirror' = "sending"
  /\ Goto(w, "send")
  /\ UNCHANGED <<row, actors, history>>

\* mailer.send resolves with the provider's message id.
Accept(w) ==
  /\ pc[w] = "send"
  /\ accepted' = accepted + 1
  /\ Goto(w, "complete")
  /\ UNCHANGED <<store, actors, excuses, aborts>>

\* The provider accepted, and the answer was lost: a timeout or a broken body.
AcceptUnanswered(w) ==
  /\ pc[w] = "send"
  /\ accepted' = accepted + 1
  /\ ExcuseIf(LosesOutcome(w))
  /\ Goto(w, "failRetry")
  /\ UNCHANGED <<store, actors, aborts>>

\* A body or attachment that cannot be loaded, or an answer that refuses.
Refuse(w) ==
  /\ pc[w] = "send"
  /\ Goto(w, "failRetry") \/ Goto(w, "failPermanent")
  /\ UNCHANGED <<store, actors, history>>

\* completeOutboundDelivery; without the lease the step throws
\* delivery_lease_lost_after_send, which is permanent.
Complete(w) ==
  /\ pc[w] = "complete"
  /\ IF HoldsLease(w)
       THEN Settle("sent", row.due) /\ Goto(w, "ack")
       ELSE Goto(w, "failPermanent") /\ UNCHANGED store
  /\ UNCHANGED <<actors, history>>

\* The batch of completeOutboundDelivery is refused, or it commits and its
\* answer is lost: both are caught as an error that may be retried.
CompleteThrows(w) ==
  /\ pc[w] = "complete"
  /\ Goto(w, "failRetry")
  /\ \/ /\ ExcuseIf(LosesOutcome(w))
        /\ UNCHANGED store
     \/ /\ HoldsLease(w)
        /\ Settle("sent", row.due)
        /\ UNCHANGED excuses
  /\ UNCHANGED <<actors, accepted, aborts>>

\* failOutboundDelivery, then the retry or, below, the acknowledgement.
FailRetryable(w) ==
  /\ pc[w] = "failRetry"
  /\ IF HoldsLease(w) THEN Settle("queued", FALSE) ELSE UNCHANGED store
  /\ RetryCopy(w)
  /\ UNCHANGED <<actors, history>>

FailPermanently(w) ==
  /\ pc[w] = "failPermanent"
  /\ IF HoldsLease(w) THEN Settle("failed", TRUE) ELSE UNCHANGED store
  /\ Goto(w, "ack")
  /\ UNCHANGED <<actors, history>>

\* resolveDeadLettersForMessage succeeded, then message.ack().
Ack(w) ==
  /\ pc[w] = "ack"
  /\ AckCopy(w)
  /\ UNCHANGED <<store, actors, history>>

\* The invocation dies, or a statement outside the try block throws.
Abort(w) ==
  /\ pc[w] # "idle"
  /\ aborts < MaxAborts
  /\ aborts' = aborts + 1
  /\ ExcuseIf(pc[w] = "complete" /\ LosesOutcome(w))
  /\ RetryCopy(w)
  /\ UNCHANGED <<store, actors, accepted>>

WorkerStep(w) ==
  \/ Read(w) \/ Exhaust(w) \/ Claim(w) \/ Recheck(w) \/ Mirror(w)
  \/ Accept(w) \/ Refuse(w) \/ Complete(w)
  \/ FailRetryable(w) \/ FailPermanently(w) \/ Ack(w)

WorkerFault(w) == AcceptUnanswered(w) \/ CompleteThrows(w) \/ Abort(w)

-----------------------------------------------------------------------------
(* recoverOutboundDeliveries: list, sendBatch, markOutboundEnqueued.       *)

\* Forgets the deliveries whose worker died.
Recoverable_QueuedOnly ==
  row.attempts < MaxAttempts /\ row.status = "queued" /\ row.due /\ row.stale

Recoverable ==
  /\ row.attempts < MaxAttempts
  /\ \/ row.status = "queued" /\ row.due /\ row.stale
     \/ row.status = "sending" /\ row.lease = "over"

CronList ==
  /\ cron = "idle"
  /\ Recoverable
  /\ cron' = "send"
  /\ UNCHANGED <<store, queue, workers, op, history>>

CronSend(c) ==
  /\ cron = "send"
  /\ Publish(c)
  /\ cron' = "mark"
  /\ UNCHANGED <<store, workers, op, history>>

CronMark ==
  /\ cron = "mark"
  /\ row' = IF row.status \in Done THEN row ELSE [row EXCEPT !.stale = FALSE]
  /\ cron' = "idle"
  /\ UNCHANGED <<mirror, queue, workers, op, history>>

CronAbort ==
  /\ cron # "idle"
  /\ aborts < MaxAborts
  /\ aborts' = aborts + 1
  /\ cron' = "idle"
  /\ UNCHANGED <<store, queue, workers, op, accepted, excuses>>

-----------------------------------------------------------------------------
(* Sending again: POST /retry in three steps, the ops CLI in one, and the  *)
(* producers that publish without looking at the row (the first and every  *)
(* repeated compose request, the recovery of a dead letter).               *)

OpCheck ==
  /\ op = "idle"
  /\ mirror = "failed"
  /\ op' = "reset"
  /\ UNCHANGED <<store, queue, workers, cron, history>>

\* retryOutboundDelivery; its second UPDATE asks only for a queued delivery.
RetryDelivery ==
  \/ /\ row.status = "failed"
     /\ ExcuseIf(TRUE)
     /\ ResetForRetry
     /\ mirror' = "queued"
  \/ /\ row.status # "failed"
     /\ mirror' = IF row.status = "queued" THEN "queued" ELSE mirror
     /\ UNCHANGED <<row, excuses>>

OpReset ==
  /\ op = "reset"
  /\ RetryDelivery
  /\ op' = IF row.status = "failed" THEN "enqueue" ELSE "idle"
  /\ UNCHANGED <<queue, workers, cron, accepted, aborts>>

OpEnqueue ==
  /\ op = "enqueue"
  /\ \/ \E c \in Copies : Publish(c)
     \/ UNCHANGED queue
  /\ op' = "idle"
  /\ UNCHANGED <<store, workers, cron, history>>

CliReset ==
  /\ RetryDelivery
  /\ UNCHANGED <<queue, workers, actors, accepted, aborts>>

PublishBlindly(c) ==
  /\ Publish(c)
  /\ UNCHANGED <<store, workers, actors, history>>

-----------------------------------------------------------------------------
(* Time.                                                                   *)

Unsettled == {"mirror", "send", "complete"}

\* The holder of the lease may still make the provider accept the message, or
\* has done so without recording it.
HolderUnsettled == row.token \in Workers /\ pc[row.token] \in Unsettled

LeaseEnds ==
  /\ row.lease = "live"
  /\ ~ HolderUnsettled
  /\ row' = [row EXCEPT !.lease = "over"]
  /\ UNCHANGED <<mirror, queue, workers, actors, history>>

LeaseOutlived ==
  /\ row.lease = "live"
  /\ HolderUnsettled
  /\ ExcuseIf(TRUE)
  /\ row' = [row EXCEPT !.lease = "over"]
  /\ UNCHANGED <<mirror, queue, workers, actors, accepted, aborts>>

BecomesDue ==
  /\ ~ row.due
  /\ row' = [row EXCEPT !.due = TRUE]
  /\ UNCHANGED <<mirror, queue, workers, actors, history>>

BecomesStale ==
  /\ ~ row.stale
  /\ row' = [row EXCEPT !.stale = TRUE]
  /\ UNCHANGED <<mirror, queue, workers, actors, history>>

TimePasses == LeaseEnds \/ LeaseOutlived \/ BecomesDue \/ BecomesStale

-----------------------------------------------------------------------------

Cron == CronList \/ (\E c \in Copies : CronSend(c)) \/ CronMark \/ CronAbort

Operator == OpCheck \/ OpReset \/ OpEnqueue \/ CliReset

Next ==
  \/ \E w \in Workers, c \in Copies : Receive(w, c)
  \/ \E w \in Workers : WorkerStep(w) \/ WorkerFault(w)
  \/ \E c \in Copies : PublishBlindly(c)
  \/ Cron
  \/ Operator
  \/ TimePasses

Spec == Init /\ [][Next]_vars

(* The Queue delivers what waits, an invocation that neither dies nor      *)
(* throws runs on, the Cron trigger fires again and again, and time passes.*)
(* Nothing is promised about browsers, operators or faults.                *)
Fairness ==
  /\ WF_vars(\E w \in Workers, c \in Copies : Receive(w, c))
  /\ \A w \in Workers : WF_vars(WorkerStep(w))
  /\ WF_vars(CronList)
  /\ WF_vars(\E c \in Copies : CronSend(c))
  /\ WF_vars(CronMark)
  /\ WF_vars(LeaseEnds)
  /\ WF_vars(BecomesDue)
  /\ WF_vars(BecomesStale)

FairSpec == Spec /\ Fairness

-----------------------------------------------------------------------------
(* Properties.                                                             *)

\* Every variable has its type, and the columns of the row go together: a
\* lease and its token exist exactly while the delivery is being sent.
TypeOK ==
  /\ row \in Row
  /\ mirror \in Status
  /\ copy \in [Copies -> {"absent", "waiting", "taken"}]
  /\ tries \in [Copies -> 0..MaxRetries]
  /\ pc \in [Workers -> WorkerPc]
  /\ job \in [Workers -> Copies \cup {NoCopy}]
  /\ cron \in {"idle", "send", "mark"}
  /\ op \in {"idle", "reset", "enqueue"}
  /\ accepted \in Nat
  /\ excuses \in 0..MaxExcuses
  /\ aborts \in 0..MaxAborts

\* Redelivery, duplicate copies, republication by the Cron trigger, repeated
\* requests and dead-letter recovery never make the provider accept a message
\* twice by themselves: every acceptance after the first is paid for by an
\* outcome that was lost under a live lease, a worker that outlived its lease,
\* or an operator who asked for it.
SendsExcused == accepted <= 1 + excuses

\* A delivery is recorded as sent only after the provider accepted it, even
\* when the worker that records it is not the one that was accepted.
SentWasAccepted == row.status = "sent" => accepted > 0

\* With one consumer the status the mailbox shows is that of the delivery,
\* except that it may still say queued while the first send is under way: the
\* retry request and retention, which read messages.status, see the truth.
MirrorTracks ==
  \/ mirror = row.status
  \/ row.status = "sending" /\ mirror = "queued"

\* The delivery keeps the contract of the outbound path.
Contract == INSTANCE DeliveryContract
              WITH status <- row.status, attempts <- row.attempts
KeepsContract == Contract!Spec

\* A delivery that was sent stays sent, and a failed one leaves that state only
\* by an operator's retry, which gives it all its attempts back: no late
\* worker, no expired lease and no Cron run revives a settled delivery.
SettledStays ==
  [][/\ row.status = "sent" => row'.status = "sent"
     /\ row.status = "failed" /\ row'.status # "failed" =>
          row'.status = "queued" /\ row'.attempts = 0 /\ excuses' > excuses]_vars

\* A delivery with claims left gets settled, or uses its claims up, however
\* copies are lost to the dead-letter queue and invocations die.
Settles ==
  (row.status \notin Done /\ row.attempts < MaxAttempts)
    ~> (row.status \in Done \/ row.attempts = MaxAttempts)

=============================================================================
