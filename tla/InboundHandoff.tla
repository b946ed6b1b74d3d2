--------------------------- MODULE InboundHandoff ---------------------------
(***************************************************************************)
(* One inbound message on its way from the mail server to the mailbox: the *)
(* ingest Worker stages it in R2, records a handoff in D1 and publishes a  *)
(* Queue message; the jobs Worker stores it and removes what was staged;   *)
(* two Cron tasks republish what was left behind and clean up.  Statements *)
(* name one message_id, so messages do not interact, except that another   *)
(* one with the same content, a twin, may be stored in the same mailbox.   *)
(* D1 runs one statement, or one batch, and R2 one call, atomically.       *)
(***************************************************************************)
EXTENDS Naturals

CONSTANTS Copies,      \* places for Queue copies of the message
          MaxRetries,  \* redeliveries the Queue allows (5 in wrangler.jsonc)
          Twins,       \* whether a twin may be stored: {TRUE}, {FALSE} or both
          MaxFaults    \* bound: calls that fail, invocations that die, duplicates

ASSUME BoundsAssumption == MaxRetries \in Nat /\ MaxFaults \in Nat
ASSUME TwinsAssumption == Twins \subseteq BOOLEAN

VARIABLES ingest,    \* the next step of handleInboundEmail
          answer,    \* what the sending server was told
          raw,       \* the staged message, and next to it
          payload,   \* the Queue contract (.queue.json)
          handoff,   \* the inbound_handoffs row: status, staging_deleted
          canonical, \* the message's objects under mailboxes/
          stored,    \* the messages row that holds the content: its own, a twin's
          copy,      \* where each Queue copy is, or its consumer's next step
          tries,     \* redeliveries a copy has had
          letter,    \* queue_dead_letters holds a row that waits for its retry
          dropped,   \* the dead-letter queue gave a copy up
          recovery,  \* the 'inbound_handoff' maintenance task
          scan,      \* the 'staging' task, in the objects it lists
          cleanup,   \* the same task, in the handoffs it lists
          twin, faults

staging == <<raw, payload>>
queue   == <<copy, tries>>
mailbox == <<canonical, stored>>
dead    == <<letter, dropped>>
tasks   == <<recovery, scan, cleanup>>
vars    == <<ingest, answer, staging, handoff, mailbox, queue, dead, tasks, twin, faults>>

Status == {"none", "staged", "enqueued", "queue_failed", "processing", "dead_letter", "stored"}
Object == {"unsent", "staged", "deleted"}
Ingest == {"route", "stage", "record", "enqueue", "markEnqueued", "markFailed", "done",
           "refused"}
Consuming == {"begin", "byId", "load", "content", "store", "persist", "clean",
              "complete", "completeUnclean", "ack"}
Task   == {"idle", "find", "record", "send", "mark", "fail"}

Init ==
  /\ ingest = "route"
  /\ answer = "none"
  /\ raw = "unsent"
  /\ payload = "unsent"
  /\ handoff = [status |-> "none", deleted |-> FALSE]
  /\ canonical = "none"
  /\ stored = "none"
  /\ copy = [c \in Copies |-> "absent"]
  /\ tries = [c \in Copies |-> 0]
  /\ letter = FALSE
  /\ dropped = FALSE
  /\ recovery = "idle"
  /\ scan = "idle"
  /\ cleanup = "idle"
  /\ twin \in Twins
  /\ faults = 0

Fault == faults < MaxFaults /\ faults' = faults + 1

Enqueue(c) ==
  /\ copy[c] = "absent"
  /\ copy' = [copy EXCEPT ![c] = "waiting"]
  /\ tries' = [tries EXCEPT ![c] = 0]

\* Queue.send throws, whether or not the copy was taken.
Uncertain == UNCHANGED queue \/ \E c \in Copies : Enqueue(c)

-----------------------------------------------------------------------------
(* The statements of inbound-handoff.ts.                                   *)

\* UPDATE ... WHERE message_id = ? AND status <> 'stored'
SetStatus(status) ==
  handoff' = IF handoff.status \in {"none", "stored"} THEN handoff
                                                     ELSE [handoff EXCEPT !.status = status]

\* An upsert whose update leaves the status alone.
RecordHandoff ==
  handoff' = IF handoff.status = "none" THEN [handoff EXCEPT !.status = "staged"] ELSE handoff

\* completeInboundHandoff has no condition but the message's id.
CompleteHandoff(deleted) ==
  handoff' = IF handoff.status = "none" THEN handoff
                                        ELSE [status |-> "stored", deleted |-> deleted]

DeleteStaged(object) == IF object = "staged" THEN "deleted" ELSE object

-----------------------------------------------------------------------------
(* handleInboundEmail.                                                     *)

IngestGoto(label) == ingest' = label /\ UNCHANGED answer

Reject == ingest' = "done" /\ answer' = "rejected"

\* Size, route and contract; a failure of the lookup rejects, too.
RouteRejects ==
  /\ ingest = "route"
  /\ ingest' = "refused"
  /\ answer' = "rejected"
  /\ UNCHANGED <<staging, handoff, mailbox, queue, dead, tasks, twin, faults>>

Route ==
  /\ ingest = "route"
  /\ IngestGoto("stage")
  /\ UNCHANGED <<staging, handoff, mailbox, queue, dead, tasks, twin, faults>>

\* The two puts run side by side; one that is on its way when the other fails
\* may still land.
RawLands ==
  /\ ingest \notin {"route", "refused"}
  /\ raw = "unsent"
  /\ raw' = "staged"
  /\ UNCHANGED <<ingest, answer, payload, handoff, mailbox, queue, dead, tasks, twin, faults>>

PayloadLands ==
  /\ ingest \notin {"route", "refused"}
  /\ payload = "unsent"
  /\ payload' = "staged"
  /\ UNCHANGED <<ingest, answer, raw, handoff, mailbox, queue, dead, tasks, twin, faults>>

Staged ==
  /\ ingest = "stage"
  /\ raw # "unsent" /\ payload # "unsent"
  /\ IngestGoto("record")
  /\ UNCHANGED <<staging, handoff, mailbox, queue, dead, tasks, twin, faults>>

Record ==
  /\ ingest = "record"
  /\ RecordHandoff
  /\ IngestGoto("enqueue")
  /\ UNCHANGED <<staging, mailbox, queue, dead, tasks, twin, faults>>

\* Without a fault, too: a row of the staging task may be newer than the receipt,
\* and updated_at >= created_at is checked.
RecordThrows ==
  /\ ingest = "record"
  /\ \/ Fault /\ (RecordHandoff \/ UNCHANGED handoff)
     \/ handoff.status \notin {"none", "stored"} /\ UNCHANGED <<handoff, faults>>
  /\ Reject
  /\ UNCHANGED <<staging, mailbox, queue, dead, tasks, twin>>

Send(c) ==
  /\ ingest = "enqueue"
  /\ Enqueue(c)
  /\ IngestGoto("markEnqueued")
  /\ UNCHANGED <<staging, handoff, mailbox, dead, tasks, twin, faults>>

SendThrows ==
  /\ ingest = "enqueue"
  /\ Fault
  /\ Uncertain
  /\ IngestGoto("markFailed")
  /\ UNCHANGED <<staging, handoff, mailbox, dead, tasks, twin>>

\* Takes what the Queue refused for sent.
MarkFailed_Accepts ==
  /\ ingest = "markFailed"
  /\ SetStatus("enqueued")
  /\ ingest' = "done"
  /\ answer' = "accepted"
  /\ UNCHANGED <<staging, mailbox, queue, dead, tasks, twin, faults>>

\* markInboundHandoffEnqueued, whose failure is only logged.
MarkEnqueued ==
  /\ ingest = "markEnqueued"
  /\ \/ SetStatus("enqueued") /\ UNCHANGED faults
     \/ Fault /\ UNCHANGED handoff
  /\ ingest' = "done"
  /\ answer' = "accepted"
  /\ UNCHANGED <<staging, mailbox, queue, dead, tasks, twin>>

\* recordQueueFailure
MarkFailed ==
  /\ ingest = "markFailed"
  /\ \/ SetStatus("queue_failed") /\ UNCHANGED faults
     \/ Fault /\ UNCHANGED handoff
  /\ Reject
  /\ UNCHANGED <<staging, mailbox, queue, dead, tasks, twin>>

\* A put fails, or the invocation dies: the sending server keeps the message.
IngestDies ==
  /\ ingest \notin {"route", "refused", "done"}
  /\ Fault
  /\ Reject
  /\ UNCHANGED <<staging, handoff, mailbox, queue, dead, tasks, twin>>
-----------------------------------------------------------------------------
(* The consumer: processInboundQueueMessage, a step per statement or call. *)

Goto(c, label) ==
  /\ copy' = [copy EXCEPT ![c] = label]
  /\ UNCHANGED tries

\* message.retry(), or an invocation that died.
RetryCopy(c) ==
  IF tries[c] < MaxRetries
    THEN /\ copy' = [copy EXCEPT ![c] = "waiting"]
         /\ tries' = [tries EXCEPT ![c] = @ + 1]
    ELSE Goto(c, "dead")

Receive(c) ==
  /\ copy[c] = "waiting"
  /\ Goto(c, "begin")
  /\ UNCHANGED <<ingest, answer, staging, handoff, mailbox, dead, tasks, twin, faults>>

Begin(c) ==
  /\ copy[c] = "begin"
  /\ SetStatus("processing")
  /\ Goto(c, "byId")
  /\ UNCHANGED <<ingest, answer, staging, mailbox, dead, tasks, twin, faults>>

\* findInboundMessageById: a redelivery of a message that is stored.
ById(c) ==
  /\ copy[c] = "byId"
  /\ Goto(c, IF stored = "own" THEN "clean" ELSE "load")
  /\ UNCHANGED <<ingest, answer, staging, handoff, mailbox, dead, tasks, twin, faults>>

\* loadValidatedStagedRaw, here and before the objects are copied.
LoadFails(c) ==
  /\ copy[c] \in {"load", "store"}
  /\ raw # "staged"
  /\ RetryCopy(c)
  /\ UNCHANGED <<ingest, answer, staging, handoff, mailbox, dead, tasks, twin, faults>>

Load(c) ==
  /\ copy[c] = "load"
  /\ raw = "staged"
  /\ Goto(c, "content")
  /\ UNCHANGED <<ingest, answer, staging, handoff, mailbox, dead, tasks, twin, faults>>

\* findInboundMessageByContent
ByContent(c) ==
  /\ copy[c] = "content"
  /\ Goto(c, IF stored = "none" THEN "store" ELSE "clean")
  /\ UNCHANGED <<ingest, answer, staging, handoff, mailbox, dead, tasks, twin, faults>>

\* Persists what has only been stored in part.
Store_First(c) ==
  /\ copy[c] = "store"
  /\ raw = "staged"
  /\ canonical' = IF canonical = "none" THEN "some" ELSE "all"
  /\ Goto(c, "persist")
  /\ UNCHANGED <<ingest, answer, staging, handoff, stored, dead, tasks, twin, faults>>

\* storePreparedMessage: one object after the other.
Store(c) ==
  /\ copy[c] = "store"
  /\ raw = "staged"
  /\ \/ canonical = "none" /\ canonical' = "some" /\ UNCHANGED queue
     \/ canonical # "none" /\ canonical' = "all" /\ Goto(c, "persist")
  /\ UNCHANGED <<ingest, answer, staging, handoff, stored, dead, tasks, twin, faults>>

\* The batch of persistInboundMessage: ON CONFLICT DO NOTHING.
Insert == stored' = IF stored = "none" THEN "own" ELSE stored

\* The rules that are applied here have a module of their own to come.
Persist(c) ==
  /\ copy[c] = "persist"
  /\ Insert
  /\ Goto(c, "clean")
  /\ UNCHANGED <<ingest, answer, staging, handoff, canonical, dead, tasks, twin, faults>>

PersistUnanswered(c) ==
  /\ copy[c] = "persist"
  /\ Fault
  /\ Insert
  /\ RetryCopy(c)
  /\ UNCHANGED <<ingest, answer, staging, handoff, canonical, dead, tasks, twin>>

\* Reports a deletion that failed as done.
CleanFails_Ignored(c) ==
  /\ copy[c] = "clean"
  /\ Fault
  /\ UNCHANGED staging
  /\ Goto(c, "complete")
  /\ UNCHANGED <<ingest, answer, handoff, mailbox, dead, tasks, twin>>

\* deleteStaging, whose failure leaves the work to the staging task.
Clean(c) ==
  /\ copy[c] = "clean"
  /\ raw' = DeleteStaged(raw) /\ payload' = DeleteStaged(payload)
  /\ Goto(c, "complete")
  /\ UNCHANGED <<ingest, answer, handoff, mailbox, dead, tasks, twin, faults>>

CleanFails(c) ==
  /\ copy[c] = "clean"
  /\ Fault
  /\ \/ UNCHANGED staging
     \/ raw' = DeleteStaged(raw) /\ payload' = DeleteStaged(payload)
  /\ Goto(c, "completeUnclean")
  /\ UNCHANGED <<ingest, answer, handoff, mailbox, dead, tasks, twin>>

Complete(c) ==
  /\ copy[c] \in {"complete", "completeUnclean"}
  /\ CompleteHandoff(copy[c] = "complete")
  /\ Goto(c, "ack")
  /\ UNCHANGED <<ingest, answer, staging, mailbox, dead, tasks, twin, faults>>

Ack(c) ==
  /\ copy[c] = "ack"
  /\ Goto(c, "absent")
  /\ UNCHANGED <<ingest, answer, staging, handoff, mailbox, dead, tasks, twin, faults>>

\* A call throws, the mailbox is no longer active, or the invocation dies.  The
\* error that is recorded leaves the status alone.
Throws(c) ==
  /\ copy[c] \in Consuming
  /\ Fault
  /\ RetryCopy(c)
  /\ UNCHANGED <<ingest, answer, staging, handoff, mailbox, dead, tasks, twin>>

\* The Queue delivers a message more than once.
Duplicate(c) ==
  /\ \E d \in Copies : copy[d] \in Consuming \cup {"waiting"}
  /\ Fault
  /\ Enqueue(c)
  /\ UNCHANGED <<ingest, answer, staging, handoff, mailbox, dead, tasks, twin>>

-----------------------------------------------------------------------------
(* The dead-letter queue, its consumer and the retry that an operator asks *)
(* for: module DeadLetters has their detail.                               *)

SaveLetter(c) ==
  /\ copy[c] = "dead"
  /\ letter' = TRUE
  /\ Goto(c, "marking")
  /\ UNCHANGED <<ingest, answer, staging, handoff, mailbox, dropped, tasks, twin, faults>>

\* bestEffortMarkInboundDeadLetter, then message.ack()
MarkDeadLetter(c) ==
  /\ copy[c] = "marking"
  /\ \/ SetStatus("dead_letter") /\ UNCHANGED faults
     \/ Fault /\ UNCHANGED handoff
  /\ Goto(c, "absent")
  /\ UNCHANGED <<ingest, answer, staging, mailbox, dead, tasks, twin>>

DropDead(c) ==
  /\ copy[c] = "dead"
  /\ Fault
  /\ dropped' = TRUE
  /\ Goto(c, "absent")
  /\ UNCHANGED <<ingest, answer, staging, handoff, mailbox, letter, tasks, twin>>

RetryLetter(c) ==
  /\ letter
  /\ Enqueue(c)
  /\ letter' \in BOOLEAN
  /\ UNCHANGED <<ingest, answer, staging, handoff, mailbox, dropped, tasks, twin, faults>>

-----------------------------------------------------------------------------
(* recoverInboundHandoffs.                                                 *)

\* The age of the row is not modelled: a task may list it at any time.
Recoverable == handoff.status \in {"staged", "queue_failed"}

RecoveryList ==
  /\ recovery = "idle"
  /\ Recoverable
  /\ recovery' = "send"
  /\ UNCHANGED <<ingest, answer, staging, handoff, mailbox, queue, dead, scan, cleanup, twin,
                 faults>>

RecoverySend(c) ==
  /\ recovery = "send"
  /\ Enqueue(c)
  /\ recovery' = "mark"
  /\ UNCHANGED <<ingest, answer, staging, handoff, mailbox, dead, scan, cleanup, twin, faults>>

RecoveryMark ==
  /\ \/ recovery = "mark" /\ SetStatus("enqueued")
     \/ recovery = "fail" /\ SetStatus("queue_failed")
  /\ recovery' = "idle"
  /\ UNCHANGED <<ingest, answer, staging, mailbox, queue, dead, scan, cleanup, twin, faults>>

RecoveryThrows ==
  /\ recovery \in {"send", "mark", "fail"}
  /\ Fault
  /\ IF recovery = "send" THEN Uncertain ELSE UNCHANGED queue
  /\ recovery' = IF recovery = "fail" THEN "idle" ELSE "fail"
  /\ UNCHANGED <<ingest, answer, staging, handoff, mailbox, dead, scan, cleanup, twin>>

-----------------------------------------------------------------------------
(* reconcileInboundStaging: the objects it lists, then the handoffs.  The  *)
(* storage issues that it opens and closes are not modelled.               *)

\* bucket.list finds the raw object and its contract can be read.
ScanRead ==
  /\ scan = "idle"
  /\ raw = "staged" /\ payload = "staged"
  /\ scan' = "find"
  /\ UNCHANGED <<ingest, answer, staging, handoff, mailbox, queue, dead, recovery, cleanup, twin,
                 faults>>

\* Takes a message without a handoff for one that is under way.
ScanFind_LeavesOrphans ==
  /\ scan = "find"
  /\ scan' = "idle"
  /\ UNCHANGED <<ingest, answer, staging, handoff, mailbox, queue, dead, recovery, cleanup, twin,
                 faults>>

ScanFind ==
  /\ scan = "find"
  /\ scan' = IF handoff.status = "none" THEN "record" ELSE "idle"
  /\ UNCHANGED <<ingest, answer, staging, handoff, mailbox, queue, dead, recovery, cleanup, twin,
                 faults>>

ScanRecord ==
  /\ scan = "record"
  /\ RecordHandoff
  /\ scan' = "send"
  /\ UNCHANGED <<ingest, answer, staging, mailbox, queue, dead, recovery, cleanup, twin, faults>>

\* The ingest Worker's row may be newer than the task, and then it takes neither
\* the upsert nor the mark of its failure.
ScanRefused ==
  /\ scan = "record"
  /\ handoff.status \notin {"none", "stored"}
  /\ scan' = "idle"
  /\ UNCHANGED <<ingest, answer, staging, handoff, mailbox, queue, dead, recovery, cleanup, twin,
                 faults>>

ScanSend(c) ==
  /\ scan = "send"
  /\ Enqueue(c)
  /\ scan' = "mark"
  /\ UNCHANGED <<ingest, answer, staging, handoff, mailbox, dead, recovery, cleanup, twin, faults>>

ScanMark ==
  /\ \/ scan = "mark" /\ SetStatus("enqueued")
     \/ scan = "fail" /\ SetStatus("queue_failed")
  /\ scan' = "idle"
  /\ UNCHANGED <<ingest, answer, staging, mailbox, queue, dead, recovery, cleanup, twin, faults>>

\* Outside the try block an error ends the task.
ScanThrows ==
  /\ scan # "idle"
  /\ Fault
  /\ IF scan = "send" THEN Uncertain ELSE UNCHANGED queue
  /\ scan' = IF scan \in {"record", "send", "mark"} THEN "fail" ELSE "idle"
  /\ UNCHANGED <<ingest, answer, staging, handoff, mailbox, dead, recovery, cleanup, twin>>

\* Lists every handoff whose staging is there.
CleanupList_AnyStatus ==
  /\ cleanup = "idle"
  /\ handoff.status # "none" /\ ~ handoff.deleted
  /\ cleanup' = "send"
  /\ UNCHANGED <<ingest, answer, staging, handoff, mailbox, queue, dead, recovery, scan, twin,
                 faults>>

\* listInboundStagingCleanupPending
CleanupList ==
  /\ cleanup = "idle"
  /\ handoff.status = "stored" /\ ~ handoff.deleted
  /\ cleanup' = "send"
  /\ UNCHANGED <<ingest, answer, staging, handoff, mailbox, queue, dead, recovery, scan, twin,
                 faults>>

CleanupDelete ==
  /\ cleanup = "send"
  /\ raw' = DeleteStaged(raw) /\ payload' = DeleteStaged(payload)
  /\ cleanup' = "mark"
  /\ UNCHANGED <<ingest, answer, handoff, mailbox, queue, dead, recovery, scan, twin, faults>>

\* markInboundStagingDeleted
CleanupMark ==
  /\ cleanup = "mark"
  /\ handoff' = IF handoff.status = "stored" THEN [handoff EXCEPT !.deleted = TRUE] ELSE handoff
  /\ cleanup' = "idle"
  /\ UNCHANGED <<ingest, answer, staging, mailbox, queue, dead, recovery, scan, twin, faults>>

CleanupThrows ==
  /\ cleanup # "idle"
  /\ Fault
  /\ cleanup' = "idle"
  /\ UNCHANGED <<ingest, answer, staging, handoff, mailbox, queue, dead, recovery, scan, twin>>

-----------------------------------------------------------------------------

\* Another message with the same content is stored in the mailbox.
StoreTwin ==
  /\ twin
  /\ stored = "none"
  /\ stored' = "twin"
  /\ UNCHANGED <<ingest, answer, staging, handoff, canonical, queue, dead, tasks, twin, faults>>

IngestStep ==
  \/ RouteRejects \/ Route \/ RawLands \/ PayloadLands \/ Staged \/ Record
  \/ (\E c \in Copies : Send(c)) \/ MarkEnqueued \/ MarkFailed

ConsumerStep(c) ==
  \/ Begin(c) \/ ById(c) \/ LoadFails(c) \/ Load(c) \/ ByContent(c) \/ Store(c)
  \/ Persist(c) \/ Clean(c) \/ Complete(c) \/ Ack(c)

RecoveryStep == RecoveryList \/ (\E c \in Copies : RecoverySend(c)) \/ RecoveryMark

ScanStep ==
  \/ ScanRead \/ ScanFind \/ ScanRecord \/ ScanRefused \/ (\E c \in Copies : ScanSend(c))
  \/ ScanMark

CleanupStep == CleanupList \/ CleanupDelete \/ CleanupMark

Faulty ==
  \/ RecordThrows \/ SendThrows \/ IngestDies
  \/ \E c \in Copies :
       PersistUnanswered(c) \/ CleanFails(c) \/ Throws(c) \/ Duplicate(c) \/ DropDead(c)
  \/ RecoveryThrows \/ ScanThrows \/ CleanupThrows

Next ==
  \/ IngestStep
  \/ \E c \in Copies :
       Receive(c) \/ ConsumerStep(c) \/ SaveLetter(c) \/ MarkDeadLetter(c) \/ RetryLetter(c)
  \/ RecoveryStep \/ ScanStep \/ CleanupStep
  \/ Faulty
  \/ StoreTwin

Spec == Init /\ [][Next]_vars

(* The Queue delivers, invocations that neither die nor throw run on, and  *)
(* the Cron trigger fires again and again.  Nothing is promised about the  *)
(* invocation that receives the message, nor about operators.              *)
Fairness ==
  /\ \A c \in Copies :
       /\ WF_vars(Receive(c))
       /\ WF_vars(ConsumerStep(c))
       /\ WF_vars(SaveLetter(c) \/ MarkDeadLetter(c))
  /\ WF_vars(RecoveryStep)
  /\ WF_vars(ScanStep)
  /\ WF_vars(CleanupStep)

FairSpec == Spec /\ Fairness

-----------------------------------------------------------------------------
(* Properties.                                                             *)

TypeOK ==
  /\ ingest \in Ingest
  /\ answer \in {"none", "accepted", "rejected"}
  /\ raw \in Object /\ payload \in Object
  /\ handoff \in [status: Status, deleted: BOOLEAN]
  /\ canonical \in {"none", "some", "all"}
  /\ stored \in {"none", "own", "twin"}
  /\ copy \in [Copies -> Consuming \cup {"absent", "waiting", "dead", "marking"}]
  /\ tries \in [Copies -> 0..MaxRetries]
  /\ letter \in BOOLEAN /\ dropped \in BOOLEAN
  /\ recovery \in Task \ {"find", "record"}
  /\ scan \in Task
  /\ cleanup \in {"idle", "send", "mark"}
  /\ twin \in BOOLEAN
  /\ faults \in 0..MaxFaults

\* The staged message is removed only when D1 holds the message, or another
\* with its content, whatever is redelivered, retried or swept.
StagedUntilStored == "deleted" \in {raw, payload} => stored # "none"

\* A message that D1 holds has all its objects under mailboxes/, whichever of
\* the consumers that raced for it wrote them.
StoredIsComplete == stored = "own" => canonical = "all"

\* A handoff is closed only for a message that is stored, and says that its
\* staging is deleted only when nothing is staged any more.
HandoffIsTrue ==
  /\ handoff.status = "stored" => stored # "none"
  /\ handoff.deleted => handoff.status = "stored" /\ "staged" \notin {raw, payload}

\* A copy that is to be consumed, or saved.
Underway == \E c \in Copies : copy[c] \notin {"absent", "ack", "marking"}

\* The message is stored, or on its way, or kept as a dead letter, unless the
\* dead-letter queue gave it up.
Pursued == stored # "none" \/ Underway \/ letter \/ dropped

\* A message the sending server was told is accepted is pursued.
AcceptedIsPursued == answer = "accepted" => Pursued

\* A message that is recorded is pursued, or the Cron task finds it: a late mark
\* never makes it look sent when no copy was.
RecordedIsPursued == handoff.status # "none" => Pursued \/ Recoverable

\* A handoff that is stored stays so, however late the marks of the ingest
\* Worker, the Cron tasks and the dead-letter consumer arrive.
StoredStays == [][handoff.status = "stored" => handoff'.status = "stored"]_vars

\* A staged message with its contract is stored or becomes a dead letter, even
\* when the invocation that staged it died before it could record it.
StagedIsSettled ==
  (raw = "staged" /\ payload = "staged") ~> (stored # "none" \/ letter \/ dropped)

\* When the handoff is closed, what was staged is removed in the end.
StagingIsCleaned == handoff.status = "stored" ~> "staged" \notin {raw, payload}

=============================================================================
