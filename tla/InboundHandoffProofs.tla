------------------------ MODULE InboundHandoffProofs ------------------------
(***************************************************************************)
(* Theorems about InboundHandoff for every set of Queue copies and every   *)
(* value of the bounds.                                                    *)
(***************************************************************************)
EXTENDS InboundHandoff, TLAPS

(* The inductive invariant.                                                *)

\* What stands in a Queue, in the ledger, among the dead letters or before the
\* staging task was staged with its contract.
Begun ==
  \/ ingest \in {"record", "enqueue", "markEnqueued", "markFailed"}
  \/ handoff.status # "none"
  \/ letter
  \/ recovery # "idle" \/ scan # "idle"
  \/ \E c \in Copies : copy[c] # "absent"

BegunIsStaged ==
  /\ Begun => raw # "unsent" /\ payload # "unsent"
  /\ recovery # "idle" => handoff.status # "none"

\* A consumer removes, completes and acknowledges what D1 holds, and so does the
\* task that cleans up.
ClosingIsStored ==
  /\ \A c \in Copies : copy[c] \in {"clean", "complete", "completeUnclean", "ack"}
                         => stored # "none"
  /\ handoff.status = "stored" => stored # "none"
  /\ cleanup # "idle" => handoff.status = "stored"

\* A consumer persists what it has stored as a whole.
PersistsWhole ==
  /\ \A c \in Copies : copy[c] = "persist" => canonical = "all"
  /\ StoredIsComplete

\* What is said to be gone is gone.
Gone == raw = "deleted" /\ payload = "deleted"

SaidGone ==
  /\ \A c \in Copies : copy[c] = "complete" => Gone
  /\ cleanup = "mark" => Gone
  /\ handoff.deleted => Gone /\ handoff.status = "stored"

\* Whoever is about to mark the handoff as under way has a message that is.
Marking ==
  \/ ingest = "markEnqueued"
  \/ recovery = "mark"
  \/ scan = "mark"
  \/ \E c \in Copies : copy[c] = "marking"

MarkedIsPursued ==
  Marking \/ answer = "accepted" \/ handoff.status \notin {"none", "staged", "queue_failed"}
    => Pursued

IInv ==
  /\ TypeOK /\ BegunIsStaged /\ StagedUntilStored /\ ClosingIsStored
  /\ PersistsWhole /\ SaidGone /\ MarkedIsPursued

-----------------------------------------------------------------------------

LEMMA InitInvariant == Init => IInv
<1>. SUFFICES ASSUME Init PROVE IInv
  OBVIOUS
<1>. USE DEF Init
<1>1. TypeOK
  <2>1. 0 <= MaxRetries /\ 0 \in 0..MaxFaults /\ twin \in BOOLEAN
    BY BoundsAssumption, TwinsAssumption
  <2>2. handoff \in [status: Status, deleted: BOOLEAN]
    BY DEF Status
  <2>3. /\ copy \in [Copies -> Consuming \cup {"absent", "waiting", "dead", "marking"}]
        /\ tries \in [Copies -> 0..MaxRetries]
    BY <2>1, BoundsAssumption
  <2>4. raw \in Object /\ payload \in Object /\ ingest \in Ingest
    BY DEF Object, Ingest
  <2>5. recovery \in Task \ {"find", "record"} /\ scan \in Task
    BY DEF Task
  <2>. QED BY <2>1, <2>2, <2>3, <2>4, <2>5 DEF TypeOK
<1>2. BegunIsStaged /\ StagedUntilStored /\ ClosingIsStored
  BY DEF BegunIsStaged, Begun, StagedUntilStored, ClosingIsStored
<1>3. PersistsWhole /\ SaidGone /\ MarkedIsPursued
  BY DEF PersistsWhole, StoredIsComplete, SaidGone, MarkedIsPursued, Marking
<1>. QED BY <1>1, <1>2, <1>3 DEF IInv

LEMMA NextTyped ==
  ASSUME TypeOK, [Next]_vars PROVE TypeOK'
<1>. USE BoundsAssumption
     DEF TypeOK, Status, Object, Ingest, Consuming, Task,
         Goto, IngestGoto, Reject, Enqueue, Uncertain, RetryCopy, SetStatus, RecordHandoff,
         CompleteHandoff, Recoverable, DeleteStaged, Insert, Fault, staging, queue, mailbox, dead,
         tasks
<1>1. CASE StoreTwin
  <2>1. twin' \in BOOLEAN
    <3>1. twin' = twin
      BY <1>1 DEF StoreTwin
    <3>. QED BY <3>1
  <2>. QED BY <1>1, <2>1 DEF StoreTwin
<1>2. ASSUME NEW c \in Copies, PersistUnanswered(c) PROVE TypeOK'
  BY <1>2 DEF PersistUnanswered
<1>3. ASSUME NEW c \in Copies, CleanFails(c) PROVE TypeOK'
  BY <1>3 DEF CleanFails
<1>4. ASSUME NEW c \in Copies, Throws(c) PROVE TypeOK'
  BY <1>4 DEF Throws
<1>5. ASSUME NEW c \in Copies, Duplicate(c) PROVE TypeOK'
  BY <1>5 DEF Duplicate
<1>6. ASSUME NEW c \in Copies, DropDead(c) PROVE TypeOK'
  BY <1>6 DEF DropDead
<1>7. ASSUME NEW c \in Copies, SaveLetter(c) PROVE TypeOK'
  BY <1>7 DEF SaveLetter
<1>8. ASSUME NEW c \in Copies, MarkDeadLetter(c) PROVE TypeOK'
  BY <1>8 DEF MarkDeadLetter
<1>9. ASSUME NEW c \in Copies, RetryLetter(c) PROVE TypeOK'
  BY <1>9 DEF RetryLetter
<1>10. CASE CleanupDelete
  BY <1>10 DEF CleanupDelete
<1>11. CASE CleanupMark
  <2>1. handoff' \in [status: Status, deleted: BOOLEAN]
    <3>1. handoff' \in {handoff, [handoff EXCEPT !.deleted = TRUE]}
      BY <1>11 DEF CleanupMark
    <3>. QED BY <3>1
  <2>. QED BY <1>11, <2>1 DEF CleanupMark
<1>12. CASE CleanupThrows
  BY <1>12 DEF CleanupThrows
<1>13. ASSUME NEW c \in Copies, RecoverySend(c) PROVE TypeOK'
  BY <1>13 DEF RecoverySend
<1>14. ASSUME NEW c \in Copies, ScanSend(c) PROVE TypeOK'
  BY <1>14 DEF ScanSend
<1>15. ASSUME NEW c \in Copies, Clean(c) PROVE TypeOK'
  BY <1>15 DEF Clean
<1>16. ASSUME NEW c \in Copies, Complete(c) PROVE TypeOK'
  BY <1>16 DEF Complete
<1>17. ASSUME NEW c \in Copies, Ack(c) PROVE TypeOK'
  BY <1>17 DEF Ack
<1>18. ASSUME NEW c \in Copies, Send(c) \/ Receive(c) \/ Begin(c)
     PROVE TypeOK'
  BY <1>18 DEF Send, Receive, Begin
<1>19. ASSUME NEW c \in Copies, ById(c) \/ LoadFails(c) \/ Load(c)
     PROVE TypeOK'
  BY <1>19 DEF ById, LoadFails, Load
<1>20. ASSUME NEW c \in Copies, ByContent(c) \/ Store(c) \/ Persist(c)
     PROVE TypeOK'
  BY <1>20 DEF ByContent, Store, Persist
<1>21. CASE RouteRejects \/ Route \/ RawLands
  BY <1>21 DEF RouteRejects, Route, RawLands
<1>22. CASE PayloadLands \/ Staged \/ Record
  BY <1>22 DEF PayloadLands, Staged, Record
<1>23. CASE MarkEnqueued \/ MarkFailed \/ RecordThrows
  BY <1>23 DEF MarkEnqueued, MarkFailed, RecordThrows
<1>24. CASE SendThrows \/ IngestDies \/ RecoveryList
  BY <1>24 DEF SendThrows, IngestDies, RecoveryList
<1>25. CASE RecoveryMark \/ RecoveryThrows \/ ScanRead
  BY <1>25 DEF RecoveryMark, RecoveryThrows, ScanRead
<1>26. CASE ScanFind \/ ScanRecord \/ ScanRefused
  BY <1>26 DEF ScanFind, ScanRecord, ScanRefused
<1>27. CASE ScanMark \/ ScanThrows \/ CleanupList
  BY <1>27 DEF ScanMark, ScanThrows, CleanupList
<1>28. CASE UNCHANGED vars
  BY <1>28 DEF vars
<1>. QED BY <1>1, <1>2, <1>3, <1>4, <1>5, <1>6, <1>7, <1>8, <1>9, <1>10, <1>11, <1>12,
     <1>13, <1>14, <1>15, <1>16, <1>17, <1>18, <1>19, <1>20, <1>21, <1>22, <1>23, <1>24,
     <1>25, <1>26, <1>27, <1>28
         DEF Next, IngestStep, ConsumerStep, RecoveryStep, ScanStep, CleanupStep, Faulty

LEMMA NextBegun ==
  ASSUME TypeOK, BegunIsStaged, [Next]_vars PROVE BegunIsStaged'
<1>. USE DEF TypeOK, BegunIsStaged, Begun, Consuming, Status,
             Goto, IngestGoto, Reject, Enqueue, Uncertain, RetryCopy, SetStatus, RecordHandoff,
             CompleteHandoff, Recoverable, DeleteStaged, Insert, Fault, staging, queue, mailbox, dead,
             tasks
<1>1. ASSUME NEW c \in Copies, Send(c) \/ Receive(c) \/ Begin(c) \/ ById(c)
     PROVE BegunIsStaged'
  BY <1>1 DEF Send, Receive, Begin, ById
<1>2. ASSUME NEW c \in Copies, LoadFails(c) \/ Load(c) \/ ByContent(c) \/ Store(c)
     PROVE BegunIsStaged'
  BY <1>2 DEF LoadFails, Load, ByContent, Store
<1>3. ASSUME NEW c \in Copies, Persist(c) \/ Clean(c) \/ Complete(c) \/ Ack(c)
     PROVE BegunIsStaged'
  BY <1>3 DEF Persist, Clean, Complete, Ack
<1>4. ASSUME NEW c \in Copies, PersistUnanswered(c) \/ CleanFails(c) \/ Throws(c) \/
       Duplicate(c)
     PROVE BegunIsStaged'
  BY <1>4 DEF PersistUnanswered, CleanFails, Throws, Duplicate
<1>5. ASSUME NEW c \in Copies, DropDead(c) \/ SaveLetter(c) \/ MarkDeadLetter(c) \/
       RetryLetter(c)
     PROVE BegunIsStaged'
  BY <1>5 DEF DropDead, SaveLetter, MarkDeadLetter, RetryLetter
<1>6. ASSUME NEW c \in Copies, RecoverySend(c) \/ ScanSend(c)
     PROVE BegunIsStaged'
  BY <1>6 DEF RecoverySend, ScanSend
<1>7. CASE RouteRejects \/ Route \/ RawLands \/ PayloadLands
  BY <1>7 DEF RouteRejects, Route, RawLands, PayloadLands
<1>8. CASE Staged \/ Record \/ MarkEnqueued \/ MarkFailed
  BY <1>8 DEF Staged, Record, MarkEnqueued, MarkFailed
<1>9. CASE RecordThrows \/ SendThrows \/ IngestDies \/ RecoveryList
  BY <1>9 DEF RecordThrows, SendThrows, IngestDies, RecoveryList
<1>10. CASE RecoveryMark \/ RecoveryThrows \/ ScanRead \/ ScanFind
  BY <1>10 DEF RecoveryMark, RecoveryThrows, ScanRead, ScanFind
<1>11. CASE ScanRecord \/ ScanRefused \/ ScanMark \/ ScanThrows
  BY <1>11 DEF ScanRecord, ScanRefused, ScanMark, ScanThrows
<1>12. CASE CleanupList \/ CleanupDelete \/ CleanupMark \/ CleanupThrows
  BY <1>12 DEF CleanupList, CleanupDelete, CleanupMark, CleanupThrows
<1>13. CASE StoreTwin
  BY <1>13 DEF StoreTwin
<1>14. CASE UNCHANGED vars
  BY <1>14 DEF vars
<1>. QED BY <1>1, <1>2, <1>3, <1>4, <1>5, <1>6, <1>7, <1>8, <1>9, <1>10, <1>11, <1>12,
     <1>13, <1>14
         DEF Next, IngestStep, ConsumerStep, RecoveryStep, ScanStep, CleanupStep, Faulty

\* What is stored, and what the ledger says of it.
Closed == StagedUntilStored /\ ClosingIsStored

LEMMA NextClosed ==
  ASSUME TypeOK, Closed, [Next]_vars PROVE Closed'
<1>. USE DEF TypeOK, Closed, StagedUntilStored, ClosingIsStored, Object, Consuming,
             Goto, IngestGoto, Reject, Enqueue, Uncertain, RetryCopy, SetStatus, RecordHandoff,
             CompleteHandoff, Recoverable, DeleteStaged, Insert, Fault, staging, queue, mailbox, dead,
             tasks
<1>1. ASSUME NEW c \in Copies, Send(c) \/ Receive(c) \/ Begin(c) \/ ById(c)
     PROVE Closed'
  BY <1>1 DEF Send, Receive, Begin, ById
<1>2. ASSUME NEW c \in Copies, LoadFails(c) \/ Load(c) \/ ByContent(c) \/ Store(c)
     PROVE Closed'
  BY <1>2 DEF LoadFails, Load, ByContent, Store
<1>3. ASSUME NEW c \in Copies, Persist(c) \/ Clean(c) \/ Complete(c) \/ Ack(c)
     PROVE Closed'
  BY <1>3 DEF Persist, Clean, Complete, Ack
<1>4. ASSUME NEW c \in Copies, PersistUnanswered(c) \/ CleanFails(c) \/ Throws(c) \/
       Duplicate(c)
     PROVE Closed'
  BY <1>4 DEF PersistUnanswered, CleanFails, Throws, Duplicate
<1>5. ASSUME NEW c \in Copies, DropDead(c) \/ SaveLetter(c) \/ MarkDeadLetter(c) \/
       RetryLetter(c)
     PROVE Closed'
  BY <1>5 DEF DropDead, SaveLetter, MarkDeadLetter, RetryLetter
<1>6. ASSUME NEW c \in Copies, RecoverySend(c) \/ ScanSend(c)
     PROVE Closed'
  BY <1>6 DEF RecoverySend, ScanSend
<1>7. CASE RouteRejects \/ Route \/ RawLands \/ PayloadLands
  BY <1>7 DEF RouteRejects, Route, RawLands, PayloadLands
<1>8. CASE Staged \/ Record \/ MarkEnqueued \/ MarkFailed
  BY <1>8 DEF Staged, Record, MarkEnqueued, MarkFailed
<1>9. CASE RecordThrows \/ SendThrows \/ IngestDies \/ RecoveryList
  BY <1>9 DEF RecordThrows, SendThrows, IngestDies, RecoveryList
<1>10. CASE RecoveryMark \/ RecoveryThrows \/ ScanRead \/ ScanFind
  BY <1>10 DEF RecoveryMark, RecoveryThrows, ScanRead, ScanFind
<1>11. CASE ScanRecord \/ ScanRefused \/ ScanMark \/ ScanThrows
  BY <1>11 DEF ScanRecord, ScanRefused, ScanMark, ScanThrows
<1>12. CASE CleanupList \/ CleanupDelete \/ CleanupMark \/ CleanupThrows
  BY <1>12 DEF CleanupList, CleanupDelete, CleanupMark, CleanupThrows
<1>13. CASE StoreTwin
  BY <1>13 DEF StoreTwin
<1>14. CASE UNCHANGED vars
  BY <1>14 DEF vars
<1>. QED BY <1>1, <1>2, <1>3, <1>4, <1>5, <1>6, <1>7, <1>8, <1>9, <1>10, <1>11, <1>12,
     <1>13, <1>14
         DEF Next, IngestStep, ConsumerStep, RecoveryStep, ScanStep, CleanupStep, Faulty

LEMMA NextPersists ==
  ASSUME TypeOK, PersistsWhole, [Next]_vars PROVE PersistsWhole'
<1>. USE DEF TypeOK, PersistsWhole, StoredIsComplete, Consuming,
             Goto, IngestGoto, Reject, Enqueue, Uncertain, RetryCopy, SetStatus, RecordHandoff,
             CompleteHandoff, Recoverable, DeleteStaged, Insert, Fault, staging, queue, mailbox, dead,
             tasks
<1>1. ASSUME NEW c \in Copies, Send(c) \/ Receive(c) \/ Begin(c) \/ ById(c)
     PROVE PersistsWhole'
  BY <1>1 DEF Send, Receive, Begin, ById
<1>2. ASSUME NEW c \in Copies, LoadFails(c) \/ Load(c) \/ ByContent(c) \/ Store(c)
     PROVE PersistsWhole'
  BY <1>2 DEF LoadFails, Load, ByContent, Store
<1>3. ASSUME NEW c \in Copies, Persist(c) \/ Clean(c) \/ Complete(c) \/ Ack(c)
     PROVE PersistsWhole'
  BY <1>3 DEF Persist, Clean, Complete, Ack
<1>4. ASSUME NEW c \in Copies, PersistUnanswered(c) \/ CleanFails(c) \/ Throws(c) \/
       Duplicate(c)
     PROVE PersistsWhole'
  BY <1>4 DEF PersistUnanswered, CleanFails, Throws, Duplicate
<1>5. ASSUME NEW c \in Copies, DropDead(c) \/ SaveLetter(c) \/ MarkDeadLetter(c) \/
       RetryLetter(c)
     PROVE PersistsWhole'
  BY <1>5 DEF DropDead, SaveLetter, MarkDeadLetter, RetryLetter
<1>6. ASSUME NEW c \in Copies, RecoverySend(c) \/ ScanSend(c)
     PROVE PersistsWhole'
  BY <1>6 DEF RecoverySend, ScanSend
<1>7. CASE RouteRejects \/ Route \/ RawLands \/ PayloadLands
  BY <1>7 DEF RouteRejects, Route, RawLands, PayloadLands
<1>8. CASE Staged \/ Record \/ MarkEnqueued \/ MarkFailed
  BY <1>8 DEF Staged, Record, MarkEnqueued, MarkFailed
<1>9. CASE RecordThrows \/ SendThrows \/ IngestDies \/ RecoveryList
  BY <1>9 DEF RecordThrows, SendThrows, IngestDies, RecoveryList
<1>10. CASE RecoveryMark \/ RecoveryThrows \/ ScanRead \/ ScanFind
  BY <1>10 DEF RecoveryMark, RecoveryThrows, ScanRead, ScanFind
<1>11. CASE ScanRecord \/ ScanRefused \/ ScanMark \/ ScanThrows
  BY <1>11 DEF ScanRecord, ScanRefused, ScanMark, ScanThrows
<1>12. CASE CleanupList \/ CleanupDelete \/ CleanupMark \/ CleanupThrows
  BY <1>12 DEF CleanupList, CleanupDelete, CleanupMark, CleanupThrows
<1>13. CASE StoreTwin
  BY <1>13 DEF StoreTwin
<1>14. CASE UNCHANGED vars
  BY <1>14 DEF vars
<1>. QED BY <1>1, <1>2, <1>3, <1>4, <1>5, <1>6, <1>7, <1>8, <1>9, <1>10, <1>11, <1>12,
     <1>13, <1>14
         DEF Next, IngestStep, ConsumerStep, RecoveryStep, ScanStep, CleanupStep, Faulty

LEMMA NextSaidGone ==
  ASSUME TypeOK, BegunIsStaged, ClosingIsStored, SaidGone, [Next]_vars PROVE SaidGone'
<1>. USE DEF TypeOK, BegunIsStaged, Begun, ClosingIsStored, SaidGone, Gone, Object, Consuming,
             Goto, IngestGoto, Reject, Enqueue, Uncertain, RetryCopy, SetStatus, RecordHandoff,
             CompleteHandoff, Recoverable, DeleteStaged, Insert, Fault, staging, queue, mailbox, dead,
             tasks
<1>1. ASSUME NEW c \in Copies, Send(c) \/ Receive(c) \/ Begin(c) \/ ById(c)
     PROVE SaidGone'
  BY <1>1 DEF Send, Receive, Begin, ById
<1>2. ASSUME NEW c \in Copies, LoadFails(c) \/ Load(c) \/ ByContent(c) \/ Store(c)
     PROVE SaidGone'
  BY <1>2 DEF LoadFails, Load, ByContent, Store
<1>3. ASSUME NEW c \in Copies, Persist(c) \/ Clean(c) \/ Complete(c) \/ Ack(c)
     PROVE SaidGone'
  BY <1>3 DEF Persist, Clean, Complete, Ack
<1>4. ASSUME NEW c \in Copies, PersistUnanswered(c) \/ CleanFails(c) \/ Throws(c) \/
       Duplicate(c)
     PROVE SaidGone'
  BY <1>4 DEF PersistUnanswered, CleanFails, Throws, Duplicate
<1>5. ASSUME NEW c \in Copies, DropDead(c) \/ SaveLetter(c) \/ MarkDeadLetter(c) \/
       RetryLetter(c)
     PROVE SaidGone'
  BY <1>5 DEF DropDead, SaveLetter, MarkDeadLetter, RetryLetter
<1>6. ASSUME NEW c \in Copies, RecoverySend(c) \/ ScanSend(c)
     PROVE SaidGone'
  BY <1>6 DEF RecoverySend, ScanSend
<1>7. CASE RouteRejects \/ Route \/ RawLands \/ PayloadLands
  BY <1>7 DEF RouteRejects, Route, RawLands, PayloadLands
<1>8. CASE Staged \/ Record \/ MarkEnqueued \/ MarkFailed
  BY <1>8 DEF Staged, Record, MarkEnqueued, MarkFailed
<1>9. CASE RecordThrows \/ SendThrows \/ IngestDies \/ RecoveryList
  BY <1>9 DEF RecordThrows, SendThrows, IngestDies, RecoveryList
<1>10. CASE RecoveryMark \/ RecoveryThrows \/ ScanRead \/ ScanFind
  BY <1>10 DEF RecoveryMark, RecoveryThrows, ScanRead, ScanFind
<1>11. CASE ScanRecord \/ ScanRefused \/ ScanMark \/ ScanThrows
  BY <1>11 DEF ScanRecord, ScanRefused, ScanMark, ScanThrows
<1>12. CASE CleanupList \/ CleanupDelete \/ CleanupMark \/ CleanupThrows
  BY <1>12 DEF CleanupList, CleanupDelete, CleanupMark, CleanupThrows
<1>13. CASE StoreTwin
  BY <1>13 DEF StoreTwin
<1>14. CASE UNCHANGED vars
  BY <1>14 DEF vars
<1>. QED BY <1>1, <1>2, <1>3, <1>4, <1>5, <1>6, <1>7, <1>8, <1>9, <1>10, <1>11, <1>12,
     <1>13, <1>14
         DEF Next, IngestStep, ConsumerStep, RecoveryStep, ScanStep, CleanupStep, Faulty

LEMMA NextMarked ==
  ASSUME TypeOK, ClosingIsStored, MarkedIsPursued, [Next]_vars PROVE MarkedIsPursued'
<1>. USE DEF TypeOK, ClosingIsStored, MarkedIsPursued, Marking, Pursued, Underway, Consuming,
             Goto, IngestGoto, Reject, Enqueue, Uncertain, RetryCopy, SetStatus, RecordHandoff,
             CompleteHandoff, Recoverable, DeleteStaged, Insert, Fault, staging, queue, mailbox, dead,
             tasks
<1>1. ASSUME NEW c \in Copies, Send(c)
     PROVE MarkedIsPursued'
  BY <1>1 DEF Send
<1>2. ASSUME NEW c \in Copies, Receive(c)
     PROVE MarkedIsPursued'
  BY <1>2 DEF Receive
<1>3. ASSUME NEW c \in Copies, Begin(c)
     PROVE MarkedIsPursued'
  BY <1>3 DEF Begin
<1>4. ASSUME NEW c \in Copies, ById(c)
     PROVE MarkedIsPursued'
  BY <1>4 DEF ById
<1>5. ASSUME NEW c \in Copies, LoadFails(c)
     PROVE MarkedIsPursued'
  BY <1>5 DEF LoadFails
<1>6. ASSUME NEW c \in Copies, Load(c)
     PROVE MarkedIsPursued'
  BY <1>6 DEF Load
<1>7. ASSUME NEW c \in Copies, ByContent(c)
     PROVE MarkedIsPursued'
  BY <1>7 DEF ByContent
<1>8. ASSUME NEW c \in Copies, Store(c)
     PROVE MarkedIsPursued'
  BY <1>8 DEF Store
<1>9. ASSUME NEW c \in Copies, Persist(c)
     PROVE MarkedIsPursued'
  BY <1>9 DEF Persist
<1>10. ASSUME NEW c \in Copies, Clean(c)
     PROVE MarkedIsPursued'
  BY <1>10 DEF Clean
<1>11. ASSUME NEW c \in Copies, Complete(c)
     PROVE MarkedIsPursued'
  BY <1>11 DEF Complete
<1>12. ASSUME NEW c \in Copies, Ack(c)
     PROVE MarkedIsPursued'
  BY <1>12 DEF Ack
<1>13. ASSUME NEW c \in Copies, PersistUnanswered(c)
     PROVE MarkedIsPursued'
  BY <1>13 DEF PersistUnanswered
<1>14. ASSUME NEW c \in Copies, CleanFails(c)
     PROVE MarkedIsPursued'
  BY <1>14 DEF CleanFails
<1>15. ASSUME NEW c \in Copies, Throws(c)
     PROVE MarkedIsPursued'
  BY <1>15 DEF Throws
<1>16. ASSUME NEW c \in Copies, Duplicate(c)
     PROVE MarkedIsPursued'
  BY <1>16 DEF Duplicate
<1>17. ASSUME NEW c \in Copies, DropDead(c)
     PROVE MarkedIsPursued'
  BY <1>17 DEF DropDead
<1>18. ASSUME NEW c \in Copies, SaveLetter(c)
     PROVE MarkedIsPursued'
  BY <1>18 DEF SaveLetter
<1>19. ASSUME NEW c \in Copies, MarkDeadLetter(c)
     PROVE MarkedIsPursued'
  BY <1>19 DEF MarkDeadLetter
<1>20. ASSUME NEW c \in Copies, RetryLetter(c)
     PROVE MarkedIsPursued'
  BY <1>20 DEF RetryLetter
<1>21. ASSUME NEW c \in Copies, RecoverySend(c)
     PROVE MarkedIsPursued'
  BY <1>21 DEF RecoverySend
<1>22. ASSUME NEW c \in Copies, ScanSend(c)
     PROVE MarkedIsPursued'
  BY <1>22 DEF ScanSend
<1>23. CASE RouteRejects
  BY <1>23 DEF RouteRejects
<1>24. CASE Route
  BY <1>24 DEF Route
<1>25. CASE RawLands
  BY <1>25 DEF RawLands
<1>26. CASE PayloadLands
  BY <1>26 DEF PayloadLands
<1>27. CASE Staged
  BY <1>27 DEF Staged
<1>28. CASE Record
  BY <1>28 DEF Record
<1>29. CASE MarkEnqueued
  BY <1>29 DEF MarkEnqueued
<1>30. CASE MarkFailed
  BY <1>30 DEF MarkFailed
<1>31. CASE RecordThrows
  BY <1>31 DEF RecordThrows
<1>32. CASE SendThrows
  BY <1>32 DEF SendThrows
<1>33. CASE IngestDies
  BY <1>33 DEF IngestDies
<1>34. CASE RecoveryList
  BY <1>34 DEF RecoveryList
<1>35. CASE RecoveryMark
  BY <1>35 DEF RecoveryMark
<1>36. CASE RecoveryThrows
  BY <1>36 DEF RecoveryThrows
<1>37. CASE ScanRead
  BY <1>37 DEF ScanRead
<1>38. CASE ScanFind
  BY <1>38 DEF ScanFind
<1>39. CASE ScanRecord
  BY <1>39 DEF ScanRecord
<1>40. CASE ScanRefused
  BY <1>40 DEF ScanRefused
<1>41. CASE ScanMark
  BY <1>41 DEF ScanMark
<1>42. CASE ScanThrows
  BY <1>42 DEF ScanThrows
<1>43. CASE CleanupList
  BY <1>43 DEF CleanupList
<1>44. CASE CleanupDelete
  BY <1>44 DEF CleanupDelete
<1>45. CASE CleanupMark
  BY <1>45 DEF CleanupMark
<1>46. CASE CleanupThrows
  BY <1>46 DEF CleanupThrows
<1>47. CASE StoreTwin
  BY <1>47 DEF StoreTwin
<1>48. CASE UNCHANGED vars
  BY <1>48 DEF vars
<1>. QED BY <1>1, <1>2, <1>3, <1>4, <1>5, <1>6, <1>7, <1>8, <1>9, <1>10, <1>11, <1>12,
     <1>13, <1>14, <1>15, <1>16, <1>17, <1>18, <1>19, <1>20, <1>21, <1>22, <1>23, <1>24,
     <1>25, <1>26, <1>27, <1>28, <1>29, <1>30, <1>31, <1>32, <1>33, <1>34, <1>35, <1>36,
     <1>37, <1>38, <1>39, <1>40, <1>41, <1>42, <1>43, <1>44, <1>45, <1>46, <1>47, <1>48
         DEF Next, IngestStep, ConsumerStep, RecoveryStep, ScanStep, CleanupStep, Faulty

LEMMA NextInvariant == IInv /\ [Next]_vars => IInv'
BY NextTyped, NextBegun, NextClosed, NextPersists, NextSaidGone, NextMarked DEF IInv, Closed

-----------------------------------------------------------------------------
(* The theorems.                                                           *)

\* The inductive invariant: whatever a consumer, a Cron task or the ingest Worker
\* is about to do is backed by what R2, D1 and the Queue hold.
THEOREM Invariance == Spec => []IInv
BY InitInvariant, NextInvariant, PTL DEF Spec

\* Every reachable state is typed, and no copy is redelivered too often.
THEOREM TypeCorrect == Spec => []TypeOK
<1>1. IInv => TypeOK
  BY DEF IInv
<1>. QED BY <1>1, Invariance, PTL

\* The staged message is there until D1 holds it, or its twin.
THEOREM NothingStagedIsLost == Spec => []StagedUntilStored
<1>1. IInv => StagedUntilStored
  BY DEF IInv
<1>. QED BY <1>1, Invariance, PTL

\* A stored message has all its objects.
THEOREM StoredMessagesAreComplete == Spec => []StoredIsComplete
<1>1. IInv => StoredIsComplete
  BY DEF IInv, PersistsWhole
<1>. QED BY <1>1, Invariance, PTL

\* The ledger closes a handoff only for what is stored, and says that the staging
\* is deleted only when it is.
THEOREM LedgerIsTrue == Spec => []HandoffIsTrue
<1>1. IInv => HandoffIsTrue
  BY DEF IInv, ClosingIsStored, SaidGone, Gone, HandoffIsTrue
<1>. QED BY <1>1, Invariance, PTL

\* What the sending server was told is accepted is stored, on its way or kept.
THEOREM AcceptedMessagesArePursued == Spec => []AcceptedIsPursued
<1>1. IInv => AcceptedIsPursued
  BY DEF IInv, MarkedIsPursued, AcceptedIsPursued
<1>. QED BY <1>1, Invariance, PTL

\* What is recorded is pursued, or the Cron task lists it.
THEOREM RecordedMessagesArePursued == Spec => []RecordedIsPursued
<1>1. IInv => RecordedIsPursued
  BY DEF IInv, MarkedIsPursued, RecordedIsPursued, Recoverable
<1>. QED BY <1>1, Invariance, PTL

LEMMA StoredStep ==
  ASSUME TypeOK, handoff.status = "stored", [Next]_vars PROVE handoff'.status = "stored"
<1>. USE DEF TypeOK, Goto, IngestGoto, Reject, Enqueue, Uncertain, RetryCopy, SetStatus, RecordHandoff,
         CompleteHandoff, Recoverable, DeleteStaged, Insert, Fault, staging, queue, mailbox, dead,
         tasks
<1>1. ASSUME NEW c \in Copies, Send(c) \/ Receive(c) \/ Begin(c) \/ ById(c) \/
       LoadFails(c) \/ Load(c) \/ ByContent(c) \/ Store(c) \/ Persist(c) \/ Clean(c)
     PROVE handoff'.status = "stored"
  BY <1>1 DEF Send, Receive, Begin, ById, LoadFails, Load, ByContent, Store, Persist, Clean
<1>2. ASSUME NEW c \in Copies, Complete(c) \/ Ack(c) \/ PersistUnanswered(c) \/
       CleanFails(c) \/ Throws(c) \/ Duplicate(c) \/ DropDead(c) \/ SaveLetter(c) \/
       MarkDeadLetter(c) \/ RetryLetter(c)
     PROVE handoff'.status = "stored"
  BY <1>2 DEF Complete, Ack, PersistUnanswered, CleanFails, Throws, Duplicate, DropDead,
     SaveLetter, MarkDeadLetter, RetryLetter
<1>3. ASSUME NEW c \in Copies, RecoverySend(c) \/ ScanSend(c)
     PROVE handoff'.status = "stored"
  BY <1>3 DEF RecoverySend, ScanSend
<1>4. CASE RouteRejects \/ Route \/ RawLands \/ PayloadLands \/ Staged \/ Record \/
     MarkEnqueued \/ MarkFailed \/ RecordThrows \/ SendThrows
  BY <1>4 DEF RouteRejects, Route, RawLands, PayloadLands, Staged, Record, MarkEnqueued,
     MarkFailed, RecordThrows, SendThrows
<1>5. CASE IngestDies \/ RecoveryList \/ RecoveryMark \/ RecoveryThrows \/ ScanRead \/
     ScanFind \/ ScanRecord \/ ScanRefused \/ ScanMark \/ ScanThrows
  BY <1>5 DEF IngestDies, RecoveryList, RecoveryMark, RecoveryThrows, ScanRead, ScanFind,
     ScanRecord, ScanRefused, ScanMark, ScanThrows
<1>6. CASE CleanupList \/ CleanupDelete \/ CleanupMark \/ CleanupThrows \/ StoreTwin
  BY <1>6 DEF CleanupList, CleanupDelete, CleanupMark, CleanupThrows, StoreTwin
<1>7. CASE UNCHANGED vars
  BY <1>7 DEF vars
<1>. QED BY <1>1, <1>2, <1>3, <1>4, <1>5, <1>6, <1>7
         DEF Next, IngestStep, ConsumerStep, RecoveryStep, ScanStep, CleanupStep, Faulty

\* No late mark reopens a handoff that is stored.
THEOREM StoredForGood == Spec => StoredStays
<1>1. TypeOK /\ [Next]_vars => [handoff.status = "stored" => handoff'.status = "stored"]_vars
  BY StoredStep
<1>. QED BY <1>1, TypeCorrect, PTL DEF Spec, StoredStays
=============================================================================
