-------------------------- MODULE DeadLettersProofs --------------------------
(***************************************************************************)
(* Theorems about DeadLetters for every set of copies and every value of   *)
(* the bounds.                                                             *)
(***************************************************************************)
EXTENDS DeadLetters, TLAPS

(* The inductive invariant.                                                *)

\* Only what was settled is resolved.
SettledFirst ==
  /\ \A c \in Copies : copy[c] \in {"resolving", "acking"} => handled
  /\ letter = "resolved" => handled

\* What the Cron trigger is about to mark has a copy on its way.
MarkIsBacked ==
  (cron = "mark" /\ overtaken = "no") => Underway \/ handled \/ dropped

\* One publication is due for a row that was asked for, or listed.
Owed ==
  IF cron = "send" \/ (cron = "idle" /\ letter = "retry_requested") THEN 1 ELSE 0

Budget == sent + Owed <= asked + faults

IInv == TypeOK /\ SettledFirst /\ MarkIsBacked /\ NothingLost /\ Budget

-----------------------------------------------------------------------------

LEMMA InitInvariant == Init => IInv
<1>. SUFFICES ASSUME Init PROVE IInv
  OBVIOUS
<1>. USE DEF Init
<1>1. TypeOK
  <2>1. PICK first \in Copies : copy = [c \in Copies |-> IF c = first THEN "waiting" ELSE "absent"]
    OBVIOUS
  <2>2. copy \in [Copies -> Where] /\ tries \in [Copies -> Nat] /\ \A c \in Copies : tries[c] = 0
    BY <2>1 DEF Where, Waiting
  <2>3. 0 <= MaxRetries /\ 0 <= MaxDeadRetries
    BY BoundsAssumption
  <2>4. 0 \in 0..MaxRequests /\ 0 \in 0..MaxExtras /\ 0 \in 0..MaxFaults /\ 0 \in Nat
    BY BoundsAssumption
  <2>. QED BY <2>2, <2>3, <2>4 DEF TypeOK, Letter
<1>2. Underway
  BY DEF Underway
<1>3. SettledFirst /\ Budget
  BY DEF SettledFirst, Budget, Owed
<1>. QED BY <1>1, <1>2, <1>3 DEF IInv, MarkIsBacked, NothingLost

LEMMA NextTyped ==
  ASSUME TypeOK, [Next]_vars PROVE TypeOK'
<1>. USE BoundsAssumption
     DEF TypeOK, Letter, Where, Waiting, Primary, Dead, Saving, Move, Enqueue, RetryPrimary,
         RetryDead, Fault, queue, history, counts
<1>1. ASSUME NEW c \in Copies, Receive(c) PROVE TypeOK'
  BY <1>1 DEF Receive
<1>2. ASSUME NEW c \in Copies, Handle(c) PROVE TypeOK'
  BY <1>2 DEF Handle
<1>3. ASSUME NEW c \in Copies, Refuse(c) PROVE TypeOK'
  BY <1>3 DEF Refuse
<1>4. ASSUME NEW c \in Copies, Resolve(c) PROVE TypeOK'
  BY <1>4 DEF Resolve
<1>5. ASSUME NEW c \in Copies, Ack(c) PROVE TypeOK'
  BY <1>5 DEF Ack
<1>6. ASSUME NEW c \in Copies, PrimaryDies(c) PROVE TypeOK'
  BY <1>6 DEF PrimaryDies
<1>7. ASSUME NEW c \in Copies, ResolveUnanswered(c) PROVE TypeOK'
  BY <1>7 DEF ResolveUnanswered
<1>8. ASSUME NEW c \in Copies, DeadReceive(c) PROVE TypeOK'
  BY <1>8 DEF DeadReceive
<1>9. ASSUME NEW c \in Copies, Save(c) PROVE TypeOK'
  BY <1>9 DEF Save
<1>10. ASSUME NEW c \in Copies, DeadAck(c) PROVE TypeOK'
  BY <1>10 DEF DeadAck
<1>11. ASSUME NEW c \in Copies, DeadDies(c) PROVE TypeOK'
  <2>1. faults' \in 0..MaxFaults /\ dropped' \in BOOLEAN
    <3>1. dropped' \in {dropped, dropped \/ copy[c] = "saving"}
      BY <1>11 DEF DeadDies
    <3>2. faults' \in 0..MaxFaults
      BY <1>11 DEF DeadDies
    <3>. QED BY <3>1, <3>2
  <2>2. CASE tries[c] < MaxDeadRetries
    BY <1>11, <2>1, <2>2 DEF DeadDies
  <2>3. CASE ~ (tries[c] < MaxDeadRetries)
    BY <1>11, <2>1, <2>3 DEF DeadDies
  <2>. QED BY <2>2, <2>3
<1>12. ASSUME NEW c \in Copies, PublishBlindly(c) PROVE TypeOK'
  BY <1>12 DEF PublishBlindly
<1>13. ASSUME NEW c \in Copies, CronSend(c) PROVE TypeOK'
  BY <1>13 DEF CronSend
<1>14. CASE Request
  BY <1>14 DEF Request
<1>15. CASE CronList
  BY <1>15 DEF CronList
<1>16. CASE CronSendThrows
  BY <1>16 DEF CronSendThrows
<1>17. CASE CronMark
  BY <1>17 DEF CronMark
<1>18. CASE CronDies
  BY <1>18 DEF CronDies
<1>19. CASE UNCHANGED vars
  BY <1>19 DEF vars
<1>. QED BY <1>1, <1>2, <1>3, <1>4, <1>5, <1>6, <1>7, <1>8, <1>9, <1>10, <1>11, <1>12, <1>13, <1>14, <1>15, <1>16, <1>17, <1>18, <1>19
         DEF Next, CopyStep, PrimaryStep

LEMMA NextSettledFirst ==
  ASSUME TypeOK, SettledFirst, [Next]_vars PROVE SettledFirst'
<1>. USE DEF TypeOK, SettledFirst, Move, Enqueue, RetryPrimary, RetryDead, queue, history, counts,
             Primary, Saving
<1>1. ASSUME NEW c \in Copies, Receive(c) PROVE SettledFirst'
  BY <1>1 DEF Receive
<1>2. ASSUME NEW c \in Copies, Handle(c) PROVE SettledFirst'
  BY <1>2 DEF Handle
<1>3. ASSUME NEW c \in Copies, Refuse(c) PROVE SettledFirst'
  BY <1>3 DEF Refuse
<1>4. ASSUME NEW c \in Copies, Resolve(c) PROVE SettledFirst'
  BY <1>4 DEF Resolve
<1>5. ASSUME NEW c \in Copies, Ack(c) PROVE SettledFirst'
  BY <1>5 DEF Ack
<1>6. ASSUME NEW c \in Copies, PrimaryDies(c) PROVE SettledFirst'
  BY <1>6 DEF PrimaryDies
<1>7. ASSUME NEW c \in Copies, ResolveUnanswered(c) PROVE SettledFirst'
  BY <1>7 DEF ResolveUnanswered
<1>8. ASSUME NEW c \in Copies, DeadReceive(c) PROVE SettledFirst'
  BY <1>8 DEF DeadReceive
<1>9. ASSUME NEW c \in Copies, Save(c) PROVE SettledFirst'
  BY <1>9 DEF Save
<1>10. ASSUME NEW c \in Copies, DeadAck(c) PROVE SettledFirst'
  BY <1>10 DEF DeadAck
<1>11. ASSUME NEW c \in Copies, DeadDies(c) PROVE SettledFirst'
  BY <1>11 DEF DeadDies
<1>12. ASSUME NEW c \in Copies, PublishBlindly(c) PROVE SettledFirst'
  BY <1>12 DEF PublishBlindly
<1>13. ASSUME NEW c \in Copies, CronSend(c) PROVE SettledFirst'
  BY <1>13 DEF CronSend
<1>14. CASE Request
  BY <1>14 DEF Request
<1>15. CASE CronList
  BY <1>15 DEF CronList
<1>16. CASE CronSendThrows
  BY <1>16 DEF CronSendThrows
<1>17. CASE CronMark
  BY <1>17 DEF CronMark
<1>18. CASE CronDies
  BY <1>18 DEF CronDies
<1>19. CASE UNCHANGED vars
  BY <1>19 DEF vars
<1>. QED BY <1>1, <1>2, <1>3, <1>4, <1>5, <1>6, <1>7, <1>8, <1>9, <1>10, <1>11, <1>12, <1>13, <1>14, <1>15, <1>16, <1>17, <1>18, <1>19
         DEF Next, CopyStep, PrimaryStep

LEMMA NextBudget ==
  ASSUME TypeOK, Budget, [Next]_vars PROVE Budget'
<1>. USE DEF TypeOK, Budget, Owed, Fault, queue, history, counts
<1>1. ASSUME NEW c \in Copies, Receive(c) PROVE Budget'
  BY <1>1 DEF Receive
<1>2. ASSUME NEW c \in Copies, Handle(c) PROVE Budget'
  BY <1>2 DEF Handle
<1>3. ASSUME NEW c \in Copies, Refuse(c) PROVE Budget'
  BY <1>3 DEF Refuse
<1>4. ASSUME NEW c \in Copies, Resolve(c) PROVE Budget'
  BY <1>4 DEF Resolve
<1>5. ASSUME NEW c \in Copies, Ack(c) PROVE Budget'
  BY <1>5 DEF Ack
<1>6. ASSUME NEW c \in Copies, PrimaryDies(c) PROVE Budget'
  BY <1>6 DEF PrimaryDies
<1>7. ASSUME NEW c \in Copies, ResolveUnanswered(c) PROVE Budget'
  BY <1>7 DEF ResolveUnanswered
<1>8. ASSUME NEW c \in Copies, DeadReceive(c) PROVE Budget'
  BY <1>8 DEF DeadReceive
<1>9. ASSUME NEW c \in Copies, Save(c) PROVE Budget'
  BY <1>9 DEF Save
<1>10. ASSUME NEW c \in Copies, DeadAck(c) PROVE Budget'
  BY <1>10 DEF DeadAck
<1>11. ASSUME NEW c \in Copies, DeadDies(c) PROVE Budget'
  BY <1>11 DEF DeadDies
<1>12. ASSUME NEW c \in Copies, PublishBlindly(c) PROVE Budget'
  BY <1>12 DEF PublishBlindly
<1>13. ASSUME NEW c \in Copies, CronSend(c) PROVE Budget'
  BY <1>13 DEF CronSend
<1>14. CASE Request
  BY <1>14 DEF Request
<1>15. CASE CronList
  BY <1>15 DEF CronList
<1>16. CASE CronSendThrows
  BY <1>16 DEF CronSendThrows
<1>17. CASE CronMark
  BY <1>17 DEF CronMark
<1>18. CASE CronDies
  BY <1>18 DEF CronDies
<1>19. CASE UNCHANGED vars
  BY <1>19 DEF vars
<1>. QED BY <1>1, <1>2, <1>3, <1>4, <1>5, <1>6, <1>7, <1>8, <1>9, <1>10, <1>11, <1>12, <1>13, <1>14, <1>15, <1>16, <1>17, <1>18, <1>19
         DEF Next, CopyStep, PrimaryStep

\* The two parts of the invariant that speak of the copies on their way.
Backed == MarkIsBacked /\ NothingLost

LEMMA NextBacked ==
  ASSUME TypeOK, SettledFirst, Backed, [Next]_vars PROVE Backed'
<1>. USE DEF TypeOK, SettledFirst, Backed, MarkIsBacked, NothingLost, Underway, Move, Enqueue,
             RetryPrimary, RetryDead, queue, history, counts, Primary, Saving
<1>1. ASSUME NEW c \in Copies, Receive(c) PROVE Backed'
  BY <1>1 DEF Receive
<1>2. ASSUME NEW c \in Copies, Handle(c) PROVE Backed'
  BY <1>2 DEF Handle
<1>3. ASSUME NEW c \in Copies, Refuse(c) PROVE Backed'
  BY <1>3 DEF Refuse
<1>4. ASSUME NEW c \in Copies, Resolve(c) PROVE Backed'
  BY <1>4 DEF Resolve
<1>5. ASSUME NEW c \in Copies, Ack(c) PROVE Backed'
  BY <1>5 DEF Ack
<1>6. ASSUME NEW c \in Copies, PrimaryDies(c) PROVE Backed'
  BY <1>6 DEF PrimaryDies
<1>7. ASSUME NEW c \in Copies, ResolveUnanswered(c) PROVE Backed'
  BY <1>7 DEF ResolveUnanswered
<1>8. ASSUME NEW c \in Copies, DeadReceive(c) PROVE Backed'
  BY <1>8 DEF DeadReceive
<1>9. ASSUME NEW c \in Copies, Save(c) PROVE Backed'
  BY <1>9 DEF Save
<1>10. ASSUME NEW c \in Copies, DeadAck(c) PROVE Backed'
  BY <1>10 DEF DeadAck
<1>11. ASSUME NEW c \in Copies, DeadDies(c) PROVE Backed'
  BY <1>11 DEF DeadDies
<1>12. ASSUME NEW c \in Copies, PublishBlindly(c) PROVE Backed'
  BY <1>12 DEF PublishBlindly
<1>13. ASSUME NEW c \in Copies, CronSend(c) PROVE Backed'
  BY <1>13 DEF CronSend
<1>14. CASE Request
  BY <1>14 DEF Request
<1>15. CASE CronList
  BY <1>15 DEF CronList
<1>16. CASE CronSendThrows
  BY <1>16 DEF CronSendThrows
<1>17. CASE CronMark
  BY <1>17 DEF CronMark
<1>18. CASE CronDies
  BY <1>18 DEF CronDies
<1>19. CASE UNCHANGED vars
  BY <1>19 DEF vars
<1>. QED BY <1>1, <1>2, <1>3, <1>4, <1>5, <1>6, <1>7, <1>8, <1>9, <1>10, <1>11, <1>12, <1>13, <1>14, <1>15, <1>16, <1>17, <1>18, <1>19
         DEF Next, CopyStep, PrimaryStep

LEMMA NextInvariant == IInv /\ [Next]_vars => IInv'
BY NextTyped, NextSettledFirst, NextBudget, NextBacked DEF IInv, Backed

-----------------------------------------------------------------------------
(* The theorems.                                                           *)

\* The inductive invariant: types, what is settled before it is resolved, what
\* backs a mark, and the publications that are due.
THEOREM Invariance == Spec => []IInv
BY InitInvariant, NextInvariant, PTL DEF Spec

\* Every reachable state is typed, and no copy is redelivered too often.
THEOREM TypeCorrect == Spec => []TypeOK
<1>1. IInv => TypeOK
  BY DEF IInv
<1>. QED BY <1>1, Invariance, PTL

\* No message gets lost between the queues and the ledger.
THEOREM NoLetterLost == Spec => []NothingLost
<1>1. IInv => NothingLost
  BY DEF IInv
<1>. QED BY <1>1, Invariance, PTL

\* Only the dead letters of a settled message are resolved.
THEOREM ResolvedOnlyIfHandled == Spec => []ResolvedWasHandled
<1>1. IInv => ResolvedWasHandled
  BY DEF IInv, SettledFirst, ResolvedWasHandled
<1>. QED BY <1>1, Invariance, PTL

\* The Cron trigger publishes what was asked for, once but for faults.
THEOREM SentOnlyWhenAsked == Spec => []SentWhenAsked
<1>1. IInv => SentWhenAsked
  BY DEF IInv, TypeOK, Budget, Owed, SentWhenAsked
<1>. QED BY <1>1, Invariance, PTL
=============================================================================
