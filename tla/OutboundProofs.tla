--------------------------- MODULE OutboundProofs ---------------------------
(***************************************************************************)
(* Theorems about the outbound path: OutboundDelivery, the jobs Worker's   *)
(* ledger, for every finite set of workers, every set of Queue copies and  *)
(* every value of the bounds; then OutboundCompose, the web Worker's       *)
(* requests, for every set of requests and any number of faults.           *)
(***************************************************************************)
EXTENDS OutboundDelivery, OutboundCompose, FiniteSetTheorems, TLAPS


(* The inductive invariant.                                                *)

\* A busy worker works on a copy; it has a claim to the row only as its token.
Shape ==
  /\ \A w \in Workers : pc[w] # "idle" => job[w] \in Copies
  /\ row.status = "sending" <=> row.token \in Workers
  /\ row.status = "sending" <=> row.lease # "none"

Recorded ==
  /\ row.status = "sent" => accepted > 0
  /\ \A w \in Workers : pc[w] = "complete" => accepted > 0

\* Workers that may still make the provider accept the message.
Senders == {w \in Workers : pc[w] \in {"mirror", "send"}}

\* Another worker may claim the row without any further excuse.
Claimless ==
  \/ row.status = "queued"
  \/ /\ row.status = "sending"
     /\ row.lease = "over" \/ pc[row.token] \notin Unsettled

\* What was accepted, what is on its way, and what may still be claimed.
Budget ==
  accepted + Cardinality(Senders) + (IF Claimless THEN 1 ELSE 0) <= 1 + excuses

IInv == TypeOK /\ Shape /\ Recorded /\ Budget

-----------------------------------------------------------------------------
(* What the helpers of the model do to the types and to Shape.             *)

Typed == TypeOK /\ Shape

LEMMA GotoTyped ==
  ASSUME Typed, NEW w \in Workers, pc[w] # "idle", NEW label \in WorkerPc, Goto(w, label)
  PROVE  /\ pc' \in [Workers -> WorkerPc]
         /\ \A v \in Workers : pc'[v] # "idle" => job'[v] \in Copies
         /\ UNCHANGED <<job, copy, tries>>
BY DEF Typed, TypeOK, Shape, Goto, queue

LEMMA RetryCopyTyped ==
  ASSUME Typed, NEW w \in Workers, pc[w] # "idle", RetryCopy(w)
  PROVE  /\ pc' \in [Workers -> WorkerPc]
         /\ job' \in [Workers -> Copies \cup {NoCopy}]
         /\ copy' \in [Copies -> {"absent", "waiting", "taken"}]
         /\ tries' \in [Copies -> 0..MaxRetries]
         /\ \A v \in Workers : pc'[v] # "idle" => job'[v] \in Copies
BY BoundsAssumption DEF Typed, TypeOK, Shape, RetryCopy, Finish, WorkerPc

LEMMA SettleTyped ==
  ASSUME Typed, NEW status \in {"queued", "sent", "failed"}, NEW due \in BOOLEAN,
         Settle(status, due)
  PROVE  /\ row' \in Row /\ mirror' \in Status
         /\ row'.status = status /\ row'.lease = "none" /\ row'.token = NoWorker
         /\ row'.attempts = row.attempts
BY WorkersAssumption DEF Typed, TypeOK, Shape, Settle, Released, Row, Status, Lease

LEMMA ClaimTyped ==
  ASSUME Typed, NEW w \in Workers, Claim(w), Claimable
  PROVE  /\ row' \in Row
         /\ row'.status = "sending" /\ row'.lease = "live" /\ row'.token = w
<1>1. row' = [row EXCEPT !.status = "sending", !.attempts = row.attempts + 1,
                         !.lease = "live", !.token = w]
  BY DEF Claim
<1>2. row \in Row /\ row.attempts + 1 \in 0..MaxAttempts
  BY BoundsAssumption DEF Typed, TypeOK, Row, Claimable
<1>. QED BY <1>1, <1>2 DEF Row, Status, Lease

LEMMA ExcuseTyped ==
  ASSUME TypeOK, NEW condition \in BOOLEAN, ExcuseIf(condition)
  PROVE  /\ excuses' \in 0..MaxExcuses
         /\ excuses' = IF condition THEN excuses + 1 ELSE excuses
BY BoundsAssumption DEF TypeOK, ExcuseIf

LEMMA PublishTyped ==
  ASSUME TypeOK, NEW c \in Copies, Publish(c)
  PROVE  /\ copy' \in [Copies -> {"absent", "waiting", "taken"}]
         /\ tries' \in [Copies -> 0..MaxRetries]
BY BoundsAssumption DEF TypeOK, Publish

-----------------------------------------------------------------------------
(* Type correctness.  Each action is a step of the proof.                  *)

LEMMA InitTyped == Init => Typed
BY WorkersAssumption, BoundsAssumption
DEF Init, Typed, TypeOK, Shape, NewRow, Row, Status, Lease, WorkerPc

LEMMA WorkerStepTyped ==
  ASSUME Typed, NEW w \in Workers, WorkerStep(w) \/ WorkerFault(w)
  PROVE  Typed'
<1>. USE DEF Typed, store, actors, history, queue
<1>1. CASE Read(w)
  BY <1>1, GotoTyped DEF Read, TypeOK, Shape, WorkerPc
<1>2. CASE Exhaust(w)
  <2>1. CASE Exhausted
    BY <1>2, <2>1, GotoTyped, SettleTyped, WorkersAssumption DEF Exhaust, TypeOK, Shape, WorkerPc, Row
  <2>2. CASE ~ Exhausted
    BY <1>2, <2>2, RetryCopyTyped DEF Exhaust, TypeOK, Shape
  <2>. QED BY <2>1, <2>2
<1>3. CASE Claim(w)
  <2>1. CASE Claimable
    BY <1>3, <2>1, GotoTyped, ClaimTyped DEF Claim, TypeOK, Shape, WorkerPc
  <2>2. CASE ~ Claimable
    BY <1>3, <2>2, GotoTyped DEF Claim, TypeOK, Shape, WorkerPc
  <2>. QED BY <2>1, <2>2
<1>4. CASE Recheck(w)
  BY <1>4, GotoTyped, RetryCopyTyped DEF Recheck, TypeOK, Shape, WorkerPc
<1>5. CASE Mirror(w)
  BY <1>5, GotoTyped DEF Mirror, TypeOK, Shape, WorkerPc, Status
<1>6. CASE Accept(w)
  BY <1>6, GotoTyped DEF Accept, TypeOK, Shape, WorkerPc
<1>7. CASE Refuse(w)
  BY <1>7, GotoTyped DEF Refuse, TypeOK, Shape, WorkerPc
<1>8. CASE Complete(w)
  <2>1. CASE HoldsLease(w)
    BY <1>8, <2>1, GotoTyped, SettleTyped, WorkersAssumption
    DEF Complete, TypeOK, Shape, WorkerPc, Row
  <2>2. CASE ~ HoldsLease(w)
    BY <1>8, <2>2, GotoTyped DEF Complete, TypeOK, Shape, WorkerPc
  <2>. QED BY <2>1, <2>2
<1>9. CASE FailRetryable(w)
  <2>1. CASE HoldsLease(w)
    BY <1>9, <2>1, RetryCopyTyped, SettleTyped, WorkersAssumption
    DEF FailRetryable, TypeOK, Shape
  <2>2. CASE ~ HoldsLease(w)
    BY <1>9, <2>2, RetryCopyTyped DEF FailRetryable, TypeOK, Shape
  <2>. QED BY <2>1, <2>2
<1>10. CASE FailPermanently(w)
  <2>1. CASE HoldsLease(w)
    BY <1>10, <2>1, GotoTyped, SettleTyped, WorkersAssumption
    DEF FailPermanently, TypeOK, Shape, WorkerPc
  <2>2. CASE ~ HoldsLease(w)
    BY <1>10, <2>2, GotoTyped DEF FailPermanently, TypeOK, Shape, WorkerPc
  <2>. QED BY <2>1, <2>2
<1>11. CASE Ack(w)
  BY <1>11 DEF Ack, AckCopy, Finish, TypeOK, Shape, WorkerPc
<1>12. CASE AcceptUnanswered(w)
  <2>1. LosesOutcome(w) \in BOOLEAN
    BY DEF LosesOutcome, HoldsLease
  <2>. QED BY <1>12, <2>1, GotoTyped, ExcuseTyped DEF AcceptUnanswered, TypeOK, Shape, WorkerPc
<1>13. CASE CompleteThrows(w)
  <2>1. pc[w] = "complete" /\ Goto(w, "failRetry") /\ UNCHANGED <<cron, op, accepted, aborts>>
    BY <1>13 DEF CompleteThrows
  <2>2. CASE ExcuseIf(LosesOutcome(w)) /\ UNCHANGED store
    <3>1. LosesOutcome(w) \in BOOLEAN
      BY DEF LosesOutcome, HoldsLease
    <3>. QED BY <2>1, <2>2, <3>1, GotoTyped, ExcuseTyped DEF TypeOK, Shape, WorkerPc
  <2>3. CASE HoldsLease(w) /\ Settle("sent", row.due) /\ UNCHANGED excuses
    BY <2>1, <2>3, GotoTyped, SettleTyped, WorkersAssumption DEF TypeOK, Shape, WorkerPc, Row
  <2>. QED BY <1>13, <2>2, <2>3 DEF CompleteThrows
<1>14. CASE Abort(w)
  <2>1. (pc[w] = "complete" /\ LosesOutcome(w)) \in BOOLEAN
    BY DEF LosesOutcome, HoldsLease
  <2>2. excuses' \in 0..MaxExcuses
    BY <1>14, <2>1, ExcuseTyped DEF Abort
  <2>3. aborts' \in 0..MaxAborts
    BY <1>14, BoundsAssumption DEF Abort, TypeOK
  <2>. QED BY <1>14, <2>2, <2>3, RetryCopyTyped DEF Abort, TypeOK, Shape
<1>. QED BY <1>1, <1>2, <1>3, <1>4, <1>5, <1>6, <1>7, <1>8, <1>9, <1>10, <1>11,
            <1>12, <1>13, <1>14 DEF WorkerStep, WorkerFault

LEMMA CronTyped ==
  ASSUME Typed, Cron
  PROVE  Typed'
<1>. USE DEF Typed, store, queue, workers, history
<1>1. CASE CronList
  BY <1>1 DEF CronList, TypeOK, Shape
<1>2. ASSUME NEW c \in Copies, CronSend(c) PROVE Typed'
  BY <1>2, PublishTyped DEF CronSend, TypeOK, Shape
<1>3. CASE CronMark
  <2>1. row' \in Row /\ row'.status = row.status /\ row'.lease = row.lease
                     /\ row'.token = row.token
    BY <1>3 DEF CronMark, TypeOK, Row, Done
  <2>. QED BY <1>3, <2>1 DEF CronMark, TypeOK, Shape
<1>4. CASE CronAbort
  BY <1>4, BoundsAssumption DEF CronAbort, TypeOK, Shape
<1>. QED BY <1>1, <1>2, <1>3, <1>4 DEF Cron

LEMMA ResetTyped ==
  ASSUME Typed, ResetForRetry
  PROVE  /\ row' \in Row
         /\ row'.status = "queued" /\ row'.lease = "none" /\ row'.token = NoWorker
         /\ row'.attempts = 0
<1>1. row \in Row /\ 0 \in 0..MaxAttempts
  BY BoundsAssumption DEF Typed, TypeOK
<1>2. Released \in Row
  BY <1>1 DEF Released, Row, Lease
<1>3. row' = [Released EXCEPT !.status = "queued", !.attempts = 0,
                              !.due = TRUE, !.stale = TRUE]
  BY DEF ResetForRetry
<1>. QED BY <1>1, <1>2, <1>3 DEF Released, Row, Status

LEMMA OperatorTyped ==
  ASSUME Typed, Operator
  PROVE  Typed'
<1>. USE DEF Typed, store, queue, workers, actors, history
<1>1. CASE OpCheck
  BY <1>1 DEF OpCheck, TypeOK, Shape
<1>2. CASE OpReset \/ CliReset
  <2>1. CASE row.status = "failed"
    BY <1>2, <2>1, ResetTyped, ExcuseTyped, WorkersAssumption
    DEF OpReset, CliReset, RetryDelivery, TypeOK, Shape, Status
  <2>2. CASE row.status # "failed"
    BY <1>2, <2>2 DEF OpReset, CliReset, RetryDelivery, TypeOK, Shape, Status
  <2>. QED BY <2>1, <2>2
<1>3. CASE OpEnqueue
  BY <1>3, PublishTyped DEF OpEnqueue, TypeOK, Shape
<1>. QED BY <1>1, <1>2, <1>3 DEF Operator

LEMMA TimeTyped ==
  ASSUME Typed, TimePasses
  PROVE  Typed'
<1>. USE DEF Typed, queue, workers, actors, history
<1>1. CASE LeaseEnds
  BY <1>1 DEF LeaseEnds, TypeOK, Shape, Row, Lease
<1>2. CASE LeaseOutlived
  BY <1>2, ExcuseTyped DEF LeaseOutlived, TypeOK, Shape, Row, Lease
<1>3. CASE BecomesDue
  BY <1>3 DEF BecomesDue, TypeOK, Shape, Row
<1>4. CASE BecomesStale
  BY <1>4 DEF BecomesStale, TypeOK, Shape, Row
<1>. QED BY <1>1, <1>2, <1>3, <1>4 DEF TimePasses

LEMMA NextTyped ==
  ASSUME Typed, [Next]_vars
  PROVE  Typed'
<1>1. ASSUME NEW w \in Workers, NEW c \in Copies, Receive(w, c) PROVE Typed'
  BY <1>1 DEF Receive, Typed, TypeOK, Shape, WorkerPc, store, actors, history
<1>2. ASSUME NEW c \in Copies, PublishBlindly(c) PROVE Typed'
  BY <1>2, PublishTyped
  DEF PublishBlindly, Typed, TypeOK, Shape, store, workers, actors, history
<1>3. CASE UNCHANGED vars
  BY <1>3 DEF Typed, TypeOK, Shape, vars, store, queue, workers, actors, history
<1>. QED BY <1>1, <1>2, <1>3, WorkerStepTyped, CronTyped, OperatorTyped, TimeTyped DEF Next

\* Every reachable state has the types of TypeOK, and a lease and its token
\* exist exactly while the delivery is being sent.
THEOREM TypeCorrect == Spec => []TypeOK
<1>1. Init => Typed
  BY InitTyped
<1>2. Typed /\ [Next]_vars => Typed'
  BY NextTyped
<1>3. Typed => TypeOK
  BY DEF Typed
<1>. QED BY <1>1, <1>2, <1>3, PTL DEF Spec

-----------------------------------------------------------------------------
(* The budget of acceptances.  Senders and Claimless are what may still    *)
(* lead to one; the lemmas say how a worker's step changes the two.        *)

LEMMA SendersCount ==
  /\ IsFiniteSet(Senders)
  /\ Cardinality(Senders) \in Nat
<1>1. IsFiniteSet(Senders)
  BY FS_Subset, WorkersAssumption DEF Senders
<1>. QED BY <1>1, FS_CardinalityType

LEMMA SenderLeaves ==
  ASSUME Typed, NEW w \in Workers, w \in Senders, NEW label \in WorkerPc,
         label \notin {"mirror", "send"}, pc' = [pc EXCEPT ![w] = label]
  PROVE  Cardinality(Senders') = Cardinality(Senders) - 1
<1>1. Senders' = Senders \ {w}
  BY DEF Senders, Typed, TypeOK
<1>. QED BY <1>1, SendersCount, FS_RemoveElement

LEMMA SenderEnters ==
  ASSUME Typed, NEW w \in Workers, w \notin Senders, pc' = [pc EXCEPT ![w] = "mirror"]
  PROVE  Cardinality(Senders') = Cardinality(Senders) + 1
<1>1. Senders' = Senders \cup {w}
  BY DEF Senders, Typed, TypeOK
<1>. QED BY <1>1, SendersCount, FS_AddElement

\* A worker that is and stays outside the three states that count.
LEMMA SettledWorkerMoves ==
  ASSUME Typed, NEW w \in Workers, NEW label \in WorkerPc,
         pc[w] \notin Unsettled, label \notin Unsettled,
         pc' = [pc EXCEPT ![w] = label]
  PROVE  Senders' = Senders /\ (UNCHANGED row => Claimless' = Claimless)
<1>1. Senders' = Senders
  BY DEF Senders, Unsettled, Typed, TypeOK
<1>2. \A v \in Workers : pc'[v] \in Unsettled <=> pc[v] \in Unsettled
  BY DEF Typed, TypeOK
<1>3. ASSUME UNCHANGED row PROVE Claimless' = Claimless
  BY <1>2, <1>3 DEF Claimless, Typed, Shape
<1>. QED BY <1>1, <1>3

\* A worker that settles, in one way or another, while the row stays as it is:
\* others may claim the row now only if they could before, unless the worker
\* gave up a live lease.
LEMMA WorkerSettles ==
  ASSUME Typed, NEW w \in Workers, NEW label \in WorkerPc,
         pc[w] \in Unsettled, label \notin Unsettled,
         pc' = [pc EXCEPT ![w] = label], UNCHANGED row, ~ LosesOutcome(w)
  PROVE  Claimless' => Claimless
<1>1. \A v \in Workers \ {w} : pc'[v] = pc[v]
  BY DEF Typed, TypeOK
<1>2. CASE row.status = "sending" /\ row.token = w
  BY <1>2 DEF LosesOutcome, HoldsLease, Claimless, Typed, TypeOK, Shape, Row, Lease
<1>3. CASE ~ (row.status = "sending" /\ row.token = w)
  BY <1>1, <1>3 DEF Claimless, Typed, Shape
<1>. QED BY <1>2, <1>3

\* The row leaves the state of being sent.
LEMMA SettleCloses ==
  ASSUME Typed, NEW status \in {"queued", "sent", "failed"}, NEW due \in BOOLEAN,
         Settle(status, due)
  PROVE  Claimless' <=> status = "queued"
BY SettleTyped DEF Claimless

LEMMA InitBudget == Init => Budget
<1>1. SUFFICES ASSUME Init PROVE Budget
  OBVIOUS
<1>2. Senders = {}
  BY <1>1 DEF Init, Senders
<1>. QED BY <1>1, <1>2, FS_EmptySet DEF Init, Budget

\* A worker outside the three states does something that leaves the row alone.
LEMMA QuietBudget ==
  ASSUME Typed, Budget, NEW w \in Workers, NEW label \in WorkerPc,
         pc[w] \notin Unsettled, label \notin Unsettled,
         pc' = [pc EXCEPT ![w] = label], UNCHANGED <<row, accepted, excuses>>
  PROVE  Budget'
<1>1. Senders' = Senders /\ Claimless' = Claimless
  BY SettledWorkerMoves
<1>. QED BY <1>1 DEF Budget

\* A worker that could still send gives up, and the row may become claimable.
LEMMA GivesUpBudget ==
  ASSUME Typed, Budget, NEW w \in Workers, NEW label \in WorkerPc,
         pc[w] \in {"mirror", "send"}, label \notin {"mirror", "send"},
         pc' = [pc EXCEPT ![w] = label], UNCHANGED <<accepted, excuses>>
  PROVE  Budget'
<1>1. Cardinality(Senders') = Cardinality(Senders) - 1
  BY SenderLeaves DEF Senders
<1>. QED BY <1>1, SendersCount DEF Budget, Typed, TypeOK

\* A worker that knows the provider accepted stops without recording it.
LEMMA UnrecordedBudget ==
  ASSUME Typed, Budget, NEW w \in Workers, NEW label \in WorkerPc,
         pc[w] = "complete", label \notin Unsettled,
         pc' = [pc EXCEPT ![w] = label], UNCHANGED <<row, accepted>>,
         ExcuseIf(LosesOutcome(w))
  PROVE  Budget'
<1>1. Senders' = Senders
  BY DEF Senders, Unsettled, Typed, TypeOK
<1>2. LosesOutcome(w) \in BOOLEAN
  BY DEF LosesOutcome, HoldsLease
<1>3. CASE LosesOutcome(w)
  <2>1. excuses' = excuses + 1
    BY <1>2, <1>3, ExcuseTyped DEF Typed
  <2>. QED BY <1>1, <2>1, SendersCount DEF Budget, Typed, TypeOK
<1>4. CASE ~ LosesOutcome(w)
  <2>1. excuses' = excuses
    BY <1>2, <1>4, ExcuseTyped DEF Typed
  <2>2. Claimless' => Claimless
    BY <1>4, WorkerSettles DEF Unsettled
  <2>. QED BY <1>1, <2>1, <2>2, SendersCount DEF Budget, Typed, TypeOK
<1>. QED BY <1>3, <1>4

\* A worker outside the three states settles the delivery; it may be claimed
\* afterwards only if it could be claimed before.
LEMMA SettleBudget ==
  ASSUME Typed, Budget, NEW w \in Workers, NEW label \in WorkerPc,
         pc[w] \notin {"mirror", "send"}, label \notin Unsettled,
         pc' = [pc EXCEPT ![w] = label], UNCHANGED <<accepted, excuses>>,
         NEW status \in {"queued", "sent", "failed"}, NEW due \in BOOLEAN,
         Settle(status, due), status = "queued" => Claimless
  PROVE  Budget'
<1>1. Senders' = Senders
  BY DEF Senders, Unsettled, Typed, TypeOK
<1>. QED BY <1>1, SettleCloses, SendersCount DEF Budget, Typed, TypeOK

LEMMA WorkerStepBudget ==
  ASSUME Typed, Budget, NEW w \in Workers, WorkerStep(w)
  PROVE  Budget'
<1>. USE DEF store, history, WorkerPc, Unsettled
<1>0. row.due \in BOOLEAN
  BY DEF Typed, TypeOK, Row
<1>1. CASE Read(w)
  BY <1>1, QuietBudget DEF Read, Goto
<1>2. CASE Exhaust(w)
  <2>1. CASE Exhausted
    BY <1>0, <1>2, <2>1, SettleBudget DEF Exhaust, Goto
  <2>2. CASE ~ Exhausted
    BY <1>2, <2>2, QuietBudget DEF Exhaust, RetryCopy, Finish
  <2>. QED BY <2>1, <2>2
<1>3. CASE Claim(w)
  <2>1. CASE Claimable
    <3>1. pc' = [pc EXCEPT ![w] = "mirror"] /\ UNCHANGED <<accepted, excuses>>
      BY <1>3, <2>1 DEF Claim, Goto
    <3>2. w \notin Senders
      BY <1>3 DEF Claim, Senders
    <3>3. Claimless
      BY <2>1 DEF Claimable, Claimless
    <3>4. ~ Claimless'
      BY <1>3, <2>1, <3>1, ClaimTyped DEF Claimless, Typed, TypeOK
    <3>5. Cardinality(Senders') = Cardinality(Senders) + 1
      BY <3>1, <3>2, SenderEnters
    <3>. QED BY <3>1, <3>3, <3>4, <3>5, SendersCount DEF Budget, Typed, TypeOK
  <2>2. CASE ~ Claimable
    BY <1>3, <2>2, QuietBudget DEF Claim, Goto
  <2>. QED BY <2>1, <2>2
<1>4. CASE Recheck(w)
  BY <1>4, QuietBudget DEF Recheck, Goto, RetryCopy, Finish
<1>5. CASE Mirror(w)
  <2>1. Senders' = Senders
    BY <1>5 DEF Mirror, Goto, Senders, Typed, TypeOK
  <2>2. Claimless' = Claimless
    BY <1>5 DEF Mirror, Goto, Claimless, Typed, TypeOK, Shape
  <2>. QED BY <1>5, <2>1, <2>2 DEF Mirror, Budget
<1>6. CASE Accept(w)
  <2>1. Cardinality(Senders') = Cardinality(Senders) - 1
    BY <1>6, SenderLeaves DEF Accept, Goto, Senders
  <2>2. Claimless' = Claimless
    BY <1>6 DEF Accept, Goto, Claimless, Typed, TypeOK, Shape
  <2>. QED BY <1>6, <2>1, <2>2, SendersCount DEF Accept, Budget, Typed, TypeOK
<1>7. CASE Refuse(w)
  BY <1>7, GivesUpBudget DEF Refuse, Goto
<1>8. CASE Complete(w)
  <2>1. CASE HoldsLease(w)
    BY <1>0, <1>8, <2>1, SettleBudget DEF Complete, Goto
  <2>2. CASE ~ HoldsLease(w)
    <3>1. ExcuseIf(LosesOutcome(w))
      BY <1>8, <2>2 DEF Complete, LosesOutcome, ExcuseIf
    <3>. QED BY <1>8, <2>2, <3>1, UnrecordedBudget DEF Complete, Goto
  <2>. QED BY <2>1, <2>2
<1>9. CASE FailRetryable(w)
  <2>1. CASE HoldsLease(w)
    <3>1. Claimless
      BY <1>9, <2>1 DEF FailRetryable, HoldsLease, Claimless
    <3>. QED BY <1>9, <2>1, <3>1, SettleBudget DEF FailRetryable, RetryCopy, Finish
  <2>2. CASE ~ HoldsLease(w)
    BY <1>9, <2>2, QuietBudget DEF FailRetryable, RetryCopy, Finish
  <2>. QED BY <2>1, <2>2
<1>10. CASE FailPermanently(w)
  <2>1. CASE HoldsLease(w)
    BY <1>10, <2>1, SettleBudget DEF FailPermanently, Goto
  <2>2. CASE ~ HoldsLease(w)
    BY <1>10, <2>2, QuietBudget DEF FailPermanently, Goto
  <2>. QED BY <2>1, <2>2
<1>11. CASE Ack(w)
  BY <1>11, QuietBudget DEF Ack, AckCopy, Finish
<1>. QED BY <1>1, <1>2, <1>3, <1>4, <1>5, <1>6, <1>7, <1>8, <1>9, <1>10, <1>11
         DEF WorkerStep

LEMMA WorkerFaultBudget ==
  ASSUME Typed, Budget, NEW w \in Workers, WorkerFault(w)
  PROVE  Budget'
<1>. USE DEF store, history, WorkerPc, Unsettled
<1>1. CASE AcceptUnanswered(w)
  <2>1. pc' = [pc EXCEPT ![w] = "failRetry"] /\ accepted' = accepted + 1 /\ UNCHANGED row
    BY <1>1 DEF AcceptUnanswered, Goto
  <2>2. Cardinality(Senders') = Cardinality(Senders) - 1
    BY <1>1, <2>1, SenderLeaves DEF AcceptUnanswered, Senders
  <2>3. LosesOutcome(w) \in BOOLEAN
    BY DEF LosesOutcome, HoldsLease
  <2>4. CASE LosesOutcome(w)
    <3>1. excuses' = excuses + 1
      BY <1>1, <2>3, <2>4, ExcuseTyped DEF AcceptUnanswered, Typed
    <3>. QED BY <2>1, <2>2, <3>1, SendersCount DEF Budget, Typed, TypeOK
  <2>5. CASE ~ LosesOutcome(w)
    <3>1. excuses' = excuses
      BY <1>1, <2>3, <2>5, ExcuseTyped DEF AcceptUnanswered, Typed
    <3>2. Claimless' => Claimless
      BY <1>1, <2>1, <2>5, WorkerSettles DEF AcceptUnanswered
    <3>. QED BY <2>1, <2>2, <3>1, <3>2, SendersCount DEF Budget, Typed, TypeOK
  <2>. QED BY <2>4, <2>5
<1>2. CASE CompleteThrows(w)
  <2>1. pc[w] = "complete" /\ pc' = [pc EXCEPT ![w] = "failRetry"] /\ UNCHANGED accepted
    BY <1>2 DEF CompleteThrows, Goto
  <2>2. CASE ExcuseIf(LosesOutcome(w)) /\ UNCHANGED store
    BY <2>1, <2>2, UnrecordedBudget
  <2>3. CASE Settle("sent", row.due) /\ UNCHANGED excuses
    <3>1. row.due \in BOOLEAN
      BY DEF Typed, TypeOK, Row
    <3>. QED BY <2>1, <2>3, <3>1, SettleBudget
  <2>. QED BY <1>2, <2>2, <2>3 DEF CompleteThrows
<1>3. CASE Abort(w)
  <2>1. pc' = [pc EXCEPT ![w] = "idle"] /\ UNCHANGED <<row, accepted>>
    BY <1>3 DEF Abort, RetryCopy, Finish
  <2>2. CASE pc[w] = "complete"
    BY <1>3, <2>1, <2>2, UnrecordedBudget DEF Abort, ExcuseIf
  <2>3. CASE pc[w] # "complete"
    <3>1. UNCHANGED excuses
      BY <1>3, <2>3 DEF Abort, ExcuseIf
    <3>. QED BY <2>1, <2>3, <3>1, QuietBudget, GivesUpBudget
  <2>. QED BY <2>2, <2>3
<1>. QED BY <1>1, <1>2, <1>3 DEF WorkerFault

\* Steps of the other actors change neither the workers nor the acceptances.
LEMMA OthersBudget ==
  ASSUME Typed, Budget, UNCHANGED <<workers, accepted>>, excuses' \in Nat,
         \/ excuses' >= excuses /\ (Claimless' => Claimless)
         \/ excuses' >= excuses + 1
  PROVE  Budget'
<1>1. Senders' = Senders
  BY DEF workers, Senders
<1>. QED BY <1>1, SendersCount DEF workers, Budget, Typed, TypeOK

LEMMA CronBudget ==
  ASSUME Typed, Budget, Cron
  PROVE  Budget'
<1>1. UNCHANGED <<workers, accepted, excuses>>
  BY DEF Cron, CronList, CronSend, CronMark, CronAbort, history
<1>2. Claimless' => Claimless
  BY DEF Cron, CronList, CronSend, CronMark, CronAbort, history, store, workers,
         Claimless, Typed, TypeOK, Row
<1>. QED BY <1>1, <1>2, OthersBudget DEF Typed, TypeOK

LEMMA ExcuseTaken ==
  ASSUME TypeOK, ExcuseIf(TRUE)
  PROVE  excuses' \in Nat /\ excuses' >= excuses + 1
BY BoundsAssumption DEF TypeOK, ExcuseIf

LEMMA OperatorBudget ==
  ASSUME Typed, Budget, Operator
  PROVE  Budget'
<1>. USE DEF store, workers, actors, history, Typed, TypeOK
<1>1. CASE OpCheck \/ OpEnqueue
  BY <1>1, OthersBudget DEF OpCheck, OpEnqueue, Claimless
<1>2. CASE OpReset \/ CliReset
  <2>1. CASE row.status = "failed"
    <3>1. ExcuseIf(TRUE) /\ UNCHANGED <<workers, accepted>>
      BY <1>2, <2>1 DEF OpReset, CliReset, RetryDelivery
    <3>2. excuses' \in Nat /\ excuses' >= excuses + 1
      BY <3>1, ExcuseTaken
    <3>. QED BY <3>1, <3>2, OthersBudget
  <2>2. CASE row.status # "failed"
    <3>1. UNCHANGED <<row, workers, accepted, excuses>>
      BY <1>2, <2>2 DEF OpReset, CliReset, RetryDelivery
    <3>2. Claimless' => Claimless
      BY <3>1 DEF Claimless
    <3>. QED BY <3>1, <3>2, OthersBudget
  <2>. QED BY <2>1, <2>2
<1>. QED BY <1>1, <1>2 DEF Operator

LEMMA TimeBudget ==
  ASSUME Typed, Budget, TimePasses
  PROVE  Budget'
<1>. USE DEF workers, history, Typed, TypeOK
<1>1. CASE LeaseEnds
  <2>1. Claimless
    BY <1>1 DEF LeaseEnds, HolderUnsettled, Claimless, Shape
  <2>. QED BY <1>1, <2>1, OthersBudget DEF LeaseEnds
<1>2. CASE LeaseOutlived
  BY <1>2, ExcuseTaken, OthersBudget DEF LeaseOutlived
<1>3. CASE BecomesDue \/ BecomesStale
  BY <1>3, OthersBudget DEF BecomesDue, BecomesStale, Claimless, Row
<1>. QED BY <1>1, <1>2, <1>3 DEF TimePasses

LEMMA NextBudget ==
  ASSUME Typed, Budget, [Next]_vars
  PROVE  Budget'
<1>1. ASSUME NEW w \in Workers, NEW c \in Copies, Receive(w, c) PROVE Budget'
  BY <1>1, QuietBudget DEF Receive, WorkerPc, Unsettled, store, history
<1>2. ASSUME NEW c \in Copies, PublishBlindly(c) PROVE Budget'
  BY <1>2, OthersBudget
  DEF PublishBlindly, store, workers, history, Claimless, Typed, TypeOK
<1>3. CASE UNCHANGED vars
  BY <1>3, OthersBudget DEF vars, store, workers, history, Claimless, Typed, TypeOK
<1>. QED BY <1>1, <1>2, <1>3, WorkerStepBudget, WorkerFaultBudget, CronBudget,
            OperatorBudget, TimeBudget DEF Next

-----------------------------------------------------------------------------
(* What was recorded as sent was accepted.                                 *)

LEMMA NextRecorded ==
  ASSUME Typed, Recorded, [Next]_vars
  PROVE  Recorded'
<1>. USE DEF Recorded, store, workers, actors, history
<1>1. accepted' \in Nat /\ accepted' >= accepted
  <2>1. accepted \in Nat
    BY DEF Typed, TypeOK
  <2>2. accepted' \in {accepted, accepted + 1}
    <3>1. ASSUME NEW w \in Workers, WorkerStep(w) \/ WorkerFault(w)
          PROVE  accepted' \in {accepted, accepted + 1}
      BY <3>1 DEF WorkerStep, WorkerFault, Read, Exhaust, Claim, Recheck, Mirror, Accept,
         Refuse, Complete, FailRetryable, FailPermanently, Ack, AcceptUnanswered,
         CompleteThrows, Abort
    <3>2. CASE Cron \/ Operator \/ TimePasses
      BY <3>2 DEF Cron, CronList, CronSend, CronMark, CronAbort, Operator, OpCheck, OpReset,
         OpEnqueue, CliReset, RetryDelivery, TimePasses, LeaseEnds, LeaseOutlived, BecomesDue, BecomesStale
    <3>. QED BY <3>1, <3>2 DEF Next, vars, Receive, PublishBlindly
  <2>. QED BY <2>1, <2>2
<1>2. ASSUME NEW w \in Workers, pc'[w] = "complete" PROVE accepted' > 0
  <2>1. CASE pc[w] = "complete"
    BY <1>1, <2>1 DEF Typed, TypeOK
  <2>2. CASE pc[w] # "complete"
    <3>1. ASSUME NEW v \in Workers, WorkerStep(v) \/ WorkerFault(v), ~ Accept(v)
          PROVE  FALSE
      BY <1>2, <2>2, <3>1
      DEF Typed, TypeOK, WorkerStep, WorkerFault, Read, Exhaust, Claim, Recheck, Mirror,
          Refuse, Complete, FailRetryable, FailPermanently, Ack, AcceptUnanswered,
          CompleteThrows, Abort, Goto, RetryCopy, AckCopy, Finish
    <3>2. ASSUME NEW v \in Workers, NEW c \in Copies, Receive(v, c) PROVE FALSE
      BY <1>2, <2>2, <3>2 DEF Receive, Typed, TypeOK
    <3>3. CASE UNCHANGED pc
      BY <1>2, <2>2, <3>3
    <3>4. ASSUME NEW v \in Workers, Accept(v) PROVE accepted' > 0
      BY <3>4 DEF Accept, Typed, TypeOK
    <3>. QED BY <3>1, <3>2, <3>3, <3>4
         DEF Next, vars, PublishBlindly, Cron, CronList, CronSend, CronMark, CronAbort,
             Operator, OpCheck, OpReset, OpEnqueue, CliReset, RetryDelivery, TimePasses, LeaseEnds,
             LeaseOutlived, BecomesDue, BecomesStale
  <2>. QED BY <2>1, <2>2
<1>3. ASSUME row'.status = "sent" PROVE accepted' > 0
  <2>1. CASE row.status = "sent"
    BY <1>1, <2>1 DEF Typed, TypeOK
  <2>2. CASE row.status # "sent"
    <3>1. \E w \in Workers : pc[w] = "complete"
      <4>1. ASSUME NEW w \in Workers, WorkerStep(w) \/ WorkerFault(w), pc[w] # "complete"
            PROVE  FALSE
        BY <1>3, <2>2, <4>1
        DEF Typed, TypeOK, Row, WorkerStep, WorkerFault, Read, Exhaust, Claim, Recheck,
            Mirror, Accept, Refuse, Complete, FailRetryable, FailPermanently, Ack,
            AcceptUnanswered, CompleteThrows, Abort, Settle, Released
      <4>2. ~ Operator
        BY <1>3, <2>2
        DEF Typed, TypeOK, Row, Operator, OpCheck, OpReset, OpEnqueue, CliReset, RetryDelivery,
            ResetForRetry, Released
      <4>3. ~ Cron
        BY <1>3, <2>2
        DEF Typed, TypeOK, Row, Cron, CronList, CronSend, CronMark, CronAbort
      <4>4. ~ TimePasses
        BY <1>3, <2>2
        DEF Typed, TypeOK, Row, TimePasses, LeaseEnds, LeaseOutlived, BecomesDue, BecomesStale
      <4>. QED BY <1>3, <2>2, <4>1, <4>2, <4>3, <4>4
           DEF Next, vars, Receive, PublishBlindly
    <3>. QED BY <1>1, <3>1 DEF Typed, TypeOK
  <2>. QED BY <2>1, <2>2
<1>. QED BY <1>2, <1>3

-----------------------------------------------------------------------------
(* The invariant, and the theorems that follow from it.                    *)

LEMMA InitInvariant == Init => IInv
<1>1. SUFFICES ASSUME Init PROVE IInv
  OBVIOUS
<1>2. Recorded
  BY <1>1 DEF Init, Recorded, NewRow
<1>. QED BY <1>1, <1>2, InitTyped, InitBudget DEF IInv, Typed

LEMMA NextInvariant == IInv /\ [Next]_vars => IInv'
BY NextTyped, NextBudget, NextRecorded DEF IInv, Typed

\* The inductive invariant holds in every state: types, the shape of the row,
\* the acceptance budget, and that an acceptance was recorded before it is told.
THEOREM Invariance == Spec => []IInv
BY InitInvariant, NextInvariant, PTL DEF Spec

\* Whatever the number of consumers, of Queue copies and of faults, the
\* provider accepts a message at most once more often than there were excuses.
THEOREM AcceptancesExcused == Spec => []SendsExcused
<1>1. IInv => SendsExcused
  BY SendersCount DEF IInv, Budget, SendsExcused, TypeOK
<1>. QED BY <1>1, Invariance, PTL

\* No delivery is ever recorded as sent without an acceptance.
THEOREM SentOnlyIfAccepted == Spec => []SentWasAccepted
<1>1. IInv => SentWasAccepted
  BY DEF IInv, Recorded, SentWasAccepted
<1>. QED BY <1>1, Invariance, PTL

-----------------------------------------------------------------------------
(* The contract.                                                           *)

LEMMA SettleKeepsContract ==
  ASSUME IInv, NEW status \in {"queued", "sent", "failed"}, NEW due \in BOOLEAN,
         Settle(status, due), UNCHANGED <<accepted, excuses>>,
         \/ row.status = "sending" /\ (status = "sent" => accepted > 0)
         \/ status = "failed" /\ Exhausted
  PROVE  Contract!Next
<1>1. row'.status = status /\ row'.attempts = row.attempts
  BY SettleTyped DEF IInv, Typed
<1>2. Exhausted => row.attempts = MaxAttempts
  BY BoundsAssumption DEF IInv, TypeOK, Row, Exhausted
<1>. QED BY <1>1, <1>2 DEF Exhausted, Contract!Next, Contract!Sent, Contract!Postpone, Contract!Fail

LEMMA WorkerKeepsContract ==
  ASSUME IInv, IInv', NEW w \in Workers, WorkerStep(w) \/ WorkerFault(w)
  PROVE  [Contract!Next]_Contract!contractVars
<1>. USE DEF store, history, Contract!contractVars
<1>0. row.due \in BOOLEAN
  BY DEF IInv, TypeOK, Row
<1>1. CASE Read(w) \/ Recheck(w) \/ Mirror(w) \/ Refuse(w) \/ Ack(w)
  BY <1>1 DEF Read, Recheck, Mirror, Refuse, Ack
<1>2. CASE Exhaust(w)
  BY <1>0, <1>2, SettleKeepsContract DEF Exhaust
<1>3. CASE Claim(w)
  <2>1. CASE Claimable
    <3>1. row' = [row EXCEPT !.status = "sending", !.attempts = row.attempts + 1,
                             !.lease = "live", !.token = w]
      BY <1>3, <2>1 DEF Claim
    <3>2. row'.status = "sending" /\ row'.attempts = row.attempts + 1
      BY <3>1 DEF IInv, TypeOK, Row
    <3>. QED BY <1>3, <2>1, <3>2 DEF Claim, Claimable, Contract!Next, Contract!Claim, Contract!Open
  <2>2. CASE ~ Claimable
    BY <1>3, <2>2 DEF Claim
  <2>. QED BY <2>1, <2>2
<1>4. CASE Accept(w) \/ AcceptUnanswered(w)
  <2>1. accepted' = accepted + 1 /\ UNCHANGED row
    BY <1>4 DEF Accept, AcceptUnanswered
  <2>2. excuses' \in {excuses, excuses + 1}
    BY <1>4 DEF Accept, AcceptUnanswered, ExcuseIf
  <2>3. accepted' <= 1 + excuses'
    <3>1. IsFiniteSet(Senders') /\ Cardinality(Senders') \in Nat
      BY FS_Subset, FS_CardinalityType, WorkersAssumption DEF Senders
    <3>2. accepted' \in Nat /\ excuses' \in Nat
      BY BoundsAssumption DEF IInv, TypeOK
    <3>3. accepted' + Cardinality(Senders') + (IF Claimless' THEN 1 ELSE 0) <= 1 + excuses'
      BY DEF IInv, Budget
    <3>4. \A a, n, o, e \in Nat : a + n + o <= 1 + e => a <= 1 + e
      OBVIOUS
    <3>5. (IF Claimless' THEN 1 ELSE 0) \in Nat
      OBVIOUS
    <3>. QED BY <3>1, <3>2, <3>3, <3>4, <3>5
  <2>. QED BY <2>1, <2>2, <2>3 DEF Contract!Next, Contract!Accept
<1>5. CASE Complete(w)
  <2>1. accepted > 0
    BY <1>5 DEF Complete, IInv, Recorded
  <2>. QED BY <1>0, <1>5, <2>1, SettleKeepsContract DEF Complete, HoldsLease
<1>6. CASE FailRetryable(w)
  BY <1>6, SettleKeepsContract DEF FailRetryable, HoldsLease
<1>7. CASE FailPermanently(w)
  BY <1>7, SettleKeepsContract DEF FailPermanently, HoldsLease
<1>8. CASE CompleteThrows(w)
  <2>1. accepted > 0
    BY <1>8 DEF CompleteThrows, IInv, Recorded
  <2>2. CASE ExcuseIf(LosesOutcome(w)) /\ UNCHANGED store
    BY <1>8, <2>2 DEF CompleteThrows, ExcuseIf, Contract!Next, Contract!Excuse
  <2>3. CASE HoldsLease(w) /\ Settle("sent", row.due) /\ UNCHANGED excuses
    BY <1>0, <1>8, <2>1, <2>3, SettleKeepsContract DEF CompleteThrows, HoldsLease
  <2>. QED BY <1>8, <2>2, <2>3 DEF CompleteThrows
<1>9. CASE Abort(w)
  BY <1>9 DEF Abort, ExcuseIf, Contract!Next, Contract!Excuse
<1>. QED BY <1>1, <1>2, <1>3, <1>4, <1>5, <1>6, <1>7, <1>8, <1>9
         DEF WorkerStep, WorkerFault

LEMMA NextKeepsContract ==
  ASSUME IInv, IInv', [Next]_vars
  PROVE  [Contract!Next]_Contract!contractVars
<1>. USE DEF store, history, Contract!contractVars
<1>1. ASSUME NEW w \in Workers, NEW c \in Copies, Receive(w, c)
      PROVE  UNCHANGED Contract!contractVars
  BY <1>1 DEF Receive
<1>2. CASE Cron
  BY <1>2 DEF Cron, CronList, CronSend, CronMark, CronAbort, IInv, TypeOK, Row
<1>3. CASE Operator
  <2>1. CASE OpCheck \/ OpEnqueue
    BY <2>1 DEF OpCheck, OpEnqueue
  <2>2. CASE ResetForRetry /\ row.status = "failed" /\ ExcuseIf(TRUE) /\ UNCHANGED accepted
    BY <2>2, ResetTyped DEF ExcuseIf, Contract!Next, Contract!Retry, IInv, Typed
  <2>. QED BY <1>3, <2>1, <2>2 DEF Operator, OpReset, CliReset, RetryDelivery
<1>4. CASE TimePasses
  <2>1. row'.status = row.status /\ row'.attempts = row.attempts /\ accepted' = accepted
    BY <1>4 DEF TimePasses, LeaseEnds, LeaseOutlived, BecomesDue, BecomesStale,
                IInv, TypeOK, Row
  <2>2. excuses' \in {excuses, excuses + 1}
    BY <1>4 DEF TimePasses, LeaseEnds, LeaseOutlived, BecomesDue, BecomesStale, ExcuseIf
  <2>. QED BY <2>1, <2>2 DEF Contract!Next, Contract!Excuse
<1>5. CASE UNCHANGED vars \/ \E c \in Copies : PublishBlindly(c)
  BY <1>5 DEF vars, PublishBlindly
<1>. QED BY <1>1, <1>2, <1>3, <1>4, <1>5, WorkerKeepsContract DEF Next

\* The detailed system implements the contract: its rows go through the
\* contract's states only, and its provider is bound by the contract's budget.
THEOREM ImplementsContract == Spec => KeepsContract
<1>1. Init => Contract!Init
  BY DEF Init, NewRow, Contract!Init
<1>2. IInv /\ IInv' /\ [Next]_vars => [Contract!Next]_Contract!contractVars
  BY NextKeepsContract
<1>. QED BY <1>1, <1>2, Invariance, PTL DEF Spec, KeepsContract, Contract!Spec

\* No late worker, expired lease or Cron run revives a delivery that is sent,
\* and only an operator revives one that failed.
THEOREM SettledIsStable == Spec => SettledStays
<1>1. ASSUME IInv, [Contract!Next]_Contract!contractVars
      PROVE  /\ row.status = "sent" => row'.status = "sent"
             /\ row.status = "failed" /\ row'.status # "failed" =>
                  row'.status = "queued" /\ row'.attempts = 0 /\ excuses' > excuses
  BY <1>1 DEF IInv, TypeOK, Contract!Next, Contract!contractVars, Contract!Claim, Contract!Open,
     Contract!Accept, Contract!Excuse, Contract!Sent, Contract!Postpone, Contract!Fail,
     Contract!Retry
<1>2. IInv /\ IInv' /\ [Next]_vars => [Contract!Next]_Contract!contractVars
  BY NextKeepsContract
<1>. QED BY <1>1, <1>2, Invariance, PTL DEF Spec, SettledStays

-----------------------------------------------------------------------------
(* With one consumer, as wrangler.jsonc configures, messages.status follows *)
(* the delivery.  The unconditional second statement of a claim is harmless *)
(* then: the worker that runs it still holds the row.                       *)

OneConsumer == \E w \in Workers : Workers = {w}

HolderHolds ==
  \A w \in Workers : pc[w] \in Unsettled => HoldsLease(w)

MirrorInv == Typed /\ MirrorTracks /\ HolderHolds

LEMMA NextMirrors ==
  ASSUME OneConsumer, MirrorInv, [Next]_vars
  PROVE  MirrorTracks' /\ HolderHolds'
<1>. USE DEF store, workers, actors, history, MirrorInv, MirrorTracks, HolderHolds,
             HoldsLease, Unsettled
<1>0. PICK w \in Workers : Workers = {w}
  BY DEF OneConsumer
<1>t. Typed /\ pc \in [Workers -> WorkerPc] /\ row \in Row /\ row.due \in BOOLEAN
  BY DEF Typed, TypeOK, Row
<1>1. ASSUME NEW status \in {"queued", "sent", "failed"}, NEW due \in BOOLEAN,
             Settle(status, due), pc'[w] \notin Unsettled
      PROVE  MirrorTracks' /\ HolderHolds'
  <2>1. row'.status = status /\ mirror' = status
    BY <1>t, <1>1, SettleTyped DEF Settle
  <2>. QED BY <1>0, <1>1, <2>1
<1>2. ASSUME UNCHANGED store, pc'[w] \in Unsettled => pc[w] \in Unsettled
      PROVE  MirrorTracks' /\ HolderHolds'
  BY <1>0, <1>2
<1>3. ASSUME row'.status = row.status, row'.token = row.token, UNCHANGED <<mirror, pc>>
      PROVE  MirrorTracks' /\ HolderHolds'
  BY <1>0, <1>3
<1>4. ASSUME ResetForRetry, mirror' = "queued", row.status = "failed", UNCHANGED pc
      PROVE  MirrorTracks' /\ HolderHolds'
  <2>1. row'.status = "queued"
    BY <1>t, <1>4, ResetTyped
  <2>. QED BY <1>0, <1>4, <2>1
<1>5. CASE WorkerStep(w)
  <2>1. CASE Read(w) \/ Recheck(w) \/ Ack(w) \/ Accept(w) \/ Refuse(w)
    BY <1>t, <1>2, <2>1
    DEF Read, Recheck, Ack, Accept, Refuse, Goto, RetryCopy, AckCopy, Finish
  <2>2. CASE Exhaust(w)
    <3>1. CASE Exhausted
      <4>1. pc'[w] \notin Unsettled
        BY <1>t, <2>2, <3>1 DEF Exhaust, Goto
      <4>. QED BY <1>1, <1>t, <2>2, <3>1, <4>1 DEF Exhaust
    <3>2. CASE ~ Exhausted
      BY <1>t, <1>2, <2>2, <3>2 DEF Exhaust, RetryCopy, Finish
    <3>. QED BY <3>1, <3>2
  <2>3. CASE Claim(w)
    <3>1. CASE Claimable
      <4>1. row'.status = "sending" /\ row'.token = w
        BY <1>t, <2>3, <3>1, ClaimTyped
      <4>. QED BY <1>0, <2>3, <3>1, <4>1 DEF Claim, Claimable
    <3>2. CASE ~ Claimable
      BY <1>t, <1>2, <2>3, <3>2 DEF Claim, Goto
    <3>. QED BY <3>1, <3>2
  <2>4. CASE Mirror(w)
    BY <1>0, <2>4 DEF Mirror
  <2>5. CASE Complete(w) /\ HoldsLease(w)
    <3>1. pc'[w] \notin Unsettled
      BY <1>t, <2>5 DEF Complete, Goto
    <3>. QED BY <1>1, <1>t, <2>5, <3>1 DEF Complete
  <2>6. CASE FailRetryable(w)
    <3>1. pc'[w] \notin Unsettled
      BY <1>t, <2>6 DEF FailRetryable, RetryCopy, Finish
    <3>. QED BY <1>1, <1>2, <2>6, <3>1 DEF FailRetryable
  <2>7. CASE FailPermanently(w)
    <3>1. pc'[w] \notin Unsettled
      BY <1>t, <2>7 DEF FailPermanently, Goto
    <3>. QED BY <1>1, <1>2, <2>7, <3>1 DEF FailPermanently
  <2>8. CASE Complete(w) /\ ~ HoldsLease(w)
    BY <1>t, <1>2, <2>8 DEF Complete, Goto
  <2>. QED BY <1>5, <2>1, <2>2, <2>3, <2>4, <2>5, <2>6, <2>7, <2>8 DEF WorkerStep
<1>6. CASE WorkerFault(w)
  <2>1. pc'[w] \notin Unsettled
    BY <1>t, <1>6 DEF WorkerFault, AcceptUnanswered, CompleteThrows, Abort, Goto, RetryCopy, Finish
  <2>2. UNCHANGED store \/ Settle("sent", row.due)
    BY <1>6 DEF WorkerFault, AcceptUnanswered, CompleteThrows, Abort
  <2>. QED BY <1>1, <1>2, <1>t, <2>1, <2>2
<1>7. CASE Cron
  BY <1>3, <1>7, <1>t DEF Cron, CronList, CronSend, CronMark, CronAbort, Row
<1>8. CASE Operator
  <2>1. CASE (OpReset \/ CliReset) /\ row.status # "failed"
    <3>1. UNCHANGED <<row, pc>> /\ mirror' = IF row.status = "queued" THEN "queued" ELSE mirror
      BY <2>1 DEF OpReset, CliReset, RetryDelivery
    <3>. QED BY <1>0, <3>1
  <2>. QED BY <1>2, <1>4, <1>8, <2>1 DEF Operator, OpCheck, OpReset, OpEnqueue, CliReset,
                                           RetryDelivery
<1>9. CASE TimePasses
  BY <1>3, <1>9, <1>t DEF TimePasses, LeaseEnds, LeaseOutlived, BecomesDue, BecomesStale, Row
<1>10. ASSUME NEW c \in Copies, Receive(w, c) \/ PublishBlindly(c)
       PROVE  MirrorTracks' /\ HolderHolds'
  BY <1>t, <1>2, <1>10 DEF Receive, PublishBlindly
<1>11. CASE UNCHANGED vars
  BY <1>2, <1>11 DEF vars
<1>. QED BY <1>0, <1>5, <1>6, <1>7, <1>8, <1>9, <1>10, <1>11 DEF Next

\* With a single consumer the status the mailbox shows is that of the delivery,
\* whatever dies, expires or is retried.
THEOREM MirrorFollows == OneConsumer /\ Spec => []MirrorTracks
<1>1. Init => MirrorInv
  <2>1. Init => MirrorTracks /\ HolderHolds
    BY DEF Init, NewRow, MirrorTracks, HolderHolds, Unsettled
  <2>. QED BY <2>1, InitTyped DEF MirrorInv
<1>2. OneConsumer /\ MirrorInv /\ [Next]_vars => MirrorInv'
  BY NextMirrors, NextTyped DEF MirrorInv
<1>3. MirrorInv => MirrorTracks
  BY DEF MirrorInv
<1>4. OneConsumer => []OneConsumer
  <2>1. OneConsumer => OneConsumer'
    BY DEF OneConsumer
  <2>. QED BY <2>1, PTL
<1>. QED BY <1>1, <1>2, <1>3, <1>4, PTL DEF Spec

-----------------------------------------------------------------------------
(* OutboundCompose.                                                        *)


(* The inductive invariant.                                                *)

\* What a request knows of the row is true: it found the message, or created it.
ResultIsRow(r) ==
  /\ result[r].message \in {NoMessage, message}
  /\ result[r].created => message = r /\ result[r].message = r
  /\ persisted[r] <=> result[r].created
  /\ step[r] \in {"again", "delete", "enqueue"} =>
       message # NoMessage /\ result[r].message = message
  /\ step[r] \in {"find", "again", "compose", "put", "check", "commit", "raced", "verify",
                "delete"} => ~ result[r].created

\* Only what precedes the commit can fail without a trace of it.
OwnRow(r) ==
  /\ step[r] = "verify" => message = r
  /\ message = r => step[r] \notin {"find", "again", "compose", "put", "check", "commit"}
  /\ message = r /\ ~ ambiguous =>
       persisted[r] \/ step[r] \in {"verify", "done"}

\* The objects are written before the commit, and stay unless it is lost.
OwnObjects(r) ==
  /\ step[r] \in {"find", "again", "compose"} => objects[r] = "none"
  /\ step[r] \in {"check", "commit", "verify"} => objects[r] = "all"
  /\ step[r] = "enqueue" /\ ~ result[r].created => objects[r] = "none"

ReplyOf(r) ==
  /\ step[r] # "done" => reply[r] = KeyContract!Unanswered
  /\ reply[r].message # NoMessage =>
       reply[r].message = result[r].message /\ (objects[r] = "none" \/ result[r].created)
  /\ reply[r].code \in {"200", "202"} => reply[r].message # NoMessage

ComposeInv ==
  /\ ComposeTypeOK
  /\ \A r \in Requests : ResultIsRow(r) /\ OwnRow(r) /\ OwnObjects(r) /\ ReplyOf(r)
  /\ MessageHasObjects
  /\ PublishedExists
  /\ AnsweredIsPublished

RequestMoves(r) ==
  \/ RefuseRequest(r) \/ Find(r) \/ Compose(r) \/ Put(r) \/ Check(r) \/ Commit(r)
  \/ CommitThrows(r) \/ Raced(r) \/ Verify(r) \/ Delete(r) \/ Enqueue(r)
  \/ EnqueueThrows(r) \/ ReadThrows(r) \/ StoreThrows(r) \/ Catch(r) \/ RequestDies(r)

-----------------------------------------------------------------------------
(* Types.                                                                  *)

LEMMA ComposeInitTyped == ComposeInit => ComposeTypeOK
<1>. SUFFICES ASSUME ComposeInit PROVE ComposeTypeOK
  OBVIOUS
<1>. USE DEF ComposeInit, KeyContract!Init, KeyContract!Unanswered
<1>1. result \in [Requests -> [message: Requests \cup {NoMessage}, created: BOOLEAN]]
  OBVIOUS
<1>2. reply \in [Requests -> [code: {"none", "200", "202", "error"},
                             message: Requests \cup {NoMessage}]]
  OBVIOUS
<1>3. step \in [Requests -> RequestStep] /\ faults \in 0..MaxFaults
  BY FaultsAssumption DEF RequestStep
<1>. QED BY <1>1, <1>2, <1>3 DEF ComposeTypeOK

LEMMA ThrowTyped ==
  ASSUME ComposeTypeOK, NEW r \in Requests, Throw(r)
  PROVE  /\ step' \in [Requests -> RequestStep]
         /\ reply' \in [Requests -> [code: {"none", "200", "202", "error"},
                                     message: Requests \cup {NoMessage}]]
<1>1. CASE step[r] \in Untried
  BY <1>1 DEF ComposeTypeOK, Throw, Proceed, Respond, KeyContract!Refusal, RequestStep
<1>2. CASE step[r] \notin Untried
  BY <1>2 DEF ComposeTypeOK, Throw, Proceed, RequestStep
<1>. QED BY <1>1, <1>2

LEMMA ReadThrowsTyped ==
  ASSUME ComposeTypeOK, NEW r \in Requests, ReadThrows(r)
  PROVE  ComposeTypeOK'
<1>1. faults' \in 0..MaxFaults /\ ambiguous' \in BOOLEAN
  BY FaultsAssumption DEF ComposeTypeOK, ReadThrows, Fault
<1>2. Throw(r) /\ UNCHANGED <<result, persisted, objects, message, published>>
  BY DEF ReadThrows
<1>. QED BY <1>1, <1>2, ThrowTyped DEF ComposeTypeOK

LEMMA StoreThrowsTyped ==
  ASSUME ComposeTypeOK, NEW r \in Requests, StoreThrows(r)
  PROVE  ComposeTypeOK'
<1>1. faults' \in 0..MaxFaults /\ objects' \in [Requests -> {"none", "some", "all"}]
  BY FaultsAssumption DEF ComposeTypeOK, StoreThrows, Fault
<1>2. Throw(r) /\ UNCHANGED <<result, persisted, message, published, ambiguous>>
  BY DEF StoreThrows
<1>. QED BY <1>1, <1>2, ThrowTyped DEF ComposeTypeOK

LEMMA StepTyped ==
  ASSUME ComposeTypeOK, NEW r \in Requests, RequestMoves(r),
         \A q \in Requests : step[q] \in {"again", "enqueue"} => result[q].message # NoMessage
  PROVE  ComposeTypeOK'
<1>. USE FaultsAssumption, RequestsAssumption
     DEF ComposeTypeOK, RequestStep, Proceed, Fault, Respond, Found, Throw, Untried, KeyContract!Refusal
<1>1. CASE RefuseRequest(r)
  BY <1>1 DEF RefuseRequest
<1>2. CASE Find(r)
  BY <1>2 DEF Find
<1>3. CASE Compose(r)
  BY <1>3 DEF Compose
<1>4. CASE Put(r)
  BY <1>4 DEF Put
<1>5. CASE Check(r)
  BY <1>5 DEF Check
<1>6. CASE Commit(r)
  BY <1>6 DEF Commit
<1>7. CASE CommitThrows(r)
  <2>1. message' \in Requests \cup {NoMessage} /\ ambiguous' \in BOOLEAN
    BY <1>7 DEF CommitThrows
  <2>2. faults' \in 0..MaxFaults
    BY <1>7 DEF CommitThrows
  <2>. QED BY <1>7, <2>1, <2>2 DEF CommitThrows
<1>8. CASE Raced(r)
  <2>1. CASE message = NoMessage
    BY <1>8, <2>1 DEF Raced
  <2>2. CASE message # NoMessage
    <3>1. /\ step' = [step EXCEPT ![r] = "delete"]
          /\ result' = [result EXCEPT ![r] = [message |-> message, created |-> FALSE]]
          /\ UNCHANGED <<persisted, reply, objects, message, published, ambiguous, faults>>
      BY <1>8, <2>2 DEF Raced
    <3>. QED BY <3>1
  <2>. QED BY <2>1, <2>2
<1>9. CASE Verify(r)
  <2>1. CASE message = r
    <3>1. /\ step' = [step EXCEPT ![r] = "enqueue"]
          /\ result' = [result EXCEPT ![r] = [message |-> message, created |-> TRUE]]
          /\ persisted' = [persisted EXCEPT ![r] = TRUE]
          /\ UNCHANGED <<reply, objects, message, published, ambiguous, faults>>
      BY <1>9, <2>1 DEF Verify
    <3>. QED BY <3>1
  <2>2. CASE message # r
    BY <1>9, <2>2 DEF Verify
  <2>. QED BY <2>1, <2>2
<1>10. CASE Delete(r)
  BY <1>10 DEF Delete
<1>11. CASE Enqueue(r)
  BY <1>11 DEF Enqueue
<1>12. CASE EnqueueThrows(r)
  BY <1>12 DEF EnqueueThrows
<1>13. CASE ReadThrows(r)
  <2>. HIDE DEF ComposeTypeOK
  <2>. QED BY <1>13, ReadThrowsTyped
<1>14. CASE StoreThrows(r)
  <2>. HIDE DEF ComposeTypeOK
  <2>. QED BY <1>14, StoreThrowsTyped
<1>15. CASE Catch(r)
  BY <1>15 DEF Catch
<1>16. CASE RequestDies(r)
  BY <1>16 DEF RequestDies
<1>. QED BY <1>1, <1>2, <1>3, <1>4, <1>5, <1>6, <1>7, <1>8, <1>9, <1>10, <1>11, <1>12, <1>13, <1>14, <1>15, <1>16 DEF RequestMoves
-----------------------------------------------------------------------------
(* What a step leaves alone.                                               *)

Same(q) ==
  /\ step'[q] = step[q] /\ objects'[q] = objects[q] /\ result'[q] = result[q]
  /\ persisted'[q] = persisted[q] /\ reply'[q] = reply[q]

\* The row is written once, by a request that commits.
RowStep(r) ==
  \/ message' = message
  \/ message = NoMessage /\ message' = r /\ step[r] = "commit"

LEMMA StepFrame ==
  ASSUME ComposeTypeOK, NEW r \in Requests, RequestMoves(r)
  PROVE  /\ \A q \in Requests \ {r} : Same(q)
         /\ RowStep(r)
         /\ ambiguous => ambiguous'
<1>. USE DEF ComposeTypeOK, Same, RowStep, Proceed, Respond, Found, Throw
<1>1. CASE RefuseRequest(r)
  BY <1>1 DEF RefuseRequest
<1>2. CASE Find(r)
  BY <1>2 DEF Find
<1>3. CASE Compose(r)
  BY <1>3 DEF Compose
<1>4. CASE Put(r)
  BY <1>4 DEF Put
<1>5. CASE Check(r)
  BY <1>5 DEF Check
<1>6. CASE Commit(r)
  BY <1>6 DEF Commit
<1>7. CASE CommitThrows(r)
  BY <1>7 DEF CommitThrows
<1>8. CASE Raced(r)
  BY <1>8 DEF Raced
<1>9. CASE Verify(r)
  BY <1>9 DEF Verify
<1>10. CASE Delete(r)
  BY <1>10 DEF Delete
<1>11. CASE Enqueue(r)
  BY <1>11 DEF Enqueue
<1>12. CASE EnqueueThrows(r)
  BY <1>12 DEF EnqueueThrows
<1>13. CASE ReadThrows(r)
  BY <1>13 DEF ReadThrows
<1>14. CASE StoreThrows(r)
  BY <1>14 DEF StoreThrows
<1>15. CASE Catch(r)
  BY <1>15 DEF Catch
<1>16. CASE RequestDies(r)
  BY <1>16 DEF RequestDies
<1>. QED BY <1>1, <1>2, <1>3, <1>4, <1>5, <1>6, <1>7, <1>8, <1>9, <1>10, <1>11, <1>12, <1>13, <1>14, <1>15, <1>16 DEF RequestMoves

\* The others keep their parts of the invariant whatever a request does.
LEMMA OthersKeep ==
  ASSUME ComposeTypeOK, NEW r \in Requests, NEW q \in Requests, Same(q),
         r # q, RowStep(r), ambiguous => ambiguous',
         ResultIsRow(q), OwnRow(q), OwnObjects(q), ReplyOf(q)
  PROVE  ResultIsRow(q)' /\ OwnRow(q)' /\ OwnObjects(q)' /\ ReplyOf(q)'
<1>1. ResultIsRow(q)'
  BY RequestsAssumption DEF ResultIsRow, Same, RowStep
<1>2. OwnRow(q)'
  BY RequestsAssumption DEF OwnRow, ResultIsRow, Same, RowStep
<1>3. OwnObjects(q)' /\ ReplyOf(q)'
  BY DEF OwnObjects, ReplyOf, Same
<1>. QED BY <1>1, <1>2, <1>3

LEMMA StepOwn ==
  ASSUME ComposeTypeOK, NEW r \in Requests, RequestMoves(r),
         ResultIsRow(r), OwnRow(r), OwnObjects(r), ReplyOf(r)
  PROVE  ResultIsRow(r)' /\ OwnRow(r)' /\ OwnObjects(r)' /\ ReplyOf(r)'
<1>. USE RequestsAssumption
     DEF ComposeTypeOK, ResultIsRow, OwnRow, OwnObjects, ReplyOf, Proceed, Fault, Respond, Found, Throw,
         Untried, KeyContract!Refusal, KeyContract!Unanswered
<1>1. CASE RefuseRequest(r)
  BY <1>1 DEF RefuseRequest
<1>2. CASE Find(r)
  BY <1>2 DEF Find
<1>3. CASE Compose(r)
  BY <1>3 DEF Compose
<1>4. CASE Put(r)
  BY <1>4 DEF Put
<1>5. CASE Check(r)
  BY <1>5 DEF Check
<1>6. CASE Commit(r)
  BY <1>6 DEF Commit
<1>7. CASE CommitThrows(r)
  BY <1>7 DEF CommitThrows
<1>8. CASE Raced(r)
  BY <1>8 DEF Raced
<1>9. CASE Verify(r)
  BY <1>9 DEF Verify
<1>10. CASE Delete(r)
  BY <1>10 DEF Delete
<1>11. CASE Enqueue(r)
  BY <1>11 DEF Enqueue
<1>12. CASE EnqueueThrows(r)
  BY <1>12 DEF EnqueueThrows
<1>13. CASE ReadThrows(r)
  <2>1. CASE step[r] = "find"
    BY <1>13, <2>1 DEF ReadThrows
  <2>2. CASE step[r] \in {"check", "raced", "verify"}
    BY <1>13, <2>2 DEF ReadThrows
  <2>. QED BY <1>13, <2>1, <2>2 DEF ReadThrows
<1>14. CASE StoreThrows(r)
  BY <1>14 DEF StoreThrows
<1>15. CASE Catch(r)
  BY <1>15 DEF Catch
<1>16. CASE RequestDies(r)
  BY <1>16 DEF RequestDies
<1>. QED BY <1>1, <1>2, <1>3, <1>4, <1>5, <1>6, <1>7, <1>8, <1>9, <1>10, <1>11, <1>12, <1>13, <1>14, <1>15, <1>16 DEF RequestMoves
LEMMA StepGlobals ==
  ASSUME ComposeInv, NEW r \in Requests, RequestMoves(r)
  PROVE  MessageHasObjects' /\ PublishedExists' /\ AnsweredIsPublished'
<1>. USE RequestsAssumption
     DEF ComposeInv, ComposeTypeOK, MessageHasObjects, PublishedExists, AnsweredIsPublished, Proceed, Respond,
         Found, Throw, Untried, KeyContract!Refusal
<1>1. CASE RefuseRequest(r)
  BY <1>1 DEF RefuseRequest, OwnRow, OwnObjects, ResultIsRow
<1>2. CASE Find(r)
  BY <1>2 DEF Find, OwnRow, OwnObjects, ResultIsRow
<1>3. CASE Compose(r)
  BY <1>3 DEF Compose, OwnRow, OwnObjects, ResultIsRow
<1>4. CASE Put(r)
  BY <1>4 DEF Put, OwnRow, OwnObjects, ResultIsRow
<1>5. CASE Check(r)
  BY <1>5 DEF Check, OwnRow, OwnObjects, ResultIsRow
<1>6. CASE Commit(r)
  BY <1>6 DEF Commit, OwnRow, OwnObjects, ResultIsRow
<1>7. CASE CommitThrows(r)
  BY <1>7 DEF CommitThrows, OwnRow, OwnObjects, ResultIsRow
<1>8. CASE Raced(r)
  BY <1>8 DEF Raced, OwnRow, OwnObjects, ResultIsRow
<1>9. CASE Verify(r)
  BY <1>9 DEF Verify, OwnRow, OwnObjects, ResultIsRow
<1>10. CASE Delete(r)
  BY <1>10 DEF Delete, OwnRow, OwnObjects, ResultIsRow
<1>11. CASE Enqueue(r)
  BY <1>11 DEF Enqueue, OwnRow, OwnObjects, ResultIsRow
<1>12. CASE EnqueueThrows(r)
  BY <1>12 DEF EnqueueThrows, OwnRow, OwnObjects, ResultIsRow
<1>13. CASE ReadThrows(r)
  BY <1>13 DEF ReadThrows, OwnRow, OwnObjects, ResultIsRow
<1>14. CASE StoreThrows(r)
  BY <1>14 DEF StoreThrows, OwnRow, OwnObjects, ResultIsRow
<1>15. CASE Catch(r)
  BY <1>15 DEF Catch, OwnRow, OwnObjects, ResultIsRow
<1>16. CASE RequestDies(r)
  BY <1>16 DEF RequestDies, OwnRow, OwnObjects, ResultIsRow
<1>. QED BY <1>1, <1>2, <1>3, <1>4, <1>5, <1>6, <1>7, <1>8, <1>9, <1>10, <1>11, <1>12, <1>13, <1>14, <1>15, <1>16 DEF RequestMoves

LEMMA ComposeNextInvariant == ComposeInv /\ [ComposeNext]_composeVars => ComposeInv'
<1>. SUFFICES ASSUME ComposeInv, [ComposeNext]_composeVars PROVE ComposeInv'
  OBVIOUS
<1>1. ASSUME NEW r \in Requests, RequestMoves(r) PROVE ComposeInv'
  <2>1. ComposeTypeOK'
    <3>1. \A q \in Requests : step[q] \in {"again", "enqueue"} => result[q].message # NoMessage
      BY DEF ComposeInv, ResultIsRow
    <3>. QED BY <1>1, <3>1, StepTyped DEF ComposeInv
  <2>2. ASSUME NEW q \in Requests
        PROVE  ResultIsRow(q)' /\ OwnRow(q)' /\ OwnObjects(q)' /\ ReplyOf(q)'
    <3>1. CASE q = r
      BY <1>1, <3>1, StepOwn DEF ComposeInv
    <3>2. CASE q # r
      <4>1. Same(q) /\ RowStep(r) /\ (ambiguous => ambiguous')
        BY <1>1, <3>2, StepFrame DEF ComposeInv
      <4>. QED BY <3>2, <4>1, OthersKeep DEF ComposeInv
    <3>. QED BY <3>1, <3>2
  <2>. QED BY <1>1, <2>1, <2>2, StepGlobals DEF ComposeInv
<1>2. CASE Recover
  BY <1>2 DEF Recover, requests, ComposeInv, ComposeTypeOK, ResultIsRow, OwnRow, OwnObjects, ReplyOf,
              MessageHasObjects, PublishedExists, AnsweredIsPublished
<1>3. CASE UNCHANGED composeVars
  BY <1>3 DEF composeVars, requests, ComposeInv, ComposeTypeOK, ResultIsRow, OwnRow, OwnObjects, ReplyOf,
              MessageHasObjects, PublishedExists, AnsweredIsPublished
<1>. QED BY <1>1, <1>2, <1>3 DEF ComposeNext, RequestMoves

LEMMA ComposeInitInvariant == ComposeInit => ComposeInv
<1>1. ComposeInit => \A r \in Requests : ResultIsRow(r) /\ OwnRow(r) /\ OwnObjects(r) /\ ReplyOf(r)
  <2>. SUFFICES ASSUME ComposeInit, NEW r \in Requests
                PROVE  ResultIsRow(r) /\ OwnRow(r) /\ OwnObjects(r) /\ ReplyOf(r)
    OBVIOUS
  <2>1. step[r] = "find" /\ objects[r] = "none" /\ persisted[r] = FALSE
    BY DEF ComposeInit
  <2>2. result[r] = [message |-> NoMessage, created |-> FALSE]
    BY DEF ComposeInit
  <2>3. message = NoMessage /\ reply[r] = KeyContract!Unanswered
    BY DEF ComposeInit, KeyContract!Init
  <2>. QED BY <2>1, <2>2, <2>3, RequestsAssumption
           DEF KeyContract!Unanswered, ResultIsRow, OwnRow, OwnObjects, ReplyOf
<1>2. ComposeInit => MessageHasObjects /\ PublishedExists /\ AnsweredIsPublished
  BY DEF ComposeInit, KeyContract!Init, KeyContract!Unanswered, MessageHasObjects, PublishedExists,
         AnsweredIsPublished
<1>. QED BY <1>1, <1>2, ComposeInitTyped DEF ComposeInv

-----------------------------------------------------------------------------
(* The theorems.                                                           *)

\* The invariant that is inductive: what each request knows of the row, of its
\* own objects and of its answer, together with the properties themselves.
THEOREM ComposeInvariance == ComposeSpec => []ComposeInv
BY ComposeInitInvariant, ComposeNextInvariant, PTL DEF ComposeSpec

\* Every reachable state is typed, for any set of requests.
THEOREM ComposeTypeCorrect == ComposeSpec => []ComposeTypeOK
<1>1. ComposeInv => ComposeTypeOK
  BY DEF ComposeInv
<1>. QED BY <1>1, ComposeInvariance, PTL

\* The committed message keeps all its objects, unless its request could not
\* learn that it was committed.
THEOREM MessageKeepsObjects == ComposeSpec => []MessageHasObjects
<1>1. ComposeInv => MessageHasObjects
  BY DEF ComposeInv
<1>. QED BY <1>1, ComposeInvariance, PTL

\* A request answered for another's message left no object behind.
THEOREM LosersCleanUp == ComposeSpec => []LosersLeaveNothing
<1>1. ComposeInv => LosersLeaveNothing
  BY DEF ComposeInv, LosersLeaveNothing, ReplyOf, ResultIsRow
<1>. QED BY <1>1, ComposeInvariance, PTL

\* No Queue copy precedes the commit of the row that it names.
THEOREM PublishedAfterCommit == ComposeSpec => []PublishedExists
<1>1. ComposeInv => PublishedExists
  BY DEF ComposeInv
<1>. QED BY <1>1, ComposeInvariance, PTL

\* A successful answer was preceded by the publication of what it names.
THEOREM AnsweredAfterPublish == ComposeSpec => []AnsweredIsPublished
<1>1. ComposeInv => AnsweredIsPublished
  BY DEF ComposeInv
<1>. QED BY <1>1, ComposeInvariance, PTL

LEMMA StepKeepsContract ==
  ASSUME ComposeInv, NEW r \in Requests, RequestMoves(r)
  PROVE  [KeyContract!Next]_KeyContract!contractVars
<1>. USE DEF KeyContract!contractVars, Proceed, Respond, Found, Throw
<1>t. /\ reply[r] = KeyContract!Unanswered \/ step[r] = "done"
      /\ DOMAIN reply = Requests
  BY DEF ComposeInv, ReplyOf, ComposeTypeOK
<1>1. CASE UNCHANGED <<message, reply>>
  BY <1>1
<1>2. ASSUME step[r] # "done", UNCHANGED message,
             reply' = [reply EXCEPT ![r] = KeyContract!Refusal]
      PROVE  KeyContract!Next
  BY <1>t, <1>2 DEF KeyContract!Next, KeyContract!Respond
<1>3. CASE RefuseRequest(r) \/ EnqueueThrows(r) \/ ReadThrows(r) \/ StoreThrows(r)
  BY <1>1, <1>2, <1>3 DEF RefuseRequest, EnqueueThrows, ReadThrows, StoreThrows
<1>4. CASE Catch(r)
  BY <1>2, <1>4 DEF Catch
<1>5. CASE Commit(r) \/ CommitThrows(r)
  BY <1>1, <1>5 DEF Commit, CommitThrows, KeyContract!Next, KeyContract!Create
<1>6. CASE Enqueue(r)
  <2>1. /\ message # NoMessage /\ result[r].message = message
        /\ result[r].created => r = message
        /\ result[r].created \in BOOLEAN
    BY <1>6 DEF Enqueue, ComposeInv, ResultIsRow, ComposeTypeOK
  <2>2. KeyContract!Answer(r)
    BY <1>t, <1>6, <2>1 DEF Enqueue, KeyContract!Answer, KeyContract!Respond
  <2>. QED BY <2>2 DEF KeyContract!Next
<1>7. CASE \/ Find(r) \/ Compose(r) \/ Put(r) \/ Check(r) \/ Raced(r) \/ Verify(r)
          \/ Delete(r) \/ RequestDies(r)
  BY <1>1, <1>7 DEF Find, Compose, Put, Check, Raced, Verify, Delete, RequestDies
<1>. QED BY <1>3, <1>4, <1>5, <1>6, <1>7 DEF RequestMoves

\* Concurrent and repeated requests, whatever fails, keep the contract of the
\* Idempotency-Key: one message, and no answer that names another.
THEOREM ImplementsKeyContract == ComposeSpec => KeepsKeyContract
<1>1. ComposeInit => KeyContract!Init
  BY DEF ComposeInit
<1>2. ComposeInv /\ [ComposeNext]_composeVars => [KeyContract!Next]_KeyContract!contractVars
  BY StepKeepsContract
  DEF ComposeNext, RequestMoves, Recover, requests, composeVars, KeyContract!contractVars
<1>. QED BY <1>1, <1>2, ComposeInvariance, PTL DEF ComposeSpec, KeepsKeyContract, KeyContract!Spec
=============================================================================
