------------------------------ MODULE Retention ------------------------------
(***************************************************************************)
(* Permanent deletion: an administrator freezes the old trash of a mailbox *)
(* into a preview and approves it; the Cron task 'retention' then claims   *)
(* one item at a time under a lease, removes the message's rows from D1    *)
(* and, chunk by chunk, its objects from R2.  Meanwhile its owner may      *)
(* restore, star or unstar a message, and a task may outlive its lease.    *)
(* D1 runs one statement, or one batch, and R2 one call, atomically.  The  *)
(* ids of messages are never used again, and no two share an object.       *)
(***************************************************************************)
EXTENDS Naturals

CONSTANTS Messages, Runs,  \* a run is one request for a preview
          Workers,         \* invocations of the task that may overlap
          Nobody,          \* the empty lease_owner
          NoWork,          \* the work of an idle worker
          Chunks,          \* chunks of up to 20 keys that a message has in R2
          MaxAttempts,     \* claims after which a failure is final (5)
          MaxFaults,       \* bound: failed calls, lost answers, deaths
          MaxOverruns,     \* bound: leases that end while their worker lives
          MaxEdits         \* bound: changes that the mailbox's users make

ASSUME NobodyAssumption == Nobody \notin Workers /\ NoWork \notin Runs \X Messages
ASSUME BoundsAssumption == /\ Chunks \in Nat \ {0}
                           /\ MaxAttempts \in Nat \ {0}
                           /\ MaxFaults \in Nat
                           /\ MaxOverruns \in Nat
                           /\ MaxEdits \in Nat

VARIABLES row,       \* the messages row
          left,      \* the chunks of the message that R2 still holds
          run,       \* retention_runs.status
          excludes,  \* its snapshot of exclude_starred (exclude_labeled)
          frozen,    \* the candidates its request selected
          creator,   \* the next step of createRetentionPreview
          item,      \* retention_run_items
          pc, work,  \* the next step of each worker, and the item it reads or claimed
          seen,      \* the claimed item's status and index, as the worker read them
          approved,  \* runs an administrator approved and did not cancel
          late,      \* messages removed by a worker that had lost its item
          faults, overruns, edits

mailbox == <<row, left>>
request == <<run, excludes, frozen, creator, approved>>
workers == <<pc, work, seen>>
bounds  == <<faults, overruns, edits>>
vars    == <<mailbox, request, item, workers, late, bounds>>

\* In the trash since before the cutoff; the same, but starred, labelled or
\* back in the outbound queue; out of the trash, so never that old again.
Row    == {"trash", "starred", "restored", "removed"}
Active == {"building", "preview", "approved", "running"}
RunStatus  == Active \cup {"none", "completed", "failed", "cancelled"}
ItemStatus == {"none", "candidate", "d1_deleted", "completed", "skipped", "failed"}
\* attempts only counts as far as it is compared.
Item   == [status: ItemStatus, index: 0..Chunks, owner: Workers \cup {Nobody},
           over: BOOLEAN, attempts: 0..MaxAttempts]
NoItem == [status |-> "none", index |-> 0, owner |-> Nobody, over |-> FALSE, attempts |-> 0]

Init ==
  /\ row \in [Messages -> {"trash", "starred"}]
  /\ left = [m \in Messages |-> 1..Chunks]
  /\ run = [r \in Runs |-> "none"]
  /\ excludes \in [Runs -> BOOLEAN]
  /\ frozen = [r \in Runs |-> {}]
  /\ creator = [r \in Runs |-> "check"]
  /\ item = [r \in Runs |-> [m \in Messages |-> NoItem]]
  /\ pc = [w \in Workers |-> "idle"]
  /\ work = [w \in Workers |-> NoWork]
  /\ seen = [w \in Workers |-> NoItem]
  /\ approved = {}
  /\ late = {}
  /\ faults = 0
  /\ overruns = 0
  /\ edits = 0

Fault == faults < MaxFaults /\ faults' = faults + 1

\* The conditions that selectCandidates and the DELETE share.
Eligible(m, r) == row[m] = "trash" \/ (row[m] = "starred" /\ ~ excludes[r])

-----------------------------------------------------------------------------
(* createRetentionPreview.  A statement that throws, before or after it    *)
(* took effect, leads to the catch block once the row is there.            *)

CreatorAt(r, label) == creator' = [creator EXCEPT ![r] = label]

\* The call returns, or its answer is lost.
CreatorGoes(r, label) ==
  \/ CreatorAt(r, label) /\ UNCHANGED faults
  \/ Fault /\ CreatorAt(r, "catch")

CheckActive(r) ==
  /\ creator[r] = "check"
  /\ \A other \in Runs : run[other] \notin Active
  /\ CreatorAt(r, "insert")
  /\ UNCHANGED <<mailbox, run, excludes, frozen, approved, item, workers, late, bounds>>

InsertRun(r) ==
  /\ creator[r] = "insert"
  /\ run' = [run EXCEPT ![r] = "building"]
  /\ CreatorAt(r, "select")
  /\ UNCHANGED <<mailbox, excludes, frozen, approved, item, workers, late, bounds>>

\* The request's limit, at least one, may leave some of them out.
SelectCandidates(r) ==
  LET eligible == {m \in Messages : Eligible(m, r)} IN
  /\ creator[r] = "select"
  /\ \E chosen \in SUBSET eligible :
       /\ chosen = {} => eligible = {}
       /\ frozen' = [frozen EXCEPT ![r] = chosen]
  /\ CreatorAt(r, "freeze")
  /\ UNCHANGED <<mailbox, run, excludes, approved, item, workers, late, bounds>>

InsertItems(r) ==
  /\ creator[r] = "freeze"
  /\ item' = [item EXCEPT ![r] = [m \in Messages |->
                IF m \in frozen[r] THEN [NoItem EXCEPT !.status = "candidate"] ELSE NoItem]]
  /\ CreatorGoes(r, "publish")
  /\ UNCHANGED <<mailbox, run, excludes, frozen, approved, workers, late, overruns, edits>>

PublishPreview(r) ==
  /\ creator[r] = "publish"
  /\ run' = [run EXCEPT ![r] = IF @ = "building" THEN "preview" ELSE @]
  /\ CreatorGoes(r, "done")
  /\ UNCHANGED <<mailbox, excludes, frozen, approved, item, workers, late, overruns, edits>>

\* UPDATE ... SET status = 'failed' WHERE id = ?, whatever the status is by now.
CatchPreview(r) ==
  /\ creator[r] = "catch"
  /\ run' = [run EXCEPT ![r] = "failed"]
  /\ CreatorAt(r, "done")
  /\ UNCHANGED <<mailbox, excludes, frozen, approved, item, workers, late, bounds>>

CreatorThrows(r) ==
  /\ creator[r] \in {"select", "freeze", "publish"}
  /\ Fault
  /\ CreatorAt(r, "catch")
  /\ UNCHANGED <<mailbox, run, excludes, frozen, approved, item, workers, late, overruns, edits>>

\* The invocation dies, or the catch block throws: the run stays as it is.
CreatorDies(r) ==
  /\ creator[r] \notin {"check", "done"}
  /\ Fault
  /\ CreatorAt(r, "done")
  /\ UNCHANGED <<mailbox, run, excludes, frozen, approved, item, workers, late, overruns, edits>>

-----------------------------------------------------------------------------
(* The administrator.                                                      *)

\* An empty preview cannot be approved.
Approve(r) ==
  /\ run[r] = "preview"
  /\ frozen[r] # {}
  /\ run' = [run EXCEPT ![r] = "approved"]
  /\ approved' = approved \cup {r}
  /\ UNCHANGED <<mailbox, excludes, frozen, creator, item, workers, late, bounds>>

\* Cancels a run that has begun, too.
Cancel_Running(r) ==
  /\ run[r] \in {"preview", "approved", "running"}
  /\ run' = [run EXCEPT ![r] = "cancelled"]
  /\ approved' = approved \ {r}
  /\ UNCHANGED <<mailbox, excludes, frozen, creator, item, workers, late, bounds>>

Cancel(r) ==
  /\ run[r] \in {"preview", "approved"}
  /\ run' = [run EXCEPT ![r] = "cancelled"]
  /\ approved' = approved \ {r}
  /\ UNCHANGED <<mailbox, excludes, frozen, creator, item, workers, late, bounds>>

-----------------------------------------------------------------------------
(* The users of the mailbox.                                               *)

Edit(m, from, to) ==
  /\ edits < MaxEdits
  /\ edits' = edits + 1
  /\ row[m] \in from
  /\ row' = [row EXCEPT ![m] = to]
  /\ UNCHANGED <<left, request, item, workers, late, faults, overruns>>

Star(m)    == Edit(m, {"trash"}, "starred")
Unstar(m)  == Edit(m, {"starred"}, "trash")
Restore(m) == Edit(m, {"trash", "starred"}, "restored")

-----------------------------------------------------------------------------
(* processApprovedRetentionRuns: at most one work unit, then finalize.     *)

At(w, label) == pc' = [pc EXCEPT ![w] = label]

\* The call returns, or its answer is lost and the catch block follows.
Goes(w, label) ==
  \/ At(w, label) /\ UNCHANGED faults
  \/ Fault /\ At(w, "fail")

RunOf(w)     == work[w][1]
MessageOf(w) == work[w][2]
ItemOf(w)    == item[RunOf(w)][MessageOf(w)]
SetItem(w, it) == item' = [item EXCEPT ![RunOf(w)][MessageOf(w)] = it]

Pending(it) == it.status \in {"candidate", "d1_deleted"}
\* Forgets the leases that ran out.
Claimable_FreeOnly(it) == Pending(it) /\ it.owner = Nobody

Claimable(it) == Pending(it) /\ (it.owner = Nobody \/ it.over)

\* The claim's first statement: one approved run, if any, begins to run.
Start(w) ==
  /\ pc[w] = "idle"
  /\ At(w, "pick")
  /\ \/ \E r \in Runs : run[r] = "approved" /\ run' = [run EXCEPT ![r] = "running"]
     \/ (\A r \in Runs : run[r] # "approved") /\ UNCHANGED run
  /\ UNCHANGED <<mailbox, excludes, frozen, creator, approved, item, work, seen, late, bounds>>

Pick(w) ==
  /\ pc[w] = "pick"
  /\ \E r \in Runs, m \in Messages :
       /\ run[r] = "running"
       /\ Claimable(item[r][m])
       /\ work' = [work EXCEPT ![w] = <<r, m>>]
  /\ At(w, "claim")
  /\ UNCHANGED <<mailbox, request, item, seen, late, bounds>>

PickNothing(w) ==
  /\ pc[w] = "pick"
  /\ \A r \in Runs, m \in Messages : run[r] = "running" => ~ Claimable(item[r][m])
  /\ At(w, "finalize")
  /\ UNCHANGED <<mailbox, request, item, work, seen, late, bounds>>

Claimed(w) ==
  [ItemOf(w) EXCEPT !.owner = w, !.over = FALSE,
     !.attempts = IF @ < MaxAttempts THEN @ + 1 ELSE @]

\* The UPDATE asks the picked item again, and the row is read by its owner.
Claim(w) ==
  /\ pc[w] = "claim"
  /\ Claimable(ItemOf(w))
  /\ SetItem(w, Claimed(w))
  /\ seen' = [seen EXCEPT ![w] = Claimed(w)]
  /\ At(w, IF ItemOf(w).status = "candidate" THEN "metadata" ELSE "objects")
  /\ UNCHANGED <<mailbox, request, work, late, bounds>>

ClaimLost(w) ==
  /\ pc[w] = "claim"
  /\ ~ Claimable(ItemOf(w))
  /\ At(w, "finalize")
  /\ UNCHANGED <<mailbox, request, item, work, seen, late, bounds>>

-----------------------------------------------------------------------------
Owns(w) == ItemOf(w).owner = w

\* deleteRetentionMetadata: the DELETE asks for the message only, the UPDATE of
\* the item in the same batch for its owner; a lost item is an error, after the
\* batch took effect.
DeleteMetadata(w) ==
  LET m == MessageOf(w)
      gone == row[m] = "removed" \/ Eligible(m, RunOf(w))
      mine == Owns(w) /\ ItemOf(w).status = "candidate"
  IN
  /\ pc[w] = "metadata"
  /\ row' = [row EXCEPT ![m] = IF gone THEN "removed" ELSE @]
  /\ late' = IF ~ mine /\ Eligible(m, RunOf(w)) THEN late \cup {m} ELSE late
  /\ \/ /\ mine /\ gone
        /\ SetItem(w, [ItemOf(w) EXCEPT !.status = "d1_deleted"])
        /\ Goes(w, "objects")
     \/ /\ mine /\ ~ gone
        /\ SetItem(w, [ItemOf(w) EXCEPT !.status = "skipped", !.owner = Nobody, !.over = FALSE])
        /\ Goes(w, "finalize")
     \/ /\ ~ mine
        /\ At(w, "fail")
        /\ UNCHANGED <<item, faults>>
  /\ UNCHANGED <<left, request, work, seen, overruns, edits>>

\* unreferencedRetentionObjectKeys and R2's delete: the chunk goes if no row
\* names it.  The rows of this message do not come back, so the two are one.
DeleteObjects(w) ==
  LET m == MessageOf(w) IN
  /\ pc[w] = "objects"
  /\ left' = [left EXCEPT ![m] =
                IF row[m] = "removed" THEN @ \ {seen[w].index + 1} ELSE @]
  /\ Goes(w, "advance")
  /\ UNCHANGED <<row, request, item, work, seen, late, overruns, edits>>

\* Takes the chunk before the last one for the last.
Advanced_OneShort(w) ==
  [ItemOf(w) EXCEPT !.index = seen[w].index + 1, !.owner = Nobody, !.over = FALSE,
     !.status = IF seen[w].index + 2 >= Chunks THEN "completed" ELSE "d1_deleted"]

\* The next chunk is due, or the item is completed.
Advanced(w) ==
  [ItemOf(w) EXCEPT !.index = seen[w].index + 1, !.owner = Nobody, !.over = FALSE,
     !.status = IF seen[w].index + 1 >= Chunks THEN "completed" ELSE "d1_deleted"]

\* An update that finds another owner changes nothing and is not an error.
Advance(w) ==
  /\ pc[w] = "advance"
  /\ \/ Owns(w) /\ ItemOf(w).status = "d1_deleted" /\ SetItem(w, Advanced(w))
     \/ ~ (Owns(w) /\ ItemOf(w).status = "d1_deleted") /\ UNCHANGED item
  /\ Goes(w, "finalize")
  /\ UNCHANGED <<mailbox, request, work, seen, late, overruns, edits>>

Failed(it) ==
  [it EXCEPT !.owner = Nobody, !.over = FALSE,
     !.status = IF it.attempts >= MaxAttempts THEN "failed" ELSE @]

\* failRetentionWork
FailWork(w) ==
  /\ pc[w] = "fail"
  /\ \/ Owns(w) /\ SetItem(w, Failed(ItemOf(w)))
     \/ ~ Owns(w) /\ UNCHANGED item
  /\ At(w, "finalize")
  /\ UNCHANGED <<mailbox, request, work, seen, late, bounds>>

\* Looks for candidates only.
Outcome_ForgetsDeleted(r) ==
  IF run[r] # "running" \/ \E m \in Messages : item[r][m].status = "candidate"
    THEN run[r]
    ELSE IF \E m \in Messages : item[r][m].status = "failed" THEN "failed" ELSE "completed"

\* What a run becomes when it has no pending items.
Outcome(r) ==
  IF run[r] # "running" \/ \E m \in Messages : Pending(item[r][m])
    THEN run[r]
    ELSE IF \E m \in Messages : item[r][m].status = "failed" THEN "failed" ELSE "completed"

\* finalizeRetentionRuns
Finalize(w) ==
  /\ pc[w] = "finalize"
  /\ run' = [r \in Runs |-> Outcome(r)]
  /\ At(w, "idle")
  /\ work' = [work EXCEPT ![w] = NoWork]
  /\ seen' = [seen EXCEPT ![w] = NoItem]
  /\ UNCHANGED <<mailbox, excludes, frozen, creator, approved, item, late, bounds>>

\* A call inside the try block throws before it takes effect.
Throws(w) ==
  /\ pc[w] \in {"metadata", "objects", "advance"}
  /\ Fault
  /\ At(w, "fail")
  /\ UNCHANGED <<mailbox, request, item, work, seen, late, overruns, edits>>

\* The invocation dies, or a call outside the try block throws.
Dies(w) ==
  /\ pc[w] # "idle"
  /\ Fault
  /\ At(w, "idle")
  /\ work' = [work EXCEPT ![w] = NoWork]
  /\ seen' = [seen EXCEPT ![w] = NoItem]
  /\ UNCHANGED <<mailbox, request, item, late, overruns, edits>>

-----------------------------------------------------------------------------
(* Two minutes pass.                                                       *)

\* The worker of the item's lease is still at it.
Alive(r, m) == \E w \in Workers : item[r][m].owner = w /\ work[w] = <<r, m>> /\ pc[w] # "claim"

LeaseEnds(r, m) ==
  /\ item[r][m].owner # Nobody
  /\ ~ item[r][m].over
  /\ item' = [item EXCEPT ![r][m].over = TRUE]
  /\ \/ ~ Alive(r, m) /\ UNCHANGED overruns
     \/ Alive(r, m) /\ overruns < MaxOverruns /\ overruns' = overruns + 1
  /\ UNCHANGED <<mailbox, request, workers, late, faults, edits>>

CreatorStep(r) ==
  \/ CheckActive(r) \/ InsertRun(r) \/ SelectCandidates(r) \/ InsertItems(r)
  \/ PublishPreview(r) \/ CatchPreview(r)

WorkerStep(w) ==
  \/ Start(w) \/ Pick(w) \/ PickNothing(w) \/ Claim(w) \/ ClaimLost(w)
  \/ DeleteMetadata(w) \/ DeleteObjects(w) \/ Advance(w) \/ FailWork(w) \/ Finalize(w)

Next ==
  \/ \E r \in Runs : CreatorStep(r) \/ CreatorThrows(r) \/ CreatorDies(r)
  \/ \E r \in Runs : Approve(r) \/ Cancel(r)
  \/ \E m \in Messages : Star(m) \/ Unstar(m) \/ Restore(m)
  \/ \E w \in Workers : WorkerStep(w) \/ Throws(w) \/ Dies(w)
  \/ \E r \in Runs, m \in Messages : LeaseEnds(r, m)

Spec == Init /\ [][Next]_vars

\* The Cron trigger keeps starting the task and an invocation goes on until it
\* ends or dies; leases end.
Fairness ==
  /\ \A w \in Workers : WF_vars(WorkerStep(w))
  /\ \A r \in Runs, m \in Messages : WF_vars(LeaseEnds(r, m))

FairSpec == Spec /\ Fairness

-----------------------------------------------------------------------------
(* Properties.                                                             *)

TypeOK ==
  /\ row \in [Messages -> Row]
  /\ left \in [Messages -> SUBSET (1..Chunks)]
  /\ run \in [Runs -> RunStatus]
  /\ excludes \in [Runs -> BOOLEAN]
  /\ frozen \in [Runs -> SUBSET Messages]
  /\ creator \in [Runs -> {"check", "insert", "select", "freeze", "publish", "catch", "done"}]
  /\ item \in [Runs -> [Messages -> Item]]
  /\ pc \in [Workers -> {"idle", "pick", "claim", "metadata", "objects", "advance",
                         "fail", "finalize"}]
  /\ work \in [Workers -> (Runs \X Messages) \cup {NoWork}]
  /\ seen \in [Workers -> Item]
  /\ approved \subseteq Runs
  /\ late \subseteq Messages
  /\ faults \in 0..MaxFaults
  /\ overruns \in 0..MaxOverruns
  /\ edits \in 0..MaxEdits

\* ADR 0015: no interruption and no race of two workers exposes a message in D1
\* whose content has begun to disappear from R2.
ContentKept == \A m \in Messages : row[m] # "removed" => left[m] = 1..Chunks

\* Some item will lead a worker to the message's objects.
CleanupDue(m) == \E r \in Runs : run[r] = "running" /\ Pending(item[r][m])

\* The administrator is told: the item, or its whole run, has failed.
Reported(m) ==
  \E r \in approved : item[r][m].status = "failed" \/ (run[r] = "failed" /\ Pending(item[r][m]))

\* Objects of a removed message stay in R2 only while an item is about to remove
\* them, or where a failure is reported, unless a worker that had lost its item
\* removed the message.
NothingOrphaned ==
  \A m \in Messages \ late :
    row[m] = "removed" /\ left[m] # {} => CleanupDue(m) \/ Reported(m)

\* A message disappears only while it is eligible under the snapshot of a run
\* that an administrator approved, has not cancelled, and saw with this message
\* in it: whatever was restored, starred or cancelled in time survives.
RemovalIsAuthorised ==
  [][\A m \in Messages : row[m] # "removed" /\ row'[m] = "removed" =>
       \E r \in approved : Eligible(m, r) /\ m \in frozen[r]
                           /\ run[r] \notin {"approved", "cancelled"}]_vars

\* A completed run tells the truth: each of its messages was skipped, or is gone
\* from D1 and R2.
CompletedIsGone ==
  \A r \in Runs, m \in Messages : run[r] = "completed" /\ m \in frozen[r] =>
    \/ item[r][m].status = "skipped"
    \/ item[r][m].status = "completed" /\ row[m] = "removed" /\ left[m] = {}

\* An approved run ends, or is cancelled, whatever dies and however many chunks
\* its messages have.
ApprovedEnds == \A r \in Runs : run[r] = "approved" ~> run[r] \notin Active

\* What ADR 0015 says of the item of a message that was removed: it lets another
\* invocation resume, so that no object is left behind unreported.
RemovedIsCleaned ==
  \A m \in Messages : row[m] = "removed" /\ left[m] # {} => CleanupDue(m) \/ Reported(m)
=============================================================================
