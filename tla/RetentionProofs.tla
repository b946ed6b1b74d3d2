--------------------------- MODULE RetentionProofs ---------------------------
(***************************************************************************)
(* Theorems about Retention for every set of messages, runs and workers    *)
(* and every value of the bounds.                                          *)
(***************************************************************************)
EXTENDS Retention, TLAPS

(* The inductive invariant.                                                *)

Deleting == {"metadata", "objects", "advance"}
Busy     == Deleting \cup {"claim", "fail"}

\* A worker that goes on has an item to go on with.
WorkKnown == \A w \in Workers : pc[w] \in Busy => work[w] \in Runs \X Messages

\* A pending item has a chunk left to remove.
IndexBelow ==
  /\ \A r \in Runs, m \in Messages : Pending(item[r][m]) => item[r][m].index < Chunks
  /\ \A w \in Workers : pc[w] \in Deleting => seen[w].index < Chunks

Typed == TypeOK /\ WorkKnown /\ IndexBelow

\* What a creator has done so far.
Created ==
  \A r \in Runs :
    /\ creator[r] \in {"check", "insert"} => run[r] = "none"
    /\ creator[r] \in {"select", "freeze", "publish"} => run[r] = "building"
    /\ creator[r] \in {"check", "insert", "select", "freeze"}
         => \A m \in Messages : item[r][m] = NoItem

\* A preview that was shown is complete, and no item is outside it.
Shown ==
  \A r \in Runs, m \in Messages :
    /\ item[r][m].status # "none" => m \in frozen[r]
    /\ (creator[r] = "publish" \/ run[r] \in {"preview", "approved", "running", "completed"})
         /\ m \in frozen[r] => item[r][m].status # "none"

\* A run that was begun, whatever became of it, in the hands of a worker.
Begun(r) == r \in approved /\ run[r] \in {"running", "completed", "failed"}

Consented ==
  /\ \A r \in Runs : run[r] \in {"approved", "running", "completed"} => r \in approved
  /\ \A w \in Workers : pc[w] \in Busy => Begun(RunOf(w)) /\ MessageOf(w) \in frozen[RunOf(w)]

Authorised == Created /\ Shown /\ Consented

\* Only pending items are leased, and a completed run has none, nor a failed one.
Leased ==
  \A r \in Runs, m \in Messages :
    /\ ~ Pending(item[r][m]) => item[r][m].owner = Nobody
    /\ run[r] = "completed" => item[r][m].status \in {"none", "skipped", "completed"}

\* The chunks below an item's index are gone, and its message before them.
ItemTrue ==
  \A r \in Runs, m \in Messages :
    /\ item[r][m].status = "candidate" => item[r][m].index = 0
    /\ item[r][m].status = "d1_deleted"
         => row[m] = "removed" /\ \A k \in left[m] : k > item[r][m].index
    /\ item[r][m].status = "completed" => row[m] = "removed" /\ left[m] = {}

\* A worker that holds the lease works on the chunk that is due.
WorkTrue ==
  \A w \in Workers :
    /\ pc[w] \in {"objects", "advance"} => row[MessageOf(w)] = "removed"
    /\ pc[w] = "advance" => seen[w].index + 1 \notin left[MessageOf(w)]
    /\ pc[w] \in Deleting /\ Owns(w) => ItemOf(w).index = seen[w].index

\* The item that removed a message is still known.
Tracked ==
  \A m \in Messages \ late : row[m] = "removed" =>
    \E r \in Runs : /\ Begun(r)
                    /\ item[r][m].status \in {"d1_deleted", "completed", "failed"}

Truthful == Leased /\ ItemTrue /\ WorkTrue /\ Tracked /\ ContentKept

Inv == Typed /\ Authorised /\ Truthful

-----------------------------------------------------------------------------
(* Facts about the operators.                                              *)

LEMMA NoItemTyped == NoItem \in Item /\ ~ Pending(NoItem)
BY BoundsAssumption DEF NoItem, Item, ItemStatus, Pending

\* A busy worker's item is an item, and SetItem changes it and no other.
LEMMA ItemChanges ==
  ASSUME Typed, NEW w \in Workers, pc[w] \in Busy, NEW it \in Item
  PROVE  /\ RunOf(w) \in Runs /\ MessageOf(w) \in Messages
         /\ ItemOf(w) \in Item
         /\ SetItem(w, it) =>
              /\ item' \in [Runs -> [Messages -> Item]]
              /\ item'[RunOf(w)][MessageOf(w)] = it
              /\ \A r \in Runs, m \in Messages :
                   item'[r][m] # item[r][m] => r = RunOf(w) /\ m = MessageOf(w)
<1>1. RunOf(w) \in Runs /\ MessageOf(w) \in Messages
  BY DEF Typed, WorkKnown, RunOf, MessageOf
<1>2. ItemOf(w) \in Item
  BY <1>1 DEF Typed, TypeOK, ItemOf
<1>3. ASSUME SetItem(w, it)
      PROVE  /\ item' \in [Runs -> [Messages -> Item]]
             /\ item'[RunOf(w)][MessageOf(w)] = it
             /\ \A r \in Runs, m \in Messages :
                  item'[r][m] # item[r][m] => r = RunOf(w) /\ m = MessageOf(w)
  BY <1>1, <1>3 DEF Typed, TypeOK, SetItem
<1>. QED BY <1>1, <1>2, <1>3

\* The items that the workers' steps write.
LEMMA ItemsWritten ==
  ASSUME Typed, NEW w \in Workers, pc[w] \in Busy
  PROVE  /\ Claimable(ItemOf(w)) => Claimed(w) \in Item
         /\ pc[w] \in Deleting => Advanced(w) \in Item
         /\ Failed(ItemOf(w)) \in Item
         /\ [ItemOf(w) EXCEPT !.status = "d1_deleted"] \in Item
         /\ [ItemOf(w) EXCEPT !.status = "skipped", !.owner = Nobody, !.over = FALSE] \in Item
<1>. DEFINE i == ItemOf(w)
<1>1. /\ i \in Item /\ i.index \in 0..Chunks /\ i.attempts \in 0..MaxAttempts
      /\ i.status \in ItemStatus /\ i.owner \in Workers \cup {Nobody} /\ i.over \in BOOLEAN
  <2>1. i \in Item
    BY ItemChanges, NoItemTyped
  <2>. QED BY <2>1 DEF Item
<1>. HIDE DEF i
<1>2. IF i.attempts < MaxAttempts THEN i.attempts + 1 \in 0..MaxAttempts
                                  ELSE i.attempts \in 0..MaxAttempts
  BY <1>1, BoundsAssumption
<1>3. Claimed(w) \in Item
  BY <1>1, <1>2 DEF Claimed, Item, i
<1>4. ASSUME pc[w] \in Deleting PROVE Advanced(w) \in Item
  <2>1. seen[w].index + 1 \in 0..Chunks
    BY <1>4, BoundsAssumption DEF Typed, TypeOK, IndexBelow, Item
  <2>2. {"completed", "d1_deleted"} \subseteq ItemStatus
    BY DEF ItemStatus
  <2>. QED BY <1>1, <2>1, <2>2 DEF Advanced, Item, i
<1>5. Failed(i) \in Item
  BY <1>1 DEF Failed, Item, ItemStatus
<1>6. /\ [i EXCEPT !.status = "d1_deleted"] \in Item
      /\ [i EXCEPT !.status = "skipped", !.owner = Nobody, !.over = FALSE] \in Item
  BY <1>1 DEF Item, ItemStatus
<1>. QED BY <1>3, <1>4, <1>5, <1>6 DEF i

-----------------------------------------------------------------------------
(* Types.                                                                  *)

LEMMA InitTyped == Init => Typed
<1>. SUFFICES ASSUME Init PROVE Typed
  OBVIOUS
<1>1. TypeOK
  BY NoItemTyped, BoundsAssumption DEF Init, TypeOK, Row, RunStatus, Active
<1>2. WorkKnown /\ IndexBelow
  BY NoItemTyped DEF Init, WorkKnown, IndexBelow, Busy, Deleting
<1>. QED BY <1>1, <1>2 DEF Typed

\* Where a creator goes, and the fault that may take it to its catch block.
LEMMA CreatorGoesTyped ==
  ASSUME TypeOK, NEW r \in Runs, NEW label \in {"publish", "done"}, CreatorGoes(r, label)
  PROVE  /\ creator' \in [Runs -> {"check", "insert", "select", "freeze", "publish", "catch", "done"}]
         /\ faults' \in 0..MaxFaults
<1>. USE DEF TypeOK
<1>1. CASE CreatorAt(r, label) /\ UNCHANGED faults
  BY <1>1 DEF CreatorAt
<1>2. CASE Fault /\ CreatorAt(r, "catch")
  <2>1. creator' \in [Runs -> {"check", "insert", "select", "freeze", "publish", "catch", "done"}]
    BY <1>2 DEF CreatorAt
  <2>2. faults' \in 0..MaxFaults
    BY <1>2, BoundsAssumption DEF Fault
  <2>. QED BY <2>1, <2>2
<1>. QED BY <1>1, <1>2 DEF CreatorGoes

LEMMA RequestTyped ==
  ASSUME Typed,
         \/ \E r \in Runs : CreatorStep(r) \/ CreatorThrows(r) \/ CreatorDies(r)
         \/ \E r \in Runs : Approve(r) \/ Cancel(r)
         \/ \E m \in Messages : Star(m) \/ Unstar(m) \/ Restore(m)
  PROVE  Typed'
<1>. USE BoundsAssumption
     DEF mailbox, request, workers, bounds, CreatorAt, Fault
<1>1. ASSUME UNCHANGED <<pc, work, seen, item>> PROVE WorkKnown' /\ IndexBelow'
  BY <1>1 DEF Typed, WorkKnown, IndexBelow
<1>2. ASSUME NEW r \in Runs, CheckActive(r) \/ InsertRun(r) \/ SelectCandidates(r)
      PROVE Typed'
  <2>1. TypeOK'
    <3>1. CASE CheckActive(r)
      BY <3>1 DEF CheckActive, Typed, TypeOK
    <3>2. CASE InsertRun(r)
      BY <3>2 DEF InsertRun, Typed, TypeOK, RunStatus, Active
    <3>3. CASE SelectCandidates(r)
      BY <3>3 DEF SelectCandidates, Typed, TypeOK
    <3>. QED BY <1>2, <3>1, <3>2, <3>3
  <2>. QED BY <1>1, <1>2, <2>1 DEF CheckActive, InsertRun, SelectCandidates, Typed
<1>3. ASSUME NEW r \in Runs, InsertItems(r) PROVE Typed'
  <2>1. [NoItem EXCEPT !.status = "candidate"] \in Item
    BY NoItemTyped DEF Item, ItemStatus
  <2>2. item' \in [Runs -> [Messages -> Item]]
    BY <1>3, <2>1, NoItemTyped DEF InsertItems, Typed, TypeOK
  <2>3. \A q \in Runs, m \in Messages : item'[q][m] = item[q][m] \/ item'[q][m].index = 0
    BY <1>3 DEF InsertItems, Typed, TypeOK, NoItem
  <2>4. TypeOK'
    <3>1. /\ creator' \in [Runs -> {"check", "insert", "select", "freeze", "publish",
                                    "catch", "done"}]
          /\ faults' \in 0..MaxFaults
      BY <1>3, CreatorGoesTyped DEF InsertItems, Typed
    <3>. QED BY <1>3, <2>2, <3>1 DEF InsertItems, Typed, TypeOK
  <2>5. WorkKnown' /\ IndexBelow'
    <3>1. UNCHANGED <<pc, work, seen>>
      BY <1>3 DEF InsertItems
    <3>. QED BY <2>3, <3>1, BoundsAssumption DEF Typed, WorkKnown, IndexBelow
  <2>. QED BY <2>4, <2>5 DEF Typed
<1>4. ASSUME NEW r \in Runs, PublishPreview(r) \/ CatchPreview(r) PROVE Typed'
  <2>1. TypeOK'
    <3>1. /\ creator' \in [Runs -> {"check", "insert", "select", "freeze", "publish",
                                    "catch", "done"}]
          /\ faults' \in 0..MaxFaults
      <4>1. CASE PublishPreview(r)
        BY <4>1, CreatorGoesTyped DEF PublishPreview, Typed
      <4>2. CASE CatchPreview(r)
        BY <4>2 DEF CatchPreview, Typed, TypeOK
      <4>. QED BY <1>4, <4>1, <4>2
    <3>2. run' \in [Runs -> RunStatus]
      BY <1>4 DEF PublishPreview, CatchPreview, Typed, TypeOK, RunStatus, Active
    <3>. QED BY <1>4, <3>1, <3>2 DEF PublishPreview, CatchPreview, Typed, TypeOK
  <2>. QED BY <1>1, <1>4, <2>1 DEF PublishPreview, CatchPreview, Typed
<1>5. ASSUME NEW r \in Runs, CreatorThrows(r) \/ CreatorDies(r) PROVE Typed'
  <2>1. TypeOK'
    <3>1. /\ creator' \in [Runs -> {"check", "insert", "select", "freeze", "publish",
                                    "catch", "done"}]
          /\ faults' \in 0..MaxFaults
      BY <1>5 DEF CreatorThrows, CreatorDies, Typed, TypeOK
    <3>. QED BY <1>5, <3>1 DEF CreatorThrows, CreatorDies, Typed, TypeOK
  <2>. QED BY <1>1, <1>5, <2>1 DEF CreatorThrows, CreatorDies, Typed
<1>6. ASSUME NEW r \in Runs, Approve(r) \/ Cancel(r) PROVE Typed'
  <2>1. TypeOK'
    BY <1>6 DEF Approve, Cancel, Typed, TypeOK, RunStatus, Active
  <2>. QED BY <1>1, <1>6, <2>1 DEF Approve, Cancel, Typed
<1>7. ASSUME NEW m \in Messages, Star(m) \/ Unstar(m) \/ Restore(m) PROVE Typed'
  <2>1. TypeOK'
    BY <1>7 DEF Star, Unstar, Restore, Edit, Typed, TypeOK, Row
  <2>. QED BY <1>1, <1>7, <2>1 DEF Star, Unstar, Restore, Edit, Typed
<1>. QED BY <1>2, <1>3, <1>4, <1>5, <1>6, <1>7 DEF CreatorStep

LEMMA WorkerTyped ==
  ASSUME Typed, NEW w \in Workers, WorkerStep(w) \/ Throws(w) \/ Dies(w)
  PROVE  Typed'
<1>. USE BoundsAssumption
     DEF mailbox, request, workers, bounds, At, Fault
<1>1. CASE Start(w)
  BY <1>1 DEF Start, Typed, TypeOK, WorkKnown, IndexBelow, RunStatus, Active, Busy, Deleting
<1>2. CASE Pick(w)
  BY <1>2 DEF Pick, Typed, TypeOK, WorkKnown, IndexBelow, Busy, Deleting
<1>3. CASE PickNothing(w) \/ ClaimLost(w)
  BY <1>3 DEF PickNothing, ClaimLost, Typed, TypeOK, WorkKnown, IndexBelow, Busy, Deleting
<1>4. CASE Claim(w)
  <2>1. pc[w] \in Busy /\ Claimable(ItemOf(w)) /\ SetItem(w, Claimed(w))
    BY <1>4 DEF Claim, Busy
  <2>2. Claimed(w) \in Item /\ ItemOf(w) \in Item
    BY <2>1, ItemsWritten, ItemChanges
  <2>3. /\ Claimed(w).status = ItemOf(w).status
        /\ Claimed(w).index = ItemOf(w).index /\ ItemOf(w).index < Chunks
    <3>1. ItemOf(w).index < Chunks
      BY <2>1, <2>2, ItemChanges DEF Typed, IndexBelow, Claimable, ItemOf
    <3>. QED BY <2>2, <3>1 DEF Claimed, Item
  <2>4. TypeOK'
    BY <1>4, <2>1, <2>2, ItemChanges DEF Claim, Typed, TypeOK
  <2>5. WorkKnown'
    BY <1>4, <2>1 DEF Claim, Typed, TypeOK, WorkKnown, Busy, Deleting
  <2>6. IndexBelow'
    <3>1. \A r \in Runs, m \in Messages : Pending(item'[r][m]) => item'[r][m].index < Chunks
      BY <2>1, <2>2, <2>3, ItemChanges DEF Typed, IndexBelow
    <3>2. \A v \in Workers : pc'[v] \in Deleting => seen'[v].index < Chunks
      BY <1>4, <2>3 DEF Claim, Typed, TypeOK, IndexBelow
    <3>. QED BY <3>1, <3>2 DEF IndexBelow
  <2>. QED BY <2>4, <2>5, <2>6 DEF Typed
<1>5. CASE DeleteMetadata(w)
  <2>. DEFINE deleted == [ItemOf(w) EXCEPT !.status = "d1_deleted"]
              skipped == [ItemOf(w) EXCEPT !.status = "skipped", !.owner = Nobody, !.over = FALSE]
  <2>1. pc[w] \in Busy /\ MessageOf(w) \in Messages /\ ItemOf(w) \in Item
    BY <1>5, ItemChanges, NoItemTyped DEF DeleteMetadata, Busy, Deleting
  <2>2. \/ SetItem(w, deleted) /\ ItemOf(w).status = "candidate"
        \/ SetItem(w, skipped)
        \/ item' = item
    BY <1>5 DEF DeleteMetadata
  <2>3. /\ deleted \in Item /\ skipped \in Item
        /\ deleted.index = ItemOf(w).index /\ ~ Pending(skipped)
    BY <2>1, ItemsWritten DEF Item, Pending
  <2>. HIDE DEF deleted, skipped
  <2>4. item' \in [Runs -> [Messages -> Item]]
    BY <2>1, <2>2, <2>3, ItemChanges DEF Typed, TypeOK
  <2>5. \A r \in Runs, m \in Messages : Pending(item'[r][m]) => item'[r][m].index < Chunks
    <3>1. CASE SetItem(w, deleted) /\ ItemOf(w).status = "candidate"
      <4>1. deleted.index < Chunks
        <5>1. Pending(ItemOf(w))
          BY <3>1 DEF Pending
        <5>2. ItemOf(w).index < Chunks
          BY <2>1, <5>1, ItemChanges, NoItemTyped DEF Typed, IndexBelow, ItemOf
        <5>. QED BY <2>3, <5>2
      <4>. QED BY <2>1, <2>3, <3>1, <4>1, ItemChanges DEF Typed, IndexBelow
    <3>2. CASE SetItem(w, skipped)
      BY <2>1, <2>3, <3>2, ItemChanges DEF Typed, IndexBelow
    <3>. QED BY <2>2, <3>1, <3>2 DEF Typed, IndexBelow
  <2>6. /\ row' \in [Messages -> Row] /\ late' \subseteq Messages
        /\ pc' \in [Workers -> {"idle", "pick", "claim", "metadata", "objects", "advance",
                                "fail", "finalize"}]
        /\ faults' \in 0..MaxFaults
    <3>1. row' \in [Messages -> Row]
      BY <1>5, <2>1 DEF DeleteMetadata, Typed, TypeOK, Row
    <3>2. late' \subseteq Messages
      BY <1>5, <2>1 DEF DeleteMetadata, Typed, TypeOK
    <3>3. /\ pc' \in [Workers -> {"idle", "pick", "claim", "metadata", "objects", "advance",
                                  "fail", "finalize"}]
          /\ faults' \in 0..MaxFaults
      BY <1>5 DEF DeleteMetadata, Goes, Typed, TypeOK
    <3>. QED BY <3>1, <3>2, <3>3
  <2>7. UNCHANGED <<left, run, excludes, frozen, creator, approved, work, seen, overruns, edits>>
    BY <1>5 DEF DeleteMetadata
  <2>8. \A v \in Workers : pc'[v] # pc[v] => v = w
    BY <1>5 DEF DeleteMetadata, Goes, Typed, TypeOK
  <2>9. TypeOK'
    BY <2>4, <2>6, <2>7 DEF Typed, TypeOK
  <2>10. WorkKnown'
    BY <2>1, <2>7, <2>8 DEF Typed, WorkKnown
  <2>11. IndexBelow'
    BY <1>5, <2>5, <2>7, <2>8 DEF DeleteMetadata, Typed, IndexBelow, Deleting
  <2>. QED BY <2>9, <2>10, <2>11 DEF Typed
<1>6. CASE DeleteObjects(w)
  <2>1. MessageOf(w) \in Messages
    BY <1>6, ItemChanges, NoItemTyped DEF DeleteObjects, Busy, Deleting
  <2>2. left' \in [Messages -> SUBSET (1..Chunks)]
    BY <1>6, <2>1 DEF DeleteObjects, Typed, TypeOK
  <2>3. TypeOK'
    BY <1>6, <2>2 DEF DeleteObjects, Goes, Typed, TypeOK
  <2>4. WorkKnown' /\ IndexBelow'
    BY <1>6 DEF DeleteObjects, Goes, Typed, TypeOK, WorkKnown, IndexBelow, Busy, Deleting
  <2>. QED BY <2>3, <2>4 DEF Typed
<1>7. CASE Advance(w)
  <2>1. pc[w] \in Busy /\ pc[w] \in Deleting
    BY <1>7 DEF Advance, Busy, Deleting
  <2>2. Advanced(w) \in Item /\ ItemOf(w) \in Item
    BY <2>1, ItemsWritten, ItemChanges, NoItemTyped
  <2>3. Pending(Advanced(w)) => Advanced(w).index < Chunks
    BY <2>1, <2>2, BoundsAssumption DEF Advanced, Pending, Item, Typed, TypeOK
  <2>4. SetItem(w, Advanced(w)) \/ item' = item
    BY <1>7 DEF Advance
  <2>5. /\ item' \in [Runs -> [Messages -> Item]]
        /\ \A r \in Runs, m \in Messages : Pending(item'[r][m]) => item'[r][m].index < Chunks
    <3>1. CASE item' = item
      BY <3>1 DEF Typed, TypeOK, IndexBelow
    <3>2. CASE item' # item
      BY <2>1, <2>2, <2>3, <2>4, <3>2, ItemChanges DEF Typed, IndexBelow
    <3>. QED BY <3>1, <3>2
  <2>6. TypeOK'
    <3>1. /\ pc' \in [Workers -> {"idle", "pick", "claim", "metadata", "objects", "advance",
                                  "fail", "finalize"}]
          /\ faults' \in 0..MaxFaults
      BY <1>7 DEF Advance, Goes, Typed, TypeOK
    <3>. QED BY <1>7, <2>5, <3>1 DEF Advance, Typed, TypeOK
  <2>7. WorkKnown' /\ IndexBelow'
    BY <1>7, <2>5 DEF Advance, Goes, Typed, TypeOK, WorkKnown, IndexBelow, Busy, Deleting
  <2>. QED BY <2>6, <2>7 DEF Typed
<1>8. CASE FailWork(w)
  <2>1. pc[w] \in Busy
    BY <1>8 DEF FailWork, Busy
  <2>2. Failed(ItemOf(w)) \in Item /\ ItemOf(w) \in Item
    BY <2>1, ItemsWritten, ItemChanges, NoItemTyped
  <2>3. Pending(Failed(ItemOf(w))) => Failed(ItemOf(w)).index < Chunks
    <3>1. Pending(ItemOf(w)) => ItemOf(w).index < Chunks
      BY <2>1, <2>2, ItemChanges DEF Typed, IndexBelow, ItemOf
    <3>. QED BY <2>2, <3>1 DEF Failed, Pending, Item
  <2>4. SetItem(w, Failed(ItemOf(w))) \/ item' = item
    BY <1>8 DEF FailWork
  <2>5. /\ item' \in [Runs -> [Messages -> Item]]
        /\ \A r \in Runs, m \in Messages : Pending(item'[r][m]) => item'[r][m].index < Chunks
    <3>1. CASE item' = item
      BY <3>1 DEF Typed, TypeOK, IndexBelow
    <3>2. CASE item' # item
      BY <2>1, <2>2, <2>3, <2>4, <3>2, ItemChanges DEF Typed, IndexBelow
    <3>. QED BY <3>1, <3>2
  <2>6. TypeOK'
    BY <1>8, <2>5 DEF FailWork, Typed, TypeOK
  <2>7. WorkKnown' /\ IndexBelow'
    BY <1>8, <2>5 DEF FailWork, Typed, TypeOK, WorkKnown, IndexBelow, Busy, Deleting
  <2>. QED BY <2>6, <2>7 DEF Typed
<1>9. CASE Finalize(w)
  <2>1. run' \in [Runs -> RunStatus]
    BY <1>9 DEF Finalize, Outcome, Typed, TypeOK, RunStatus, Active
  <2>2. work' \in [Workers -> (Runs \X Messages) \cup {NoWork}]
    BY <1>9 DEF Finalize, Typed, TypeOK
  <2>. QED BY <1>9, <2>1, <2>2, NoItemTyped
       DEF Finalize, Typed, TypeOK, WorkKnown, IndexBelow, Busy, Deleting
<1>10. CASE Throws(w)
  BY <1>10 DEF Throws, Typed, TypeOK, WorkKnown, IndexBelow, Busy, Deleting
<1>11. CASE Dies(w)
  BY <1>11, NoItemTyped DEF Dies, Typed, TypeOK, WorkKnown, IndexBelow, Busy, Deleting
<1>. QED BY <1>1, <1>2, <1>3, <1>4, <1>5, <1>6, <1>7, <1>8, <1>9, <1>10, <1>11
     DEF WorkerStep

LEMMA LeaseTyped ==
  ASSUME Typed, NEW r \in Runs, NEW m \in Messages, LeaseEnds(r, m)
  PROVE  Typed'
<1>1. /\ item' = [item EXCEPT ![r][m].over = TRUE]
      /\ overruns' \in 0..MaxOverruns
      /\ UNCHANGED <<mailbox, request, workers, late, faults, edits>>
  BY BoundsAssumption DEF LeaseEnds, Typed, TypeOK
<1>2. item' \in [Runs -> [Messages -> Item]]
  <2>1. item[r][m] \in Item
    BY DEF Typed, TypeOK
  <2>2. [item[r][m] EXCEPT !.over = TRUE] \in Item
    BY <2>1 DEF Item
  <2>3. item' = [item EXCEPT ![r] = [item[r] EXCEPT ![m] = [item[r][m] EXCEPT !.over = TRUE]]]
    BY <1>1 DEF Typed, TypeOK
  <2>. QED BY <2>2, <2>3 DEF Typed, TypeOK
<1>3. \A q \in Runs, n \in Messages :
        /\ Pending(item'[q][n]) <=> Pending(item[q][n])
        /\ item'[q][n].index = item[q][n].index
  BY <1>1 DEF Typed, TypeOK, Item, Pending
<1>. QED BY <1>1, <1>2, <1>3
     DEF Typed, TypeOK, WorkKnown, IndexBelow, mailbox, request, workers

LEMMA NextTyped == ASSUME Typed, [Next]_vars PROVE Typed'
<1>1. CASE UNCHANGED vars
  BY <1>1 DEF Typed, TypeOK, WorkKnown, IndexBelow, vars, mailbox, request, workers, bounds
<1>. QED BY <1>1, RequestTyped, WorkerTyped, LeaseTyped DEF Next

\* Every reachable state is typed: no item's index passes its last chunk.
THEOREM TypeCorrect == Spec => []TypeOK
<1>1. Init => Typed
  BY InitTyped
<1>2. Typed /\ [Next]_vars => Typed'
  BY NextTyped
<1>3. Typed => TypeOK
  BY DEF Typed
<1>. QED BY <1>1, <1>2, <1>3, PTL DEF Spec

-----------------------------------------------------------------------------
(* What the steps of a worker and the end of a lease do to the items.      *)

\* What a worker may make of the item i of message m.
ItemStep(w, m, i, j) ==
  \/ pc[w] = "claim" /\ Pending(i) /\ j.status = i.status /\ j.index = i.index /\ j.owner = w
  \/ /\ pc[w] = "metadata" /\ i.status = "candidate" /\ i.owner = w
     /\ \/ j.status = "d1_deleted" /\ j.owner = w /\ j.index = i.index /\ row'[m] = "removed"
        \/ j.status = "skipped" /\ j.owner = Nobody
  \/ /\ pc[w] = "advance" /\ i.status = "d1_deleted" /\ i.owner = w
     /\ j.owner = Nobody /\ j.index = seen[w].index + 1
     /\ j.status = IF seen[w].index + 1 >= Chunks THEN "completed" ELSE "d1_deleted"
  \/ /\ pc[w] = "fail" /\ i.owner = w
     /\ j.owner = Nobody /\ j.index = i.index /\ j.status \in {i.status, "failed"}

\* A worker writes to the item it works on and to no other.
LEMMA WorkerItems ==
  ASSUME Typed, NEW w \in Workers, WorkerStep(w) \/ Throws(w) \/ Dies(w),
         NEW r \in Runs, NEW m \in Messages, item'[r][m] # item[r][m]
  PROVE  /\ pc[w] \in Busy /\ r = RunOf(w) /\ m = MessageOf(w)
         /\ ItemStep(w, m, item[r][m], item'[r][m])
<1>1. CASE Claim(w)
  <2>1. pc[w] \in Busy /\ Claimable(ItemOf(w)) /\ SetItem(w, Claimed(w))
    BY <1>1 DEF Claim, Busy
  <2>2. Claimed(w) \in Item /\ ItemOf(w) \in Item
    BY <2>1, ItemsWritten, ItemChanges
  <2>3. /\ Claimed(w).status = ItemOf(w).status
        /\ Claimed(w).index = ItemOf(w).index
        /\ Claimed(w).owner = w
    BY <2>2 DEF Claimed, Item
  <2>4. r = RunOf(w) /\ m = MessageOf(w) /\ item'[r][m] = Claimed(w) /\ item[r][m] = ItemOf(w)
    BY <2>1, <2>2, ItemChanges DEF ItemOf
  <2>. QED BY <1>1, <2>1, <2>3, <2>4 DEF Claim, Claimable, ItemStep
<1>2. CASE DeleteMetadata(w)
  <2>. DEFINE deleted == [ItemOf(w) EXCEPT !.status = "d1_deleted"]
              skipped == [ItemOf(w) EXCEPT !.status = "skipped", !.owner = Nobody, !.over = FALSE]
  <2>1. pc[w] \in Busy /\ pc[w] = "metadata" /\ ItemOf(w) \in Item
    BY <1>2, ItemChanges, NoItemTyped DEF DeleteMetadata, Busy, Deleting
  <2>2. /\ deleted \in Item /\ skipped \in Item
        /\ deleted.status = "d1_deleted" /\ deleted.index = ItemOf(w).index
        /\ deleted.owner = ItemOf(w).owner
        /\ skipped.status = "skipped" /\ skipped.owner = Nobody
    BY <2>1, ItemsWritten DEF Item
  <2>3. /\ Owns(w) /\ ItemOf(w).status = "candidate"
        /\ \/ SetItem(w, deleted) /\ row'[MessageOf(w)] = "removed"
           \/ SetItem(w, skipped)
    <3>1. MessageOf(w) \in Messages
      BY <2>1, <2>2, ItemChanges
    <3>. QED BY <1>2, <3>1 DEF DeleteMetadata, Typed, TypeOK
  <2>. HIDE DEF deleted, skipped
  <2>4. /\ r = RunOf(w) /\ m = MessageOf(w) /\ item[r][m] = ItemOf(w)
        /\ \/ item'[r][m] = deleted /\ row'[m] = "removed"
           \/ item'[r][m] = skipped
    BY <2>1, <2>2, <2>3, ItemChanges DEF ItemOf
  <2>. QED BY <2>1, <2>2, <2>3, <2>4 DEF ItemStep, Owns
<1>3. CASE Advance(w)
  <2>1. /\ pc[w] \in Busy /\ pc[w] \in Deleting /\ pc[w] = "advance"
        /\ SetItem(w, Advanced(w)) /\ Owns(w) /\ ItemOf(w).status = "d1_deleted"
    BY <1>3 DEF Advance, Busy, Deleting
  <2>2. Advanced(w) \in Item /\ ItemOf(w) \in Item
    BY <2>1, ItemsWritten, ItemChanges, NoItemTyped
  <2>3. /\ Advanced(w).owner = Nobody /\ Advanced(w).index = seen[w].index + 1
        /\ Advanced(w).status =
             IF seen[w].index + 1 >= Chunks THEN "completed" ELSE "d1_deleted"
    BY <2>2 DEF Advanced, Item
  <2>4. r = RunOf(w) /\ m = MessageOf(w) /\ item'[r][m] = Advanced(w) /\ item[r][m] = ItemOf(w)
    BY <2>1, <2>2, ItemChanges DEF ItemOf
  <2>. QED BY <2>1, <2>3, <2>4 DEF ItemStep, Owns
<1>4. CASE FailWork(w)
  <2>1. /\ pc[w] \in Busy /\ pc[w] = "fail"
        /\ SetItem(w, Failed(ItemOf(w))) /\ Owns(w)
    BY <1>4 DEF FailWork, Busy
  <2>2. Failed(ItemOf(w)) \in Item /\ ItemOf(w) \in Item
    BY <2>1, ItemsWritten, ItemChanges, NoItemTyped
  <2>3. /\ Failed(ItemOf(w)).status \in {ItemOf(w).status, "failed"}
        /\ Failed(ItemOf(w)).owner = Nobody /\ Failed(ItemOf(w)).index = ItemOf(w).index
    BY <2>2 DEF Failed, Item
  <2>4. /\ r = RunOf(w) /\ m = MessageOf(w)
        /\ item'[r][m] = Failed(ItemOf(w)) /\ item[r][m] = ItemOf(w)
    BY <2>1, <2>2, ItemChanges DEF ItemOf
  <2>. QED BY <2>1, <2>3, <2>4 DEF ItemStep, Owns
<1>5. CASE UNCHANGED item
  BY <1>5
<1>. QED BY <1>1, <1>2, <1>3, <1>4, <1>5
     DEF WorkerStep, Start, Pick, PickNothing, ClaimLost, DeleteObjects, Finalize, Throws, Dies

\* The end of a lease marks one leased item and changes nothing else of it.
LEMMA LeaseItems ==
  ASSUME Typed, NEW r \in Runs, NEW m \in Messages, LeaseEnds(r, m)
  PROVE  \A q \in Runs, n \in Messages :
           /\ item'[q][n].status = item[q][n].status
           /\ item'[q][n].index = item[q][n].index
           /\ item'[q][n].owner = item[q][n].owner
           /\ item[q][n].owner = Nobody => item'[q][n] = item[q][n]
BY DEF LeaseEnds, Typed, TypeOK, Item

-----------------------------------------------------------------------------
(* Nothing is done without consent.                                        *)

LEMMA InitAuthorised == Init => Authorised
BY DEF Init, Authorised, Created, Shown, Consented, NoItem, Busy, Deleting

LEMMA CreatorAuthorised ==
  ASSUME Typed, Authorised, NEW r \in Runs,
         CreatorStep(r) \/ CreatorThrows(r) \/ CreatorDies(r)
  PROVE  Authorised'
<1>. USE DEF CreatorAt
<1>1. CASE CheckActive(r) \/ CreatorThrows(r) \/ CreatorDies(r)
  BY <1>1 DEF CheckActive, CreatorThrows, CreatorDies, mailbox, workers, bounds,
              Typed, TypeOK, Authorised, Created, Shown, Consented, Begun, RunOf, MessageOf
<1>2. CASE InsertRun(r)
  BY <1>2 DEF InsertRun, mailbox, workers, bounds, 
              Typed, TypeOK, Authorised, Created, Shown, Consented, Begun, RunOf, MessageOf
<1>3. CASE SelectCandidates(r)
  <2>1. /\ run[r] = "building" /\ creator'[r] = "freeze"
        /\ \A m \in Messages : item[r][m].status = "none"
    BY <1>3 DEF SelectCandidates, NoItem, Typed, TypeOK, Authorised, Created
  <2>2. \A q \in Runs \ {r} : frozen'[q] = frozen[q] /\ creator'[q] = creator[q]
    BY <1>3 DEF SelectCandidates, Typed, TypeOK
  <2>3. UNCHANGED <<run, approved, item, pc, work, seen>>
    BY <1>3 DEF SelectCandidates, workers
  <2>4. Created' /\ Shown'
    BY <1>3, <2>1, <2>2, <2>3 DEF SelectCandidates, Authorised, Created, Shown
  <2>5. Consented'
    BY <2>1, <2>2, <2>3 DEF Typed, WorkKnown, Authorised, Consented, Begun, RunOf, MessageOf
  <2>. QED BY <2>4, <2>5 DEF Authorised
<1>4. CASE InsertItems(r)
  <2>1. /\ run[r] = "building" /\ creator'[r] \in {"publish", "catch"}
        /\ \A m \in Messages : item'[r][m].status # "none" <=> m \in frozen[r]
    BY <1>4 DEF InsertItems, CreatorGoes, NoItem, Typed, TypeOK, Authorised, Created
  <2>2. \A q \in Runs \ {r} : item'[q] = item[q] /\ creator'[q] = creator[q]
    BY <1>4 DEF InsertItems, CreatorGoes, Typed, TypeOK
  <2>3. UNCHANGED <<run, approved, frozen, pc, work, seen>>
    BY <1>4 DEF InsertItems, workers
  <2>4. Created' /\ Shown'
    BY <2>1, <2>2, <2>3 DEF Authorised, Created, Shown
  <2>5. Consented'
    BY <2>3 DEF Authorised, Consented, Begun, RunOf, MessageOf
  <2>. QED BY <2>4, <2>5 DEF Authorised
<1>5. CASE PublishPreview(r)
  BY <1>5 DEF PublishPreview, CreatorGoes, mailbox, workers, bounds,
              Typed, TypeOK, Authorised, Created, Shown, Consented, Begun, RunOf, MessageOf
<1>6. CASE CatchPreview(r)
  BY <1>6 DEF CatchPreview, mailbox, workers, bounds,
              Typed, TypeOK, Authorised, Created, Shown, Consented, Begun, RunOf, MessageOf
<1>. QED BY <1>1, <1>2, <1>3, <1>4, <1>5, <1>6 DEF CreatorStep

LEMMA OperatorAuthorised ==
  ASSUME Typed, Authorised,
         \/ \E r \in Runs : Approve(r) \/ Cancel(r)
         \/ \E m \in Messages : Star(m) \/ Unstar(m) \/ Restore(m)
  PROVE  Authorised'
<1>1. ASSUME NEW r \in Runs, Approve(r) PROVE Authorised'
  BY <1>1 DEF Approve, mailbox, workers, bounds,
              Typed, TypeOK, Authorised, Created, Shown, Consented, Begun, RunOf, MessageOf
<1>2. ASSUME NEW r \in Runs, Cancel(r) PROVE Authorised'
  BY <1>2 DEF Cancel, mailbox, workers, bounds,
              Typed, TypeOK, Authorised, Created, Shown, Consented, Begun, RunOf, MessageOf
<1>3. ASSUME NEW m \in Messages, Star(m) \/ Unstar(m) \/ Restore(m) PROVE Authorised'
  BY <1>3 DEF Star, Unstar, Restore, Edit, request, workers,
              Authorised, Created, Shown, Consented, Begun, RunOf, MessageOf
<1>. QED BY <1>1, <1>2, <1>3

\* The runs that a worker begins or ends.
LEMMA WorkerRuns ==
  ASSUME Typed, NEW w \in Workers, WorkerStep(w) \/ Throws(w) \/ Dies(w), NEW r \in Runs
  PROVE  /\ run'[r] # run[r] => \/ run[r] = "approved" /\ run'[r] = "running"
                                \/ run[r] = "running" /\ run'[r] \in {"completed", "failed"}
         /\ run'[r] = "completed" /\ run[r] # "completed" =>
              \A m \in Messages : ~ Pending(item[r][m]) /\ item[r][m].status # "failed"
                                  /\ item' = item
         /\ UNCHANGED <<approved, frozen, creator, excludes>>
<1>1. CASE Start(w)
  BY <1>1 DEF Start, Typed, TypeOK
<1>2. CASE Finalize(w)
  BY <1>2 DEF Finalize, Outcome, Typed, TypeOK
<1>3. CASE UNCHANGED <<run, approved, frozen, creator, excludes>>
  BY <1>3
<1>. QED BY <1>1, <1>2, <1>3
     DEF WorkerStep, Pick, PickNothing, Claim, ClaimLost, DeleteMetadata, DeleteObjects, Advance,
         FailWork, Throws, Dies, request

\* Where a worker's step leaves it.
LEMMA WorkerPlaces ==
  ASSUME Typed, NEW w \in Workers, WorkerStep(w) \/ Throws(w) \/ Dies(w)
  PROVE  /\ \A v \in Workers \ {w} : pc'[v] = pc[v] /\ work'[v] = work[v] /\ seen'[v] = seen[v]
         /\ pc'[w] \in Busy => (work'[w] = work[w] /\ pc[w] \in Busy) \/ Pick(w)
<1>. USE DEF At, Busy, Deleting, workers
<1>1. CASE Start(w) \/ Pick(w) \/ PickNothing(w) \/ Claim(w) \/ ClaimLost(w)
  BY <1>1 DEF Start, Pick, PickNothing, Claim, ClaimLost, Typed, TypeOK
<1>2. CASE DeleteMetadata(w)
  BY <1>2 DEF DeleteMetadata, Goes, Typed, TypeOK
<1>3. CASE DeleteObjects(w) \/ Advance(w) \/ FailWork(w)
  BY <1>3 DEF DeleteObjects, Advance, FailWork, Goes, Typed, TypeOK
<1>4. CASE Finalize(w) \/ Throws(w) \/ Dies(w)
  BY <1>4 DEF Finalize, Throws, Dies, Typed, TypeOK
<1>. QED BY <1>1, <1>2, <1>3, <1>4 DEF WorkerStep

LEMMA WorkerAuthorised ==
  ASSUME Typed, Authorised, NEW w \in Workers, WorkerStep(w) \/ Throws(w) \/ Dies(w)
  PROVE  Authorised'
<1>1. \A v \in Workers : pc[v] \in Busy => RunOf(v) \in Runs /\ MessageOf(v) \in Messages
  BY ItemChanges, NoItemTyped
<1>2. Created'
  BY <1>1, WorkerItems, WorkerRuns DEF Authorised, Created, Consented, Begun
<1>3. Shown'
  BY <1>1, WorkerItems, WorkerRuns DEF Authorised, Shown, Consented, ItemStep, Pending
<1>4. Consented'
  <2>1. \A r \in Runs : run'[r] \in {"approved", "running", "completed"} => r \in approved'
    BY WorkerRuns DEF Authorised, Consented
  <2>2. ASSUME NEW v \in Workers, pc'[v] \in Busy
        PROVE  Begun(RunOf(v))' /\ MessageOf(v)' \in frozen'[RunOf(v)']
    <3>1. CASE work'[v] = work[v] /\ pc[v] \in Busy
      BY <1>1, <3>1, WorkerRuns DEF Authorised, Consented, Begun, RunOf, MessageOf
    <3>2. CASE v = w /\ Pick(w)
      <4>1. PICK r \in Runs, m \in Messages :
              /\ run[r] = "running" /\ Pending(item[r][m])
              /\ work' = [work EXCEPT ![w] = <<r, m>>]
        BY <3>2 DEF Pick, Claimable
      <4>2. RunOf(v)' = r /\ MessageOf(v)' = m
        BY <3>2, <4>1 DEF RunOf, MessageOf, Typed, TypeOK
      <4>3. r \in approved /\ m \in frozen[r]
        BY <4>1 DEF Authorised, Shown, Consented, Pending
      <4>. QED BY <4>1, <4>2, <4>3, <3>2, WorkerRuns DEF Begun, Pick, request
    <3>. QED BY <2>2, <3>1, <3>2, WorkerPlaces
  <2>. QED BY <2>1, <2>2 DEF Consented
<1>. QED BY <1>2, <1>3, <1>4 DEF Authorised

LEMMA NextAuthorised == ASSUME Typed, Authorised, [Next]_vars PROVE Authorised'
<1>1. ASSUME NEW r \in Runs, NEW m \in Messages, LeaseEnds(r, m) PROVE Authorised'
  <2>1. UNCHANGED <<request, workers>>
    BY <1>1 DEF LeaseEnds
  <2>2. Created'
    <3>1. NoItem.owner = Nobody
      BY DEF NoItem
    <3>. QED BY <1>1, <2>1, <3>1, LeaseItems DEF Authorised, Created, request
  <2>. QED BY <1>1, <2>1, <2>2, LeaseItems
       DEF Authorised, Shown, Consented, Begun, RunOf, MessageOf, request, workers
<1>2. CASE UNCHANGED vars
  BY <1>2 DEF Authorised, Created, Shown, Consented, Begun, RunOf, MessageOf,
              vars, request, workers
<1>. QED BY <1>1, <1>2, CreatorAuthorised, OperatorAuthorised, WorkerAuthorised DEF Next

\* The action of RemovalIsAuthorised.
AuthorisedRemoval ==
  \A m \in Messages : row[m] # "removed" /\ row'[m] = "removed" =>
    \E r \in approved : Eligible(m, r) /\ m \in frozen[r]
                        /\ run[r] \notin {"approved", "cancelled"}

LEMMA StepRemovesAuthorised == ASSUME Typed, Authorised, [Next]_vars PROVE AuthorisedRemoval
<1>. SUFFICES ASSUME NEW m \in Messages, row[m] # "removed", row'[m] = "removed"
              PROVE  \E r \in approved : Eligible(m, r) /\ m \in frozen[r]
                                         /\ run[r] \notin {"approved", "cancelled"}
  BY DEF AuthorisedRemoval
<1>1. \A n \in Messages : ~ (Star(n) \/ Unstar(n) \/ Restore(n))
  BY DEF Star, Unstar, Restore, Edit, Typed, TypeOK
<1>2. row' # row
  OBVIOUS
<1>3. PICK w \in Workers : DeleteMetadata(w)
  BY <1>1, <1>2
     DEF Next, vars, mailbox, CreatorStep, CheckActive, InsertRun, SelectCandidates, InsertItems,
         PublishPreview, CatchPreview, CreatorThrows, CreatorDies, Approve, Cancel, WorkerStep,
         Start, Pick, PickNothing, Claim, ClaimLost, DeleteObjects, Advance, FailWork, Finalize,
         Throws, Dies, LeaseEnds
<1>4. m = MessageOf(w) /\ Eligible(m, RunOf(w))
  BY <1>3 DEF DeleteMetadata, Typed, TypeOK
<1>5. Begun(RunOf(w)) /\ m \in frozen[RunOf(w)]
  BY <1>3, <1>4 DEF DeleteMetadata, Authorised, Consented, Busy, Deleting
<1>. QED BY <1>4, <1>5 DEF Begun

\* A message disappears only while it is eligible and frozen in a run that was
\* approved, and not cancelled since.
THEOREM RemovalAuthorised == Spec => RemovalIsAuthorised
<1>1. Init => Typed /\ Authorised
  BY InitTyped, InitAuthorised
<1>2. Typed /\ Authorised /\ [Next]_vars => Typed' /\ Authorised'
  BY NextTyped, NextAuthorised
<1>3. Typed /\ Authorised /\ [Next]_vars => AuthorisedRemoval
  BY StepRemovesAuthorised
<1>. QED BY <1>1, <1>2, <1>3, PTL DEF Spec, RemovalIsAuthorised, AuthorisedRemoval

-----------------------------------------------------------------------------
(* The ledger tells the truth about D1 and R2.                             *)

\* Neither a removed message nor a removed chunk comes back, a run that was
\* begun stays begun, and content goes after the message.
LEMMA NothingReturns ==
  ASSUME Typed, Authorised, [Next]_vars
  PROVE  /\ \A m \in Messages :
              /\ row[m] = "removed" => row'[m] = "removed"
              /\ row[m] # "removed" => left'[m] = left[m]
              /\ left'[m] \subseteq left[m]
         /\ late \subseteq late'
         /\ \A r \in Runs : Begun(r) => Begun(r)'
<1>. USE DEF mailbox, request
<1>1. \A m \in Messages : row[m] = "removed" => row'[m] = "removed"
  <2>1. ASSUME NEW w \in Workers, DeleteMetadata(w)
        PROVE  \A m \in Messages : row[m] = "removed" => row'[m] = "removed"
    <3>1. MessageOf(w) \in Messages
      BY <2>1, ItemChanges, NoItemTyped DEF DeleteMetadata, Busy, Deleting
    <3>. QED BY <2>1, <3>1 DEF DeleteMetadata, Typed, TypeOK
  <2>2. ASSUME NEW m \in Messages, Star(m) \/ Unstar(m) \/ Restore(m)
        PROVE  \A n \in Messages : row[n] = "removed" => row'[n] = "removed"
    BY <2>2 DEF Star, Unstar, Restore, Edit, Typed, TypeOK
  <2>. QED BY <2>1, <2>2
     DEF Next, vars, CreatorStep, CheckActive, InsertRun, SelectCandidates, InsertItems,
         PublishPreview, CatchPreview, CreatorThrows, CreatorDies, Approve, Cancel, WorkerStep,
         Start, Pick, PickNothing, Claim, ClaimLost, DeleteObjects, Advance, FailWork, Finalize,
         Throws, Dies, LeaseEnds
<1>2. \A m \in Messages : /\ row[m] # "removed" => left'[m] = left[m]
                          /\ left'[m] \subseteq left[m]
  <2>1. ASSUME NEW w \in Workers, DeleteObjects(w), NEW m \in Messages
        PROVE  /\ row[m] # "removed" => left'[m] = left[m]
               /\ left'[m] \subseteq left[m]
    <3>1. MessageOf(w) \in Messages
      BY <2>1, ItemChanges, NoItemTyped DEF DeleteObjects, Busy, Deleting
    <3>. QED BY <2>1, <3>1 DEF DeleteObjects, Typed, TypeOK
  <2>2. CASE left' = left
    BY <2>2
  <2>. QED BY <2>1, <2>2
     DEF Next, vars, CreatorStep, CheckActive, InsertRun, SelectCandidates, InsertItems,
         PublishPreview, CatchPreview, CreatorThrows, CreatorDies, Approve, Cancel, WorkerStep,
         Start, Pick, PickNothing, Claim, ClaimLost, DeleteMetadata, Advance, FailWork, Finalize,
         Throws, Dies, LeaseEnds, Star, Unstar, Restore, Edit
<1>3. late \subseteq late'
  BY DEF Next, vars, CreatorStep, CheckActive, InsertRun, SelectCandidates, InsertItems,
         PublishPreview, CatchPreview, CreatorThrows, CreatorDies, Approve, Cancel, WorkerStep,
         Start, Pick, PickNothing, Claim, ClaimLost, DeleteMetadata, DeleteObjects, Advance,
         FailWork, Finalize, Throws, Dies, LeaseEnds, Star, Unstar, Restore, Edit
<1>4. ASSUME NEW r \in Runs, Begun(r) PROVE Begun(r)'
  <2>1. ASSUME NEW q \in Runs, CreatorStep(q) \/ CreatorThrows(q) \/ CreatorDies(q)
        PROVE  Begun(r)'
    BY <1>4, <2>1
       DEF CreatorStep, CheckActive, InsertRun, SelectCandidates, InsertItems, PublishPreview,
           CatchPreview, CreatorThrows, CreatorDies, Typed, TypeOK, Authorised, Created, Begun
  <2>2. ASSUME NEW q \in Runs, Approve(q) \/ Cancel(q) PROVE Begun(r)'
    BY <1>4, <2>2 DEF Approve, Cancel, Typed, TypeOK, Begun
  <2>3. ASSUME NEW w \in Workers, WorkerStep(w) \/ Throws(w) \/ Dies(w) PROVE Begun(r)'
    BY <1>4, <2>3, WorkerRuns DEF Begun
  <2>4. CASE UNCHANGED <<run, approved>>
    BY <1>4, <2>4 DEF Begun
  <2>. QED BY <2>1, <2>2, <2>3, <2>4
     DEF Next, vars, Star, Unstar, Restore, Edit, LeaseEnds
<1>. QED BY <1>1, <1>2, <1>3, <1>4

LEMMA InitTruthful == Init => Truthful
<1>. SUFFICES ASSUME Init PROVE Truthful
  OBVIOUS
<1>1. \A r \in Runs, m \in Messages :
        /\ item[r][m].status = "none" /\ item[r][m].index = 0 /\ item[r][m].owner = Nobody
        /\ run[r] = "none" /\ row[m] # "removed" /\ left[m] = 1..Chunks
  BY DEF Init, NoItem
<1>2. Leased /\ ItemTrue
  BY <1>1 DEF Leased, ItemTrue
<1>3. WorkTrue /\ Tracked /\ ContentKept
  BY DEF Init, WorkTrue, Tracked, ContentKept, Deleting
<1>. QED BY <1>2, <1>3 DEF Truthful

\* What happens outside the workers touches no item that a worker has.
LEMMA RequestTruthful ==
  ASSUME Typed, Authorised, Truthful, Next,
         \/ \E r \in Runs : CreatorStep(r) \/ CreatorThrows(r) \/ CreatorDies(r)
         \/ \E r \in Runs : Approve(r) \/ Cancel(r)
         \/ \E m \in Messages : Star(m) \/ Unstar(m) \/ Restore(m)
         \/ \E r \in Runs, m \in Messages : LeaseEnds(r, m)
  PROVE  Truthful'
<1>1. /\ UNCHANGED <<left, workers, late>>
      /\ \A m \in Messages : row'[m] = "removed" <=> row[m] = "removed"
  <2>1. ASSUME NEW n \in Messages, Star(n) \/ Unstar(n) \/ Restore(n)
        PROVE  \A m \in Messages : row'[m] = "removed" <=> row[m] = "removed"
    BY <2>1 DEF Star, Unstar, Restore, Edit, Typed, TypeOK
  <2>. QED BY <2>1
     DEF mailbox, CreatorStep, CheckActive, InsertRun, SelectCandidates, InsertItems,
         PublishPreview, CatchPreview, CreatorThrows, CreatorDies, Approve, Cancel, Star, Unstar,
         Restore, Edit, LeaseEnds
<1>2. \A r \in Runs : run'[r] = "completed" => run[r] = "completed"
  BY DEF request, CreatorStep, CheckActive, InsertRun, SelectCandidates, InsertItems,
         PublishPreview, CatchPreview, CreatorThrows, CreatorDies, Approve, Cancel, Star, Unstar,
         Restore, Edit, LeaseEnds, Typed, TypeOK
<1>3. \A r \in Runs, m \in Messages :
        \/ /\ item'[r][m].status = item[r][m].status
           /\ item'[r][m].index = item[r][m].index
           /\ item'[r][m].owner = item[r][m].owner
        \/ /\ ~ Begun(r) /\ run[r] # "completed"
           /\ item'[r][m].status \in {"none", "candidate"}
           /\ item'[r][m].index = 0 /\ item'[r][m].owner = Nobody
  <2>1. ASSUME NEW q \in Runs, InsertItems(q), NEW r \in Runs, NEW m \in Messages
        PROVE  \/ item'[r][m] = item[r][m]
               \/ /\ ~ Begun(r) /\ run[r] # "completed"
                  /\ item'[r][m].status \in {"none", "candidate"}
                  /\ item'[r][m].index = 0 /\ item'[r][m].owner = Nobody
    <3>1. run[q] = "building"
      BY <2>1 DEF InsertItems, Authorised, Created
    <3>. QED BY <2>1, <3>1 DEF InsertItems, NoItem, Begun, Typed, TypeOK
  <2>2. CASE UNCHANGED item
    BY <2>2
  <2>. QED BY <2>1, <2>2, LeaseItems
     DEF CreatorStep, CheckActive, InsertRun, SelectCandidates,
         PublishPreview, CatchPreview, CreatorThrows, CreatorDies, Approve, Cancel, Star, Unstar,
         Restore, Edit
<1>4. Leased'
  BY <1>2, <1>3 DEF Truthful, Leased, Pending
<1>5. ItemTrue'
  BY <1>1, <1>3 DEF Truthful, ItemTrue
<1>6. WorkTrue'
  <2>1. \A w \in Workers : pc[w] \in Busy =>
          /\ RunOf(w) \in Runs /\ MessageOf(w) \in Messages /\ Begun(RunOf(w))
    BY ItemChanges, NoItemTyped DEF Authorised, Consented
  <2>2. \A w \in Workers : RunOf(w)' = RunOf(w) /\ MessageOf(w)' = MessageOf(w)
    BY <1>1 DEF RunOf, MessageOf, workers
  <2>3. ASSUME NEW w \in Workers, pc[w] \in Deleting, Owns(w)'
        PROVE  Owns(w) /\ ItemOf(w)'.index = ItemOf(w).index
    BY <1>3, <2>1, <2>2, <2>3 DEF Owns, ItemOf, Busy
  <2>. QED BY <1>1, <2>1, <2>2, <2>3 DEF Truthful, WorkTrue, workers, Busy, Deleting
<1>7. Tracked'
  BY <1>1, <1>3, NothingReturns DEF Truthful, Tracked
<1>8. ContentKept'
  BY <1>1 DEF Truthful, ContentKept
<1>. QED BY <1>4, <1>5, <1>6, <1>7, <1>8 DEF Truthful

LEMMA WorkerTruthful ==
  ASSUME Typed, Authorised, Truthful, Next,
         NEW w \in Workers, WorkerStep(w) \/ Throws(w) \/ Dies(w)
  PROVE  Truthful'
<1>1. \A v \in Workers : pc[v] \in Busy =>
        /\ RunOf(v) \in Runs /\ MessageOf(v) \in Messages
        /\ Begun(RunOf(v)) /\ v # Nobody
  BY ItemChanges, NoItemTyped, NobodyAssumption DEF Authorised, Consented
<1>2. \A r \in Runs, m \in Messages : item'[r][m] # item[r][m] =>
        /\ pc[w] \in Busy /\ r = RunOf(w) /\ m = MessageOf(w)
        /\ ItemStep(w, m, item[r][m], item'[r][m])
        /\ Pending(item[r][m]) /\ run[r] # "completed"
  <2>1. ASSUME NEW r \in Runs, NEW m \in Messages, item'[r][m] # item[r][m]
        PROVE  Pending(item[r][m])
    BY <1>1, <2>1, WorkerItems DEF ItemStep, Pending, Truthful, Leased
  <2>. QED BY <2>1, WorkerItems DEF Truthful, Leased, Pending
<1>3. \A r \in Runs, m \in Messages :
        item[r][m].status \in ItemStatus /\ item[r][m].index \in 0..Chunks
        /\ left[m] \subseteq 1..Chunks
  BY DEF Typed, TypeOK, Item
<1>4. Leased'
  <2>1. ASSUME NEW r \in Runs, NEW m \in Messages, ~ Pending(item'[r][m])
        PROVE  item'[r][m].owner = Nobody
    BY <1>2, <2>1 DEF ItemStep, Pending, Truthful, Leased
  <2>2. ASSUME NEW r \in Runs, NEW m \in Messages, run'[r] = "completed"
        PROVE  item'[r][m].status \in {"none", "skipped", "completed"}
    BY <1>2, <1>3, <2>2, WorkerRuns DEF Pending, ItemStatus, Truthful, Leased
  <2>. QED BY <2>1, <2>2 DEF Leased
<1>5. ItemTrue'
  <2>. SUFFICES ASSUME NEW r \in Runs, NEW m \in Messages
       PROVE /\ item'[r][m].status = "candidate" => item'[r][m].index = 0
             /\ item'[r][m].status = "d1_deleted"
                  => row'[m] = "removed" /\ \A k \in left'[m] : k > item'[r][m].index
             /\ item'[r][m].status = "completed" => row'[m] = "removed" /\ left'[m] = {}
    BY DEF ItemTrue
  <2>1. CASE item'[r][m] = item[r][m]
    BY <2>1, NothingReturns DEF Truthful, ItemTrue
  <2>2. CASE pc[w] \in {"claim", "fail"} /\ item'[r][m] # item[r][m]
    BY <1>2, <2>2, NothingReturns DEF ItemStep, Truthful, ItemTrue
  <2>3. CASE pc[w] = "metadata" /\ item'[r][m] # item[r][m]
    <3>1. \A k \in left'[m] : k > 0
      BY <1>3, NothingReturns, BoundsAssumption
    <3>. QED BY <1>2, <2>3, <3>1 DEF ItemStep, Truthful, ItemTrue
  <2>4. CASE pc[w] = "advance" /\ item'[r][m] # item[r][m]
    <3>1. /\ item[r][m].status = "d1_deleted" /\ item[r][m].owner = w
          /\ item'[r][m].index = seen[w].index + 1
          /\ item'[r][m].status =
               IF seen[w].index + 1 >= Chunks THEN "completed" ELSE "d1_deleted"
          /\ r = RunOf(w) /\ m = MessageOf(w)
      BY <1>2, <2>4 DEF ItemStep
    <3>2. item[r][m].index = seen[w].index /\ seen[w].index + 1 \notin left[m]
      BY <2>4, <3>1 DEF Truthful, WorkTrue, Owns, ItemOf, Deleting
    <3>3. row[m] = "removed" /\ \A k \in left[m] : k > seen[w].index
      BY <3>1, <3>2 DEF Truthful, ItemTrue
    <3>4. \A k \in left[m] : k > seen[w].index + 1 /\ k <= Chunks
      BY <1>3, <3>2, <3>3, BoundsAssumption
    <3>5. row'[m] = "removed" /\ left'[m] \subseteq left[m]
      BY <3>3, NothingReturns
    <3>6. ~ (Chunks > seen[w].index + 1) => left[m] = {}
      BY <1>3, <3>2, <3>4, BoundsAssumption
    <3>. QED BY <1>3, <3>1, <3>2, <3>4, <3>5, <3>6, BoundsAssumption
  <2>. QED BY <1>2, <2>1, <2>2, <2>3, <2>4 DEF ItemStep
<1>6. WorkTrue'
  <2>. DEFINE True(v) ==
         /\ pc[v] \in {"objects", "advance"} => row[MessageOf(v)] = "removed"
         /\ pc[v] = "advance" => seen[v].index + 1 \notin left[MessageOf(v)]
         /\ pc[v] \in Deleting /\ Owns(v) => ItemOf(v).index = seen[v].index
  <2>1. ASSUME NEW v \in Workers \ {w} PROVE True(v)'
    <3>1. /\ pc'[v] = pc[v] /\ seen'[v] = seen[v]
          /\ RunOf(v)' = RunOf(v) /\ MessageOf(v)' = MessageOf(v)
      BY WorkerPlaces DEF RunOf, MessageOf
    <3>2. ASSUME pc[v] \in Deleting, Owns(v)'
          PROVE  Owns(v) /\ ItemOf(v)' = ItemOf(v)
      <4>1. ItemOf(v)' = ItemOf(v)
        BY <1>1, <1>2, <3>1, <3>2 DEF Owns, ItemOf, ItemStep, Busy
      <4>. QED BY <3>2, <4>1 DEF Owns
    <3>3. pc[v] \in Deleting => MessageOf(v) \in Messages
      BY <1>1 DEF Busy
    <3>. QED BY <3>1, <3>2, <3>3, NothingReturns DEF Truthful, WorkTrue, Deleting
  <2>2. True(w)'
    <3>1. CASE pc'[w] \notin Deleting
      BY <3>1 DEF Deleting
    <3>2. CASE Claim(w)
      <4>1. /\ pc[w] \in Busy /\ SetItem(w, Claimed(w)) /\ seen'[w] = Claimed(w)
            /\ RunOf(w)' = RunOf(w) /\ MessageOf(w)' = MessageOf(w)
            /\ pc'[w] = IF ItemOf(w).status = "candidate" THEN "metadata" ELSE "objects"
            /\ Pending(ItemOf(w))
        BY <3>2 DEF Claim, Claimable, At, Busy, RunOf, MessageOf, Typed, TypeOK
      <4>2. Claimed(w) \in Item /\ ItemOf(w)' = Claimed(w)
        BY <3>2, <4>1, ItemsWritten, ItemChanges DEF ItemOf, Claim
      <4>3. pc'[w] = "objects" => row[MessageOf(w)] = "removed"
        BY <1>1, <4>1 DEF Pending, ItemOf, Truthful, ItemTrue
      <4>. QED BY <1>1, <4>1, <4>2, <4>3, NothingReturns
    <3>3. CASE DeleteMetadata(w)
      <4>1. /\ pc[w] \in Busy /\ pc[w] \in Deleting /\ seen' = seen
            /\ RunOf(w)' = RunOf(w) /\ MessageOf(w)' = MessageOf(w)
            /\ pc'[w] \in {"objects", "finalize", "fail"}
        BY <3>3 DEF DeleteMetadata, Goes, At, Busy, Deleting, RunOf, MessageOf, Typed, TypeOK
      <4>2. pc'[w] = "objects" => row'[MessageOf(w)] = "removed"
        BY <1>1, <3>3, <4>1 DEF DeleteMetadata, Goes, At, Typed, TypeOK
      <4>3. Owns(w)' => Owns(w) /\ ItemOf(w)'.index = ItemOf(w).index
        BY <1>1, <1>2, <3>3, <4>1 DEF Owns, ItemOf, ItemStep, DeleteMetadata
      <4>. QED BY <4>1, <4>2, <4>3 DEF Truthful, WorkTrue
    <3>4. CASE DeleteObjects(w)
      <4>1. /\ pc[w] \in Busy /\ pc[w] \in Deleting /\ pc[w] = "objects"
            /\ pc'[w] \in {"advance", "fail"}
            /\ UNCHANGED <<seen, item, row>>
            /\ RunOf(w)' = RunOf(w) /\ MessageOf(w)' = MessageOf(w)
        BY <3>4 DEF DeleteObjects, Goes, At, Busy, Deleting, RunOf, MessageOf, Typed, TypeOK
      <4>2. row[MessageOf(w)] = "removed"
        BY <4>1 DEF Truthful, WorkTrue
      <4>3. seen[w].index + 1 \notin left'[MessageOf(w)]
        BY <1>1, <3>4, <4>1, <4>2 DEF DeleteObjects, Typed, TypeOK
      <4>4. Owns(w)' = Owns(w) /\ ItemOf(w)' = ItemOf(w)
        BY <4>1 DEF Owns, ItemOf
      <4>. QED BY <4>1, <4>2, <4>3, <4>4 DEF Truthful, WorkTrue
    <3>5. Claim(w) \/ DeleteMetadata(w) \/ DeleteObjects(w) \/ pc'[w] \notin Deleting
      BY DEF WorkerStep, Start, Pick, PickNothing, ClaimLost, Advance, FailWork, Finalize,
             Throws, Dies, At, Goes, Deleting, Typed, TypeOK
    <3>. QED BY <3>1, <3>2, <3>3, <3>4, <3>5
  <2>. QED BY <2>1, <2>2 DEF WorkTrue
<1>7. Tracked'
  <2>. SUFFICES ASSUME NEW m \in Messages \ late', row'[m] = "removed"
       PROVE \E r \in Runs : /\ Begun(r)'
                             /\ item'[r][m].status \in {"d1_deleted", "completed", "failed"}
    BY DEF Tracked
  <2>1. CASE row[m] = "removed"
    <3>1. PICK r \in Runs : Begun(r) /\ item[r][m].status \in {"d1_deleted", "completed", "failed"}
      BY <2>1, NothingReturns DEF Truthful, Tracked
    <3>2. item'[r][m].status \in {"d1_deleted", "completed", "failed"}
      BY <1>2, <3>1 DEF ItemStep
    <3>. QED BY <3>1, <3>2, NothingReturns
  <2>2. CASE row[m] # "removed"
    <3>1. DeleteMetadata(w)
      BY <2>2 DEF WorkerStep, Start, Pick, PickNothing, Claim, ClaimLost, DeleteObjects, Advance,
                  FailWork, Finalize, Throws, Dies, mailbox
    <3>2. pc[w] \in Busy /\ m = MessageOf(w) /\ Eligible(m, RunOf(w))
      BY <2>2, <3>1 DEF DeleteMetadata, Typed, TypeOK, Busy, Deleting
    <3>3. Owns(w) /\ ItemOf(w).status = "candidate"
      BY <3>1, <3>2 DEF DeleteMetadata
    <3>. DEFINE deleted == [ItemOf(w) EXCEPT !.status = "d1_deleted"]
    <3>4. SetItem(w, deleted)
      BY <2>2, <3>1, <3>2, <3>3 DEF DeleteMetadata
    <3>5. deleted \in Item /\ deleted.status = "d1_deleted"
      BY <3>2, ItemsWritten, ItemChanges, NoItemTyped DEF Item
    <3>. HIDE DEF deleted
    <3>6. item'[RunOf(w)][m].status = "d1_deleted"
      BY <3>2, <3>4, <3>5, ItemChanges
    <3>. QED BY <1>1, <3>2, <3>6, NothingReturns
  <2>. QED BY <2>1, <2>2
<1>8. ContentKept'
  BY NothingReturns DEF Truthful, ContentKept
<1>. QED BY <1>4, <1>5, <1>6, <1>7, <1>8 DEF Truthful

LEMMA Invariance == Spec => []Inv
<1>1. Init => Inv
  BY InitTyped, InitAuthorised, InitTruthful DEF Inv
<1>2. Inv /\ [Next]_vars => Inv'
  <2>. SUFFICES ASSUME Inv, [Next]_vars PROVE Inv'
    OBVIOUS
  <2>1. Typed' /\ Authorised'
    BY NextTyped, NextAuthorised DEF Inv
  <2>2. CASE UNCHANGED vars
    <3>1. UNCHANGED <<row, left, run, item, pc, seen, late, approved>>
          /\ \A w \in Workers : /\ RunOf(w)' = RunOf(w) /\ MessageOf(w)' = MessageOf(w)
                                /\ ItemOf(w)' = ItemOf(w) /\ Owns(w)' = Owns(w)
      BY <2>2 DEF vars, mailbox, request, workers, RunOf, MessageOf, ItemOf, Owns
    <3>2. Leased' /\ ItemTrue' /\ ContentKept'
      BY <3>1 DEF Inv, Truthful, Leased, ItemTrue, ContentKept
    <3>3. WorkTrue'
      BY <3>1 DEF Inv, Truthful, WorkTrue
    <3>4. Tracked'
      BY <3>1 DEF Inv, Truthful, Tracked, Begun
    <3>. QED BY <2>1, <3>2, <3>3, <3>4 DEF Inv, Truthful
  <2>3. CASE Next
    <3>1. Truthful'
      <4>1. Typed /\ Authorised /\ Truthful
        BY DEF Inv
      <4>2. CASE \E w \in Workers : WorkerStep(w) \/ Throws(w) \/ Dies(w)
        BY <2>3, <4>1, <4>2, WorkerTruthful
      <4>3. CASE ~ \E w \in Workers : WorkerStep(w) \/ Throws(w) \/ Dies(w)
        BY <2>3, <4>1, <4>3, RequestTruthful DEF Next
      <4>. QED BY <4>2, <4>3
    <3>. QED BY <2>1, <3>1 DEF Inv
  <2>. QED BY <2>2, <2>3
<1>. QED BY <1>1, <1>2, PTL DEF Spec

\* A message that D1 holds has all of its objects.
THEOREM ContentIsKept == Spec => []ContentKept
<1>1. Inv => ContentKept
  BY DEF Inv, Truthful
<1>. QED BY <1>1, Invariance, PTL

\* Every message of a completed run was skipped, or is gone from D1 and R2.
THEOREM CompletedRunsAreGone == Spec => []CompletedIsGone
<1>1. Inv => CompletedIsGone
  <2>. SUFFICES ASSUME Inv, NEW r \in Runs, NEW m \in Messages,
                       run[r] = "completed", m \in frozen[r]
                PROVE  \/ item[r][m].status = "skipped"
                       \/ item[r][m].status = "completed" /\ row[m] = "removed" /\ left[m] = {}
    BY DEF CompletedIsGone
  <2>1. item[r][m].status \in {"skipped", "completed"}
    BY DEF Inv, Authorised, Shown, Truthful, Leased
  <2>. QED BY <2>1 DEF Inv, Truthful, ItemTrue
<1>. QED BY <1>1, Invariance, PTL

\* The objects of a removed message are about to be removed, or a failure was
\* reported, or a worker without a lease removed the message.
THEOREM NoOrphans == Spec => []NothingOrphaned
<1>1. Inv => NothingOrphaned
  <2>. SUFFICES ASSUME Inv, NEW m \in Messages \ late, row[m] = "removed", left[m] # {}
                PROVE  CleanupDue(m) \/ Reported(m)
    BY DEF NothingOrphaned
  <2>1. PICK r \in Runs : Begun(r) /\ item[r][m].status \in {"d1_deleted", "completed", "failed"}
    BY DEF Inv, Truthful, Tracked
  <2>2. CASE item[r][m].status = "d1_deleted"
    <3>1. run[r] # "completed"
      BY <2>2 DEF Inv, Truthful, Leased
    <3>. QED BY <2>1, <2>2, <3>1 DEF Begun, CleanupDue, Reported, Pending
  <2>3. CASE item[r][m].status = "failed"
    BY <2>1, <2>3 DEF Begun, Reported
  <2>4. item[r][m].status # "completed"
    BY DEF Inv, Truthful, ItemTrue
  <2>. QED BY <2>1, <2>2, <2>3, <2>4
<1>. QED BY <1>1, Invariance, PTL
=============================================================================
