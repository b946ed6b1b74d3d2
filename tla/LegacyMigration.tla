--------------------------- MODULE LegacyMigration ---------------------------
(***************************************************************************)
(* The migration of an archived webmail into this one, as the operator     *)
(* drives it with the migrate:legacy commands: a backup of the archived    *)
(* database is imported, its raw MIME objects are fetched into a local     *)
(* snapshot, a stage is prepared and applied to R2 and D1.  Stage 0 is the *)
(* complete baseline; the others are deltas over it, made from later       *)
(* backups.  One command runs at a time; it may die between any two of its *)
(* durable effects and is then given again.  A configuration entry and a   *)
(* message carry a version: the fields, or the flags, that may change.     *)
(***************************************************************************)
EXTENDS Naturals, Sequences, FiniteSets, SequencesExt

CONSTANTS Messages, Labels, Rules, Preferences,
          Assigned,     \* message_labels that may exist: [msg, label]
          Deltas,       \* numbers of the delta stages
          Versions,     \* what a row's changeable fields hold
          Absent,       \* no row
          NoBackup,     \* a backup that was not imported
          RawOf,        \* the raw MIME of a message
          RuleName,     \* the name of a rule, by its version
          RuleLabels,   \* the labels a rule's action applies (one at most), by its version
          Initial,      \* what the archived system may hold at first
          ChunkSize,    \* statements in an SQL file (50)
          Ordered,      \* the operator applies a delta after the baseline
          MaxEdits,     \* bound: changes in the archived system
          MaxFaults     \* bound: commands that die, bad transfers

Entry == Labels \cup Rules \cup Preferences
Key   == Messages \cup Entry \cup Assigned
Stage == {0} \cup Deltas
Raws  == {RawOf[m] : m \in Messages}

ASSUME KeyAssumption ==
  /\ Assigned \subseteq [msg : Messages, label : Labels]
  /\ IsFiniteSet(Key)
  /\ Messages \cap (Entry \cup Assigned) = {} /\ Assigned \cap Entry = {}
  /\ Labels \cap Rules = {} /\ Labels \cap Preferences = {} /\ Rules \cap Preferences = {}
  /\ DOMAIN RawOf = Messages
  /\ RuleLabels \in [Rules -> [Versions -> SUBSET Labels]]
  /\ \A r \in Rules : DOMAIN RuleName[r] = Versions
ASSUME StageAssumption == Deltas \subseteq Nat \ {0} /\ Ordered \in BOOLEAN
ASSUME BoundAssumption == ChunkSize \in Nat \ {0} /\ MaxEdits \in Nat /\ MaxFaults \in Nat

VARIABLES legacy,   \* the archived system
          backup,   \* the imported databases, by stage
          snap,     \* snapshot.sqlite: absent, torn by a crash, or ready
          rows,     \* snapshot_objects.status
          files,    \* the raw MIME in the snapshot directory
          staged,   \* the stage directory
          bucket,   \* the target R2 bucket
          d1,       \* the target D1 database
          saved,    \* bulk-apply-state, by stage
          doing,    \* the effect of the running command not yet recorded
          edits, faults

source == <<legacy, backup, edits>>
local  == <<snap, rows, files, staged>>
vars   == <<source, local, bucket, d1, saved, doing, faults>>

Content == [Key -> Versions \cup {Absent}]
NoRows  == [x \in Key |-> Absent]
Present(c, S) == {x \in S : c[x] # Absent}

\* mail_rules: UNIQUE (mailbox_id, name).
NamesDiffer(c) == \A q, r \in Present(c, Rules) : RuleName[q][c[q]] = RuleName[r][c[r]] => q = r

\* A rule's labels are made with it, and uniqueName gives the rules of one database
\* different names: one edit there may so be several here.
WellFormed(c) == /\ \A a \in Assigned : c[a] # Absent => c[a.msg] # Absent /\ c[a.label] # Absent
                 /\ \A r \in Present(c, Rules) : \A l \in RuleLabels[r][c[r]] : c[l] # Absent
                 /\ NamesDiffer(c)

ASSUME ContentAssumption == Absent \notin Versions /\ NoBackup \notin Content
ASSUME InitialAssumption == \A c \in Initial : c \in Content /\ WellFormed(c)

Bytes    == {"none", "good", "bad"}
Idle     == [at |-> "idle"]
Fresh    == [copied |-> FALSE, verified |-> FALSE, next |-> 0, done |-> FALSE]
EmptyD1  == [row |-> NoRows, batch |-> {}, owned |-> {}, header |-> {}, change |-> {}]

Init == /\ legacy \in Initial
        /\ backup = [k \in Stage |-> NoBackup]
        /\ snap   = [k \in Stage |-> "absent"]
        /\ rows   = [k \in Stage |-> [m \in Messages |-> "none"]]
        /\ files  = [k \in Stage |-> [m \in Messages |-> "none"]]
        /\ staged = [k \in Stage |-> "absent"]
        /\ bucket = [r \in Raws |-> "none"]
        /\ d1     = EmptyD1
        /\ saved  = [k \in Stage |-> Fresh]
        /\ doing  = Idle
        /\ edits = 0 /\ faults = 0

-------------------------------------------------------------------------------
(* The archived system, and the import of its safe backup.                 *)

Imported(k) == backup[k] # NoBackup

Edited(x, v) == [y \in Key |->
   IF y = x THEN v
   ELSE IF y \in Assigned /\ v = Absent /\ x \in {y.msg, y.label} THEN Absent
   ELSE legacy[y]]

\* Mutations after the last import are of no consequence here.
Edit == /\ edits < MaxEdits
        /\ \E k \in Stage : ~Imported(k)
        /\ \E x \in Key, v \in Versions \cup {Absent} :
              /\ v # legacy[x]
              /\ WellFormed(Edited(x, v))
              /\ legacy' = Edited(x, v)
        /\ edits' = edits + 1
        /\ UNCHANGED <<backup, local, bucket, d1, saved, doing, faults>>

\* importLegacySafeSql; a delta needs the mapping refreshed from the baseline.
Import(k) == /\ doing = Idle
             /\ ~Imported(k)
             /\ \A j \in Stage : j < k => Imported(j)
             /\ backup' = [backup EXCEPT ![k] = legacy]
             /\ UNCHANGED <<legacy, edits, local, bucket, d1, saved, doing, faults>>

-------------------------------------------------------------------------------
(* The snapshot: a row is ready once its file was verified and renamed.    *)

Mine(k)     == Present(backup[k], Messages)
Complete(k) == snap[k] = "ready" /\ \A m \in Mine(k) : rows[k][m] = "ready"

\* initializeLegacySnapshot; a crash leaves a file that later commands refuse.
OpenSnapshot(k) ==
  /\ doing = Idle
  /\ Imported(k) /\ snap[k] = "absent" /\ Mine(k) # {}
  /\ \/ /\ snap' = [snap EXCEPT ![k] = "ready"]
        /\ rows' = [rows EXCEPT ![k] = [m \in Messages |-> IF m \in Mine(k) THEN "pending" ELSE "none"]]
        /\ UNCHANGED faults
     \/ /\ faults < MaxFaults
        /\ snap' = [snap EXCEPT ![k] = "torn"]
        /\ faults' = faults + 1
        /\ UNCHANGED rows
  /\ UNCHANGED <<source, files, staged, bucket, d1, saved, doing>>

RemoveTorn(k) == /\ doing = Idle /\ snap[k] = "torn"
                 /\ snap' = [snap EXCEPT ![k] = "absent"]
                 /\ UNCHANGED <<source, rows, files, staged, bucket, d1, saved, doing, faults>>

\* Mutant: a file that is there counts as verified.
Verified_Exists(bytes) == bytes # "none"

Verified(bytes) == bytes = "good"

Store(k, m, bytes) ==
  /\ files' = [files EXCEPT ![k][m] = bytes]
  /\ doing' = [at |-> "stored", stage |-> k, msg |-> m]
  /\ UNCHANGED <<source, snap, rows, staged, bucket, d1, saved, faults>>

Unfinished(k, m) == /\ doing = Idle
                    /\ snap[k] = "ready" /\ m \in Mine(k)
                    /\ rows[k][m] # "ready"

\* fetchOne: the download, its verification and the rename.
Fetch(k, m) == Unfinished(k, m) /\ Verified("good") /\ Store(k, m, "good")

FetchBad(k, m) ==
  /\ Unfinished(k, m)
  /\ faults < MaxFaults
  /\ \E bytes \in {"bad", "none"} :
       IF Verified(bytes)
       THEN Store(k, m, bytes)
       ELSE /\ rows' = [rows EXCEPT ![k][m] = IF bytes = "none" THEN "missing" ELSE "invalid"]
            /\ faults' = faults + 1
            /\ UNCHANGED <<source, snap, files, staged, bucket, d1, saved, doing>>

\* seedLegacySnapshot: a delta's snapshot takes what the baseline's already has.
Seed(k, m) == /\ Unfinished(k, m)
              /\ k # 0 /\ Complete(0) /\ rows[0][m] = "ready"
              /\ Verified(files[0][m])
              /\ Store(k, m, files[0][m])

MarkReady == /\ doing.at = "stored"
             /\ rows' = [rows EXCEPT ![doing.stage][doing.msg] = "ready"]
             /\ doing' = Idle
             /\ UNCHANGED <<source, snap, files, staged, bucket, d1, saved, faults>>

-------------------------------------------------------------------------------
(* The stage: SQL files over the content of the backups.                   *)

Duplicated(k) == \E m, n \in Mine(k) : m # n /\ RawOf[m] = RawOf[n]
Removed(k)    == Mine(0) \ Mine(k)

\* prepareLegacyMigrationStage; a crash leaves a directory without a manifest.
PrepareBaseline ==
  /\ doing = Idle
  /\ staged[0] = "absent" /\ Complete(0)
  /\ \/ /\ staged' = [staged EXCEPT ![0] = IF Duplicated(0) THEN "incomplete" ELSE "complete"]
        /\ UNCHANGED faults
     \/ /\ faults < MaxFaults
        /\ staged' = [staged EXCEPT ![0] = "partial"]
        /\ faults' = faults + 1
  /\ UNCHANGED <<source, snap, rows, files, bucket, d1, saved, doing>>

\* prepareLegacyDeltaStage: removes its directory unless the delta can be made.
Acceptable(k) == Removed(k) = {} /\ ~Duplicated(k)
PrepareDelta(k) ==
  /\ doing = Idle
  /\ k # 0 /\ staged[k] = "absent" /\ staged[0] = "complete" /\ Complete(k)
  /\ \/ /\ Acceptable(k)
        /\ staged' = [staged EXCEPT ![k] = "complete"]
        /\ UNCHANGED faults
     \/ /\ faults < MaxFaults
        /\ staged' = [staged EXCEPT ![k] = "partial"]
        /\ faults' = faults + 1
  /\ UNCHANGED <<source, snap, rows, files, bucket, d1, saved, doing>>

RemovePartial(k) == /\ doing = Idle /\ staged[k] = "partial"
                    /\ staged' = [staged EXCEPT ![k] = "absent"]
                    /\ UNCHANGED <<source, snap, rows, files, bucket, d1, saved, doing, faults>>

-------------------------------------------------------------------------------
(* The SQL of a stage: what becomes of each row, and in what order.        *)

\* Mutant: only what is in the new backup is compared.
Change_NoDelete(from, to, x) == CASE from[x] = to[x] \/ to[x] = Absent -> "none"
                                  [] from[x] = Absent /\ to[x] # Absent -> "insert"
                                  [] OTHER -> "update"

\* collectLegacyMessageDelta, collectLegacyConfigurationDelta.
Change(from, to, x) == CASE from[x] = to[x]                       -> "none"
                         [] from[x] = Absent /\ to[x] # Absent   -> "insert"
                         [] from[x] # Absent /\ to[x] = Absent   -> "delete"
                         [] OTHER                                 -> "update"

Mutations == {"insert", "update", "delete"}
Changed(from, to, S, how) == {x \in S : Change(from, to, x) \in how}

Header == [do |-> "header", key |-> Absent, val |-> Absent]
Statement(from, to, x) == [do |-> Change(from, to, x), key |-> x, val |-> to[x]]

\* One statement for each; the code has an order of its own.
Each(from, to, S, how) == LET list == SetToSeq(Changed(from, to, S, how))
                          IN  [i \in DOMAIN list |-> Statement(from, to, list[i])]

\* buildLegacyConfigurationPlan, then the messages with their labels.
BaselineSql(c) ==
  <<Header>> \o Each(NoRows, c, Labels, Mutations) \o Each(NoRows, c, Rules, Mutations)
             \o Each(NoRows, c, Preferences, Mutations)
             \o Each(NoRows, c, Messages, Mutations) \o Each(NoRows, c, Assigned, Mutations)

\* Mutant: labels are deleted with the other changes of labels.
DeltaSql_LabelsFirst(from, to) ==
  <<Header>> \o Each(from, to, Messages, {"insert"}) \o Each(from, to, Messages, {"update"})
             \o Each(from, to, Labels, Mutations)
             \o Each(from, to, Rules, {"insert", "update"}) \o Each(from, to, Rules, {"delete"})
             \o Each(from, to, Preferences, Mutations) \o Each(from, to, Assigned, Mutations)

\* renderLegacyConfigurationDelta after the messages and flags: labels are deleted last.
DeltaSql(from, to) ==
  <<Header>> \o Each(from, to, Messages, {"insert"}) \o Each(from, to, Messages, {"update"})
             \o Each(from, to, Labels, {"insert", "update"})
             \o Each(from, to, Rules, {"insert", "update"}) \o Each(from, to, Rules, {"delete"})
             \o Each(from, to, Preferences, Mutations) \o Each(from, to, Assigned, Mutations)
             \o Each(from, to, Labels, {"delete"})

\* What a stage's rows are compared with: a delta's with the baseline's.
Before(k)  == IF k = 0 THEN NoRows ELSE backup[0]
Changes(k) == Changed(Before(k), backup[k], Key, Mutations)
Sql(k)     == IF k = 0 THEN BaselineSql(backup[0]) ELSE DeltaSql(backup[0], backup[k])

\* The last statement of each SQL file: the header, then chunks of the rest.
Cut(from, to) == {n \in from + 1 .. to : n = to \/ (n - from) % ChunkSize = 0}
FileEnds(k)   == LET all  == Len(Sql(k))
                     plan == IF k = 0 THEN 1 + Cardinality(Present(backup[0], Entry)) ELSE 1
                 IN  {1} \cup Cut(1, plan) \cup Cut(plan, all)

-------------------------------------------------------------------------------
(* One SQL statement with its provenance rows and its guard.               *)

Parents(d, x)    == x \in Assigned => d.row[x.msg] # Absent /\ d.row[x.label] # Absent
Owned(d, x)      == IF x \in Messages THEN <<0, x>> \in d.batch ELSE x \in d.owned
LinkedRule(d, x) == \E r \in Present(d.row, Rules) : x \in RuleLabels[r][d.row[r]]

Without(d, x)  == [y \in Key |-> IF y = x \/ (y \in Assigned /\ x \in {y.msg, y.label})
                                 THEN Absent ELSE d.row[y]]

\* INSERT ... WHERE EXISTS the parents ... ON CONFLICT DO NOTHING; the baseline's
\* preferences overwrite what the user has.
Inserted(d, k, s) ==
  IF (d.row[s.key] = Absent /\ Parents(d, s.key)) \/ (k = 0 /\ s.key \in Preferences)
  THEN [d.row EXCEPT ![s.key] = s.val] ELSE d.row
\* A delta changes and deletes only what the baseline brought.
Updated(d, s) == IF d.row[s.key] # Absent /\ Owned(d, s.key)
                 THEN [d.row EXCEPT ![s.key] = s.val] ELSE d.row
Deleted(d, s) == IF Owned(d, s.key) THEN Without(d, s.key) ELSE d.row

Written(d, k, s) == CASE s.do = "insert" -> Inserted(d, k, s)
                      [] s.do = "update" -> Updated(d, s)
                      [] OTHER           -> Deleted(d, s)

\* What the guard after the statement asks of the rows.
Expected(k, s, row) ==
  /\ IF s.do = "insert" /\ (s.key \in Messages \/ (k = 0 /\ s.key \in Assigned))
     THEN row[s.key] # Absent
     ELSE row[s.key] = s.val
  /\ (k # 0 /\ s.key \in Rules /\ s.do # "delete") =>
        \A l \in RuleLabels[s.key][s.val] : row[l] # Absent

\* The statement is carried out: no guard, foreign key or unique name refuses it.
Allowed(d, k, s) ==
  IF s.do = "header" THEN k # 0 => 0 \in d.header
  ELSE /\ s.do = "delete" => ~LinkedRule(d, s.key)
       /\ NamesDiffer(Written(d, k, s))
       /\ Expected(k, s, Written(d, k, s))

\* Mutant: a statement of the baseline records a change as well.
Execute_RecordsAll(d, k, s) ==
  IF s.do = "header" THEN [d EXCEPT !.header = @ \cup {k}]
  ELSE [d EXCEPT !.row = Written(d, k, s), !.change = @ \cup {<<k, s.key>>}]

Execute(d, k, s) ==
  IF s.do = "header" THEN [d EXCEPT !.header = @ \cup {k}]
  ELSE [d EXCEPT !.row    = Written(d, k, s),
                 !.batch  = IF s.do = "insert" /\ s.key \in Messages THEN @ \cup {<<k, s.key>>} ELSE @,
                 !.owned  = IF k = 0 /\ s.key \notin Messages THEN @ \cup {s.key} ELSE @,
                 !.change = IF k # 0 THEN @ \cup {<<k, s.key>>} ELSE @]

-------------------------------------------------------------------------------
(* applyLegacyStageBulk: copy, check, SQL files, audit; each saved when done. *)

Intact(k) == staged[k] = "complete"
Staged(k) == {RawOf[m] : m \in IF k = 0 THEN Mine(0) ELSE Mine(k) \ Mine(0)}
Ready(k)  == /\ doing = Idle
             /\ Intact(k) /\ ~saved[k].done
             /\ (Ordered /\ k # 0) => saved[0].done

\* rclone copy --immutable refuses an object whose content differs.
Copy(k) == /\ Ready(k) /\ ~saved[k].copied
           /\ \A r \in Staged(k) : bucket[r] # "bad"
           /\ bucket' = [r \in Raws |-> IF r \in Staged(k) THEN "good" ELSE bucket[r]]
           /\ doing' = [at |-> "copied", stage |-> k]
           /\ UNCHANGED <<source, local, d1, saved, faults>>

\* The copy dies half way, or one object arrives damaged.
CopyBad(k) ==
  /\ Ready(k) /\ ~saved[k].copied
  /\ faults < MaxFaults /\ faults' = faults + 1
  /\ \A r \in Staged(k) : bucket[r] # "bad"
  /\ \/ /\ \E S \in SUBSET Staged(k) :
              bucket' = [r \in Raws |-> IF r \in S THEN "good" ELSE bucket[r]]
        /\ UNCHANGED doing
     \/ /\ \E bad \in {r \in Staged(k) : bucket[r] = "none"} :
              bucket' = [r \in Raws |-> IF r = bad THEN "bad"
                                        ELSE IF r \in Staged(k) THEN "good" ELSE bucket[r]]
        /\ doing' = [at |-> "copied", stage |-> k]
  /\ UNCHANGED <<source, local, d1, saved>>

\* Mutant: the check compares names only.
CheckPasses_Names(k) == \A r \in Staged(k) : bucket[r] # "none"
\* rclone check --download of every staged object.
CheckPasses(k) == \A r \in Staged(k) : bucket[r] = "good"
Check(k) == /\ Ready(k) /\ saved[k].copied /\ ~saved[k].verified
            /\ CheckPasses(k)
            /\ doing' = [at |-> "checked", stage |-> k]
            /\ UNCHANGED <<source, local, bucket, d1, saved, faults>>

\* The operator uploads a damaged or lost object again.
Repair(r) == /\ doing = Idle /\ bucket[r] = "bad"
             /\ bucket' = [bucket EXCEPT ![r] = "good"]
             /\ UNCHANGED <<source, local, d1, saved, doing, faults>>

\* How many statements the command knows to be executed.
Executing(k) == doing.at \in {"running", "executed"} /\ doing.stage = k
Reached(k)   == IF Executing(k) THEN doing.pos ELSE saved[k].next

\* The import of a file begins, or goes on with its next statement.
Writing(k) == /\ \/ Ready(k) /\ saved[k].verified
                 \/ doing.at = "running" /\ doing.stage = k
              /\ Reached(k) < Len(Sql(k))

NextStatement(k) == Sql(k)[Reached(k) + 1]

RunStatement(k) ==
  /\ Writing(k)
  /\ Allowed(d1, k, NextStatement(k))
  /\ d1' = Execute(d1, k, NextStatement(k))
  /\ doing' = [at    |-> IF Reached(k) + 1 \in FileEnds(k) THEN "executed" ELSE "running",
               stage |-> k, pos |-> Reached(k) + 1]
  /\ UNCHANGED <<source, local, bucket, saved, faults>>

\* Mutant: the exit status of the import is not looked at.
ImportFails_Ignored ==
  /\ doing.at = "running"
  /\ faults < MaxFaults /\ faults' = faults + 1
  /\ \E n \in FileEnds(doing.stage) :
       /\ n > doing.pos
       /\ doing' = [doing EXCEPT !.at = "executed", !.pos = n]
  /\ UNCHANGED <<source, local, bucket, d1, saved>>

\* The import stops after some of a file's statements: the next one is refused,
\* or the call fails.  The file stays the next one.
ImportFails ==
  /\ doing.at = "running"
  /\ IF Allowed(d1, doing.stage, NextStatement(doing.stage))
     THEN faults < MaxFaults /\ faults' = faults + 1
     ELSE UNCHANGED faults
  /\ doing' = Idle
  /\ UNCHANGED <<source, local, bucket, d1, saved>>

Save == /\ doing.at \in {"copied", "checked", "executed"}
        /\ saved' = [saved EXCEPT ![doing.stage] =
             CASE doing.at = "copied"  -> [@ EXCEPT !.copied = TRUE]
               [] doing.at = "checked" -> [@ EXCEPT !.verified = TRUE]
               [] OTHER                -> [@ EXCEPT !.next = doing.pos]]
        /\ doing' = Idle
        /\ UNCHANGED <<source, local, bucket, d1, faults>>

\* auditLegacyConfiguration: every provenance row has its target, and all are there.
AuditConfiguration == Present(d1.row, d1.owned) = Present(backup[0], Key \ Messages)
\* auditLegacyTarget: counts and provenance, not every row.
AuditBaseline ==
  LET brought == {m \in Messages : <<0, m>> \in d1.batch}
  IN  /\ 0 \in d1.header
      /\ Cardinality(brought) = Cardinality(Mine(0))
      /\ \A v \in Versions : Cardinality({m \in brought : d1.row[m] = v})
                               = Cardinality({m \in Mine(0) : backup[0][m] = v})
      /\ AuditConfiguration
AuditDelta(k) == /\ k \in d1.header
                 /\ {c \in d1.change : c[1] = k} = {<<k, x>> : x \in Changes(k)}
                 /\ \A x \in Changes(k) : d1.row[x] = Absent <=> backup[k][x] = Absent
Audit(k) == IF k = 0 THEN AuditBaseline ELSE AuditDelta(k)

Finish(k) == /\ Ready(k) /\ saved[k].verified /\ saved[k].next = Len(Sql(k))
             /\ Audit(k)
             /\ saved' = [saved EXCEPT ![k].done = TRUE]
             /\ UNCHANGED <<source, local, bucket, d1, doing, faults>>

\* The command dies; what it had not recorded is lost to it.
Crash == /\ doing # Idle /\ faults < MaxFaults
         /\ faults' = faults + 1
         /\ doing' = Idle
         /\ UNCHANGED <<source, local, bucket, d1, saved>>

-------------------------------------------------------------------------------
Prepare == PrepareBaseline \/ \E k \in Stage : PrepareDelta(k) \/ RemovePartial(k)
Snapshot(k) == \/ OpenSnapshot(k) \/ RemoveTorn(k)
               \/ \E m \in Messages : Fetch(k, m) \/ FetchBad(k, m) \/ Seed(k, m)
Apply(k) == Copy(k) \/ CopyBad(k) \/ Check(k) \/ RunStatement(k) \/ Finish(k)

Next == \/ Edit \/ MarkReady \/ Prepare \/ Save \/ ImportFails \/ Crash
        \/ \E k \in Stage : Import(k) \/ Snapshot(k) \/ Apply(k)
        \/ \E r \in Raws : Repair(r)

Spec == Init /\ [][Next]_vars

-------------------------------------------------------------------------------
(* Properties.                                                             *)

D1 == [row : Content, batch : SUBSET (Stage \X Messages), owned : SUBSET (Entry \cup Assigned),
       header : SUBSET Stage, change : SUBSET (Deltas \X Key)]
Doing == {Idle} \cup [at : {"stored"}, stage : Stage, msg : Messages]
                \cup [at : {"copied", "checked"}, stage : Stage]
                \cup [at : {"running", "executed"}, stage : Stage, pos : Nat \ {0}]

\* The types of the variables.
TypeOK ==
  /\ legacy \in Content
  /\ backup \in [Stage -> Content \cup {NoBackup}]
  /\ snap \in [Stage -> {"absent", "torn", "ready"}]
  /\ rows \in [Stage -> [Messages -> {"none", "pending", "ready", "missing", "invalid"}]]
  /\ files \in [Stage -> [Messages -> Bytes]]
  /\ staged \in [Stage -> {"absent", "partial", "incomplete", "complete"}]
  /\ bucket \in [Raws -> Bytes]
  /\ d1 \in D1
  /\ saved \in [Stage -> [copied : BOOLEAN, verified : BOOLEAN, next : Nat, done : BOOLEAN]]
  /\ doing \in Doing
  /\ edits \in 0..MaxEdits /\ faults \in 0..MaxFaults

\* "Each object is checked before it becomes ready" (fetchOne, seedLegacySnapshot):
\* whatever died in between, a ready row stands for a file with the archived MIME.
ReadyIsVerified == \A k \in Stage, m \in Messages : rows[k][m] = "ready" => files[k][m] = "good"

\* No message row without its object (applyLegacyStageBulk copies and checks R2
\* before it changes D1, also when it resumes).
RowsHaveObjects == \A m \in Messages : d1.row[m] # Absent => bucket[RawOf[m]] = "good"

\* What the state file says was executed was executed: resuming skips nothing.
Left(d, k, s) == IF s.do = "header" THEN k \in d.header
                 ELSE IF k # 0 THEN <<k, s.key>> \in d.change ELSE Owned(d, s.key)
SavedIsExecuted ==
  \A k \in Stage : \A n \in 1..saved[k].next : Left(d1, k, Sql(k)[n])

\* Once a stage is applied and audited, and no other delta was begun, D1 holds what
\* the archived system held in the stage's backup (docs/legacy-migration.md:312-323).
Alone(k) == \A j \in Deltas \ {k} : j \notin d1.header
TargetMatchesBackup == \A k \in Stage : saved[k].done /\ Alone(k) => d1.row = backup[k]

\* A stage goes through from where it stands, a delta on a target with the baseline:
\* its next statement is refused only when it gives a rule a name that another rule has
\* in the baseline's backup (collectRules puts the deletes of rules after their inserts
\* and updates), and at its end the audit passes.
TakesName(s) == /\ s.key \in Rules /\ s.do # "delete"
                /\ \E r \in Present(backup[0], Rules) \ {s.key} :
                      RuleName[r][backup[0][r]] = RuleName[s.key][s.val]
StagesRunThrough ==
  \A k \in Stage : (Intact(k) /\ Alone(k) /\ (k # 0 => saved[0].done)) =>
     IF Reached(k) < Len(Sql(k))
     THEN Allowed(d1, k, NextStatement(k)) \/ TakesName(NextStatement(k))
     ELSE Audit(k)
=============================================================================
