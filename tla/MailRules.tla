------------------------------ MODULE MailRules ------------------------------
(***************************************************************************)
(* One mail rule of one mailbox and what is done with it: owners create,   *)
(* edit and delete it, freeze a preview, apply the preview to existing     *)
(* mail, undo a run; the inbound consumer applies it to mail on arrival.   *)
(* Every request is a sequence of D1 calls, so several requests, several   *)
(* deliveries and the users' own edits interleave between them.            *)
(***************************************************************************)
EXTENDS Naturals, FiniteSets

CONSTANTS Messages,      \* messages of the mailbox
          Arrival,       \* the message the inbound consumer delivers
          Labels,        \* mailbox_labels.id
          Definitions,   \* the actions that owners give the rule
          Requests,      \* requests and deliveries; each has its own timestamp
          Never, ByUser, \* deleted_at: NULL, and the time of a user's deletion
          PreviewLimit,  \* matches a preview freezes (200)
          MaxRevision,   \* bound: revisions of the rule
          MaxEdits,      \* bound: edits by users, deletions of mail and labels
          MaxFaults      \* bound: requests that die

Action == {a \in [star : BOOLEAN, archive : BOOLEAN, trash : BOOLEAN, labels : SUBSET Labels] :
             /\ ~(a.archive /\ a.trash)
             /\ a.star \/ a.archive \/ a.trash \/ a.labels # {}}

ASSUME DomainAssumption == /\ Arrival \in Messages
                           /\ Definitions \subseteq Action
                           /\ Definitions # {}
                           /\ {Never, ByUser} \cap Requests = {}
                           /\ Never # ByUser
ASSUME BoundsAssumption == /\ PreviewLimit \in Nat \ {0}
                           /\ MaxRevision \in Nat \ {0}
                           /\ MaxEdits \in Nat
                           /\ MaxFaults \in Nat

VARIABLES rule,     \* mail_rules: the row, or absent
          linked,   \* mail_rule_labels of the rule
          labels,   \* mailbox_labels
          flags,    \* messages: is_starred, is_archived, deleted_at, or gone
          owner,    \* message_labels: absent, of a user, or of the rule
          runs,     \* mail_rule_runs
          matches,  \* mail_rule_run_matches
          maker,    \* the request that creates the rule
          req,      \* what each other request knows and does next
          edited,   \* messages that users touched
          again,    \* what a run changed after it had recorded it
          edits, faults

mailbox == <<labels, flags, owner>>
history == <<edited, again>>
vars    == <<rule, linked, maker, mailbox, runs, matches, req, history, edits, faults>>

\* The runs of one preview and of one arrival, and those that undo them.
Run == {"preview", "apply", "incoming", "undo_apply", "undo_incoming"}
SourceOf == [r \in Run |-> CASE r = "apply" -> "preview"
                             [] r = "undo_apply" -> "apply"
                             [] r = "undo_incoming" -> "incoming"
                             [] OTHER -> r]

Stamp    == Requests \cup {Never, ByUser}
Flags    == [starred : BOOLEAN, archived : BOOLEAN, deleted : Stamp]
Snapshot == [flags : Flags, labels : SUBSET Labels]
Gone     == [gone |-> TRUE]
NoRun    == [status |-> "absent"]
NoMatch  == [recorded |-> FALSE]

Inbox == [starred |-> FALSE, archived |-> FALSE, deleted |-> Never]
Blank == [flags |-> Inbox, labels |-> {}]

Present == {m \in Messages : flags[m] # Gone}
Carried(m) == {l \in Labels : owner[m][l] # "none"}

\* getRuleMessageState
State(m) == [flags |-> flags[m], labels |-> Carried(m)]

Recorded(r) == {m \in Messages : matches[r][m] # NoMatch}

Idle == [pc |-> "idle", run |-> "preview", actions |-> CHOOSE a \in Definitions : TRUE,
         revision |-> 0, seen |-> "absent", found |-> FALSE, todo |-> {}, at |-> Arrival,
         before |-> Blank]

Init ==
  /\ rule = [live |-> FALSE, revision |-> 0, actions |-> Idle.actions, existing |-> FALSE,
             incoming |-> FALSE]
  /\ linked = {}
  /\ maker = [pc |-> "check", actions |-> Idle.actions]
  /\ labels = Labels
  /\ flags = [m \in Messages |-> Inbox]
  /\ owner = [m \in Messages |-> [l \in Labels |-> "none"]]
  /\ runs = [r \in Run |-> NoRun]
  /\ matches = [r \in Run |-> [m \in Messages |-> NoMatch]]
  /\ req = [p \in Requests |-> Idle]
  /\ edited = {}
  /\ again = {}
  /\ edits = 0
  /\ faults = 0

Goto(p, pc) == req' = [req EXCEPT ![p].pc = pc]
End(p)      == Goto(p, "done")
Edit        == edits < MaxEdits /\ edits' = edits + 1
At(p, pc)   == req[p].pc = pc

-----------------------------------------------------------------------------
(* The rule.                                                               *)

\* createMailboxRule: requireRuleLabels.
CreateCheck ==
  /\ maker.pc = "check"
  /\ \E a \in Definitions : /\ a.labels \subseteq labels
                            /\ maker' = [pc |-> "insert", actions |-> a]
  /\ UNCHANGED <<rule, linked, mailbox, runs, matches, req, history, edits, faults>>

\* Its INSERT.
CreateInsert ==
  /\ maker.pc = "insert"
  /\ \E existing, incoming \in BOOLEAN :
       rule' = [live |-> TRUE, revision |-> 1, actions |-> maker.actions,
                existing |-> existing, incoming |-> incoming]
  /\ maker' = [maker EXCEPT !.pc = "link"]
  /\ UNCHANGED <<linked, mailbox, runs, matches, req, history, edits, faults>>

\* replaceRuleLabels, a call of its own that the foreign keys may refuse.
CreateLink ==
  /\ maker.pc = "link"
  /\ linked' = IF rule.live /\ maker.actions.labels \subseteq labels
                 THEN linked \cup maker.actions.labels ELSE linked
  /\ maker' = [maker EXCEPT !.pc = "done"]
  /\ UNCHANGED <<rule, mailbox, runs, matches, req, history, edits, faults>>

\* patchRule and updateMailboxRule: one batch, after checks that the batch's
\* foreign keys repeat.
Patch ==
  /\ Edit
  /\ rule.live
  /\ rule.revision < MaxRevision
  /\ \E a \in Definitions, existing, incoming \in BOOLEAN :
       /\ a.labels \subseteq labels
       /\ rule' = [live |-> TRUE, revision |-> rule.revision + 1, actions |-> a,
                   existing |-> existing, incoming |-> incoming]
       /\ linked' = a.labels
  /\ UNCHANGED <<maker, mailbox, runs, matches, req, history, faults>>

\* deleteMailboxRule; mail_rule_labels follows, runs stay.
DeleteRule ==
  /\ Edit
  /\ rule.live
  /\ rule' = [rule EXCEPT !.live = FALSE]
  /\ linked' = {}
  /\ UNCHANGED <<maker, mailbox, runs, matches, req, history, faults>>

-----------------------------------------------------------------------------
(* Users and their mail.                                                   *)

\* updateWebMessageFlags: a patch of one flag.
SetFlag(m) ==
  /\ Edit
  /\ m \in Present
  /\ \E f \in {[flags[m] EXCEPT !.starred = ~@], [flags[m] EXCEPT !.archived = ~@],
               [flags[m] EXCEPT !.deleted = ByUser], [flags[m] EXCEPT !.deleted = Never]} :
       flags' = [flags EXCEPT ![m] = f]
  /\ edited' = edited \cup {m}
  /\ UNCHANGED <<rule, linked, maker, labels, owner, runs, matches, req, again, faults>>

\* replaceMessageLabels: a row of the rule keeps its source_rule_id.
ReplaceLabels(m) ==
  /\ Edit
  /\ m \in Present
  /\ \E S \in SUBSET labels :
       owner' = [owner EXCEPT ![m] = [l \in Labels |->
                   IF @[l] = "rule" THEN "rule" ELSE IF l \in S THEN "user" ELSE "none"]]
  /\ edited' = edited \cup {m}
  /\ UNCHANGED <<rule, linked, maker, labels, flags, runs, matches, req, again, faults>>

\* Neither the check nor the foreign key.
DeleteLabel_Linked(l) ==
  /\ Edit
  /\ l \in labels
  /\ labels' = labels \ {l}
  /\ owner' = [m \in Messages |-> [owner[m] EXCEPT ![l] = "none"]]
  /\ edited' = Messages
  /\ UNCHANGED <<rule, linked, maker, flags, runs, matches, req, again, faults>>

\* deleteMailboxLabel: its check and the foreign key of mail_rule_labels ask the
\* same; message_labels follows.
DeleteLabel(l) ==
  /\ Edit
  /\ l \in labels \ linked
  /\ labels' = labels \ {l}
  /\ owner' = [m \in Messages |-> [owner[m] EXCEPT ![l] = "none"]]
  /\ edited' = Messages
  /\ UNCHANGED <<rule, linked, maker, flags, runs, matches, req, again, faults>>

\* deleteRetentionMetadata: the rows of the message follow, its incoming run too.
RemoveMessage(m) ==
  /\ Edit
  /\ m \in Present
  /\ flags' = [flags EXCEPT ![m] = Gone]
  /\ owner' = [owner EXCEPT ![m] = [l \in Labels |-> "none"]]
  /\ LET cut == IF m = Arrival THEN {"incoming"} ELSE {}
     IN /\ runs' = [r \in Run |-> IF r \in cut THEN NoRun ELSE runs[r]]
        /\ matches' = [r \in Run |-> [n \in Messages |->
                         IF n = m \/ r \in cut THEN NoMatch ELSE matches[r][n]]]
  /\ UNCHANGED <<rule, linked, maker, labels, req, history, faults>>

-----------------------------------------------------------------------------
(* Preview.                                                                *)

\* previewRule reads the rule.
PreviewRead(p) ==
  /\ At(p, "idle")
  /\ rule.live
  /\ req' = [req EXCEPT ![p].pc = "freeze", ![p].actions = rule.actions,
                        ![p].revision = rule.revision]
  /\ UNCHANGED <<rule, linked, maker, mailbox, runs, matches, history, edits, faults>>

\* listMailRuleMatches: which messages satisfy the conditions is left open.
Matching == {S \in SUBSET Present : Cardinality(S) <= PreviewLimit}

\* previewMailboxRule: the run and its matches in one batch.
PreviewFreeze(p) ==
  /\ At(p, "freeze")
  /\ runs["preview"] = NoRun
  /\ \E S \in Matching :
       matches' = [matches EXCEPT !["preview"] = [m \in Messages |->
                        IF m \in S THEN [recorded |-> TRUE] ELSE NoMatch]]
  /\ runs' = [runs EXCEPT !["preview"] =
                [status |-> "ready", actions |-> req[p].actions, revision |-> req[p].revision]]
  /\ End(p)
  /\ UNCHANGED <<rule, linked, maker, mailbox, history, edits, faults>>

-----------------------------------------------------------------------------
(* What applies and deliveries share: applyMailRuleActions.                *)

\* stateAfterActions
StateAfter(before, a, now) ==
  LET f == before.flags
  IN [flags |-> [starred  |-> a.star \/ f.starred,
                 archived |-> ~a.trash /\ (a.archive \/ f.archived),
                 deleted  |-> IF a.archive THEN Never
                              ELSE IF a.trash /\ f.deleted = Never THEN now ELSE f.deleted],
      labels |-> before.labels \cup a.labels]

\* The message of the loop: read, unless it is gone.
ReadMessage(p) ==
  /\ At(p, "loop")
  /\ \E m \in req[p].todo :
       IF m \in Present
         THEN req' = [req EXCEPT ![p].pc = "write", ![p].at = m, ![p].before = State(m)]
         ELSE req' = [req EXCEPT ![p].todo = @ \ {m}]
  /\ UNCHANGED <<rule, linked, maker, mailbox, runs, matches, history, edits, faults>>

\* actionStatements: the flags are set to what follows from the state that was
\* read, and a label is added unless it was there.
Written(p) ==
  LET a == req[p].actions
      m == req[p].at
      new == a.labels \ req[p].before.labels
  IN [flags |-> IF a.star \/ a.archive \/ a.trash
                  THEN StateAfter(req[p].before, a, p).flags ELSE flags[m],
      owner |-> [l \in Labels |-> IF l \in new /\ owner[m][l] = "none"
                                    THEN "rule" ELSE owner[m][l]]]

NewLabelsExist(p) == req[p].actions.labels \ req[p].before.labels \subseteq labels

Record(p, after) ==
  LET r == req[p].run  m == req[p].at
  IN matches' = [matches EXCEPT ![r][m] =
       IF @ # NoMatch THEN @
       ELSE [recorded |-> TRUE, actions |-> req[p].actions, before |-> req[p].before,
             after |-> after]]

\* The batch of one message, when all its rows are still there.
WriteMessage(p) ==
  /\ At(p, "write")
  /\ LET m == req[p].at
     IN /\ m \in Present
        /\ runs[req[p].run] # NoRun
        /\ NewLabelsExist(p)
        /\ flags' = [flags EXCEPT ![m] = Written(p).flags]
        /\ owner' = [owner EXCEPT ![m] = Written(p).owner]
        /\ Record(p, StateAfter(req[p].before, req[p].actions, p))
        /\ again' = IF /\ matches[req[p].run][m] # NoMatch
                       /\ <<flags, owner>>' # <<flags, owner>>
                      THEN again \cup {<<req[p].run, m>>} ELSE again
        /\ req' = [req EXCEPT ![p].pc = "loop", ![p].todo = @ \ {m}]
  /\ UNCHANGED <<rule, linked, maker, labels, runs, edited, edits, faults>>

\* Goes on with the next message.
WriteFails_GoesOn(p) ==
  /\ At(p, "write")
  /\ req[p].at \notin Present \/ runs[req[p].run] = NoRun \/ ~NewLabelsExist(p)
  /\ req' = [req EXCEPT ![p].pc = "loop", ![p].todo = @ \ {req[p].at}]
  /\ UNCHANGED <<rule, linked, maker, mailbox, runs, matches, history, edits, faults>>

\* A row of the batch refers to a message, a run or a label that is gone: the
\* request fails, a delivery goes on without the rules.
WriteFails(p) ==
  /\ \/ At(p, "write") \/ At(p, "restore")
  /\ \/ req[p].at \notin Present
     \/ runs[req[p].run] = NoRun
     \/ At(p, "write") /\ ~NewLabelsExist(p)
  /\ End(p)
  /\ UNCHANGED <<rule, linked, maker, mailbox, runs, matches, history, edits, faults>>

-----------------------------------------------------------------------------
(* applyPreviewRuleRun.                                                    *)

Completed == {"completed", "undone"}

\* The preview and the run that was made of it.  Reading them one after the other
\* shows nothing that reading them at once would not.
ApplyStart(p) ==
  /\ At(p, "idle")
  /\ runs["preview"] # NoRun
  /\ req' = [req EXCEPT ![p] = [@ EXCEPT !.run = "apply", !.seen = runs["preview"].status,
               !.actions = runs["preview"].actions, !.revision = runs["preview"].revision,
               !.found = runs["apply"] # NoRun,
               !.pc = IF runs["apply"].status = "completed" THEN "done" ELSE "check"]]
  /\ UNCHANGED <<rule, linked, maker, mailbox, runs, matches, history, edits, faults>>

Current(p) == /\ rule.live
              /\ rule.existing
              /\ rule.revision = req[p].revision
              /\ req[p].seen = "ready"

\* Refuses what the rule no longer says; blockPreview does not ask for the status.
ApplyCheck(p) ==
  /\ At(p, "check")
  /\ IF Current(p) THEN Goto(p, "create") /\ UNCHANGED runs
     ELSE /\ End(p)
          /\ runs' = IF rule.live /\ rule.existing
                       THEN [runs EXCEPT !["preview"].status = "blocked"] ELSE runs
  /\ UNCHANGED <<rule, linked, maker, mailbox, matches, history, edits, faults>>

\* Takes the actions that the rule has by now.
Derive_CurrentActions(p) ==
  LET r == req[p].run
  IN /\ At(p, "create")
     /\ runs[r] = NoRun
     /\ runs' = [runs EXCEPT ![r] = [status |-> "running", actions |-> rule.actions,
                                     revision |-> req[p].revision]]
     /\ req' = [req EXCEPT ![p].pc = "list", ![p].actions = rule.actions]
     /\ UNCHANGED <<rule, linked, maker, mailbox, matches, history, edits, faults>>

\* createDerivedRuleRun, unless the run was found; another request may have made
\* it meanwhile, and then the unique index refuses.
Derive(p) ==
  LET r == req[p].run
  IN /\ At(p, "create")
     /\ IF req[p].found THEN UNCHANGED runs /\ Goto(p, "list")
        ELSE IF runs[r] # NoRun THEN UNCHANGED runs /\ End(p)
        ELSE /\ runs' = [runs EXCEPT ![r] = [status |-> "running", actions |-> req[p].actions,
                                             revision |-> req[p].revision]]
             /\ Goto(p, "list")
     /\ UNCHANGED <<rule, linked, maker, mailbox, matches, history, edits, faults>>

\* listRuleRunMessageIds and processedMessageIds.
Listed(p) == (IF req[p].run = "incoming" THEN {Arrival} ELSE Recorded(SourceOf[req[p].run]))
               \ Recorded(req[p].run)

List(p) ==
  /\ At(p, "list")
  /\ req' = [req EXCEPT ![p].todo = Listed(p),
                        ![p].pc = IF req[p].run \in {"apply", "incoming"} THEN "loop" ELSE "undo"]
  /\ UNCHANGED <<rule, linked, maker, mailbox, runs, matches, history, edits, faults>>

\* The last batch: the run is completed, its source is marked.
Finish(p) ==
  /\ At(p, "loop") \/ At(p, "undo")
  /\ req[p].todo = {}
  /\ LET r == req[p].run  s == SourceOf[r]
     IN runs' = [q \in Run |->
          IF runs[q] = NoRun THEN NoRun
          ELSE IF q = r THEN [runs[q] EXCEPT !.status = "completed"]
          ELSE IF q = s /\ r = "apply" /\ runs[q].status = "ready"
                 THEN [runs[q] EXCEPT !.status = "applied"]
          ELSE IF q = s /\ r # "apply" /\ runs[q].status = "completed"
                 THEN [runs[q] EXCEPT !.status = "undone"]
          ELSE runs[q]]
  /\ End(p)
  /\ UNCHANGED <<rule, linked, maker, mailbox, matches, history, edits, faults>>

-----------------------------------------------------------------------------
(* undoAppliedRuleRun.                                                     *)

\* The run and the undo that was made of it.
UndoStart(p) ==
  /\ At(p, "idle")
  /\ \E r \in {"undo_apply", "undo_incoming"} :
       LET source == runs[SourceOf[r]]
       IN /\ source # NoRun
          /\ req' = [req EXCEPT ![p] = [@ EXCEPT !.run = r, !.found = runs[r] # NoRun,
                       !.actions = source.actions, !.revision = source.revision,
                       !.pc = IF runs[r].status # "completed" /\ source.status = "completed"
                                THEN "create" ELSE "done"]]
  /\ UNCHANGED <<rule, linked, maker, mailbox, runs, matches, history, edits, faults>>

\* The current state is read for the record; the batch compares again.
UndoRead(p) ==
  /\ At(p, "undo")
  /\ \E m \in req[p].todo :
       IF m \in Present
         THEN req' = [req EXCEPT ![p].pc = "restore", ![p].at = m]
         ELSE req' = [req EXCEPT ![p].todo = @ \ {m}]
  /\ UNCHANGED <<rule, linked, maker, mailbox, runs, matches, history, edits, faults>>

Restored(now, before, applied) == IF now = applied THEN before ELSE now

\* Leaves the deletion as it is.
RestoreFlags_Deleted(f, before, applied) ==
  [starred  |-> Restored(f.starred, before.starred, applied.starred),
   archived |-> Restored(f.archived, before.archived, applied.archived),
   deleted  |-> f.deleted]

\* restoreStatements: a flag that still is as the rule left it goes back, a label
\* goes if the rule brought it and still owns it.
RestoreFlags(f, before, applied) ==
  [starred  |-> Restored(f.starred, before.starred, applied.starred),
   archived |-> Restored(f.archived, before.archived, applied.archived),
   deleted  |-> Restored(f.deleted, before.deleted, applied.deleted)]

\* Does not ask whose the label is.
RestoreOwner_Any(o, gone) == [l \in Labels |-> IF l \in gone THEN "none" ELSE o[l]]

RestoreOwner(o, gone) == [l \in Labels |-> IF l \in gone /\ o[l] = "rule" THEN "none" ELSE o[l]]

RestoreMessage(p) ==
  /\ At(p, "restore")
  /\ LET r == req[p].run  m == req[p].at  done == matches[SourceOf[r]][m]  a == done.actions
     IN /\ m \in Present
        /\ runs[r] # NoRun
        /\ flags' = [flags EXCEPT ![m] = IF a.star \/ a.archive \/ a.trash
                       THEN RestoreFlags(@, done.before.flags, done.after.flags) ELSE @]
        /\ owner' = [owner EXCEPT ![m] = RestoreOwner(@, a.labels \ done.before.labels)]
        /\ matches' = [matches EXCEPT ![r][m] = [recorded |-> TRUE]]
        /\ req' = [req EXCEPT ![p].pc = "undo", ![p].todo = @ \ {m}]
  /\ UNCHANGED <<rule, linked, maker, labels, runs, history, edits, faults>>

-----------------------------------------------------------------------------
(* applyIncomingMailRulesSafely.                                           *)

\* listIncomingMailboxRules; the message matches or not.
Deliver(p) ==
  /\ At(p, "idle")
  /\ rule.live
  /\ rule.incoming
  /\ Arrival \in Present
  /\ req' = [req EXCEPT ![p] = [@ EXCEPT !.run = "incoming", !.actions = rule.actions,
                                         !.revision = rule.revision, !.pc = "receipt"]]
  /\ UNCHANGED <<rule, linked, maker, mailbox, runs, matches, history, edits, faults>>

\* getOrCreateIncomingRun: one receipt per rule and message.
Receipt(p) ==
  /\ At(p, "receipt")
  /\ IF Arrival \notin Present THEN UNCHANGED runs /\ End(p)
     ELSE IF runs["incoming"].status \in Completed THEN UNCHANGED runs /\ End(p)
     ELSE /\ runs' = IF runs["incoming"] # NoRun THEN runs
                     ELSE [runs EXCEPT !["incoming"] = [status |-> "running",
                             actions |-> req[p].actions, revision |-> req[p].revision]]
          /\ Goto(p, "list")
  /\ UNCHANGED <<rule, linked, maker, mailbox, matches, history, edits, faults>>

-----------------------------------------------------------------------------
\* An invocation dies between two calls.
Dies(p) ==
  /\ faults < MaxFaults
  /\ req[p].pc \notin {"idle", "done"}
  /\ End(p)
  /\ faults' = faults + 1
  /\ UNCHANGED <<rule, linked, maker, mailbox, runs, matches, history, edits>>

MakerDies ==
  /\ faults < MaxFaults
  /\ maker.pc \in {"insert", "link"}
  /\ maker' = [maker EXCEPT !.pc = "done"]
  /\ faults' = faults + 1
  /\ UNCHANGED <<rule, linked, mailbox, runs, matches, req, history, edits>>

Owners == CreateCheck \/ CreateInsert \/ CreateLink \/ Patch \/ DeleteRule
Users  == \/ \E m \in Messages : SetFlag(m) \/ ReplaceLabels(m) \/ RemoveMessage(m)
          \/ \E l \in Labels : DeleteLabel(l)
Step(p) == \/ PreviewRead(p) \/ PreviewFreeze(p)
           \/ ApplyStart(p) \/ ApplyCheck(p) \/ UndoStart(p) \/ Derive(p)
           \/ Deliver(p) \/ Receipt(p)
           \/ List(p) \/ ReadMessage(p) \/ WriteMessage(p) \/ WriteFails(p)
           \/ UndoRead(p) \/ RestoreMessage(p) \/ Finish(p)

Next == \/ Owners
        \/ Users
        \/ MakerDies
        \/ \E p \in Requests : Step(p) \/ Dies(p)

Spec == Init /\ [][Next]_vars

-----------------------------------------------------------------------------
(* The types, and at which calls a request of which run is.                *)

RunRow   == [status : {"running", "ready", "completed", "applied", "blocked", "undone"},
             actions : Definitions, revision : 1..MaxRevision]
Marked   == [recorded : {TRUE}]
Detailed == [recorded : {TRUE}, actions : Definitions, before : Snapshot, after : Snapshot]

Undoing == {"undo_apply", "undo_incoming"}

Request == [pc : {"idle", "freeze", "check", "create", "receipt", "list", "loop", "write",
                  "undo", "restore", "done"},
            run : Run, actions : Definitions, revision : 0..MaxRevision,
            seen : {"running", "ready", "completed", "applied", "blocked", "undone", "absent"},
            found : BOOLEAN, todo : SUBSET Messages, at : Messages, before : Snapshot]

InPhase(q) ==
  /\ q.pc \notin {"idle", "done"} => q.revision > 0
  /\ q.pc \in {"idle", "freeze"} => q.run = "preview"
  /\ q.pc = "check" => q.run = "apply"
  /\ q.pc = "receipt" => q.run = "incoming"
  /\ q.pc = "create" => q.run \in {"apply"} \cup Undoing
  /\ q.pc = "list" => q.run # "preview"
  /\ q.pc \in {"loop", "write"} => q.run \in {"apply", "incoming"}
  /\ q.pc \in {"undo", "restore"} => q.run \in Undoing
  /\ q.pc \in {"write", "restore"} => q.at \in q.todo

\* The rows and what the requests know are well formed.
TypeOK ==
  /\ rule \in [live : BOOLEAN, revision : 0..MaxRevision, actions : Definitions,
               existing : BOOLEAN, incoming : BOOLEAN]
  /\ rule.live => rule.revision > 0
  /\ linked \subseteq labels
  /\ labels \subseteq Labels
  /\ maker \in [pc : {"check", "insert", "link", "done"}, actions : Definitions]
  /\ flags \in [Messages -> Flags \cup {Gone}]
  /\ owner \in [Messages -> [Labels -> {"none", "user", "rule"}]]
  /\ runs \in [Run -> RunRow \cup {NoRun}]
  /\ matches \in [Run -> [Messages -> Marked \cup Detailed \cup {NoMatch}]]
  /\ \A r \in {"apply", "incoming"}, m \in Messages : matches[r][m] \in Detailed \cup {NoMatch}
  /\ req \in [Requests -> Request]
  /\ \A p \in Requests : InPhase(req[p])
  /\ edited \subseteq Messages
  /\ again \subseteq Run \X Messages
  /\ edits \in 0..MaxEdits
  /\ faults \in 0..MaxFaults

-----------------------------------------------------------------------------
(* Properties.                                                             *)

\* Existing mail is changed only by the actions that the owner has seen in the
\* preview, and only where the preview matched, whatever becomes of the rule.
AppliedWasReviewed ==
  \A m \in Recorded("apply") : /\ m \in Recorded("preview")
                               /\ matches["apply"][m].actions = runs["preview"].actions

\* A run that is completed has dealt with every message of its source that is
\* still there, however many requests died over it.
CompletedCovers ==
  /\ \A r \in {"apply", "undo_apply", "undo_incoming"} :
       runs[r].status \in Completed => Recorded(SourceOf[r]) \subseteq Recorded(r)
  /\ runs["incoming"].status \in Completed => Arrival \in Recorded("incoming")

Alone(m, r) == \A q \in {"apply", "incoming"} \ {r} : m \notin Recorded(q)

\* An undo brings a message back to what it was, if no user, no other run and no
\* second request of the same run has touched it.
UndoRestores ==
  \A r \in {"undo_apply", "undo_incoming"}, m \in Present :
    /\ m \in Recorded(r)
    /\ m \notin edited
    /\ <<SourceOf[r], m>> \notin again
    /\ Alone(m, SourceOf[r])
    => State(m) = matches[SourceOf[r]][m].before

\* No request takes away a label that a user put on.
UserLabelsStay ==
  [][\A m \in Messages, l \in Labels :
       owner[m][l] = "user" /\ owner'[m][l] # "user" => edits' # edits]_vars

=============================================================================
