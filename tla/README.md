# Verification of cloudflare-webmail

TLA+ models of the mail paths of this repository, of its rules, its directory, its
browser page and its migration tool; TLC configurations that check them on small
instances; and TLAPS proofs of what holds for every instance.
Definitions are translated from the code under `src/`; paths below are relative
to it. `PROJECT.json` maps every definition to the lines it stands for.

## 1. Inventory

Three Cloudflare Workers (`apps/ingest`, `apps/web`, `apps/jobs`) share a D1
database, an R2 bucket, two Queues and their dead-letter queues. The web Worker
serves one browser page; the operator works from a terminal with `tools/`. No Worker keeps
state between invocations: they talk through D1 rows, R2 objects and Queue
copies, and any of them may die between two calls.

| Component | State it keeps | Operations | Correct when |
|---|---|---|---|
| ingest handler | staged raw message and Queue contract in R2, `inbound_handoffs` | route, stage, record, publish, mark | what the sending server was told is accepted is not lost |
| inbound consumer and processor | canonical objects, `messages`, the handoff | begin, find, load, store, persist, clean, complete, ack/retry | what D1 names is in R2; staging goes only when the message is stored |
| inbound recovery, staging reconciliation | handoffs, staged objects | republish, rebuild a handoff from R2, remove what is stored | every staged message is settled; late marks do no harm |
| compose API | objects, `messages`, `outbound_compositions`, `outbound_deliveries` | look up the key, put, persist, clean up, publish, answer | one message per Idempotency-Key, with all its objects |
| outbound delivery ledger, processor, consumer | `outbound_deliveries`, the mirror `messages.status` | claim, send, complete, fail, exhaust | the provider is not asked twice without a reason; settled stays settled |
| outbound recovery, operator retry | `outbound_deliveries`, the Queue | republish, reset | nothing stays queued for ever |
| dead-letter consumer, ledger, recovery | `queue_dead_letters` | save, request, publish again, resolve | no message falls between queue and ledger |
| retention | `retention_runs`, `retention_run_items`, `messages`, R2 | preview, approve, cancel, claim, delete, advance, fail, finalize | only what was approved is removed, and all of it |
| storage audit | `storage_issues`, two cursors | walk R2, walk D1, open and resolve issues | an issue is open exactly for what is wrong |
| mail rules | `mail_rules`, runs and matches, messages, `message_labels` | create, replace, delete; preview, apply, undo; apply on arrival | existing mail changes only as previewed; undo restores what nobody else touched |
| labels, preferences | one row each | single statements; a label in a rule is kept | guarded updates |
| message list, detail, flags | `messages` | page with a cursor, read, patch one or a chunk | an update is of one mailbox, whole or not at all |
| access and directory | users, identities, administrators, mailboxes, addresses, members | resolve, create, disable, grant, revoke, add, remove; provision from a manifest | an administrator, an owner and a primary address remain; nothing changes hands |
| browser page | the view, list, selection, detail, dialog, drafts in `localStorage` | switch, load, open, patch, select, undo, compose, save a draft | late answers do not mix with what is shown; what is reported was done; drafts are kept |
| legacy migration | backups, snapshot, stages, progress file, remote D1 and R2 | snapshot, fetch, verify, stage, bulk apply, audit, delta | a command that died is given again and ends in what the archived system held |
| audit and delivery events | two logs | append, prune | never read back by a handler |
| deployment, backup tools | files, remote D1 and R2 | deploy, roll back, copy, verify | see section 6 |

How they interact: the web and ingest Workers publish Queue messages that the
jobs Worker consumes at least once, in any order, and that a failing consumer
hands to the dead-letter queue after `max_retries`. The jobs Worker's Cron
trigger runs one of seven maintenance tasks a minute (`apps/jobs/src/index.ts`),
each of which reads D1 or R2 and then publishes or deletes, racing the consumers.

What is hard: a call whose effect happened and whose answer was lost; two Queue
copies with one row; leases that are outlived; a mark that is written after the
state it reports has changed; an invocation that dies between R2 and D1, which
share no transaction; retry limits of the Queue, of the application and of the
tables that do not agree; a guard that is read in one call and relied upon in the
next; answers that reach a page after the user has gone on. `PROJECT.json` lists
each of these as a hazard at the line where it bites.

## 2. Plan

1. `OutboundDelivery` with `DeliveryContract`: duplicate sends (done).
2. `OutboundCompose` with `ComposeContract`: the idempotent request (done).
3. `DeadLetters`: the path that both Queues share (done).
4. `InboundHandoff`: staging, ledger, consumers and Cron tasks (done).
5. `Retention`: leased work units that delete for good (done).
6. `MailRules`: preview, apply and undo against changing messages; the rules
   that run on arrival (done).
7. `Directory`: the guards on the last owner and the last administrator, and the
   scripts that write past them (done).
8. `LegacyMigration`: the resumable snapshot, stages and bulk apply (done).
9. `WebMail`: one page with calls in flight (done).
10. Proofs of `LegacyMigration`: its invariant, and why no statement of a stage is
    refused (done).
11. `StorageAudit`: the cursors and the issue ledger; left, since the audit repairs
    nothing and its next walk resolves a false issue.
12. `QueueRetry`: the delay arithmetic against a reference definition; left, since
    every model lets a redelivery come at any time.

Abstract specifications: what the outbound path promises of one message
(`DeliveryContract`), what one Idempotency-Key promises (`ComposeContract`). At-least-once
storage of an accepted message is stated by `AcceptedIsPursued` and
`StagedIsSettled` instead of a third abstract module: it would have had one step.
Theorems: types, each safety invariant of the runs, the refinements and the
action properties.

## 3. The models

D1 runs a statement, or a `batch`, atomically, and R2 and the Queue a call; so
every action runs at most one of them, and whatever lies between two `await`s
interleaves with everything else. A call may fail before or after it takes
effect. Timestamps are compared with the clock only: a row keeps the outcome of
the comparison, and an action of its own lets time pass.

* **OutboundDelivery** follows one delivery. `row` is the `outbound_deliveries`
  row, `mirror` is `messages.status`, `copy` and `tries` are the Queue copies,
  `pc` and `job` the consumers, `cron` the recovery task, `op` the operator's
  retry. `accepted` counts what the provider took. `excuses` counts the events
  after which a second send cannot be avoided: an outcome that was lost, a lease
  that was outlived, an operator's order. Actions are the statements of
  `packages/database/src/outbound-delivery.ts` at the points where
  `apps/jobs/src/outbound-processor.ts` runs them.
* **DeliveryContract** has the delivery's states and the budget of acceptances
  and nothing else.
* **OutboundCompose** follows one Idempotency-Key. Each request has a `step`,
  the next of the `await`s of `createOutboundMessage`, its own message id and
  objects. `message` is the row that the unique key admits. `ambiguous` remembers
  a commit whose answer was lost.
* **ComposeContract**: one request becomes the message; answers name it.
* **DeadLetters** follows one payload, so one row: its `letter` status, the
  copies in the primary and the dead-letter queue, the Cron task that sends and
  then marks. `overtaken` remembers a mark that closed another request.
* **InboundHandoff** follows one message: the ingest handler's `ingest` counter
  and its `answer`, the staged `raw` and `payload`, the `handoff` row, the
  `canonical` objects, the `stored` row, the copies with their consumers' next
  step, and the tasks `recovery`, `scan` and `cleanup`. A `twin` is another
  message with the same content in the same mailbox.

* **Retention** follows the messages of one mailbox: the `row` with all that
  makes it eligible, the chunks of objects `left` in R2, the runs, their items
  with leases, the requests that create previews (`creator`) and the tasks that
  work on items (`pc`, `work`, `seen`). `approved` remembers what an
  administrator approved and did not cancel; `late` remembers a removal by a task
  that had lost its item.

* **MailRules** follows one rule of one mailbox. `rule`, `linked`, `labels`,
  `flags` and `owner` are the rows of the rule, of its labels, of the mailbox's
  labels, and of the messages with the labels they carry, put on by the rule or by
  a user. `runs` and `matches` hold the five runs that concern it: a preview, its
  application, an arrival, and the undo of either. `req` is what each request or
  delivery knows between two D1 calls, `maker` the request that creates the rule.
  `edited` remembers what users touched and `again` what a run changed after it had
  recorded it. A condition is reduced to the messages it matches.
* **Directory** keeps `status`, `admins`, `holder` (the user of an identity),
  `mailbox`, `address` and `role`. A `request` is admitted as an administrator's,
  reads the rows its guard is about, and writes, each in a D1 call of its own.
  Provisioning applies a manifest in one step and asks for nothing. A write is
  stale when what its request had read is no longer true.
* **LegacyMigration** follows an archived mailbox through the `migrate:legacy`
  commands: `legacy` and its imported `backup`, the snapshot's database `snap`,
  `rows` and `files`, the `staged` directory, the `bucket`, `d1`, and the progress
  file `saved`. Stage 0 is the baseline, the others are deltas. `doing` is a durable
  effect that the running command has not yet recorded; a command dies between any
  two effects and is given again. `Sql` is the list of a stage's statements, a header
  and one for each row that changed, in the order in which the code writes them to
  files of `ChunkSize`; an import runs one statement at a time, may stop after any,
  and is saved at the end of a file. Within one table the list is in any order. Each
  statement comes with the guard that the code writes after it and with the foreign
  keys and the unique rule name of `migrations/`. A version of a rule has a name and
  the labels it applies; a label's id is its lower-cased name, so labels cannot collide.
* **WebMail** is one page: `page` is `state.js` with what is rendered of it, `call`
  the functions that wait for an answer, `bulkBusy`, `toast`, `compose`, `draft` and
  `storage` the modules of those names, `where`, `labels`, `tagged` and `sent` what the
  API keeps. A click and an answer run to the next `await`. Labels are created, assigned
  and deleted, and a rule is applied or undone (one message moves), with the reload of
  labels and list that follows each; `orphan` records that the pane was left open by a
  label filter that `loadLabels` dropped. The list that is shown and the rows that can
  be clicked are two things: a switch of the mailbox clears one and leaves the other
  until the next rendering.

An MC module extends its specification with model values and symmetry. The
`*_Something` operators before a definition are plausible bugs in it: putting
one in place of the definition must break a property.

## 4. The runs

| Run | Question | Bounds |
|---|---|---|
| `outbound` | do the sends stay within the excuses, is the contract implemented, is a delivery settled? | 2 consumers, 2 copies, 3 claims, 1 redelivery, 1 excuse, 1 death |
| `compose_concurrent` | three requests with one key: one message, its objects, no other answer | 3 requests, 2 faults |
| `compose_ambiguous_retry` | is an ambiguous request safe to retry (ADR 0006)? Not after a commit whose answer was lost | 2 requests, 1 fault |
| `dead_letters` | does a message fall between the queues and the ledger, is every request honoured, every requeued row settled unless its last copy is given up? | 2 copies, 1 redelivery in each queue, 2 requests, 1 extra copy, 3 faults |
| `inbound_safety` | is a staged message ever lost, a stored one incomplete, an accepted one forgotten? | 2 copies, 1 redelivery, a twin at any time, 2 faults |
| `inbound_liveness` | is a staged message settled and its staging removed? | 2 copies, 1 redelivery, no twin, 1 fault |
| `retention` | is only removed what was approved, is nothing left behind, does an approved run end? | 1 message, 1 run, 2 tasks, 2 chunks, 2 attempts, 2 faults, 1 outlived lease, 2 edits |
| `retention_stale_worker` | does the item lead to all objects of a removed message (ADR 0015)? Not after a task that outlived its lease | 1 message, 1 run, 2 tasks, 1 chunk, no fault, 1 outlived lease, 2 edits |
| `mail_rules` | is existing mail changed only as reviewed, does a completed run cover its source, does undo restore, do users' labels stay? | 2 messages, 1 label, 2 definitions, 3 requests, 2 revisions, 1 edit, 1 death |
| `directory` | do the guards suffice for every write whose reads are still true, does anything change hands, do the access queries agree? | 2 users, 3 identities, 2 mailboxes, 2 addresses, 2 manifests applied twice, 3 requests of which 2 at once |
| `legacy_migration` | does the target end as the archived system was, whatever dies? | 3 messages of which 2 share their raw MIME, 1 label, preference and assignment, 2 rules with 2 names each that may swap or hand them on, 1 delta, SQL files of 2 statements, 2 edits, 1 fault |
| `web_mail` | are list, detail, reports, sends and drafts right for every order of clicks and answers? | 2 mailboxes, 3 messages, 1 label to search by, 2 calls in flight, pages and chunks of 1, 4 clicks (labels change in the first 3, a rule runs in the first), 1 fault |

The bounds. One row and one message suffice where every statement names one id. Two
consumers and two copies give every pair of racing steps; a third compose request
is one that finds the race already decided; a third rule request is the undo of what
two others raced for. Application and
Queue limits (10 and 5, 100 for dead letters) are cut to 2 or 3: small enough to
be reached and far enough apart that either can be reached first. Faults bound
the deaths and lost answers: where there are two, a fault can hit the recovery from
another; the third of `dead_letters` is what lets a dead-letter queue give a copy up
after its letter was requeued. A directory of two users and two mailboxes has a last and a last but one of
everything that is guarded; pages and chunks of one message let every list and every
bulk change take several calls. Four clicks reach a dialog that is opened, submitted,
closed and opened again, or a mailbox that is left and returned to with two loads on
their way, and a label that is filtered by and deleted while a message is open; the invariants proved in section 5 are not bound by them. The liveness
run of the inbound path leaves out the twin, which the safety run has. The runs reach
every action and every disjunct.

Fairness. Weak fairness of a receiver: the Queue keeps delivering. Of a handler's
next step: an invocation proceeds or dies, and deaths are faults of their own. Of
each Cron task's step: the rotation of `selectMaintenanceTask` runs each task
every seven minutes. Of the passing of time where a row or a lease waits for it.
Nothing is assumed of operators, senders or the provider. The runs of `MailRules`,
`Directory`, `LegacyMigration` and `WebMail` assume no fairness: a user, an
administrator and an operator need not go on, so their properties are safety alone.

## 5. The proofs

* `OutboundProofs`, the delivery and the request. The invariant of the delivery is a
  budget: acceptances, plus workers that are about to send or to complete under a live
  lease, plus one if the row may still be claimed, never exceed one plus the excuses.
  It needs the shape of the row (a lease and a token exactly while sending) and, for
  `SentWasAccepted`, that whoever completes was accepted. The contract is implemented
  step by step. Of the request: what it believes (`result`) is the row, a request that
  saw its own row owns it, and objects go only after another's row was seen or nothing
  was committed.
* `DeadLettersProofs`. A settled message explains every copy that is acked; a
  pending mark is backed by a copy or by the row's own history; the publications
  owed and made stay within requests and faults.
* `InboundHandoffProofs`. Whatever a consumer, a task or the ingest Worker is
  about to do is backed by what R2, D1 and the Queue hold: staging exists until
  the message is stored, a consumer that closes has seen it stored, a persisting
  consumer left all objects behind, and a mark that is due has a copy to show.
* `RetentionProofs`. Three layers. Types: a pending item has a chunk left, and a
  busy task has an item. Consent: whatever a task holds is frozen in a run that
  was begun, and a begun run is never cancelled. Truth: the chunks below an
  item's index are gone and its message before them, only pending items are
  leased, a task that holds the lease works on the chunk that is due, and the
  item that removed a message is still known.

* `MailRulesProofs`. Four parts. Types of the rule and of what each request remembers.
  A run's matches are part of its source's; what a run has not recorded is still in
  the todo of each of its requests; an undo works on a source that was covered. For
  each message that nobody else touched: it is as it arrived, then as its run left
  it, then as it arrived again, and which of them is read off the matches. For the
  labels: what a request takes off was the rule's when it was recorded, and a label
  of a user is never written over.
* `DirectoryProofs`. What a request may still write was allowed by the rows that it
  read; no address names a mailbox that is absent; each address and identity has one
  holder. From these follow the access queries' agreement and, for a step whose
  reads are still true, that an administrator, an owner and a primary address are
  left: there the last one is counted, by a cardinality that is at least two before.
* `WebMailProofs`. A load of the present revision was started for the present view;
  whoever fills the detail is the selected message, and only where a label filter was
  dropped is nothing selected; a bulk function accounts at each
  `await` for its messages as written, being written or to be written; a dialog's id
  names one form, in the calls and in what was sent; a draft's key and text are of
  the form that they are taken from.

* `LegacyMigrationProofs`. First the lists: what the SQL of a stage holds, and what
  comes before what in it (`SqlFacts`, `Precedence`). Then the invariant `IInv`, for
  any order of the stages: a complete stage rests on backups that no longer change; a
  stage has a header, or a statement executed, only after its objects were verified;
  every statement up to the one reached has left its provenance, and provenance is of
  what the backups hold. Last, for the documented order (`Ordered`: a delta after the
  baseline), `BaselineRows` and `DeltaRows` say of each row whose it is. Names of
  rules differ in D1 as in each backup, the unique key seeing to it (`NamesStayApart`). With them the
  target is the backup, and a case analysis over the statements shows that what a guard
  or a foreign key asks for was executed before (`StagesGoThrough`): an assignment's
  message and label, a rule's label, and the rule of a label that is deleted. A statement whose rule has a
  name that no other rule has in the baseline's backup meets no other rule of that name:
  every rule is then either as in that backup or as in the delta's.

The theorems assume what the modules' ASSUMEs say of the constants (finite sets
where they are counted, natural bounds) and nothing of their size; `TargetIsBackup` and `StagesGoThrough`
assume `Ordered` besides: TLC refutes both without it (section 6). Some theorems
have no run of their own, being consequences of the same invariant: settled stays
settled (`SettledIsStable`), the mirror follows with the one consumer that is
deployed (`MirrorFollows`), publication follows the commit, the ledger is true, a
stored handoff is never reopened (`StoredForGood`), and the like.

Every invariant and action property of the runs is stated by a theorem. Only
model-checked is liveness under fairness (`Settles`, `RequestHonoured`,
`RequeuedSettles`, `StagedIsSettled`, `StagingIsCleaned`, `ApprovedEnds`), which this
prover does not reach: it needs ENABLED of each fair action.

## 6. Not modelled

Parsing and formatting decide inputs or text and keep no state of the kind checked
here: MIME, HTML sanitizing, contracts, routing of requests, SQL text, command lines.
The router and the session hold nothing between requests; delivery and audit events
are never read back. Retention policies are one upsert per mailbox, of which a run
takes a snapshot. The queue's retry delay is a pure function, and the models let a
redelivery come at any time. The storage audit reports and repairs nothing. The
deployment, rollback, backup and restore tools are sequences of provider calls or
file copies by one operator: what such a call may do cannot be read from this
repository. Of the components that are modelled in part the notes in `PROJECT.json`
say what is left out: preferences and the editing of rules in the settings dialog, the admin page, flags other than the
folder, the issues of the staging scan, the names and colours of labels.

Statements of the documentation that the code does not keep, beyond the two that runs
refute (section 4):

* ADR 0006 has expired leases republished; the recovery query skips a row whose
  attempts are used up (`packages/database/src/outbound-delivery.ts:180`), so a delivery
  whose last claim died stays `sending`. `Settles` asks it of the others only.
* `docs/adr/0004-idempotent-mime-persistence.md:38` calls exact redelivery
  safe; a duplicate whose consumer died between the cleanup and the completion
  (`apps/jobs/src/inbound-processor.ts:153-156`) is redelivered without an input. Its
  message is stored under the twin, so `StagedUntilStored` holds.
* `docs/api/web-v1.md:30` has a preview applied exactly once; two requests may both
  read that it was not (`packages/database/src/mail-rule-actions.ts:44`). `again` excuses what the second does.
* `docs/adr/0014-explicit-system-administration.md:20` has a mailbox retain an owner;
  `setAdminMailboxMembership` demotes the last one (`packages/database/src/admin-mailbox-operations.ts:141`).
  `MailboxKeptUnlessStale` excuses a membership that demotes.
* ADR 0015:30-31 speaks of ten work units per Cron invocation, the code runs one
  (`apps/jobs/src/retention-runner.ts:12`).
* `docs/operations.md:157-160` has a successful consumer resolve a requeued dead
  letter; one that finishes between the send and the mark of
  `recoverRequestedDeadLetters` leaves it `requeued`. `RequeuedSettles` says what holds: a
  copy settles the row unless the dead-letter queue gives the last one up, after which
  the row stays `requeued` and no scan reads it (`apps/jobs/src/dead-letter-consumer.ts:68`).
* ADR 0006:33 and `docs/operations.md` speak of a five-minute Cron, which runs every
  minute and each task every seventh (`apps/jobs/src/index.ts:73-76`).

Limits of what the properties say, where the code does less than one might expect:

* The mirror follows the delivery with one consumer only; two of them write it out of
  order.
* A delta that is applied before its baseline is finished can pass its own audit with
  the target still incomplete; `Ordered` keeps the operator to the documented order.
  Every delta is made against the baseline (`prepareLegacyDeltaStage`), so
  `TargetMatchesBackup` and `StagesRunThrough` speak of the one that was begun.
* `collectRules` writes the inserts and updates of rules before the deletes
  (`tools/lib/legacy-delta-configuration.mjs:54-71`), with `ON CONFLICT(id)` only, against
  `UNIQUE (mailbox_id, name)` (`migrations/0010_mail_rules.sql:32`). A rule that is
  deleted and created again under its name, two that swap names, or suffixes of
  `uniqueName` that shift stop the delta at that statement, whenever it is given again.
  `StagesRunThrough` excuses exactly such a statement (`TakesName`); without the excuse
  TLC refutes it in this run. It says that nothing else stops a stage.
* `Save` is one step, where `writeState` truncates and rewrites the file
  (`tools/lib/legacy-bulk-apply.mjs:198-201`): a death in between leaves a state file
  that the command refuses. Timestamps of rows are left out, and with them the CHECK that
  a rule is not updated before it was created.
* The races that `GovernedUnlessStale` and `MailboxKeptUnlessStale` excuse are real: two
  administrators who revoke each other at once, or two removals of the last two owners,
  both pass guards that were read before either wrote
  (`packages/database/src/admin-user-operations.ts:110`, `admin-mailbox-operations.ts:162`).
  The properties say that a guard suffices where its reads are still true.
* `retention` has one run. Two previews that freeze the same message
  (`packages/database/src/retention-runs.ts:30`) are covered by the theorems alone, which
  are for any number of runs.
* The browser page. A refresh while the next page is on its way keeps the revision, so
  the late page is appended behind the new first one and leaves a hole. The labels of
  the mailbox before may arrive after those of the present one. Rows of the view before
  stay clickable until the next rendering. A late error of one message closes the
  detail of another (`apps/web/public/app.js:204-207`). Each chunk of a bulk change goes to the mailbox
  that is selected by then (`apps/web/public/ui/bulk-controller.js:86-94`); the API refuses a wrong one whole.
  A late success of a send clears and closes the dialog, and so the draft, that is open
  by then (`apps/web/public/ui/compose.js:121-122`): `DraftKept` excuses a send.
  When the label of the active filter is gone, `loadLabels` resets the selection and
  leaves the pane open (`apps/web/public/ui/mailbox-settings-controller.js:42-46`): its buttons go on acting on the message
  it shows, with nothing selected in the list, until the pane is closed or another
  message is opened. `DetailIsSelected` excuses that and no other difference. The
  settings dialog does not keep the user from the page here; a label that is created is
  not searched by; the status line is kept only as far as it offers an undo, which
  it does here until the next status. A dialog that was closed
  after a lost answer and opened again has a new request id, and sends a second message:
  `OneMessagePerDialog` speaks of one dialog.
