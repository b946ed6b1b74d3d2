------------------------------- MODULE WebMail --------------------------------
(***************************************************************************)
(* One page of the browser interface (public/app.js and the modules of     *)
(* public/ui) and the mail API it calls.  The page is single-threaded:     *)
(* each click and each answer runs to the next await.  What interleaves    *)
(* are the calls in flight, whose answers come in any order or not at all, *)
(* and the clicks made meanwhile, on rows that may be of an earlier view.  *)
(***************************************************************************)
EXTENDS Naturals, FiniteSets, FiniteSetsExt

CONSTANTS Mailboxes,
          First,       \* the mailbox that start selects
          Messages,    \* numbers: a later message has a higher one
          Queries,     \* search filters
          Everything,  \* EMPTY_SEARCH_FILTERS
          Labels,      \* the search filters that name a label, by the label
          LabelOf,     \* labels to mailboxes: mailbox_labels.mailbox_id
          Tagged,      \* the pairs of a message and a label at the start
          Home,        \* messages to mailboxes: messages.mailbox_id
          Hits,        \* messages that a query with neither label nor Everything finds
          Calls,       \* bound: API calls in flight
          None,        \* null, '', nothing shown
          Loading,     \* the detail pane before the answer
          Kept,        \* no status of its own: the status line stays
          PageSize,    \* preferences.pageSize
          ChunkSize,   \* CHUNK_SIZE (40)
          MaxClicks,   \* bound: what the user does
          MaxChanges,  \* bound: the clicks among which labels are changed, the first ones
          MaxRuns,     \* bound: the clicks among which rules are run, the first ones
          MaxFaults    \* bound: answers lost, changes by others, page reloads

ASSUME DomainAssumption ==
  /\ First \in Mailboxes
  /\ Messages \subseteq Nat \ {0}
  /\ Everything \in Queries
  /\ Labels \subseteq Queries \ {Everything}
  /\ LabelOf \in [Labels -> Mailboxes]
  /\ Home \in [Messages -> Mailboxes]
  /\ Tagged \subseteq Messages \X Labels
  /\ Hits \subseteq Messages
ASSUME MessagesAssumption ==
  /\ IsFiniteSet(Messages)
  /\ {None, Loading} \cap Messages = {}
ASSUME BoundsAssumption ==
  /\ PageSize \in Nat \ {0} /\ ChunkSize \in Nat \ {0}
  /\ {MaxClicks, MaxChanges, MaxRuns, MaxFaults} \subseteq Nat

Folders == {"inbox", "trash", "outbox"}

VARIABLES where,    \* D1: the folder of each message, or purged
          labels,   \* D1: mailbox_labels
          tagged,   \* D1: message_labels, pairs of a message and a label
          sent,     \* D1: the outbound messages that compose created
          page,     \* state.js and what is rendered of it
          call,     \* the async functions that wait for an answer
          bulkBusy, \* busy of bulk-controller.js
          toast,    \* the status line, as far as it offers an undo
          compose,  \* compose.js: the dialog and its form
          draft,    \* compose-draft.js: activeKey and whether its timer runs
          storage,  \* localStorage
          clicks, faults

marks   == <<labels, tagged>>
server  == <<where, marks, sent>>
drafts  == <<draft, storage>>
bounds  == <<clicks, faults>>
vars    == <<server, page, call, bulkBusy, toast, compose, drafts, bounds>>

View == [mailbox : Mailboxes, folder : Folders, query : Queries]
Key  == [mailbox : Mailboxes, source : Messages \cup {None}]

-----------------------------------------------------------------------------
(* The page.                                                               *)

Blank(view) ==
  [view |-> view, rev |-> 0, list |-> {}, of |-> {}, cursor |-> None, chosen |-> {},
   selected |-> None, detail |-> None, was |-> None, orphan |-> FALSE,
   labels |-> {}, options |-> {}, rows |-> {}, more |-> FALSE]

\* selectMailbox, selectFolder and setSearchFilters.  The rows of the view before stay on
\* the page until the next rendering, and so does the detail pane: orphan records that it
\* is open with nothing selected.
Unselected(pg, view) ==
  [pg EXCEPT !.view = view, !.rev = @ + 1, !.list = {}, !.of = {}, !.cursor = None,
             !.chosen = {}, !.selected = None, !.orphan = pg.detail # None]

\* The same with closeMessageDetail.
Turned(pg, view) ==
  [Unselected(pg, view) EXCEPT !.detail = None, !.was = None, !.orphan = FALSE]

\* renderCurrentMessages
Rendered(pg) == [pg EXCEPT !.rows = pg.list, !.more = pg.cursor # None]

\* closeDetail
Closed(pg) ==
  Rendered([pg EXCEPT !.selected = None, !.detail = None, !.was = None, !.orphan = FALSE])

\* openMessage up to its await.
Opening(pg, m) ==
  Rendered([pg EXCEPT !.selected = m, !.detail = Loading, !.was = None, !.orphan = FALSE])

Free == [at |-> "free"]

\* What a function does after its labels, or its list, were loaded.
Announce     == [do |-> "announce"]
Nothing      == [do |-> "nothing"]
Searched     == [do |-> "searched"]
Resume       == [do |-> "resume"]
Reopen(m, t) == [do |-> "reopen", message |-> m, toast |-> t]
Report(t)    == [do |-> "report", toast |-> t]
Leave(n)     == [do |-> "leave", dialog |-> n]

\* loadLabels up to its await.
LoadLabels(pg, then) ==
  [at |-> "labels", mailbox |-> pg.view.mailbox, reply |-> None, then |-> then]

\* openMessage, which awaits the message and its body.
Read(m, t) == [at |-> "detail", message |-> m, reply |-> None, toast |-> t]

\* loadMessages up to its await, from the state that pg is.
Load(pg, append, then) ==
  [at |-> "list", rev |-> pg.rev, view |-> pg.view, append |-> append,
   after |-> IF append THEN pg.cursor ELSE None, reply |-> None, then |-> then]

Busy    == \E c \in Calls : call[c].at = "list"
Idle    == {c \in Calls : call[c] = Free}
Start(c, what) == call' = [call EXCEPT ![c] = what]

NoToast == [kind |-> "none"]
NoDialog == [open |-> FALSE, id |-> 0, dialog |-> 0, key |-> None, text |-> None,
             sending |-> FALSE]

\* The page as start leaves it at its first await that matters.
Started == Blank([mailbox |-> First, folder |-> "inbox", query |-> Everything])

Init ==
  /\ where = [m \in Messages |-> "inbox"]
  /\ labels = Labels
  /\ tagged = Tagged
  /\ sent = {}
  /\ page = Started
  /\ \E c \in Calls :
       call = [d \in Calls |-> IF d = c THEN LoadLabels(Started, Nothing) ELSE Free]
  /\ bulkBusy = FALSE
  /\ toast = NoToast
  /\ compose = NoDialog
  /\ draft = [key |-> None, timer |-> FALSE]
  /\ storage = [k \in Key |-> None]
  /\ clicks = 0
  /\ faults = 0

Click == clicks < MaxClicks /\ clicks' = clicks + 1 /\ UNCHANGED faults

\* The compose dialog is modal.
OnPage == Click /\ ~compose.open

-----------------------------------------------------------------------------
(* Clicks on the list and on the detail.                                   *)

\* changeMailbox: a label filter is dropped; labels are loaded first, then the list.
SwitchMailbox ==
  /\ OnPage
  /\ \E mb \in Mailboxes \ {page.view.mailbox}, c \in Idle :
       LET query == IF page.view.query \in Labels THEN Everything ELSE page.view.query
           pg == Turned([page EXCEPT !.labels = {}],
                        [page.view EXCEPT !.mailbox = mb, !.query = query])
       IN  page' = pg /\ Start(c, LoadLabels(pg, Nothing))
  /\ UNCHANGED <<server, bulkBusy, toast, compose, drafts>>

\* changeFolder
SwitchFolder ==
  /\ OnPage
  /\ \E folder \in Folders \ {page.view.folder}, c \in Idle :
       LET pg == Turned(page, [page.view EXCEPT !.folder = folder])
       IN  page' = pg /\ Start(c, Load(pg, FALSE, Nothing))
  /\ UNCHANGED <<server, bulkBusy, toast, compose, drafts>>

\* applySearch, with a label that the form offers, and perhaps with the filters it had.
Search ==
  /\ OnPage
  /\ \E query \in (Queries \ Labels) \cup page.options, c \in Idle :
       LET pg == Turned(page, [page.view EXCEPT !.query = query])
       IN  page' = pg /\ Start(c, Load(pg, FALSE, Searched))
  /\ UNCHANGED <<server, bulkBusy, toast, compose, drafts>>

Refresh ==
  /\ OnPage
  /\ \E c \in Idle : Start(c, Load(page, FALSE, Nothing))
  /\ UNCHANGED <<server, page, bulkBusy, toast, compose, drafts>>

LoadMore ==
  /\ OnPage
  /\ page.more /\ ~Busy
  /\ \E c \in Idle : Start(c, Load(page, TRUE, Nothing))
  /\ UNCHANGED <<server, page, bulkBusy, toast, compose, drafts>>

\* openMessage, on a row that is on the page.
Open ==
  /\ OnPage
  /\ \E m \in page.rows, c \in Idle :
       /\ page' = Opening(page, m)
       /\ Start(c, Read(m, Kept))
  /\ UNCHANGED <<server, bulkBusy, toast, compose, drafts>>

CloseDetail ==
  /\ OnPage
  /\ page.detail # None
  /\ page' = Closed(page)
  /\ UNCHANGED <<server, call, bulkBusy, toast, compose, drafts>>

\* messageActions.apply: to the trash, or back, as the detail was when it was read.
Other(folder) == IF folder = "trash" THEN "inbox" ELSE "trash"

PatchDetail ==
  /\ OnPage
  /\ page.detail \in Messages
  /\ \E c \in Idle :
       Start(c, [at |-> "patch", message |-> page.detail, to |-> Other(page.was), reply |-> None,
                 toast |-> [kind |-> "one", messages |-> {page.detail}, to |-> page.was,
                            wrote |-> {page.detail}]])
  /\ UNCHANGED <<server, page, bulkBusy, toast, compose, drafts>>

Toggle ==
  /\ OnPage
  /\ \E m \in page.rows :
       page' = [page EXCEPT !.chosen = IF m \in @ THEN @ \ {m} ELSE @ \cup {m}]
  /\ UNCHANGED <<server, call, bulkBusy, toast, compose, drafts>>

SelectAll ==
  /\ OnPage
  /\ page.list # {}
  /\ page' = [page EXCEPT !.chosen = @ \cup page.list]
  /\ UNCHANGED <<server, call, bulkBusy, toast, compose, drafts>>

\* patchInChunks: the next chunk goes to the mailbox that is selected now.
Chunk(todo) == {m \in todo : Cardinality({n \in todo : n > m}) < ChunkSize}

Chunks(pg, kind, ids, todo, to, wrote) ==
  [at |-> kind, ids |-> ids, todo |-> todo \ Chunk(todo), chunk |-> Chunk(todo), to |-> to,
   mailbox |-> pg.view.mailbox, wrote |-> wrote, reply |-> None]

\* apply of the bulk controller.
BulkPatch ==
  /\ OnPage
  /\ ~bulkBusy
  /\ LET ids == page.list \cap page.chosen
     IN  /\ ids # {}
         /\ \E c \in Idle : Start(c, Chunks(page, "bulk", ids, ids, Other(page.view.folder), {}))
  /\ bulkBusy' = TRUE
  /\ UNCHANGED <<server, page, toast, compose, drafts>>

\* The undo of the status line, once: of one message, or of a bulk patch.
Undo ==
  /\ OnPage
  /\ toast # NoToast
  /\ \E c \in Idle :
       Start(c, IF toast.kind = "one"
                  THEN [at |-> "patch", message |-> CHOOSE m \in toast.messages : TRUE,
                        to |-> toast.to, reply |-> None, toast |-> NoToast]
                  ELSE Chunks(page, "undo", toast.messages, toast.messages, toast.to, {}))
  /\ toast' = NoToast
  /\ UNCHANGED <<server, page, bulkBusy, compose, drafts>>

-----------------------------------------------------------------------------
(* Clicks that change labels, in the settings dialog and in the detail.    *)

Change(c, what) ==
  Start(c, [at |-> "change", mailbox |-> page.view.mailbox, what |-> what, reply |-> None])

\* removeLabel
RemoveLabel ==
  /\ OnPage /\ clicks < MaxChanges
  /\ \E l \in page.labels, c \in Idle : Change(c, [do |-> "remove", label |-> l])
  /\ UNCHANGED <<server, page, bulkBusy, toast, compose, drafts>>

\* addLabel: no message has the new label yet, and no filter names it.
AddLabel ==
  /\ OnPage /\ clicks < MaxChanges
  /\ \E c \in Idle : Change(c, [do |-> "add"])
  /\ UNCHANGED <<server, page, bulkBusy, toast, compose, drafts>>

\* saveMessageLabels, with labels that the pane may have been shown with.
SaveLabels ==
  /\ OnPage /\ clicks < MaxChanges
  /\ page.detail \in Messages
  /\ \E chosen \in SUBSET {l \in Labels : LabelOf[l] = Home[page.detail]}, c \in Idle :
       Change(c, [do |-> "tag", message |-> page.detail, labels |-> chosen])
  /\ UNCHANGED <<server, page, bulkBusy, toast, compose, drafts>>

\* applyPreview and undoRun of the rules.
RunRule ==
  /\ OnPage /\ clicks < MaxRuns
  /\ \E c \in Idle : Change(c, [do |-> "rule"])
  /\ UNCHANGED <<server, page, bulkBusy, toast, compose, drafts>>

-----------------------------------------------------------------------------
(* The compose dialog.                                                     *)

\* saveNow: an empty form removes the draft.
SaveNow ==
  /\ storage' = IF draft.key = None THEN storage ELSE [storage EXCEPT ![draft.key] = compose.text]
  /\ draft' = [draft EXCEPT !.timer = FALSE]

\* clear
ClearDraft ==
  /\ storage' = IF draft.key = None THEN storage ELSE [storage EXCEPT ![draft.key] = None]
  /\ draft' = [key |-> None, timer |-> FALSE]

\* A text is told apart only by the key it was written under; a reply starts with the
\* quoted source.
Prefilled(k) == IF k.source = None THEN None ELSE k

Form_Kept(k) == IF compose.text # None THEN compose.text ELSE Prefilled(k)

Form(k) == IF storage[k] # None THEN storage[k] ELSE Prefilled(k)

\* openCompose and openReplyCompose
OpenCompose ==
  /\ OnPage
  /\ \E source \in {None} \cup ({page.detail} \cap Messages) :
       LET k == [mailbox |-> page.view.mailbox, source |-> source]
       IN  /\ compose' = [compose EXCEPT !.open = TRUE, !.id = @ + 1, !.dialog = @ + 1,
                                         !.key = k, !.text = Form(k)]
           /\ draft' = [key |-> k, timer |-> FALSE]
  /\ UNCHANGED <<server, page, call, bulkBusy, toast, storage>>

\* scheduleSave; the user may empty the form.
Type ==
  /\ Click
  /\ compose.open
  /\ \E text \in {compose.key, None} : compose' = [compose EXCEPT !.text = text]
  /\ draft' = [draft EXCEPT !.timer = draft.key # None]
  /\ UNCHANGED <<server, page, call, bulkBusy, toast, storage>>

Autosave ==
  /\ draft.timer
  /\ SaveNow
  /\ UNCHANGED <<server, page, call, bulkBusy, toast, compose, bounds>>

CloseCompose ==
  /\ Click
  /\ compose.open
  /\ SaveNow
  /\ compose' = [compose EXCEPT !.open = FALSE]
  /\ UNCHANGED <<server, page, call, bulkBusy, toast>>

DiscardCompose ==
  /\ Click
  /\ compose.open
  /\ ClearDraft
  /\ compose' = [compose EXCEPT !.open = FALSE, !.text = None]
  /\ UNCHANGED <<server, page, call, bulkBusy, toast>>

Submit_NewId ==
  /\ Click
  /\ compose.open /\ ~compose.sending
  /\ \E c \in Idle :
       Start(c, [at |-> "send", id |-> 10 + clicks, dialog |-> compose.dialog,
                 key |-> compose.key, reply |-> None])
  /\ compose' = [compose EXCEPT !.sending = TRUE]
  /\ UNCHANGED <<server, page, bulkBusy, toast, drafts>>

Submit_ClearsFirst ==
  /\ Click
  /\ compose.open /\ ~compose.sending
  /\ \E c \in Idle :
       Start(c, [at |-> "send", id |-> compose.id, dialog |-> compose.dialog,
                 key |-> compose.key, reply |-> None])
  /\ compose' = [compose EXCEPT !.sending = TRUE]
  /\ ClearDraft
  /\ UNCHANGED <<server, page, bulkBusy, toast>>

\* submitCompose: a second submit of the dialog carries the same requestId.
Submit ==
  /\ Click
  /\ compose.open /\ ~compose.sending
  /\ \E c \in Idle :
       Start(c, [at |-> "send", id |-> compose.id, dialog |-> compose.dialog,
                 key |-> compose.key, reply |-> None])
  /\ compose' = [compose EXCEPT !.sending = TRUE]
  /\ UNCHANGED <<server, page, bulkBusy, toast, drafts>>

-----------------------------------------------------------------------------
(* The API.                                                                *)

Answer(c, reply) == call' = [call EXCEPT ![c].reply = reply]
Unanswered(c, at) == call[c].at = at /\ call[c].reply = None

Found(view) ==
  {m \in Messages : /\ Home[m] = view.mailbox
                    /\ where[m] = view.folder
                    /\ \/ view.query = Everything
                       \/ view.query \in Labels /\ <<m, view.query>> \in tagged
                       \/ view.query \notin Labels /\ m \in Hits}

\* listWebMessages: the newest after the cursor, and a cursor if there are more.
ServeList(c) ==
  /\ Unanswered(c, "list")
  /\ LET found == {m \in Found(call[c].view) : call[c].after # None => m < call[c].after}
         first == {m \in found : Cardinality({n \in found : n > m}) < PageSize}
     IN  Answer(c, [ok |-> TRUE, messages |-> first,
                    cursor |-> IF first = found THEN None ELSE Min(first)])
  /\ UNCHANGED <<server, page, bulkBusy, toast, compose, drafts, bounds>>

\* getLabels, getMessage and getMessageBody
ServeRead(c) ==
  /\ \/ /\ Unanswered(c, "labels")
        /\ Answer(c, [ok |-> TRUE, labels |-> {l \in labels : LabelOf[l] = call[c].mailbox}])
     \/ /\ Unanswered(c, "detail")
        /\ LET was == where[call[c].message]
           IN  Answer(c, [ok |-> was # "purged", was |-> was])
  /\ UNCHANGED <<server, page, bulkBusy, toast, compose, drafts, bounds>>

\* updateWebMessageFlags
ServePatch(c) ==
  /\ Unanswered(c, "patch")
  /\ LET m == call[c].message
     IN  IF where[m] = "purged" THEN Answer(c, [ok |-> FALSE]) /\ UNCHANGED where
         ELSE Answer(c, [ok |-> TRUE]) /\ where' = [where EXCEPT ![m] = call[c].to]
  /\ UNCHANGED <<marks, sent, page, bulkBusy, toast, compose, drafts, bounds>>

\* deleteMailboxLabel, replaceMessageLabels, and a rule run, which moves at most one
\* message here.  A label takes its assignments with it, and is refused (as by Fails) if a
\* rule uses it; the labels that a rule put on a message stay.
Tags(m, ls) == {p \in tagged : p[1] # m} \cup {m} \X ls

ServeChange(c) ==
  /\ Unanswered(c, "change")
  /\ LET what == call[c].what
     IN  \/ /\ what.do = "remove"
            /\ LET found == what.label \in labels /\ LabelOf[what.label] = call[c].mailbox
               IN  /\ Answer(c, [ok |-> found])
                   /\ labels' = IF found THEN labels \ {what.label} ELSE labels
                   /\ tagged' = {p \in tagged : p[2] \in labels'}
            /\ UNCHANGED where
         \/ /\ what.do = "tag"
            /\ LET found == what.labels \subseteq labels /\ where[what.message] # "purged"
               IN  /\ Answer(c, [ok |-> found])
                   /\ \E stay \in SUBSET {l \in labels : <<what.message, l>> \in tagged} :
                        tagged' = IF found THEN Tags(what.message, what.labels \cup stay)
                                  ELSE tagged
            /\ UNCHANGED <<where, labels>>
         \/ /\ what.do = "rule"
            /\ Answer(c, [ok |-> TRUE])
            /\ \E m \in Messages, to \in {"inbox", "trash"} :
                 /\ Home[m] = call[c].mailbox /\ where[m] # "purged"
                 /\ where' = [where EXCEPT ![m] = to]
            /\ UNCHANGED marks
         \/ /\ what.do \in {"add", "rule"}
            /\ Answer(c, [ok |-> TRUE])
            /\ UNCHANGED <<where, marks>>
  /\ UNCHANGED <<sent, page, bulkBusy, toast, compose, drafts, bounds>>

\* bulkUpdateWebMessageFlags: all messages of the chunk are in the mailbox, or none
\* is updated.
Updatable_Some(chunk, mailbox) == chunk # {}

Updatable(chunk, mailbox) == \A m \in chunk : Home[m] = mailbox /\ where[m] # "purged"

ServeChunk(c) ==
  /\ Unanswered(c, "bulk") \/ Unanswered(c, "undo")
  /\ LET chunk == {m \in call[c].chunk : Home[m] = call[c].mailbox /\ where[m] # "purged"}
     IN  IF ~Updatable(call[c].chunk, call[c].mailbox)
           THEN Answer(c, [ok |-> FALSE]) /\ UNCHANGED where
           ELSE /\ call' = [call EXCEPT ![c].reply = [ok |-> TRUE],
                                        ![c].wrote = @ \cup chunk]
                /\ where' = [m \in Messages |-> IF m \in chunk THEN call[c].to ELSE where[m]]
  /\ UNCHANGED <<marks, sent, page, bulkBusy, toast, compose, drafts, bounds>>

\* resolveOutboundThreadContext: the source of a reply must belong to the mailbox.
Ours(key) == key.source # None => Home[key.source] = key.mailbox /\ where[key.source] # "purged"

\* createOutboundMessage: a requestId that the mailbox knows is answered with its message.
ServeSend(c) ==
  /\ Unanswered(c, "send")
  /\ LET known == \E s \in sent : s.id = call[c].id /\ s.key.mailbox = call[c].key.mailbox
         key   == call[c].key
     IN  /\ Answer(c, [ok |-> known \/ Ours(key)])
         /\ sent' = IF known \/ ~Ours(key) THEN sent
                    ELSE sent \cup {[id |-> call[c].id, dialog |-> call[c].dialog, key |-> key]}
  /\ UNCHANGED <<where, marks, page, bulkBusy, toast, compose, drafts, bounds>>

Fault == faults < MaxFaults /\ faults' = faults + 1 /\ UNCHANGED clicks

\* A call fails before it is served, or its answer is lost.
Fails(c) ==
  /\ Fault
  /\ call[c] # Free
  /\ call[c].reply # None => call[c].reply.ok
  /\ Answer(c, [ok |-> FALSE])
  /\ UNCHANGED <<server, page, bulkBusy, toast, compose, drafts>>

\* Retention, or another client.
Elsewhere ==
  /\ Fault
  /\ \/ /\ \E m \in Messages, to \in {"trash", "purged"} :
             /\ where[m] # "purged"
             /\ where' = [where EXCEPT ![m] = to]
             /\ tagged' = {p \in tagged : p[1] # m \/ to = "trash"}
        /\ UNCHANGED labels
     \/ /\ \E l \in labels : labels' = labels \ {l}
        /\ tagged' = {p \in tagged : p[2] \in labels'}
        /\ UNCHANGED where
  /\ UNCHANGED <<sent, page, call, bulkBusy, toast, compose, drafts>>

-----------------------------------------------------------------------------
(* The page goes on where it awaited.                                      *)

Answered(c, at) == call[c].at = at /\ call[c].reply # None
Ok(c) == call[c].reply.ok

\* loadLabels after its await: a filter by a label that is not among them is dropped.
Labelled(pg, found) ==
  LET with == [pg EXCEPT !.labels = found, !.options = found]
  IN  IF pg.view.query \in Labels \ found
        THEN Unselected(with, [pg.view EXCEPT !.query = Everything]) ELSE with

\* What its caller does then; an error ends it.
LabelsDone(c) ==
  /\ Answered(c, "labels")
  /\ LET pg == IF Ok(c) THEN Labelled(page, call[c].reply.labels) ELSE page
     IN  /\ page' = pg
         /\ Start(c, IF Ok(c) /\ call[c].then # Announce
                       THEN Load(pg, FALSE, call[c].then) ELSE Free)
  /\ toast' = IF Ok(c) /\ call[c].then # Announce THEN toast ELSE NoToast
  /\ UNCHANGED <<server, bulkBusy, compose, drafts, bounds>>

\* removeLabel, addLabel, saveMessageLabels and refreshAfterRuleMutation.
ChangeDone(c) ==
  /\ Answered(c, "change")
  /\ LET what == call[c].what
         then == CASE what.do = "remove" -> Report(NoToast)
                   [] what.do = "add"    -> Announce
                   [] what.do = "tag"    -> Reopen(what.message, Kept)
                   [] what.do = "rule"   -> Resume
     IN  /\ Start(c, IF Ok(c) THEN LoadLabels(page, then) ELSE Free)
         /\ toast' = IF Ok(c) /\ what.do # "tag" THEN toast ELSE NoToast
  /\ UNCHANGED <<server, page, bulkBusy, compose, drafts, bounds>>

\* replaceMessagePage and appendMessagePage
Shown(pg, append, view, reply) ==
  Rendered([pg EXCEPT !.list = IF append THEN @ \cup reply.messages ELSE reply.messages,
                      !.of = IF append THEN @ \cup {view} ELSE {view},
                      !.cursor = reply.cursor,
                      !.chosen = IF append THEN @ ELSE {}])

Current_Always(c) == TRUE

\* An answer for an earlier view is dropped.
Current(c) == call[c].rev = page.rev

\* loadMessages after its await, and what its caller does then: it never throws.  A status
\* that follows without another change of the page is part of the step.
ListDone(c) ==
  /\ Answered(c, "list")
  /\ LET current == Current(c)
         then == call[c].then
         pg == IF Ok(c) /\ current
                 THEN Shown(page, call[c].append, call[c].view, call[c].reply) ELSE page
         line == IF ~Ok(c) /\ current THEN NoToast ELSE toast
     IN  \/ /\ then.do = "nothing"
            /\ Start(c, Free) /\ page' = pg /\ toast' = line
            /\ UNCHANGED <<bulkBusy, compose, drafts>>
         \/ /\ then.do = "searched"
            /\ Start(c, Free) /\ page' = pg
            /\ toast' = IF pg.list = {} /\ pg.view.query # Everything THEN NoToast ELSE line
            /\ UNCHANGED <<bulkBusy, compose, drafts>>
         \/ /\ then.do = "reopen"
            /\ IF then.message \in pg.list
                 THEN /\ page' = Opening(pg, then.message)
                      /\ Start(c, Read(then.message, then.toast))
                      /\ toast' = line
                 ELSE /\ page' = Closed(pg) /\ Start(c, Free)
                      /\ toast' = IF then.toast = Kept THEN line ELSE then.toast
            /\ UNCHANGED <<bulkBusy, compose, drafts>>
         \/ /\ then.do = "resume"
            /\ IF pg.selected \in pg.list
                 THEN /\ page' = Opening(pg, pg.selected)
                      /\ Start(c, Read(pg.selected, NoToast))
                      /\ toast' = line
                 ELSE /\ page' = IF pg.selected # None THEN Closed(pg) ELSE pg
                      /\ Start(c, Free) /\ toast' = NoToast
            /\ UNCHANGED <<bulkBusy, compose, drafts>>
         \/ /\ then.do = "report"
            /\ Start(c, Free) /\ page' = pg /\ toast' = then.toast
            /\ bulkBusy' = IF then.toast = NoToast THEN bulkBusy ELSE FALSE
            /\ UNCHANGED <<compose, drafts>>
         \/ /\ then.do = "leave"
            /\ Start(c, Free) /\ page' = pg /\ toast' = line
            /\ ClearDraft
            /\ compose' = [compose EXCEPT !.open = FALSE, !.sending = FALSE]
            /\ UNCHANGED bulkBusy
  /\ UNCHANGED <<server, bounds>>

Selected_Any(m) == TRUE

Selected(m) == page.selected = m

\* openMessage after its awaits; an error closes whatever is open by now.
DetailDone(c) ==
  /\ Answered(c, "detail")
  /\ page' = CASE Ok(c) /\ Selected(call[c].message) -> [page EXCEPT !.detail = call[c].message,
                                                                      !.was = call[c].reply.was]
               [] ~Ok(c)                             -> Closed(page)
               [] OTHER                              -> page
  /\ toast' = IF call[c].toast # Kept THEN call[c].toast
              ELSE IF Ok(c) THEN toast ELSE NoToast
  /\ Start(c, Free)
  /\ UNCHANGED <<server, bulkBusy, compose, drafts, bounds>>

\* apply and undo of one message: refresh, and an undo after apply.
PatchDone(c) ==
  /\ Answered(c, "patch")
  /\ Start(c, IF Ok(c) THEN Load(page, FALSE, Reopen(call[c].message, call[c].toast)) ELSE Free)
  /\ toast' = IF Ok(c) THEN toast ELSE NoToast
  /\ UNCHANGED <<server, page, bulkBusy, compose, drafts, bounds>>

\* patchInChunks: the next chunk, or the end of the bulk patch or of its undo.
ChunkDone(c) ==
  /\ Answered(c, "bulk") \/ Answered(c, "undo")
  /\ LET kind == call[c].at
         pg == IF kind = "bulk" THEN [page EXCEPT !.chosen = {}] ELSE page
         line == [kind |-> "bulk", messages |-> call[c].ids, to |-> Other(call[c].to),
                  wrote |-> call[c].wrote]
     IN  \/ /\ ~Ok(c)
            /\ Start(c, Free) /\ toast' = NoToast
            /\ bulkBusy' = IF kind = "bulk" THEN FALSE ELSE bulkBusy
            /\ UNCHANGED page
         \/ /\ Ok(c) /\ call[c].todo # {}
            /\ Start(c, Chunks(page, kind, call[c].ids, call[c].todo, call[c].to, call[c].wrote))
            /\ UNCHANGED <<page, bulkBusy, toast>>
         \/ /\ Ok(c) /\ call[c].todo = {}
            /\ page' = pg
            /\ Start(c, Load(pg, FALSE, Report(IF kind = "bulk" THEN line ELSE NoToast)))
            /\ UNCHANGED <<bulkBusy, toast>>
  /\ UNCHANGED <<server, compose, drafts, bounds>>

\* sendMessage: on to the outbox, then the dialog closes; an error leaves it open.
SendDone(c) ==
  /\ Answered(c, "send")
  /\ toast' = NoToast
  /\ LET pg == Turned(page, [page.view EXCEPT !.folder = "outbox"])
     IN  \/ /\ ~Ok(c)
            /\ Start(c, Free)
            /\ compose' = [compose EXCEPT !.sending = FALSE]
            /\ UNCHANGED <<page, drafts>>
         \/ /\ Ok(c) /\ page.view.folder # "outbox"
            /\ page' = pg
            /\ Start(c, Load(pg, FALSE, Leave(call[c].dialog)))
            /\ UNCHANGED <<compose, drafts>>
         \/ /\ Ok(c) /\ page.view.folder = "outbox"
            /\ Start(c, Free)
            /\ ClearDraft
            /\ compose' = [compose EXCEPT !.open = FALSE, !.sending = FALSE]
            /\ UNCHANGED page
  /\ UNCHANGED <<server, bulkBusy, bounds>>

\* The tab is reloaded, with beforeunload, or dies without it; what was sent to the
\* server and not yet served is lost with it or counts as served before.
Reload ==
  /\ Fault
  /\ page' = Started
  /\ \E c \in Calls :
       call' = [d \in Calls |-> IF d = c THEN LoadLabels(Started, Nothing) ELSE Free]
  /\ compose' = [compose EXCEPT !.open = FALSE, !.text = None, !.sending = FALSE]
  /\ storage' \in {storage, IF draft.key = None THEN storage
                            ELSE [storage EXCEPT ![draft.key] = compose.text]}
  /\ draft' = [key |-> None, timer |-> FALSE]
  /\ bulkBusy' = FALSE
  /\ toast' = NoToast
  /\ UNCHANGED server

-----------------------------------------------------------------------------

Clicks == \/ SwitchMailbox \/ SwitchFolder \/ Search \/ Refresh \/ LoadMore \/ Open \/ CloseDetail
          \/ PatchDetail \/ Toggle \/ SelectAll \/ BulkPatch \/ Undo
          \/ RemoveLabel \/ AddLabel \/ SaveLabels \/ RunRule
          \/ OpenCompose \/ Type \/ CloseCompose \/ DiscardCompose \/ Submit

Api(c) == \/ ServeList(c) \/ ServeRead(c) \/ ServePatch(c) \/ ServeChunk(c) \/ ServeSend(c)
          \/ ServeChange(c)

Continues(c) == \/ LabelsDone(c) \/ ListDone(c) \/ DetailDone(c) \/ PatchDone(c)
                \/ ChunkDone(c) \/ SendDone(c) \/ ChangeDone(c)

Next == \/ Clicks \/ Autosave \/ Elsewhere \/ Reload
        \/ \E c \in Calls : Api(c) \/ Continues(c) \/ Fails(c)

Spec == Init /\ [][Next]_vars

-----------------------------------------------------------------------------
(* The types.                                                              *)

Live  == {"inbox", "trash"}
Maybe == {None} \cup [ok : BOOLEAN]
Line  == [kind : {"none"}]
         \cup [kind : {"one", "bulk"}, messages : (SUBSET Messages) \ {{}}, to : Live,
               wrote : SUBSET Messages]
Then  == [do : {"nothing", "announce", "searched", "resume"}]
         \cup [do : {"reopen"}, message : Messages, toast : Line \cup {Kept}]
         \cup [do : {"report"}, toast : Line] \cup [do : {"leave"}, dialog : Nat]

What  == [do : {"add", "rule"}] \cup [do : {"remove"}, label : Labels]
         \cup [do : {"tag"}, message : Messages, labels : SUBSET Labels]

LabelReply  == {None} \cup [ok : {FALSE}] \cup [ok : {TRUE}, labels : SUBSET Labels]
ListReply   == {None} \cup [ok : {FALSE}]
               \cup [ok : {TRUE}, messages : SUBSET Messages, cursor : Messages \cup {None}]
DetailReply == {None} \cup [ok : {FALSE}] \cup [ok : {FALSE}, was : {"purged"}]
               \cup [ok : {TRUE}, was : Live]

Function ==
  [at : {"free"}]
  \cup [at : {"labels"}, mailbox : Mailboxes, reply : LabelReply, then : Then]
  \cup [at : {"list"}, rev : Nat, view : View, append : BOOLEAN, after : Messages \cup {None},
        reply : ListReply, then : Then]
  \cup [at : {"detail"}, message : Messages, reply : DetailReply, toast : Line \cup {Kept}]
  \cup [at : {"change"}, mailbox : Mailboxes, what : What, reply : Maybe]
  \cup [at : {"patch"}, message : Messages, to : Live, reply : Maybe, toast : Line]
  \cup [at : {"bulk", "undo"}, ids : (SUBSET Messages) \ {{}}, todo : SUBSET Messages,
        chunk : SUBSET Messages, to : Live, mailbox : Mailboxes, wrote : SUBSET Messages,
        reply : Maybe]
  \cup [at : {"send"}, id : Nat, dialog : Nat, key : Key, reply : Maybe]

Page   == [view : View, rev : Nat, list : SUBSET Messages, of : SUBSET View,
           cursor : Messages \cup {None}, chosen : SUBSET Messages,
           selected : Messages \cup {None}, detail : Messages \cup {None, Loading},
           was : Live \cup {None}, orphan : BOOLEAN, labels : SUBSET Labels,
           options : SUBSET Labels, rows : SUBSET Messages, more : BOOLEAN]
Dialog == [open : BOOLEAN, id : Nat, dialog : Nat, key : Key \cup {None},
           text : Key \cup {None}, sending : BOOLEAN]

TypeOK ==
  /\ where \in [Messages -> Live \cup {"purged"}]
  /\ labels \subseteq Labels
  /\ tagged \subseteq Messages \X labels
  /\ sent \subseteq [id : Nat, dialog : Nat, key : Key]
  /\ page \in Page
  /\ page.detail \in Messages => page.was \in Live
  /\ call \in [Calls -> Function]
  /\ bulkBusy \in BOOLEAN
  /\ toast \in Line
  /\ compose \in Dialog
  /\ compose.open => compose.key \in Key
  /\ draft \in [key : Key \cup {None}, timer : BOOLEAN]
  /\ storage \in [Key -> Key \cup {None}]
  /\ clicks \in 0..MaxClicks /\ faults \in 0..MaxFaults

-----------------------------------------------------------------------------
(* Properties.                                                             *)

\* The list holds answers for the mailbox, folder and search that the page shows, and no
\* other, however many loads of earlier views are still in flight and in whatever order
\* they are answered (revision of loadMessages in app.js and of state.js).
ListIsOfView ==
  page.of \subseteq {page.view} /\ \A m \in page.list : Home[m] = page.view.mailbox

\* What the buttons and a reply rest on: the message in the detail pane is the selected
\* one, after any order of openings, closings, searches and late answers (selectedMessageId
\* in openMessage).  The one thing that leaves the pane open with nothing selected is a
\* label filter that loadLabels drops; never is another message selected than is shown.
DetailIsSelected ==
  page.detail \in Messages =>
    page.selected = page.detail \/ (page.orphan /\ page.selected = None)

\* When the page reports a bulk change and offers its undo, the server has made the change
\* to every message it names: a chunk that is refused, lost or sent to another mailbox
\* leads to an error and never to that report (apply and patchInChunks of
\* bulk-controller.js, bulkUpdateWebMessageFlags).
ReportedIsDone == toast # NoToast => toast.wrote = toast.messages

\* A dialog sends at most one message, though its submit may be repeated after an answer
\* that was lost (requestId of compose.js).
OneMessagePerDialog ==
  \A s, t \in sent : s.dialog = t.dialog => s = t

\* A stored draft holds only what was written under its own mailbox and source, whatever
\* dialogs, timers, reloads and late answers came between (compose-draft.js).
DraftsAreScoped == \A k \in Key : storage[k] \in {None, k}

\* A draft leaves the storage only when its own form is empty or discarded, or at the
\* answer to a send that the server has accepted: a failed send keeps it (submitCompose).
DraftKept ==
  [][\A k \in Key :
       storage[k] # None /\ storage'[k] = None =>
         \/ compose.key = k /\ compose.open /\ compose.text = None
         \/ compose.key = k /\ compose.open /\ ~compose'.open /\ clicks' = clicks + 1
         \/ \E c \in Calls, s \in sent :
               /\ call'[c] = Free
               /\ \/ call[c].at = "send" /\ call[c].dialog = s.dialog
                  \/ /\ call[c].at = "list" /\ call[c].then.do = "leave"
                     /\ call[c].then.dialog = s.dialog]_vars

=============================================================================
