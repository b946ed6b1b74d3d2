---------------------------- MODULE WebMailProofs -----------------------------
(***************************************************************************)
(* Theorems about WebMail for all sets of mailboxes, messages, searches    *)
(* and calls, every size of pages and chunks and every value of the bounds.*)
(***************************************************************************)
EXTENDS WebMail, WellFoundedInduction, FiniteSetTheorems, TLAPS

-----------------------------------------------------------------------------
(* Pages of a list.                                                        *)

LEMMA Least ==
  ASSUME NEW S \in SUBSET Nat, S # {} PROVE \E n \in S : \A m \in S : n <= m
<1>1. PICK x \in S : \A y \in S : ~ (<<y, x>> \in OpToRel(<, Nat))
  BY NatLessThanWellFounded, WFMin, Zenon
<1>2. \A y \in S : ~ (y < x)
  BY <1>1 DEF OpToRel
<1>. QED BY <1>2

\* A page of what was found, and the cursor that follows it, are messages.
LEMMA FirstPage ==
  ASSUME NEW found \in SUBSET Messages,
         NEW first, first = {m \in found : Cardinality({n \in found : n > m}) < PageSize},
         first # found
  PROVE  Min(first) \in Messages
<1>. DEFINE newer(m) == {n \in found : n > m}
            counts == {Cardinality(newer(m)) : m \in found}
<1>1. \A m \in found : IsFiniteSet(newer(m)) /\ Cardinality(newer(m)) \in Nat
  <2>1. IsFiniteSet(found)
    BY MessagesAssumption, FS_Subset
  <2>. QED BY <2>1, FS_Subset, FS_CardinalityType
<1>2. found # {} /\ found \subseteq Nat
  BY DomainAssumption
<1>3. PICK least \in counts : \A k \in counts : least <= k
  <2>1. counts \in SUBSET Nat /\ counts # {}
    BY <1>1, <1>2
  <2>. HIDE DEF counts
  <2>. QED BY <2>1, Least
<1>4. PICK m \in found : least = Cardinality(newer(m))
  BY <1>3
<1>5. ASSUME NEW n \in found, n > m PROVE FALSE
  <2>1. newer(n) \subseteq newer(m)
    <3>1. \A k \in Nat : k > n => k > m
      BY <1>2, <1>5
    <3>. QED BY <1>2, <3>1
  <2>2. n \in newer(m) /\ n \notin newer(n)
    BY <1>2, <1>5
  <2>3. newer(n) # newer(m)
    BY <2>2
  <2>4. /\ Cardinality(newer(n)) <= Cardinality(newer(m))
        /\ Cardinality(newer(n)) # Cardinality(newer(m))
    <3>1. IsFiniteSet(newer(m))
      BY <1>1
    <3>. HIDE DEF newer
    <3>. QED BY <2>1, <2>3, <3>1, FS_Subset
  <2>5. Cardinality(newer(n)) \in counts
    OBVIOUS
  <2>6. least <= Cardinality(newer(n))
    BY <1>3, <2>5
  <2>7. Cardinality(newer(n)) \in Nat /\ Cardinality(newer(m)) \in Nat
    BY <1>1
  <2>8. Cardinality(newer(m)) <= Cardinality(newer(n))
    BY <1>4, <2>6
  <2>. HIDE DEF newer
  <2>. QED BY <2>4, <2>7, <2>8
<1>6. Cardinality(newer(m)) = 0
  <2>1. newer(m) = {}
    BY <1>5
  <2>. HIDE DEF newer
  <2>. QED BY <2>1, FS_EmptySet
<1>7. first \in SUBSET Nat /\ m \in first
  <2>1. 0 < PageSize
    BY BoundsAssumption
  <2>2. m \in first
    BY <1>6, <2>1
  <2>. QED BY <1>2, <2>2
<1>8. \E x \in first : \A y \in first : x <= y
  BY <1>7, Least
<1>9. Min(first) \in first
  BY <1>8 DEF Min
<1>. QED BY <1>9

-----------------------------------------------------------------------------
(* Types.                                                                  *)

PageOK(pg) == pg \in Page /\ (pg.detail \in Messages => pg.was \in Live)

LEMMA PagesTyped ==
  ASSUME NEW pg, PageOK(pg)
  PROVE  /\ PageOK(Rendered(pg))
         /\ PageOK(Closed(pg))
         /\ \A m \in Messages : PageOK(Opening(pg, m))
         /\ \A view \in View : PageOK(Unselected(pg, view)) /\ PageOK(Turned(pg, view))
<1>1. \A q \in Page :
        Rendered(q) \in Page /\ Rendered(q).detail = q.detail /\ Rendered(q).was = q.was
  BY DEF Rendered, Page
<1>2. PageOK(Rendered(pg))
  BY <1>1 DEF PageOK
<1>3. PageOK(Closed(pg))
  <2>. DEFINE q == [pg EXCEPT !.selected = None, !.detail = None, !.was = None,
                              !.orphan = FALSE]
  <2>1. q \in Page /\ q.detail = None
    BY DEF Page, PageOK
  <2>. HIDE DEF q
  <2>2. PageOK(Rendered(q))
    BY <1>1, <2>1, MessagesAssumption DEF PageOK
  <2>. QED BY <2>2 DEF Closed, q
<1>4. ASSUME NEW m \in Messages PROVE PageOK(Opening(pg, m))
  <2>. DEFINE q == [pg EXCEPT !.selected = m, !.detail = Loading, !.was = None,
                              !.orphan = FALSE]
  <2>1. q \in Page /\ q.detail = Loading
    BY DEF Page, PageOK
  <2>. HIDE DEF q
  <2>2. PageOK(Rendered(q))
    BY <1>1, <2>1, MessagesAssumption DEF PageOK
  <2>. QED BY <2>2 DEF Opening, q
<1>5. ASSUME NEW view \in View PROVE PageOK(Unselected(pg, view)) /\ PageOK(Turned(pg, view))
  <2>1. pg \in Page /\ pg.rev + 1 \in Nat
    BY DEF PageOK, Page
  <2>. DEFINE q == Unselected(pg, view)
              t == [q EXCEPT !.detail = None, !.was = None, !.orphan = FALSE]
  <2>2. q \in Page /\ q.detail = pg.detail /\ q.was = pg.was
    BY <2>1 DEF Page, Unselected
  <2>3. PageOK(q)
    BY <2>2 DEF PageOK
  <2>. HIDE DEF q
  <2>4. t \in Page /\ t.detail = None
    BY <2>2 DEF Page
  <2>. HIDE DEF t
  <2>5. PageOK(t)
    BY <2>4, MessagesAssumption DEF PageOK
  <2>. QED BY <2>3, <2>5 DEF Turned, q, t
<1>. QED BY <1>2, <1>3, <1>4, <1>5

\* The page after its labels were loaded.
LEMMA LabelledTyped ==
  ASSUME NEW pg, PageOK(pg), NEW found \in SUBSET Labels
  PROVE  PageOK(Labelled(pg, found))
<1>. DEFINE with == [pg EXCEPT !.labels = found, !.options = found]
            view == [pg.view EXCEPT !.query = Everything]
<1>1. with \in Page /\ with.detail = pg.detail /\ with.was = pg.was
  BY DEF PageOK, Page
<1>2. PageOK(with)
  BY <1>1 DEF PageOK
<1>3. view \in View
  BY DomainAssumption DEF PageOK, Page, View
<1>. HIDE DEF with, view
<1>4. PageOK(Unselected(with, view))
  BY <1>2, <1>3, PagesTyped
<1>. QED BY <1>2, <1>4 DEF Labelled, with, view

LEMMA FunctionKinds ==
  ASSUME NEW f \in Function
  PROVE  /\ f.at = "labels" =>
              f \in [at : {"labels"}, mailbox : Mailboxes, reply : LabelReply, then : Then]
         /\ f.at = "list" =>
              f \in [at : {"list"}, rev : Nat, view : View, append : BOOLEAN,
                     after : Messages \cup {None}, reply : ListReply, then : Then]
         /\ f.at = "detail" =>
              f \in [at : {"detail"}, message : Messages, reply : DetailReply,
                     toast : Line \cup {Kept}]
         /\ f.at = "change" =>
              f \in [at : {"change"}, mailbox : Mailboxes, what : What, reply : Maybe]
         /\ f.at = "patch" =>
              f \in [at : {"patch"}, message : Messages, to : Live, reply : Maybe, toast : Line]
         /\ f.at \in {"bulk", "undo"} =>
              f \in [at : {"bulk", "undo"}, ids : (SUBSET Messages) \ {{}}, todo : SUBSET Messages,
                     chunk : SUBSET Messages, to : Live, mailbox : Mailboxes,
                     wrote : SUBSET Messages, reply : Maybe]
         /\ f.at = "send" =>
              f \in [at : {"send"}, id : Nat, dialog : Nat, key : Key, reply : Maybe]
         /\ f.at = "free" => f = Free
         /\ f.at \in {"free", "labels", "list", "detail", "change", "patch", "bulk", "undo",
                      "send"}
BY DEF Function, Free

\* The functions of the page, where they wait for an answer.
LEMMA LoadTyped ==
  ASSUME NEW pg, PageOK(pg), NEW append \in BOOLEAN, NEW then \in Then
  PROVE  Load(pg, append, then) \in Function
BY DEF Load, Function, PageOK, Page, ListReply

LEMMA LabelsTyped ==
  ASSUME NEW pg, PageOK(pg), NEW then \in Then
  PROVE  LoadLabels(pg, then) \in Function
BY DEF LoadLabels, Function, PageOK, Page, View, LabelReply

LEMMA ReadTyped ==
  ASSUME NEW m \in Messages, NEW t \in Line \cup {Kept}
  PROVE  Read(m, t) \in Function
BY DEF Read, Function, DetailReply

LEMMA ChunksTyped ==
  ASSUME NEW pg, PageOK(pg), NEW kind \in {"bulk", "undo"}, NEW ids \in (SUBSET Messages) \ {{}},
         NEW todo \in SUBSET Messages, NEW to \in Live, NEW wrote \in SUBSET Messages
  PROVE  Chunks(pg, kind, ids, todo, to, wrote) \in Function
<1>1. Chunk(todo) \subseteq todo
  BY DEF Chunk
<1>2. pg.view.mailbox \in Mailboxes
  BY DEF PageOK, Page, View
<1>. QED BY <1>1, <1>2 DEF Chunks, Function, Maybe

LEMMA OtherTyped == \A folder : Other(folder) \in Live
BY DEF Other, Live

LEMMA LinesTyped ==
  /\ NoToast \in Line
  /\ {Announce, Nothing, Searched, Resume} \subseteq Then
  /\ \A t \in Line : Report(t) \in Then
  /\ \A m \in Messages, t \in Line \cup {Kept} : Reopen(m, t) \in Then
  /\ \A n \in Nat : Leave(n) \in Then
BY DEF NoToast, Line, Announce, Nothing, Searched, Resume, Report, Reopen, Leave, Then

LEMMA FreeTyped == Free \in Function
BY DEF Free, Function

LEMMA StartTyped ==
  ASSUME TypeOK, NEW c \in Calls, NEW f \in Function, Start(c, f)
  PROVE  call' \in [Calls -> Function]
BY DEF Start, TypeOK

LEMMA StartedTyped == PageOK(Started) /\ Started.detail = None
<1>1. Started \in Page /\ Started.detail = None
  BY DomainAssumption DEF Started, Blank, Page, View, Folders
<1>. QED BY <1>1, MessagesAssumption DEF PageOK

\* The first call of a page.
LEMMA FirstCallTyped ==
  ASSUME NEW c, NEW f, f = [d \in Calls |-> IF d = c THEN LoadLabels(Started, Nothing) ELSE Free]
  PROVE  f \in [Calls -> Function]
<1>1. LoadLabels(Started, Nothing) \in Function
  BY StartedTyped, LabelsTyped, LinesTyped
<1>. QED BY <1>1, FreeTyped

LEMMA InitTyped == Init => TypeOK
<1>. SUFFICES ASSUME Init PROVE TypeOK
  OBVIOUS
<1>1. PageOK(page)
  BY StartedTyped DEF Init
<1>2. call \in [Calls -> Function]
  BY FirstCallTyped DEF Init
<1>3. compose \in Dialog /\ ~compose.open
  BY DEF Init, NoDialog, Dialog
<1>4. draft \in [key : Key \cup {None}, timer : BOOLEAN] /\ storage \in [Key -> Key \cup {None}]
  BY DEF Init
<1>5. /\ where \in [Messages -> Live \cup {"purged"}] /\ sent = {} /\ bulkBusy \in BOOLEAN
      /\ labels \subseteq Labels /\ tagged \subseteq Messages \X labels
  BY DomainAssumption DEF Init, Live
<1>6. toast \in Line
  BY LinesTyped DEF Init
<1>7. clicks \in 0..MaxClicks /\ faults \in 0..MaxFaults
  BY BoundsAssumption DEF Init
<1>. QED BY <1>1, <1>2, <1>3, <1>4, <1>5, <1>6, <1>7 DEF TypeOK, PageOK

LEMMA ClickTyped ==
  ASSUME TypeOK, Click PROVE clicks' \in 0..MaxClicks /\ UNCHANGED faults
BY BoundsAssumption DEF TypeOK, Click

LEMMA FaultTyped ==
  ASSUME TypeOK, Fault PROVE faults' \in 0..MaxFaults /\ UNCHANGED clicks
BY BoundsAssumption DEF TypeOK, Fault

\* What most actions leave alone.
LEMMA ServerStays ==
  ASSUME TypeOK, UNCHANGED server
  PROVE  /\ where' \in [Messages -> Live \cup {"purged"}]
         /\ labels' \subseteq Labels /\ tagged' \subseteq Messages \X labels'
         /\ sent' \subseteq [id : Nat, dialog : Nat, key : Key]
BY DEF TypeOK, server, marks

LEMMA DraftsStay ==
  ASSUME TypeOK, UNCHANGED drafts
  PROVE  /\ draft' \in [key : Key \cup {None}, timer : BOOLEAN]
         /\ storage' \in [Key -> Key \cup {None}]
BY DEF TypeOK, drafts

LEMMA TypedPage == TypeOK => PageOK(page)
BY DEF TypeOK, PageOK

LEMMA PageTyped ==
  ASSUME PageOK(page')
  PROVE  page' \in Page /\ (page'.detail \in Messages => page'.was \in Live)
BY DEF PageOK

\* What the clicks that turn the page, and those that change labels, come to.
LEMMA SwitchesMailbox ==
  ASSUME TypeOK, SwitchMailbox
  PROVE  \E view \in View, c \in Calls :
           /\ page' = Turned([page EXCEPT !.labels = {}], view)
           /\ Start(c, LoadLabels(page', Nothing))
<1>1. page.view \in View
  BY DEF TypeOK, Page
<1>2. \A mb \in Mailboxes, query \in Queries : [page.view EXCEPT !.mailbox = mb, !.query = query] \in View
  BY <1>1 DEF View
<1>3. page.view.query \in Queries /\ Everything \in Queries
  BY <1>1, DomainAssumption DEF View
<1>. QED BY <1>2, <1>3 DEF SwitchMailbox, Idle

LEMMA SwitchesView ==
  ASSUME TypeOK, SwitchFolder \/ Search
  PROVE  \E view \in View, c \in Calls, then \in {Nothing, Searched} :
           page' = Turned(page, view) /\ Start(c, Load(page', FALSE, then))
<1>1. page.view \in View /\ page.options \subseteq Queries
  BY DomainAssumption DEF TypeOK, Page
<1>2. CASE SwitchFolder
  <2>1. \A folder \in Folders : [page.view EXCEPT !.folder = folder] \in View
    BY <1>1 DEF View
  <2>. QED BY <1>2, <2>1 DEF SwitchFolder, Idle
<1>3. CASE Search
  <2>1. \A query \in Queries : [page.view EXCEPT !.query = query] \in View
    BY <1>1 DEF View
  <2>. QED BY <1>1, <1>3, <2>1 DEF Search, Idle
<1>. QED BY <1>2, <1>3

LEMMA ChangesLabels ==
  ASSUME TypeOK, RemoveLabel \/ AddLabel \/ SaveLabels \/ RunRule
  PROVE  /\ \E c \in Calls, what \in What : Change(c, what)
         /\ OnPage /\ UNCHANGED <<server, page, bulkBusy, toast, compose, drafts>>
<1>1. CASE RemoveLabel
  <2>1. \A l \in page.labels : [do |-> "remove", label |-> l] \in What
    BY DEF TypeOK, Page, What
  <2>. QED BY <1>1, <2>1 DEF RemoveLabel, Idle
<1>2. CASE AddLabel \/ RunRule
  <2>1. [do |-> "add"] \in What /\ [do |-> "rule"] \in What
    BY DEF What
  <2>. QED BY <1>2, <2>1 DEF AddLabel, RunRule, Idle
<1>3. CASE SaveLabels
  <2>1. \A m \in Messages, ls \in SUBSET Labels :
          [do |-> "tag", message |-> m, labels |-> ls] \in What
    BY DEF What
  <2>2. PICK ls \in SUBSET Labels, c \in Calls :
          Change(c, [do |-> "tag", message |-> page.detail, labels |-> ls])
    BY <1>3 DEF SaveLabels, Idle
  <2>3. page.detail \in Messages
    BY <1>3 DEF SaveLabels
  <2>. QED BY <1>3, <2>1, <2>2, <2>3 DEF SaveLabels
<1>. QED BY <1>1, <1>2, <1>3

LEMMA ListClicksTyped ==
  ASSUME TypeOK,
         \/ SwitchMailbox \/ SwitchFolder \/ Search \/ Refresh \/ LoadMore \/ Open
         \/ CloseDetail \/ Toggle \/ SelectAll
         \/ RemoveLabel \/ AddLabel \/ SaveLabels \/ RunRule
  PROVE  TypeOK'
<1>. USE TypedPage, ServerStays, DraftsStay, ClickTyped, LinesTyped, FreeTyped DEF OnPage
<1>0. page.view \in View /\ page.rows \subseteq Messages /\ page.list \subseteq Messages
  BY DEF TypeOK, Page
<1>1. CASE SwitchMailbox
  <2>1. PICK view \in View, c \in Calls :
          /\ page' = Turned([page EXCEPT !.labels = {}], view)
          /\ Start(c, LoadLabels(page', Nothing))
    BY <1>1, SwitchesMailbox
  <2>2. PageOK([page EXCEPT !.labels = {}])
    BY DEF PageOK, Page
  <2>3. PageOK(page')
    BY <2>1, <2>2, PagesTyped
  <2>4. call' \in [Calls -> Function]
    BY <2>1, <2>3, StartTyped, LabelsTyped
  <2>. QED BY <1>1, <2>3, <2>4, PageTyped DEF SwitchMailbox, TypeOK
<1>2. CASE SwitchFolder \/ Search
  <2>1. PICK view \in View, c \in Calls, then \in {Nothing, Searched} :
          page' = Turned(page, view) /\ Start(c, Load(page', FALSE, then))
    BY <1>2, SwitchesView
  <2>2. PageOK(page')
    BY <2>1, PagesTyped
  <2>3. call' \in [Calls -> Function]
    BY <2>1, <2>2, StartTyped, LoadTyped
  <2>. QED BY <1>2, <2>2, <2>3, PageTyped DEF SwitchFolder, Search, TypeOK
<1>3. CASE Refresh \/ LoadMore
  <2>1. PICK c \in Calls, append \in BOOLEAN : Start(c, Load(page, append, Nothing))
    BY <1>3 DEF Refresh, LoadMore, Idle
  <2>2. call' \in [Calls -> Function]
    BY <2>1, StartTyped, LoadTyped
  <2>. QED BY <1>3, <2>2 DEF Refresh, LoadMore, TypeOK
<1>4. CASE Open
  <2>1. PICK m \in Messages, c \in Calls : page' = Opening(page, m) /\ Start(c, Read(m, Kept))
    BY <1>0, <1>4 DEF Open, Idle
  <2>2. PageOK(page')
    BY <2>1, PagesTyped
  <2>3. call' \in [Calls -> Function]
    BY <2>1, StartTyped, ReadTyped
  <2>. QED BY <1>4, <2>2, <2>3, PageTyped DEF Open, TypeOK
<1>5. CASE CloseDetail
  <2>1. PageOK(page')
    BY <1>5, PagesTyped DEF CloseDetail
  <2>. QED BY <1>5, <2>1, PageTyped DEF CloseDetail, TypeOK
<1>6. CASE Toggle \/ SelectAll
  <2>1. PICK chosen \in SUBSET Messages : page' = [page EXCEPT !.chosen = chosen]
    <3>1. page.chosen \subseteq Messages
      BY DEF TypeOK, Page
    <3>2. CASE SelectAll
      BY <1>0, <3>1, <3>2 DEF SelectAll
    <3>3. CASE Toggle
      BY <1>0, <3>1, <3>3 DEF Toggle
    <3>. QED BY <1>6, <3>2, <3>3
  <2>2. PageOK(page')
    BY <2>1 DEF PageOK, Page
  <2>. QED BY <1>6, <2>2, PageTyped DEF Toggle, SelectAll, TypeOK
<1>7. CASE RemoveLabel \/ AddLabel \/ SaveLabels \/ RunRule
  <2>1. PICK c \in Calls, what \in What : Change(c, what)
    BY <1>7, ChangesLabels
  <2>2. [at |-> "change", mailbox |-> page.view.mailbox, what |-> what, reply |-> None] \in Function
    BY <1>0 DEF Function, Maybe, View
  <2>3. call' \in [Calls -> Function]
    BY <2>1, <2>2, StartTyped DEF Change
  <2>. QED BY <1>7, <2>3, ChangesLabels DEF TypeOK
<1>. QED BY <1>1, <1>2, <1>3, <1>4, <1>5, <1>6, <1>7

LEMMA ActionClicksTyped ==
  ASSUME TypeOK, PatchDetail \/ BulkPatch \/ Undo
  PROVE  TypeOK'
<1>. USE TypedPage, ServerStays, DraftsStay, ClickTyped, LinesTyped DEF OnPage
<1>1. CASE PatchDetail
  <2>. DEFINE line == [kind |-> "one", messages |-> {page.detail}, to |-> page.was,
                       wrote |-> {page.detail}]
  <2>1. PICK c \in Calls :
          Start(c, [at |-> "patch", message |-> page.detail, to |-> Other(page.was), reply |-> None,
                    toast |-> line])
    BY <1>1 DEF PatchDetail, Idle
  <2>2. page.detail \in Messages /\ page.was \in Live
    BY <1>1 DEF PatchDetail, PageOK
  <2>3. line \in Line
    <3>1. {page.detail} \in (SUBSET Messages) \ {{}}
      BY <2>2
    <3>2. line \in [kind : {"one", "bulk"}, messages : (SUBSET Messages) \ {{}}, to : Live,
                    wrote : SUBSET Messages]
      BY ONLY <2>2, <3>1
    <3>. QED BY ONLY <3>2 DEF Line
  <2>. HIDE DEF line
  <2>4. [at |-> "patch", message |-> page.detail, to |-> Other(page.was), reply |-> None,
         toast |-> line] \in Function
    BY <2>2, <2>3, OtherTyped DEF Function, Maybe
  <2>5. call' \in [Calls -> Function]
    BY <2>1, <2>4, StartTyped
  <2>. QED BY <1>1, <2>5 DEF PatchDetail, TypeOK
<1>2. CASE BulkPatch
  <2>. DEFINE ids == page.list \cap page.chosen
  <2>1. ids \in (SUBSET Messages) \ {{}}
    <3>1. page.list \subseteq Messages
      BY DEF TypeOK, Page
    <3>2. ids # {}
      BY <1>2 DEF BulkPatch
    <3>. QED BY ONLY <3>1, <3>2
  <2>2. PICK c \in Calls : Start(c, Chunks(page, "bulk", ids, ids, Other(page.view.folder), {}))
    BY <1>2 DEF BulkPatch, Idle
  <2>3. call' \in [Calls -> Function]
    BY <2>1, <2>2, StartTyped, ChunksTyped, OtherTyped
  <2>. QED BY <1>2, <2>3 DEF BulkPatch, TypeOK
<1>3. CASE Undo
  <2>1. /\ toast.messages \in (SUBSET Messages) \ {{}} /\ toast.to \in Live
        /\ toast.kind \in {"one", "bulk"}
    BY <1>3 DEF Undo, TypeOK, Line, NoToast
  <2>2. CASE toast.kind = "one"
    <3>. DEFINE m == CHOOSE m \in toast.messages : TRUE
    <3>1. m \in Messages
      <4>1. \E n \in toast.messages : TRUE
        BY ONLY <2>1
      <4>2. m \in toast.messages
        BY ONLY <4>1
      <4>. QED BY ONLY <2>1, <4>2
    <3>2. PICK c \in Calls :
            Start(c, [at |-> "patch", message |-> m, to |-> toast.to, reply |-> None,
                      toast |-> NoToast])
      BY <1>3, <2>2 DEF Undo, Idle
    <3>. HIDE DEF m
    <3>3. [at |-> "patch", message |-> m, to |-> toast.to, reply |-> None,
           toast |-> NoToast] \in Function
      BY <2>1, <3>1 DEF Function, Maybe
    <3>4. call' \in [Calls -> Function]
      BY <3>2, <3>3, StartTyped
    <3>. QED BY <1>3, <3>4 DEF Undo, TypeOK
  <2>3. CASE toast.kind # "one"
    <3>1. PICK c \in Calls :
            Start(c, Chunks(page, "undo", toast.messages, toast.messages, toast.to, {}))
      BY <1>3, <2>3 DEF Undo, Idle
    <3>2. call' \in [Calls -> Function]
      BY <2>1, <3>1, StartTyped, ChunksTyped
    <3>. QED BY <1>3, <3>2 DEF Undo, TypeOK
  <2>. QED BY <2>2, <2>3
<1>. QED BY <1>1, <1>2, <1>3

LEMMA SaveTyped ==
  ASSUME TypeOK, SaveNow \/ ClearDraft
  PROVE  /\ draft' \in [key : Key \cup {None}, timer : BOOLEAN]
         /\ storage' \in [Key -> Key \cup {None}]
<1>1. compose.text \in Key \cup {None} /\ draft \in [key : Key \cup {None}, timer : BOOLEAN]
      /\ storage \in [Key -> Key \cup {None}]
  BY DEF TypeOK, Dialog
<1>2. CASE SaveNow
  BY <1>1, <1>2 DEF SaveNow
<1>3. CASE ClearDraft
  BY <1>1, <1>3 DEF ClearDraft
<1>. QED BY <1>2, <1>3

LEMMA ComposeTyped ==
  ASSUME TypeOK, OpenCompose \/ Type \/ Autosave \/ CloseCompose \/ DiscardCompose \/ Submit
  PROVE  TypeOK'
<1>. USE ServerStays, DraftsStay, ClickTyped DEF OnPage
<1>0. compose \in Dialog /\ draft \in [key : Key \cup {None}, timer : BOOLEAN]
      /\ storage \in [Key -> Key \cup {None}] /\ (compose.open => compose.key \in Key)
  BY DEF TypeOK
<1>1. CASE OpenCompose
  <2>1. PICK source \in {None} \cup ({page.detail} \cap Messages) :
          LET k == [mailbox |-> page.view.mailbox, source |-> source]
          IN  /\ compose' = [compose EXCEPT !.open = TRUE, !.id = @ + 1, !.dialog = @ + 1,
                                            !.key = k, !.text = Form(k)]
              /\ draft' = [key |-> k, timer |-> FALSE]
    BY <1>1 DEF OpenCompose
  <2>. DEFINE k == [mailbox |-> page.view.mailbox, source |-> source]
  <2>2. k \in Key
    BY DEF Key, TypeOK, Page, View
  <2>3. Form(k) \in Key \cup {None}
    BY <1>0, <2>2 DEF Form, Prefilled
  <2>. HIDE DEF k
  <2>4. compose' \in Dialog /\ compose'.key \in Key
    <3>1. compose' = [compose EXCEPT !.open = TRUE, !.id = @ + 1, !.dialog = @ + 1,
                                     !.key = k, !.text = Form(k)]
      BY ONLY <2>1 DEF k
    <3>2. compose.id + 1 \in Nat /\ compose.dialog + 1 \in Nat
      BY <1>0 DEF Dialog
    <3>. DEFINE text == Form(k)
    <3>. HIDE DEF text
    <3>3. compose' = [compose EXCEPT !.open = TRUE, !.id = @ + 1, !.dialog = @ + 1,
                                     !.key = k, !.text = text]
      BY <3>1 DEF text
    <3>4. text \in Key \cup {None}
      BY <2>3 DEF text
    <3>. QED BY ONLY <1>0, <2>2, <3>2, <3>3, <3>4 DEF Dialog
  <2>5. draft' \in [key : Key \cup {None}, timer : BOOLEAN]
    BY <2>1, <2>2 DEF k
  <2>. QED BY <1>1, <2>4, <2>5 DEF OpenCompose, TypeOK
<1>2. CASE Type
  <2>1. /\ compose' \in Dialog
        /\ compose'.open => compose'.key \in Key
    BY <1>0, <1>2 DEF Type, Dialog
  <2>2. draft' \in [key : Key \cup {None}, timer : BOOLEAN]
    BY <1>0, <1>2 DEF Type
  <2>. QED BY <1>2, <2>1, <2>2 DEF Type, TypeOK
<1>3. CASE Autosave
  BY <1>3, SaveTyped DEF Autosave, TypeOK, bounds
<1>4. CASE CloseCompose \/ DiscardCompose
  <2>1. compose' \in Dialog /\ ~compose'.open
    BY <1>0, <1>4 DEF CloseCompose, DiscardCompose, Dialog
  <2>2. SaveNow \/ ClearDraft
    BY <1>4 DEF CloseCompose, DiscardCompose
  <2>. QED BY <1>4, <2>1, <2>2, SaveTyped DEF CloseCompose, DiscardCompose, TypeOK
<1>5. CASE Submit
  <2>1. PICK c \in Calls :
          Start(c, [at |-> "send", id |-> compose.id, dialog |-> compose.dialog,
                    key |-> compose.key, reply |-> None])
    BY <1>5 DEF Submit, Idle
  <2>2. [at |-> "send", id |-> compose.id, dialog |-> compose.dialog,
         key |-> compose.key, reply |-> None] \in Function
    BY <1>0, <1>5 DEF Submit, Function, Maybe, Dialog
  <2>3. call' \in [Calls -> Function]
    BY <2>1, <2>2, StartTyped
  <2>4. compose' \in Dialog /\ compose'.open = compose.open /\ compose'.key = compose.key
    BY <1>0, <1>5 DEF Submit, Dialog
  <2>. QED BY <1>0, <1>5, <2>3, <2>4 DEF Submit, TypeOK
<1>. QED BY <1>1, <1>2, <1>3, <1>4, <1>5

\* An answer of the kind that the function waits for.
LEMMA AnswerTyped ==
  ASSUME TypeOK, NEW c \in Calls, NEW reply, Answer(c, reply),
         \/ call[c].at = "list" /\ reply \in ListReply
         \/ call[c].at = "detail" /\ reply \in DetailReply
         \/ call[c].at = "labels" /\ reply \in LabelReply
         \/ call[c].at \in {"change", "patch", "send", "bulk", "undo"} /\ reply \in Maybe
  PROVE  call' \in [Calls -> Function]
<1>1. call[c] \in Function
  BY DEF TypeOK
<1>2. [call[c] EXCEPT !.reply = reply] \in Function
  <2>1. CASE call[c].at = "list" /\ reply \in ListReply
    BY <1>1, <2>1, FunctionKinds DEF Function
  <2>2. CASE call[c].at = "detail" /\ reply \in DetailReply
    BY <1>1, <2>2, FunctionKinds DEF Function
  <2>3. CASE call[c].at \in {"change", "patch", "send"} /\ reply \in Maybe
    BY <1>1, <2>3, FunctionKinds DEF Function
  <2>4. CASE call[c].at \in {"bulk", "undo"} /\ reply \in Maybe
    BY <1>1, <2>4, FunctionKinds DEF Function
  <2>5. CASE call[c].at = "labels" /\ reply \in LabelReply
    BY <1>1, <2>5, FunctionKinds DEF Function
  <2>. QED BY <2>1, <2>2, <2>3, <2>4, <2>5
<1>. QED BY <1>2 DEF Answer, TypeOK

LEMMA ApiTyped ==
  ASSUME TypeOK, NEW c \in Calls, Api(c)
  PROVE  TypeOK'
<1>. USE DraftsStay DEF bounds, marks
<1>0. call[c] \in Function
  BY DEF TypeOK
<1>1. CASE ServeList(c)
  <2>. DEFINE found == {m \in Found(call[c].view) : call[c].after # None => m < call[c].after}
              first == {m \in found : Cardinality({n \in found : n > m}) < PageSize}
              reply == [ok |-> TRUE, messages |-> first,
                        cursor |-> IF first = found THEN None ELSE Min(first)]
  <2>1. call[c].at = "list" /\ Answer(c, reply)
    BY <1>1 DEF ServeList, Unanswered
  <2>2. found \in SUBSET Messages /\ first \in SUBSET Messages
    BY DEF Found
  <2>3. first # found => Min(first) \in Messages
    <3>. HIDE DEF found
    <3>. QED BY <2>2, FirstPage
  <2>. HIDE DEF first, found
  <2>4. reply \in ListReply
    BY <2>2, <2>3 DEF ListReply
  <2>. HIDE DEF reply
  <2>5. call' \in [Calls -> Function]
    BY <2>1, <2>4, AnswerTyped
  <2>. QED BY <1>1, <2>5, ServerStays DEF ServeList, TypeOK
<1>2. CASE ServeRead(c)
  <2>1. call' \in [Calls -> Function]
    <3>1. CASE /\ Unanswered(c, "labels")
               /\ Answer(c, [ok |-> TRUE,
                             labels |-> {l \in labels : LabelOf[l] = call[c].mailbox}])
      <4>. DEFINE found == {l \in labels : LabelOf[l] = call[c].mailbox}
      <4>1. found \in SUBSET Labels
        BY DEF TypeOK
      <4>. HIDE DEF found
      <4>2. [ok |-> TRUE, labels |-> found] \in LabelReply
        BY <4>1 DEF LabelReply
      <4>. QED BY <3>1, <4>2, AnswerTyped DEF Unanswered, found
    <3>2. CASE /\ Unanswered(c, "detail")
               /\ LET was == where[call[c].message]
                  IN  Answer(c, [ok |-> was # "purged", was |-> was])
      <4>. DEFINE was == where[call[c].message]
                  reply == [ok |-> was # "purged", was |-> was]
      <4>1. call[c].message \in Messages
        BY <1>0, <3>2, FunctionKinds DEF Unanswered
      <4>2. was \in Live \cup {"purged"}
        BY <4>1 DEF TypeOK
      <4>. HIDE DEF was
      <4>3. reply \in DetailReply
        <5>1. CASE was = "purged"
          BY <5>1 DEF DetailReply
        <5>2. CASE was # "purged"
          BY <4>2, <5>2 DEF DetailReply
        <5>. QED BY <5>1, <5>2
      <4>. QED BY <3>2, <4>3, AnswerTyped DEF Unanswered, was
    <3>. QED BY <1>2, <3>1, <3>2 DEF ServeRead
  <2>. QED BY <1>2, <2>1, ServerStays DEF ServeRead, TypeOK
<1>3. CASE ServePatch(c)
  <2>1. call[c].at = "patch" /\ call[c].message \in Messages /\ call[c].to \in Live
    BY <1>0, <1>3, FunctionKinds DEF ServePatch, Unanswered
  <2>2. PICK ok \in BOOLEAN : Answer(c, [ok |-> ok])
    BY <1>3 DEF ServePatch
  <2>3. call' \in [Calls -> Function]
    BY <2>1, <2>2, AnswerTyped DEF Maybe
  <2>4. where' \in [Messages -> Live \cup {"purged"}]
    BY <1>3, <2>1 DEF ServePatch, TypeOK
  <2>. QED BY <1>3, <2>3, <2>4 DEF ServePatch, TypeOK
<1>4. CASE ServeChunk(c)
  <2>. DEFINE chunk == {m \in call[c].chunk : Home[m] = call[c].mailbox /\ where[m] # "purged"}
  <2>1. call[c].at \in {"bulk", "undo"}
    BY <1>4 DEF ServeChunk, Unanswered
  <2>2. /\ call[c].to \in Live /\ call[c].chunk \subseteq Messages
        /\ call[c] \in [at : {"bulk", "undo"}, ids : (SUBSET Messages) \ {{}},
                     todo : SUBSET Messages, chunk : SUBSET Messages, to : Live, mailbox : Mailboxes,
                     wrote : SUBSET Messages, reply : Maybe]
    BY <1>0, <2>1, FunctionKinds
  <2>3. CASE ~Updatable(call[c].chunk, call[c].mailbox)
    <3>1. call' \in [Calls -> Function]
      BY <1>4, <2>1, <2>3, AnswerTyped DEF ServeChunk, Maybe
    <3>2. UNCHANGED where
      BY <1>4, <2>3 DEF ServeChunk
    <3>. QED BY <1>4, <3>1, <3>2 DEF ServeChunk, TypeOK
  <2>4. CASE Updatable(call[c].chunk, call[c].mailbox)
    <3>1. /\ call' = [call EXCEPT ![c].reply = [ok |-> TRUE], ![c].wrote = @ \cup chunk]
          /\ where' = [m \in Messages |-> IF m \in chunk THEN call[c].to ELSE where[m]]
      BY <1>4, <2>4 DEF ServeChunk
    <3>2. chunk \subseteq Messages
      BY <2>2
    <3>. HIDE DEF chunk
    <3>3. [call[c] EXCEPT !.reply = [ok |-> TRUE], !.wrote = @ \cup chunk] \in Function
      BY <2>2, <3>2 DEF Function, Maybe
    <3>4. call' \in [Calls -> Function]
      BY <3>1, <3>3 DEF TypeOK
    <3>5. where' \in [Messages -> Live \cup {"purged"}]
      BY <2>2, <3>1 DEF TypeOK
    <3>. QED BY <1>4, <3>4, <3>5 DEF ServeChunk, TypeOK
  <2>. QED BY <2>3, <2>4
<1>5. CASE ServeSend(c)
  <2>1. call[c] \in [at : {"send"}, id : Nat, dialog : Nat, key : Key, reply : Maybe]
    BY <1>0, <1>5, FunctionKinds DEF ServeSend, Unanswered
  <2>2. PICK ok \in BOOLEAN : Answer(c, [ok |-> ok])
    BY <1>5 DEF ServeSend
  <2>3. call' \in [Calls -> Function]
    BY <2>1, <2>2, AnswerTyped DEF Maybe
  <2>4. sent' \in {sent, sent \cup {[id |-> call[c].id, dialog |-> call[c].dialog,
                                     key |-> call[c].key]}}
    BY <1>5 DEF ServeSend
  <2>5. sent' \subseteq [id : Nat, dialog : Nat, key : Key]
    BY <2>1, <2>4 DEF TypeOK
  <2>. QED BY <1>5, <2>3, <2>5 DEF ServeSend, TypeOK
<1>6. CASE ServeChange(c)
  <2>. DEFINE what == call[c].what
  <2>1. call[c].at = "change" /\ what \in What
    BY <1>0, <1>6, FunctionKinds DEF ServeChange, Unanswered
  <2>2. PICK ok \in BOOLEAN : Answer(c, [ok |-> ok])
    BY <1>6 DEF ServeChange
  <2>3. call' \in [Calls -> Function]
    BY <2>1, <2>2, AnswerTyped DEF Maybe
  <2>4. /\ where' \in [Messages -> Live \cup {"purged"}]
        /\ labels' \subseteq Labels /\ tagged' \subseteq Messages \X labels'
    <3>0. /\ where \in [Messages -> Live \cup {"purged"}]
          /\ labels \subseteq Labels /\ tagged \subseteq Messages \X labels
      BY DEF TypeOK
    <3>1. CASE what.do = "remove"
      <4>1. UNCHANGED where /\ labels' \subseteq labels /\ tagged' = {p \in tagged : p[2] \in labels'}
        BY <1>6, <3>1 DEF ServeChange
      <4>. QED BY <3>0, <4>1
    <3>2. CASE what.do = "tag"
      <4>1. what.message \in Messages
        BY <2>1, <3>2 DEF What
      <4>2. UNCHANGED <<where, labels>>
        BY <1>6, <3>2 DEF ServeChange
      <4>3. \/ UNCHANGED tagged
            \/ \E ls \in SUBSET labels : tagged' = Tags(what.message, ls)
        <5>. DEFINE found == what.labels \subseteq labels /\ where[what.message] # "purged"
        <5>1. PICK stay \in SUBSET labels :
                tagged' = IF found THEN Tags(what.message, what.labels \cup stay) ELSE tagged
          BY <1>6, <3>2 DEF ServeChange
        <5>2. CASE found
          <6>1. what.labels \cup stay \in SUBSET labels
            BY <5>2
          <6>. QED BY <5>1, <5>2, <6>1
        <5>3. CASE ~found
          BY <5>1, <5>3
        <5>. QED BY <5>2, <5>3
      <4>4. \A ls \in SUBSET labels : Tags(what.message, ls) \subseteq Messages \X labels
        BY <3>0, <4>1 DEF Tags
      <4>. QED BY <3>0, <4>2, <4>3, <4>4
    <3>3. CASE what.do \in {"add", "rule"}
      <4>1. UNCHANGED <<labels, tagged>>
        BY <1>6, <3>3 DEF ServeChange
      <4>2. \/ UNCHANGED where
            \/ \E m \in Messages, to \in {"inbox", "trash"} : where' = [where EXCEPT ![m] = to]
        BY <1>6, <3>3 DEF ServeChange
      <4>. QED BY <3>0, <4>1, <4>2 DEF Live
    <3>. QED BY <2>1, <3>1, <3>2, <3>3 DEF What
  <2>. QED BY <1>6, <2>3, <2>4 DEF ServeChange, TypeOK
<1>. QED BY <1>1, <1>2, <1>3, <1>4, <1>5, <1>6 DEF Api

LEMMA FaultsTyped ==
  ASSUME TypeOK, Elsewhere \/ Reload \/ \E c \in Calls : Fails(c)
  PROVE  TypeOK'
<1>1. CASE \E c \in Calls : Fails(c)
  <2>1. PICK c \in Calls : Fails(c)
    BY <1>1
  <2>2. call[c] \in Function /\ call[c].at # "free"
    BY <2>1, FunctionKinds DEF Fails, TypeOK
  <2>3. Answer(c, [ok |-> FALSE])
    BY <2>1 DEF Fails
  <2>4. /\ [ok |-> FALSE] \in ListReply /\ [ok |-> FALSE] \in DetailReply
        /\ [ok |-> FALSE] \in Maybe /\ [ok |-> FALSE] \in LabelReply
    BY DEF ListReply, DetailReply, Maybe, LabelReply
  <2>5. call' \in [Calls -> Function]
    BY <2>2, <2>3, <2>4, AnswerTyped, FunctionKinds
  <2>. QED BY <2>1, <2>5, FaultTyped, ServerStays, DraftsStay DEF Fails, TypeOK
<1>2. CASE Elsewhere
  <2>0. /\ where \in [Messages -> Live \cup {"purged"}]
        /\ labels \subseteq Labels /\ tagged \subseteq Messages \X labels
    BY DEF TypeOK
  <2>1. /\ where' \in [Messages -> Live \cup {"purged"}]
        /\ labels' \subseteq Labels /\ tagged' \subseteq Messages \X labels'
    <3>1. CASE UNCHANGED labels
      BY <1>2, <2>0, <3>1 DEF Elsewhere, Live
    <3>2. CASE ~UNCHANGED labels
      BY <1>2, <2>0, <3>2 DEF Elsewhere
    <3>. QED BY <3>1, <3>2
  <2>. QED BY <1>2, <2>1, FaultTyped, DraftsStay DEF Elsewhere, TypeOK
<1>3. CASE Reload
  <2>1. PageOK(page')
    BY <1>3, StartedTyped DEF Reload
  <2>2. call' \in [Calls -> Function]
    BY <1>3, FirstCallTyped DEF Reload
  <2>3. compose' \in Dialog /\ ~compose'.open
    BY <1>3 DEF Reload, Dialog, TypeOK
  <2>4. storage' \in [Key -> Key \cup {None}]
    <3>1. compose.text \in Key \cup {None} /\ storage \in [Key -> Key \cup {None}]
      BY DEF TypeOK, Dialog
    <3>. QED BY <1>3, <3>1 DEF Reload
  <2>5. draft' \in [key : Key \cup {None}, timer : BOOLEAN]
    BY <1>3 DEF Reload
  <2>6. toast' \in Line /\ bulkBusy' \in BOOLEAN
    BY <1>3, LinesTyped DEF Reload
  <2>. QED BY <1>3, <2>1, <2>2, <2>3, <2>4, <2>5, <2>6, FaultTyped, ServerStays, PageTyped
       DEF Reload, TypeOK
<1>. QED BY <1>1, <1>2, <1>3

LEMMA ShownTyped ==
  ASSUME NEW pg, PageOK(pg), NEW append \in BOOLEAN, NEW view \in View,
         NEW reply \in ListReply, reply # None, reply.ok
  PROVE  PageOK(Shown(pg, append, view, reply))
<1>. DEFINE q == [pg EXCEPT !.list = IF append THEN @ \cup reply.messages ELSE reply.messages,
                            !.of = IF append THEN @ \cup {view} ELSE {view},
                            !.cursor = reply.cursor,
                            !.chosen = IF append THEN @ ELSE {}]
<1>1. reply.messages \subseteq Messages /\ reply.cursor \in Messages \cup {None}
  BY DEF ListReply
<1>2. q \in Page /\ q.detail = pg.detail /\ q.was = pg.was
  BY <1>1 DEF PageOK, Page
<1>3. PageOK(q)
  BY <1>2 DEF PageOK
<1>. HIDE DEF q
<1>4. PageOK(Rendered(q))
  BY <1>3, PagesTyped
<1>. QED BY <1>4 DEF Shown, q

\* What a change of labels goes on with.
LEMMA ChangeLeads ==
  ASSUME TypeOK, NEW c \in Calls, ChangeDone(c)
  PROVE  \E then \in Then : \E f \in {LoadLabels(page, then), Free} :
           /\ Start(c, f)
           /\ then.do = "report" => then.toast = NoToast
           /\ then.do = "reopen" => then.toast = Kept
           /\ then.do # "leave"
<1>. DEFINE what == call[c].what
            then == CASE what.do = "remove" -> Report(NoToast)
                      [] what.do = "add"    -> Announce
                      [] what.do = "tag"    -> Reopen(what.message, Kept)
                      [] what.do = "rule"   -> Resume
<1>1. what \in What
  BY FunctionKinds DEF ChangeDone, Answered, TypeOK
<1>2. /\ then \in Then /\ then.do # "leave"
      /\ then.do = "report" => then.toast = NoToast
      /\ then.do = "reopen" => then.toast = Kept
  <2>1. CASE what.do = "remove"
    BY <2>1, LinesTyped DEF Report
  <2>2. CASE what.do = "add"
    BY <2>2, LinesTyped DEF Announce
  <2>3. CASE what.do = "tag"
    <3>1. what.message \in Messages
      BY <1>1, <2>3 DEF What
    <3>. QED BY <2>3, <3>1, LinesTyped DEF Reopen
  <2>4. CASE what.do = "rule"
    BY <2>4, LinesTyped DEF Resume
  <2>. QED BY <1>1, <2>1, <2>2, <2>3, <2>4 DEF What
<1>3. Start(c, IF Ok(c) THEN LoadLabels(page, then) ELSE Free)
  BY DEF ChangeDone
<1>. HIDE DEF then
<1>. QED BY <1>2, <1>3

LEMMA ContinuesTyped ==
  ASSUME TypeOK, NEW c \in Calls, Continues(c)
  PROVE  TypeOK'
<1>. USE TypedPage, LinesTyped, FreeTyped
<1>0. call[c] \in Function
  BY DEF TypeOK
<1>1. CASE LabelsDone(c)
  <2>. DEFINE pg == IF Ok(c) THEN Labelled(page, call[c].reply.labels) ELSE page
  <2>1. call[c].reply \in LabelReply /\ call[c].reply # None /\ call[c].then \in Then
    BY <1>0, <1>1, FunctionKinds DEF LabelsDone, Answered
  <2>2. PageOK(pg)
    <3>1. Ok(c) => call[c].reply.labels \in SUBSET Labels
      BY <2>1 DEF Ok, LabelReply
    <3>. QED BY <3>1, LabelledTyped
  <2>3. page' = pg
    BY <1>1 DEF LabelsDone
  <2>4. PICK f \in {Load(pg, FALSE, call[c].then), Free} : Start(c, f)
    BY <1>1 DEF LabelsDone
  <2>. HIDE DEF pg
  <2>5. call' \in [Calls -> Function]
    <3>1. f \in Function
      BY <2>1, <2>2, LoadTyped
    <3>. QED BY <2>4, <3>1, StartTyped
  <2>6. toast' \in Line
    BY <1>1 DEF LabelsDone, TypeOK
  <2>. QED BY <1>1, <2>2, <2>3, <2>5, <2>6, PageTyped, ServerStays, DraftsStay
       DEF LabelsDone, TypeOK, bounds
<1>2. CASE ListDone(c)
  <2>. DEFINE then == call[c].then
              pg == IF Ok(c) /\ Current(c)
                      THEN Shown(page, call[c].append, call[c].view, call[c].reply) ELSE page
              line == IF ~Ok(c) /\ Current(c) THEN NoToast ELSE toast
  <2>1. /\ call[c].append \in BOOLEAN /\ call[c].view \in View /\ call[c].reply \in ListReply
        /\ call[c].reply # None /\ then \in Then
    BY <1>0, <1>2, FunctionKinds DEF ListDone, Answered
  <2>2. PageOK(pg)
    BY <2>1, ShownTyped DEF Ok
  <2>3. line \in Line
    BY DEF TypeOK
  <2>4. pg.list \subseteq Messages
    BY <2>2 DEF PageOK, Page
  <2>. HIDE DEF pg, line
  <2>6. CASE /\ \E m \in pg.list, t \in Line \cup {Kept} :
                  page' = Opening(pg, m) /\ Start(c, Read(m, t))
             /\ toast' = line
             /\ UNCHANGED <<bulkBusy, compose, drafts>>
    <3>1. PICK m \in Messages, t \in Line \cup {Kept} :
            page' = Opening(pg, m) /\ Start(c, Read(m, t))
      BY <2>4, <2>6
    <3>2. PageOK(page')
      BY <2>2, <3>1, PagesTyped
    <3>3. call' \in [Calls -> Function]
      BY <3>1, ReadTyped, StartTyped
    <3>. QED BY <1>2, <2>3, <2>6, <3>2, <3>3, PageTyped, ServerStays, DraftsStay
         DEF ListDone, TypeOK, bounds
  <2>7. CASE /\ page' \in {Closed(pg), pg} /\ Start(c, Free) /\ toast' \in Line
             /\ UNCHANGED <<bulkBusy, compose, drafts>>
    <3>1. PageOK(page')
      BY <2>2, <2>7, PagesTyped
    <3>2. call' \in [Calls -> Function]
      BY <2>7, StartTyped
    <3>. QED BY <1>2, <2>7, <3>1, <3>2, PageTyped, ServerStays, DraftsStay
         DEF ListDone, TypeOK, bounds
  <2>8. CASE /\ then.do = "report"
             /\ Start(c, Free) /\ page' = pg /\ toast' = then.toast
             /\ bulkBusy' = IF then.toast = NoToast THEN bulkBusy ELSE FALSE
             /\ UNCHANGED <<compose, drafts>>
    <3>1. then.toast \in Line
      BY <2>1, <2>8 DEF Then
    <3>2. PageOK(page')
      BY <2>2, <2>8
    <3>3. call' \in [Calls -> Function]
      BY <2>8, StartTyped
    <3>4. bulkBusy' \in BOOLEAN
      BY <2>8 DEF TypeOK
    <3>. QED BY <1>2, <2>8, <3>1, <3>2, <3>3, <3>4, PageTyped, ServerStays, DraftsStay
         DEF ListDone, TypeOK, bounds
  <2>9. CASE /\ then.do = "leave"
             /\ Start(c, Free) /\ page' = pg /\ toast' = line
             /\ ClearDraft
             /\ compose' = [compose EXCEPT !.open = FALSE, !.sending = FALSE]
             /\ UNCHANGED bulkBusy
    <3>1. compose' \in Dialog /\ ~compose'.open
      BY <2>9 DEF TypeOK, Dialog
    <3>2. PageOK(page')
      BY <2>2, <2>9
    <3>3. call' \in [Calls -> Function]
      BY <2>9, StartTyped
    <3>. QED BY <1>2, <2>3, <2>9, <3>1, <3>2, <3>3, PageTyped, ServerStays, SaveTyped
         DEF ListDone, TypeOK, bounds
  <2>10. CASE then.do \in {"nothing", "searched"}
    <3>1. /\ page' = pg /\ Start(c, Free) /\ toast' \in {line, NoToast}
          /\ UNCHANGED <<bulkBusy, compose, drafts>>
      BY <1>2, <2>10 DEF ListDone, pg, line
    <3>. QED BY <2>3, <2>7, <3>1
  <2>11. CASE then.do = "reopen"
    <3>1. then.message \in Messages /\ then.toast \in Line \cup {Kept}
      BY <2>1, <2>11 DEF Then
    <3>2. CASE then.message \in pg.list
      <4>1. /\ page' = Opening(pg, then.message) /\ Start(c, Read(then.message, then.toast))
            /\ toast' = line
            /\ UNCHANGED <<bulkBusy, compose, drafts>>
        BY <1>2, <2>11, <3>2 DEF ListDone, pg, line
      <4>. QED BY <2>6, <3>1, <3>2, <4>1
    <3>3. CASE then.message \notin pg.list
      <4>1. /\ page' = Closed(pg) /\ Start(c, Free)
            /\ toast' = IF then.toast = Kept THEN line ELSE then.toast
            /\ UNCHANGED <<bulkBusy, compose, drafts>>
        BY <1>2, <2>11, <3>3 DEF ListDone, pg, line
      <4>. QED BY <2>3, <2>7, <3>1, <4>1
    <3>. QED BY <3>2, <3>3
  <2>12. CASE then.do = "resume"
    <3>1. CASE pg.selected \in pg.list
      <4>1. /\ page' = Opening(pg, pg.selected) /\ Start(c, Read(pg.selected, NoToast))
            /\ toast' = line
            /\ UNCHANGED <<bulkBusy, compose, drafts>>
        BY <1>2, <2>12, <3>1 DEF ListDone, pg, line
      <4>. QED BY <2>6, <3>1, <4>1
    <3>2. CASE pg.selected \notin pg.list
      <4>1. /\ page' \in {Closed(pg), pg} /\ Start(c, Free) /\ toast' = NoToast
            /\ UNCHANGED <<bulkBusy, compose, drafts>>
        BY <1>2, <2>12, <3>2 DEF ListDone, pg, line
      <4>. QED BY <2>7, <4>1
    <3>. QED BY <3>1, <3>2
  <2>13. then.do \in {"nothing", "searched", "reopen", "resume", "report", "leave"}
    BY <1>2 DEF ListDone
  <2>14. CASE then.do = "report"
    BY <1>2, <2>8, <2>14 DEF ListDone, pg, line
  <2>15. CASE then.do = "leave"
    BY <1>2, <2>9, <2>15 DEF ListDone, pg, line
  <2>. QED BY <2>10, <2>11, <2>12, <2>13, <2>14, <2>15
<1>3. CASE DetailDone(c)
  <2>1. /\ call[c].message \in Messages /\ call[c].reply \in DetailReply
        /\ call[c].reply # None /\ call[c].toast \in Line \cup {Kept}
    BY <1>0, <1>3, FunctionKinds DEF DetailDone, Answered
  <2>2. PageOK(page')
    <3>1. CASE Ok(c) /\ Selected(call[c].message)
      <4>1. call[c].reply.was \in Live
        BY <2>1, <3>1 DEF Ok, DetailReply
      <4>2. page' = [page EXCEPT !.detail = call[c].message, !.was = call[c].reply.was]
        BY <1>3, <3>1 DEF DetailDone
      <4>. QED BY <2>1, <4>1, <4>2 DEF PageOK, Page
    <3>2. CASE ~Ok(c)
      BY <1>3, <3>2, PagesTyped DEF DetailDone
    <3>3. CASE Ok(c) /\ ~Selected(call[c].message)
      BY <1>3, <3>3 DEF DetailDone
    <3>. QED BY <3>1, <3>2, <3>3
  <2>3. call' \in [Calls -> Function]
    BY <1>3, StartTyped DEF DetailDone
  <2>4. toast' \in Line
    BY <1>3, <2>1 DEF DetailDone, TypeOK
  <2>. QED BY <1>3, <2>2, <2>3, <2>4, PageTyped, ServerStays, DraftsStay
       DEF DetailDone, TypeOK, bounds
<1>4. CASE PatchDone(c)
  <2>1. call[c].message \in Messages /\ call[c].toast \in Line
    BY <1>0, <1>4, FunctionKinds DEF PatchDone, Answered
  <2>2. call' \in [Calls -> Function]
    <3>1. PICK f \in {Load(page, FALSE, Reopen(call[c].message, call[c].toast)), Free} :
            Start(c, f)
      BY <1>4 DEF PatchDone
    <3>2. f \in Function
      BY <2>1, LoadTyped
    <3>. QED BY <3>1, <3>2, StartTyped
  <2>3. toast' \in Line
    BY <1>4 DEF PatchDone, TypeOK
  <2>. QED BY <1>4, <2>2, <2>3, ServerStays, DraftsStay DEF PatchDone, TypeOK, bounds
<1>5. CASE ChunkDone(c)
  <2>. DEFINE kind == call[c].at
              pg == IF kind = "bulk" THEN [page EXCEPT !.chosen = {}] ELSE page
              line == [kind |-> "bulk", messages |-> call[c].ids, to |-> Other(call[c].to),
                       wrote |-> call[c].wrote]
              last == IF kind = "bulk" THEN line ELSE NoToast
  <2>1. /\ kind \in {"bulk", "undo"} /\ call[c].ids \in (SUBSET Messages) \ {{}}
        /\ call[c].todo \in SUBSET Messages /\ call[c].to \in Live
        /\ call[c].wrote \in SUBSET Messages
    BY <1>0, <1>5, FunctionKinds DEF ChunkDone, Answered
  <2>2. PageOK(pg)
    BY DEF PageOK, Page
  <2>3. last \in Line
    <3>1. line \in Line
      BY <2>1, OtherTyped DEF Line
    <3>. QED BY <3>1
  <2>. HIDE DEF pg, last
  <2>4. CASE /\ ~Ok(c)
             /\ Start(c, Free) /\ toast' = NoToast
             /\ bulkBusy' = IF kind = "bulk" THEN FALSE ELSE bulkBusy
             /\ UNCHANGED page
    <3>1. bulkBusy' \in BOOLEAN
      BY <2>4 DEF TypeOK
    <3>2. call' \in [Calls -> Function]
      BY <2>4, StartTyped
    <3>. QED BY <1>5, <2>4, <3>1, <3>2, ServerStays, DraftsStay DEF ChunkDone, TypeOK, bounds
  <2>5. CASE /\ Start(c, Chunks(page, kind, call[c].ids, call[c].todo, call[c].to,
                                call[c].wrote))
             /\ UNCHANGED <<page, bulkBusy, toast>>
    <3>1. call' \in [Calls -> Function]
      BY <2>1, <2>5, ChunksTyped, StartTyped
    <3>. QED BY <1>5, <2>5, <3>1, ServerStays, DraftsStay DEF ChunkDone, TypeOK, bounds
  <2>6. CASE /\ page' = pg
             /\ Start(c, Load(pg, FALSE, Report(last)))
             /\ UNCHANGED <<bulkBusy, toast>>
    <3>1. call' \in [Calls -> Function]
      BY <2>2, <2>3, <2>6, LoadTyped, StartTyped
    <3>2. PageOK(page')
      BY <2>2, <2>6
    <3>. QED BY <1>5, <2>6, <3>1, <3>2, PageTyped, ServerStays, DraftsStay
         DEF ChunkDone, TypeOK, bounds
  <2>. QED BY <1>5, <2>4, <2>5, <2>6 DEF ChunkDone, pg, last
<1>6. CASE SendDone(c)
  <2>. DEFINE pg == Turned(page, [page.view EXCEPT !.folder = "outbox"])
  <2>1. call[c].dialog \in Nat
    BY <1>0, <1>6, FunctionKinds DEF SendDone, Answered
  <2>2. PageOK(pg)
    <3>1. [page.view EXCEPT !.folder = "outbox"] \in View
      BY DEF PageOK, Page, View, Folders
    <3>. QED BY <3>1, PagesTyped
  <2>. HIDE DEF pg
  <2>3. toast' \in Line
    BY <1>6 DEF SendDone
  <2>4. CASE /\ Start(c, Free)
             /\ compose' = [compose EXCEPT !.sending = FALSE]
             /\ UNCHANGED <<page, drafts>>
    <3>1. compose' \in Dialog /\ compose'.open = compose.open /\ compose'.key = compose.key
      BY <2>4 DEF TypeOK, Dialog
    <3>2. call' \in [Calls -> Function]
      BY <2>4, StartTyped
    <3>. QED BY <1>6, <2>3, <2>4, <3>1, <3>2, ServerStays, DraftsStay DEF SendDone, TypeOK, bounds
  <2>5. CASE /\ page' = pg
             /\ Start(c, Load(pg, FALSE, Leave(call[c].dialog)))
             /\ UNCHANGED <<compose, drafts>>
    <3>1. call' \in [Calls -> Function]
      BY <2>1, <2>2, <2>5, LoadTyped, StartTyped
    <3>2. PageOK(page')
      BY <2>2, <2>5
    <3>. QED BY <1>6, <2>3, <2>5, <3>1, <3>2, PageTyped, ServerStays, DraftsStay
         DEF SendDone, TypeOK, bounds
  <2>6. CASE /\ Start(c, Free)
             /\ ClearDraft
             /\ compose' = [compose EXCEPT !.open = FALSE, !.sending = FALSE]
             /\ UNCHANGED page
    <3>1. compose' \in Dialog /\ ~compose'.open
      BY <2>6 DEF TypeOK, Dialog
    <3>2. call' \in [Calls -> Function]
      BY <2>6, StartTyped
    <3>. QED BY <1>6, <2>3, <2>6, <3>1, <3>2, ServerStays, SaveTyped DEF SendDone, TypeOK, bounds
  <2>. QED BY <1>6, <2>4, <2>5, <2>6 DEF SendDone, pg
<1>7. CASE ChangeDone(c)
  <2>1. PICK then \in Then : \E f \in {LoadLabels(page, then), Free} : Start(c, f)
    BY <1>7, ChangeLeads
  <2>2. call' \in [Calls -> Function]
    <3>1. {LoadLabels(page, then), Free} \subseteq Function
      BY LabelsTyped
    <3>. QED BY <2>1, <3>1, StartTyped
  <2>3. toast' \in Line
    BY <1>7 DEF ChangeDone, TypeOK
  <2>. QED BY <1>7, <2>2, <2>3, ServerStays, DraftsStay DEF ChangeDone, TypeOK, bounds
<1>. QED BY <1>1, <1>2, <1>3, <1>4, <1>5, <1>6, <1>7 DEF Continues

LEMMA NextTyped == TypeOK /\ [Next]_vars => TypeOK'
<1>. SUFFICES ASSUME TypeOK, [Next]_vars PROVE TypeOK'
  OBVIOUS
<1>1. CASE UNCHANGED vars
  BY <1>1 DEF vars, server, drafts, marks, bounds, TypeOK
<1>2. CASE Clicks
  BY <1>2, ListClicksTyped, ActionClicksTyped, ComposeTyped DEF Clicks
<1>3. CASE Autosave
  BY <1>3, ComposeTyped
<1>4. CASE Elsewhere \/ Reload \/ \E c \in Calls : Fails(c)
  BY <1>4, FaultsTyped
<1>5. CASE \E c \in Calls : Api(c) \/ Continues(c)
  BY <1>5, ApiTyped, ContinuesTyped
<1>. QED BY <1>1, <1>2, <1>3, <1>4, <1>5 DEF Next

-----------------------------------------------------------------------------
(* The list and the detail belong to the view.  A load that is in flight   *)
(* carries the revision it was started at: one of the present revision was *)
(* started for the present view, and what it found is of that view.        *)

ListFine(pg) ==
  pg.of \subseteq {pg.view} /\ \A m \in pg.list : Home[m] = pg.view.mailbox

DetailFine(pg) ==
  pg.detail \in Messages => pg.selected = pg.detail \/ (pg.orphan /\ pg.selected = None)

LoadFine(f) ==
  f.at = "list" =>
    /\ f.rev <= page.rev
    /\ f.rev = page.rev => f.view = page.view
    /\ f.reply # None /\ f.reply.ok => \A m \in f.reply.messages : Home[m] = f.view.mailbox

ViewInv ==
  /\ ListFine(page)
  /\ DetailFine(page)
  /\ \A c \in Calls : LoadFine(call[c])

\* What a rendering, a closing and an opening leave alone, and what a new view clears.
LEMMA PagesFine ==
  ASSUME NEW pg, PageOK(pg), DetailFine(pg)
  PROVE  /\ DetailFine(Rendered(pg)) /\ DetailFine(Closed(pg))
         /\ \A m \in Messages : DetailFine(Opening(pg, m))
         /\ \A q \in {Rendered(pg), Closed(pg)} \cup {Opening(pg, m) : m \in Messages} :
              q.of = pg.of /\ q.list = pg.list /\ q.view = pg.view /\ q.rev = pg.rev
         /\ \A view \in View : \A q \in {Unselected(pg, view), Turned(pg, view)} :
              ListFine(q) /\ DetailFine(q) /\ q.rev = pg.rev + 1
<1>. USE MessagesAssumption
<1>1. pg \in Page
  BY DEF PageOK
<1>2. DetailFine(Rendered(pg))
  BY <1>1 DEF Rendered, DetailFine, Page
<1>3. DetailFine(Closed(pg))
  BY <1>1 DEF Closed, Rendered, DetailFine, Page
<1>4. \A m \in Messages : DetailFine(Opening(pg, m))
  BY <1>1 DEF Opening, Rendered, DetailFine, Page
<1>5. \A q \in {Rendered(pg), Closed(pg)} \cup {Opening(pg, m) : m \in Messages} :
        q.of = pg.of /\ q.list = pg.list /\ q.view = pg.view /\ q.rev = pg.rev
  <2>. DEFINE Same(q) == q.of = pg.of /\ q.list = pg.list /\ q.view = pg.view /\ q.rev = pg.rev
  <2>1. Same(Rendered(pg))
    BY <1>1 DEF Rendered, Page
  <2>2. Same(Closed(pg))
    BY <1>1 DEF Closed, Rendered, Page
  <2>3. \A m \in Messages : Same(Opening(pg, m))
    BY <1>1 DEF Opening, Rendered, Page
  <2>. HIDE DEF Same
  <2>4. \A q \in {Rendered(pg), Closed(pg)} \cup {Opening(pg, m) : m \in Messages} : Same(q)
    BY <2>1, <2>2, <2>3
  <2>. QED BY <2>4 DEF Same
<1>6. ASSUME NEW view \in View, NEW q \in {Unselected(pg, view), Turned(pg, view)}
      PROVE  ListFine(q) /\ DetailFine(q) /\ q.rev = pg.rev + 1
  <2>. DEFINE u == Unselected(pg, view)
  <2>1. /\ u.of = {} /\ u.list = {} /\ u.rev = pg.rev + 1 /\ u.selected = None
        /\ u.detail = pg.detail /\ u.orphan = (pg.detail # None)
    BY <1>1 DEF Unselected, Page
  <2>2. CASE q = u
    <3>. HIDE DEF u
    <3>. QED BY <2>1, <2>2 DEF ListFine, DetailFine
  <2>3. CASE q = Turned(pg, view)
    <3>1. q.of = {} /\ q.list = {} /\ q.detail = None /\ q.rev = pg.rev + 1
      BY <1>1, <2>3 DEF Turned, Unselected, Page
    <3>. QED BY <3>1 DEF ListFine, DetailFine
  <2>. QED BY <2>2, <2>3 DEF u
<1>. QED BY <1>2, <1>3, <1>4, <1>5, <1>6

\* The page goes on: to a new view, or with the view it had.
Onward ==
  /\ ListFine(page') /\ DetailFine(page')
  /\ \/ page'.rev = page.rev /\ page'.view = page.view
     \/ page'.rev = page.rev + 1

\* A load that starts now.
Fresh(f) == f.at = "list" => f.rev = page'.rev /\ f.view = page'.view /\ f.reply = None

LEMMA ViewStep ==
  ASSUME TypeOK, TypeOK', ViewInv, Onward,
         \A c \in Calls : call'[c] = call[c] \/ Fresh(call'[c])
  PROVE  ViewInv'
<1>1. page.rev \in Nat /\ page'.rev \in Nat
  BY DEF TypeOK, Page
<1>2. ASSUME NEW c \in Calls PROVE LoadFine(call[c])'
  <2>1. CASE Fresh(call'[c])
    BY <1>1, <2>1 DEF Fresh, LoadFine
  <2>2. CASE call'[c] = call[c]
    <3>1. LoadFine(call[c])
      BY DEF ViewInv
    <3>2. call[c].at = "list" => call[c].rev \in Nat
      BY FunctionKinds DEF TypeOK
    <3>. QED BY <1>1, <2>2, <3>1, <3>2 DEF LoadFine, Onward
  <2>. QED BY <2>1, <2>2
<1>. QED BY <1>2 DEF ViewInv, Onward, ListFine, DetailFine

LEMMA StartView ==
  ASSUME TypeOK, TypeOK', ViewInv, Onward, NEW c \in Calls, NEW f, Start(c, f), Fresh(f)
  PROVE  ViewInv'
<1>1. \A d \in Calls : call'[d] = call[d] \/ Fresh(call'[d])
  BY DEF Start, TypeOK
<1>. QED BY <1>1, ViewStep

LEMMA LoadFresh ==
  ASSUME NEW pg, page' = pg, NEW append, NEW then PROVE Fresh(Load(pg, append, then))
BY DEF Load, Fresh

LEMMA SamePage == ViewInv /\ UNCHANGED page => Onward
BY DEF ViewInv, Onward, ListFine, DetailFine

LEMMA ViewClicks ==
  ASSUME TypeOK, TypeOK', ViewInv, Clicks
  PROVE  ViewInv'
<1>. USE SamePage, TypedPage
<1>0. page.view \in View /\ page.rows \subseteq Messages /\ DetailFine(page) /\ ListFine(page)
  BY DEF TypeOK, Page, ViewInv
<1>1. CASE SwitchMailbox
  <2>. DEFINE pg == [page EXCEPT !.labels = {}]
  <2>1. PICK view \in View, c \in Calls :
          page' = Turned(pg, view) /\ Start(c, LoadLabels(page', Nothing))
    BY <1>1, SwitchesMailbox
  <2>2. PageOK(pg) /\ DetailFine(pg) /\ pg.rev = page.rev
    BY <1>0 DEF PageOK, Page, DetailFine
  <2>. HIDE DEF pg
  <2>3. Onward
    BY <2>1, <2>2, PagesFine DEF Onward
  <2>4. Fresh(LoadLabels(page', Nothing))
    BY DEF Fresh, LoadLabels
  <2>. QED BY <2>1, <2>3, <2>4, StartView
<1>2. CASE SwitchFolder \/ Search
  <2>1. PICK view \in View, c \in Calls, then \in {Nothing, Searched} :
          page' = Turned(page, view) /\ Start(c, Load(page', FALSE, then))
    BY <1>2, SwitchesView
  <2>2. Onward
    BY <1>0, <2>1, PagesFine DEF Onward
  <2>. QED BY <2>1, <2>2, StartView, LoadFresh
<1>3. CASE Refresh \/ LoadMore
  <2>1. PICK c \in Calls, append \in BOOLEAN : Start(c, Load(page, append, Nothing))
    BY <1>3 DEF Refresh, LoadMore, Idle
  <2>2. UNCHANGED page
    BY <1>3 DEF Refresh, LoadMore
  <2>3. Fresh(Load(page, append, Nothing))
    BY <2>2, LoadFresh
  <2>. QED BY <2>1, <2>2, <2>3, StartView
<1>4. CASE Open
  <2>1. PICK m \in Messages, c \in Calls : page' = Opening(page, m) /\ Start(c, Read(m, Kept))
    BY <1>0, <1>4 DEF Open, Idle
  <2>2. Onward
    BY <1>0, <2>1, PagesFine DEF Onward, ListFine
  <2>3. Fresh(Read(m, Kept))
    BY DEF Fresh, Read
  <2>. QED BY <2>1, <2>2, <2>3, StartView
<1>5. CASE CloseDetail
  <2>1. Onward
    BY <1>0, <1>5, PagesFine DEF CloseDetail, Onward, ListFine
  <2>. QED BY <1>5, <2>1, ViewStep DEF CloseDetail
<1>6. CASE Toggle \/ SelectAll
  <2>1. page \in Page
    BY DEF TypeOK
  <2>2. /\ page'.view = page.view /\ page'.rev = page.rev /\ page'.of = page.of
        /\ page'.list = page.list /\ page'.detail = page.detail
        /\ page'.selected = page.selected /\ page'.orphan = page.orphan
    BY <1>6, <2>1 DEF Toggle, SelectAll, Page
  <2>3. Onward
    BY <1>0, <2>2 DEF Onward, ListFine, DetailFine
  <2>. QED BY <1>6, <2>3, ViewStep DEF Toggle, SelectAll
<1>7. CASE PatchDetail \/ BulkPatch \/ Undo \/ Submit
  <2>1. PICK c, f : c \in Calls /\ Start(c, f) /\ f.at # "list"
    <3>. HIDE DEF Start
    <3>1. CASE PatchDetail
      BY <1>7, <3>1 DEF PatchDetail, Idle
    <3>2. CASE BulkPatch
      BY <1>7, <3>2 DEF BulkPatch, Idle, Chunks
    <3>3. CASE Undo /\ toast.kind = "one"
      BY <1>7, <3>3 DEF Undo, Idle
    <3>4. CASE Undo /\ toast.kind # "one"
      BY <1>7, <3>4 DEF Undo, Idle, Chunks
    <3>5. CASE Submit
      BY <1>7, <3>5 DEF Submit, Idle
    <3>. QED BY <1>7, <3>1, <3>2, <3>3, <3>4, <3>5
  <2>2. UNCHANGED page
    BY <1>7 DEF PatchDetail, BulkPatch, Undo, Submit
  <2>. QED BY <2>1, <2>2, StartView DEF Fresh
<1>8. CASE OpenCompose \/ Type \/ CloseCompose \/ DiscardCompose
  BY <1>8, ViewStep DEF OpenCompose, Type, CloseCompose, DiscardCompose
<1>9. CASE RemoveLabel \/ AddLabel \/ SaveLabels \/ RunRule
  <2>1. PICK c \in Calls, what \in What : Change(c, what)
    BY <1>9, ChangesLabels
  <2>. DEFINE f == [at |-> "change", mailbox |-> page.view.mailbox, what |-> what, reply |-> None]
  <2>2. Start(c, f) /\ Fresh(f)
    BY <2>1 DEF Change, Fresh
  <2>. HIDE DEF f
  <2>. QED BY <1>9, <2>2, StartView, ChangesLabels
<1>. QED BY <1>1, <1>2, <1>3, <1>4, <1>5, <1>6, <1>7, <1>8, <1>9 DEF Clicks

\* An answer changes nothing of a function but its reply.
LEMMA Replied ==
  ASSUME TypeOK, NEW c \in Calls, NEW reply, Answer(c, reply), NEW d \in Calls
  PROVE  /\ d # c => call'[d] = call[d]
         /\ call'[c] = [call[c] EXCEPT !.reply = reply]
BY DEF TypeOK, Answer

LEMMA ReplyView ==
  ASSUME TypeOK, TypeOK', ViewInv, UNCHANGED page, NEW c \in Calls, NEW reply, Answer(c, reply),
         call[c].at = "list" /\ reply.ok =>
           \A m \in reply.messages : Home[m] = call[c].view.mailbox
  PROVE  ViewInv'
<1>1. ASSUME NEW d \in Calls PROVE LoadFine(call[d])'
  <2>1. LoadFine(call[d])
    BY DEF ViewInv
  <2>2. CASE d # c
    BY <2>1, <2>2, Replied DEF LoadFine
  <2>3. CASE d = c /\ call[c].at = "list"
    <3>1. call[c] \in [at : {"list"}, rev : Nat, view : View, append : BOOLEAN,
                       after : Messages \cup {None}, reply : ListReply, then : Then]
      BY <2>3, FunctionKinds DEF TypeOK
    <3>2. /\ call'[c].at = "list" /\ call'[c].rev = call[c].rev /\ call'[c].view = call[c].view
          /\ call'[c].reply = reply
      <4>1. call'[c] = [call[c] EXCEPT !.reply = reply]
        BY Replied
      <4>. QED BY ONLY <2>3, <3>1, <4>1
    <3>. QED BY <2>1, <2>3, <3>2 DEF LoadFine
  <2>4. CASE d = c /\ call[c].at # "list"
    <3>1. call[c] \in Function
      BY DEF TypeOK
    <3>2. [call[c] EXCEPT !.reply = reply].at = call[c].at
      BY <3>1 DEF Function
    <3>. QED BY <2>4, <3>2, Replied DEF LoadFine
  <2>. QED BY <2>2, <2>3, <2>4
<1>. QED BY <1>1 DEF ViewInv, ListFine, DetailFine

LEMMA ViewApi ==
  ASSUME TypeOK, TypeOK', ViewInv, NEW c \in Calls, Api(c) \/ Fails(c)
  PROVE  ViewInv'
<1>1. CASE ServeList(c)
  <2>. DEFINE found == {m \in Found(call[c].view) : call[c].after # None => m < call[c].after}
              first == {m \in found : Cardinality({n \in found : n > m}) < PageSize}
              reply == [ok |-> TRUE, messages |-> first,
                        cursor |-> IF first = found THEN None ELSE Min(first)]
  <2>1. Answer(c, reply) /\ UNCHANGED page
    BY <1>1 DEF ServeList
  <2>2. \A m \in reply.messages : Home[m] = call[c].view.mailbox
    BY DEF Found
  <2>. HIDE DEF reply
  <2>. QED BY <2>1, <2>2, ReplyView
<1>2. CASE ServeRead(c) \/ ServePatch(c) \/ ServeSend(c) \/ ServeChange(c) \/ Fails(c)
  <2>1. PICK reply : Answer(c, reply) /\ (call[c].at = "list" => ~reply.ok)
    BY <1>2 DEF ServeRead, ServePatch, ServeSend, ServeChange, Fails, Unanswered
  <2>2. UNCHANGED page
    BY <1>2 DEF ServeRead, ServePatch, ServeSend, ServeChange, Fails
  <2>. QED BY <2>1, <2>2, ReplyView
<1>3. CASE ServeChunk(c)
  <2>1. call[c].at \in {"bulk", "undo"} /\ UNCHANGED page
    BY <1>3 DEF ServeChunk, Unanswered
  <2>2. call'[c].at # "list"
    <3>1. call[c] \in [at : {"bulk", "undo"}, ids : (SUBSET Messages) \ {{}},
                       todo : SUBSET Messages, chunk : SUBSET Messages, to : Live,
                       mailbox : Mailboxes, wrote : SUBSET Messages, reply : Maybe]
      BY <2>1, FunctionKinds DEF TypeOK
    <3>. QED BY <1>3, <2>1, <3>1 DEF ServeChunk, Answer, TypeOK
  <2>3. \A d \in Calls : d # c => call'[d] = call[d]
    BY <1>3 DEF ServeChunk, Answer, TypeOK
  <2>. QED BY <2>1, <2>2, <2>3, ViewStep, SamePage DEF Fresh
<1>. QED BY <1>1, <1>2, <1>3 DEF Api

LEMMA ViewContinues ==
  ASSUME TypeOK, TypeOK', ViewInv, NEW c \in Calls, Continues(c)
  PROVE  ViewInv'
<1>. USE SamePage, TypedPage
<1>0. page \in Page /\ DetailFine(page) /\ ListFine(page) /\ Fresh(Free) /\ call[c] \in Function
  BY DEF TypeOK, ViewInv, Fresh, Free
<1>1. CASE PatchDone(c)
  <2>1. UNCHANGED page
    BY <1>1 DEF PatchDone
  <2>2. PICK f, then : Start(c, f) /\ f \in {Free, Load(page, FALSE, then)}
    BY <1>1 DEF PatchDone
  <2>3. Fresh(f)
    BY <1>0, <2>1, <2>2, LoadFresh
  <2>. QED BY <2>1, <2>2, <2>3, StartView
<1>2. CASE ListDone(c)
  <2>. DEFINE then == call[c].then
              pg == IF Ok(c) /\ Current(c)
                      THEN Shown(page, call[c].append, call[c].view, call[c].reply) ELSE page
  <2>1. /\ call[c].append \in BOOLEAN /\ call[c].view \in View /\ call[c].reply \in ListReply
        /\ call[c].reply # None /\ then \in Then /\ call[c].at = "list"
    BY <1>0, <1>2, FunctionKinds DEF ListDone, Answered
  <2>2. PageOK(pg)
    BY <2>1, ShownTyped DEF Ok
  <2>3. ListFine(pg) /\ DetailFine(pg) /\ pg.rev = page.rev /\ pg.view = page.view
    <3>1. CASE Ok(c) /\ Current(c)
      <4>. DEFINE reply == call[c].reply
                  q == [page EXCEPT
                          !.list = IF call[c].append THEN @ \cup reply.messages
                                   ELSE reply.messages,
                          !.of = IF call[c].append THEN @ \cup {call[c].view}
                                 ELSE {call[c].view},
                          !.cursor = reply.cursor,
                          !.chosen = IF call[c].append THEN @ ELSE {}]
      <4>1. LoadFine(call[c])
        BY DEF ViewInv
      <4>2. /\ call[c].view = page.view
            /\ \A m \in reply.messages : Home[m] = page.view.mailbox
        BY <2>1, <3>1, <4>1 DEF LoadFine, Current, Ok
      <4>3. /\ reply.messages \subseteq Messages /\ reply.cursor \in Messages \cup {None}
        BY <2>1, <3>1 DEF ListReply, Ok
      <4>4. q \in Page /\ q.detail = page.detail /\ q.was = page.was
        BY <1>0, <2>1, <4>3 DEF Page
      <4>5. /\ q.rev = page.rev /\ q.view = page.view /\ q.selected = page.selected
            /\ q.orphan = page.orphan
            /\ q.of \subseteq page.of \cup {call[c].view}
            /\ q.list \subseteq page.list \cup reply.messages
        BY <1>0 DEF Page
      <4>. HIDE DEF q
      <4>6. PageOK(q)
        BY <4>4 DEF PageOK, TypeOK
      <4>7. ListFine(q) /\ DetailFine(q)
        BY <1>0, <4>2, <4>4, <4>5 DEF ListFine, DetailFine
      <4>8. /\ ListFine(Rendered(q)) /\ DetailFine(Rendered(q))
            /\ Rendered(q).rev = page.rev /\ Rendered(q).view = page.view
        BY <4>5, <4>6, <4>7, PagesFine DEF ListFine
      <4>. QED BY <3>1, <4>8 DEF Shown, q
    <3>2. CASE ~(Ok(c) /\ Current(c))
      BY <1>0, <3>2
    <3>. QED BY <3>1, <3>2
  <2>. HIDE DEF pg
  <2>4. CASE page' = pg /\ Start(c, Free)
    <3>1. Onward
      BY <2>3, <2>4 DEF Onward
    <3>. QED BY <1>0, <2>4, <3>1, StartView
  <2>5. CASE page' = Closed(pg) /\ Start(c, Free)
    <3>1. Onward
      BY <2>2, <2>3, <2>5, PagesFine DEF Onward, ListFine
    <3>. QED BY <1>0, <2>5, <3>1, StartView
  <2>6. CASE \E m \in pg.list, t \in Line \cup {Kept} :
               page' = Opening(pg, m) /\ Start(c, Read(m, t))
    <3>1. PICK m \in Messages, t \in Line \cup {Kept} :
            page' = Opening(pg, m) /\ Start(c, Read(m, t))
      BY <2>2, <2>6 DEF PageOK, Page
    <3>2. Onward
      BY <2>2, <2>3, <3>1, PagesFine DEF Onward, ListFine
    <3>3. Fresh(Read(m, t))
      BY DEF Fresh, Read
    <3>. QED BY <3>1, <3>2, <3>3, StartView
  <2>7. CASE then.do = "reopen" /\ then.message \in pg.list
    <3>1. then.toast \in Line \cup {Kept}
      BY <2>1, <2>7 DEF Then
    <3>2. page' = Opening(pg, then.message) /\ Start(c, Read(then.message, then.toast))
      BY <1>2, <2>7 DEF ListDone, pg
    <3>. QED BY <2>6, <2>7, <3>1, <3>2
  <2>8. CASE then.do = "resume" /\ pg.selected \in pg.list
    <3>1. page' = Opening(pg, pg.selected) /\ Start(c, Read(pg.selected, NoToast))
      BY <1>2, <2>8 DEF ListDone, pg
    <3>. QED BY <2>6, <2>8, <3>1, LinesTyped
  <2>9. CASE /\ ~ (then.do = "reopen" /\ then.message \in pg.list)
             /\ ~ (then.do = "resume" /\ pg.selected \in pg.list)
    <3>1. page' \in {pg, Closed(pg)} /\ Start(c, Free)
      BY <1>2, <2>9 DEF ListDone, pg
    <3>. QED BY <2>4, <2>5, <3>1
  <2>. QED BY <2>7, <2>8, <2>9
<1>3. CASE DetailDone(c)
  <2>1. Start(c, Free)
    BY <1>3 DEF DetailDone
  <2>2. Onward
    <3>1. CASE Ok(c) /\ Selected(call[c].message)
      <4>1. page' = [page EXCEPT !.detail = call[c].message, !.was = call[c].reply.was]
        BY <1>3, <3>1 DEF DetailDone
      <4>2. /\ page'.detail = page'.selected /\ page'.rev = page.rev /\ page'.view = page.view
            /\ page'.of = page.of /\ page'.list = page.list
        BY <1>0, <3>1, <4>1 DEF Page, Selected
      <4>. QED BY <1>0, <4>2 DEF Onward, ListFine, DetailFine
    <3>2. CASE ~Ok(c)
      BY <1>0, <1>3, <3>2, PagesFine DEF DetailDone, Onward, ListFine
    <3>3. CASE Ok(c) /\ ~Selected(call[c].message)
      BY <1>3, <3>3 DEF DetailDone
    <3>. QED BY <3>1, <3>2, <3>3
  <2>. QED BY <1>0, <2>1, <2>2, StartView
<1>4. CASE ChunkDone(c)
  <2>1. PICK f : Start(c, f) /\ (f.at # "list" \/ \E then : f = Load(page', FALSE, then))
    <3>1. call[c].at \in {"bulk", "undo"}
      BY <1>4 DEF ChunkDone, Answered
    <3>2. CASE ~Ok(c)
      <4>1. Start(c, Free)
        BY <1>4, <3>2 DEF ChunkDone
      <4>2. Free.at # "list"
        BY DEF Free
      <4>. QED BY <4>1, <4>2
    <3>3. CASE Ok(c) /\ call[c].todo # {}
      <4>. DEFINE f == Chunks(page, call[c].at, call[c].ids, call[c].todo, call[c].to,
                              call[c].wrote)
      <4>1. Start(c, f)
        BY <1>4, <3>3 DEF ChunkDone
      <4>2. f.at # "list"
        BY <3>1 DEF Chunks
      <4>. HIDE DEF f
      <4>. QED BY <4>1, <4>2
    <3>4. CASE Ok(c) /\ call[c].todo = {}
      BY <1>4, <3>4 DEF ChunkDone
    <3>. QED BY <3>2, <3>3, <3>4
  <2>2. Fresh(f)
    BY <2>1, LoadFresh DEF Fresh
  <2>3. page' \in {page, [page EXCEPT !.chosen = {}]}
    BY <1>4 DEF ChunkDone
  <2>4. Onward
    BY <1>0, <2>3 DEF Onward, ListFine, DetailFine, Page
  <2>. QED BY <2>1, <2>2, <2>4, StartView
<1>5. CASE SendDone(c)
  <2>. DEFINE pg == Turned(page, [page.view EXCEPT !.folder = "outbox"])
  <2>1. ListFine(pg) /\ DetailFine(pg) /\ pg.rev = page.rev + 1
    <3>1. [page.view EXCEPT !.folder = "outbox"] \in View
      BY <1>0 DEF Page, View, Folders
    <3>. QED BY <1>0, <3>1, PagesFine
  <2>. HIDE DEF pg
  <2>2. PICK f : /\ Start(c, f)
                 /\ \/ f = Free /\ UNCHANGED page
                    \/ page' = pg /\ \E then : f = Load(pg, FALSE, then)
    BY <1>5 DEF SendDone, pg
  <2>3. Fresh(f) /\ Onward
    BY <1>0, <2>1, <2>2, LoadFresh DEF Onward
  <2>. QED BY <2>2, <2>3, StartView
<1>6. CASE LabelsDone(c)
  <2>. DEFINE pg == IF Ok(c) THEN Labelled(page, call[c].reply.labels) ELSE page
  <2>1. page' = pg
    BY <1>6 DEF LabelsDone
  <2>2. PICK f \in {Load(pg, FALSE, call[c].then), Free} : Start(c, f)
    BY <1>6 DEF LabelsDone
  <2>3. Fresh(f)
    <3>. HIDE DEF pg
    <3>. QED BY <1>0, <2>1, LoadFresh
  <2>4. Onward
    <3>1. CASE ~Ok(c)
      BY <2>1, <3>1
    <3>2. CASE Ok(c)
      <4>. DEFINE found == call[c].reply.labels
                  with == [page EXCEPT !.labels = found, !.options = found]
                  view == [page.view EXCEPT !.query = Everything]
      <4>1. found \in SUBSET Labels
        BY <1>0, <1>6, <3>2, FunctionKinds DEF LabelsDone, Answered, Ok, LabelReply
      <4>2. page' = IF page.view.query \in Labels \ found THEN Unselected(with, view) ELSE with
        BY <2>1, <3>2 DEF Labelled
      <4>3. /\ with \in Page /\ with.detail = page.detail /\ with.was = page.was
            /\ with.selected = page.selected /\ with.orphan = page.orphan
            /\ with.list = page.list /\ with.of = page.of /\ with.view = page.view
            /\ with.rev = page.rev
        BY <1>0, <4>1 DEF Page
      <4>4. view \in View
        BY <1>0, DomainAssumption DEF Page, View
      <4>. HIDE DEF with, view, found
      <4>5. PageOK(with) /\ DetailFine(with) /\ ListFine(with)
        BY <1>0, <4>3 DEF PageOK, DetailFine, ListFine
      <4>6. CASE page' = Unselected(with, view)
        BY <4>3, <4>4, <4>5, <4>6, PagesFine DEF Onward
      <4>7. CASE page' = with
        BY <4>3, <4>5, <4>7 DEF Onward
      <4>. QED BY <4>2, <4>6, <4>7
    <3>. QED BY <3>1, <3>2
  <2>. HIDE DEF pg
  <2>. QED BY <2>2, <2>3, <2>4, StartView
<1>7. CASE ChangeDone(c)
  <2>1. PICK then \in Then : \E f \in {LoadLabels(page, then), Free} : Start(c, f)
    BY <1>7, ChangeLeads
  <2>2. Fresh(LoadLabels(page, then))
    BY DEF Fresh, LoadLabels
  <2>3. UNCHANGED page
    BY <1>7 DEF ChangeDone
  <2>. QED BY <1>0, <2>1, <2>2, <2>3, StartView
<1>. QED BY <1>1, <1>2, <1>3, <1>4, <1>5, <1>6, <1>7 DEF Continues

LEMMA ViewInitial == Init => ViewInv
BY MessagesAssumption
DEF Init, ViewInv, Started, Blank, ListFine, DetailFine, LoadFine, Free, LoadLabels

LEMMA ViewNext == TypeOK /\ TypeOK' /\ ViewInv /\ [Next]_vars => ViewInv'
<1>. SUFFICES ASSUME TypeOK, TypeOK', ViewInv, [Next]_vars PROVE ViewInv'
  OBVIOUS
<1>1. CASE UNCHANGED vars
  BY <1>1, ViewStep, SamePage DEF vars
<1>2. CASE Clicks
  BY <1>2, ViewClicks
<1>3. CASE Autosave \/ Elsewhere
  BY <1>3, ViewStep, SamePage DEF Autosave, Elsewhere
<1>4. CASE Reload
  BY <1>4, MessagesAssumption
  DEF Reload, ViewInv, Started, Blank, ListFine, DetailFine, LoadFine, Free, LoadLabels
<1>5. CASE \E c \in Calls : Api(c) \/ Continues(c) \/ Fails(c)
  BY <1>5, ViewApi, ViewContinues
<1>. QED BY <1>1, <1>2, <1>3, <1>4, <1>5 DEF Next

-----------------------------------------------------------------------------
(* What is reported is done.  A bulk function accounts for all of its      *)
(* messages: those it has yet to send, those it waits for, those written.  *)

Good(line) == line # NoToast => line.wrote = line.messages

\* The line that a function shows at its end, if it has one of its own.
GoodEnd(line) == line = Kept \/ Good(line)

GoodThen(then) ==
  /\ then.do = "report" => Good(then.toast)
  /\ then.do = "reopen" => GoodEnd(then.toast)

GoodFunction(f) ==
  /\ f.at = "patch" => Good(f.toast)
  /\ f.at = "detail" => GoodEnd(f.toast)
  /\ f.at \in {"labels", "list"} => GoodThen(f.then)
  /\ f.at \in {"bulk", "undo"} =>
       /\ f.todo \cup f.chunk \cup f.wrote = f.ids
       /\ f.reply # None /\ f.reply.ok => f.todo \cup f.wrote = f.ids

ReportInv == Good(toast) /\ \A c \in Calls : GoodFunction(call[c])

LEMMA ReportStep ==
  ASSUME ReportInv, Good(toast'),
         \A c \in Calls : call'[c] = call[c] \/ GoodFunction(call'[c])
  PROVE  ReportInv'
BY DEF ReportInv, GoodFunction, GoodThen, GoodEnd, Good

LEMMA StartReport ==
  ASSUME TypeOK, ReportInv, Good(toast'), NEW c \in Calls, NEW f, Start(c, f), GoodFunction(f)
  PROVE  ReportInv'
<1>1. \A d \in Calls : call'[d] = call[d] \/ GoodFunction(call'[d])
  BY DEF Start, TypeOK
<1>. QED BY <1>1, ReportStep

LEMMA GoodLoad ==
  ASSUME NEW pg, NEW append, NEW then, GoodThen(then)
  PROVE  GoodFunction(Load(pg, append, then)) /\ GoodFunction(LoadLabels(pg, then))
BY DEF Load, LoadLabels, GoodFunction

LEMMA GoodThens ==
  /\ Good(NoToast) /\ GoodFunction(Free)
  /\ GoodThen(Nothing) /\ GoodThen(Searched)
  /\ \A t : Good(t) => GoodThen(Report(t))
  /\ \A m, t : Good(t) => GoodThen(Reopen(m, t))
  /\ \A m, t : GoodEnd(t) => GoodFunction(Read(m, t))
  /\ GoodEnd(Kept) /\ \A t : Good(t) => GoodEnd(t)
  /\ \A n : GoodThen(Leave(n))
BY DEF Good, GoodThen, GoodEnd, GoodFunction, Free, Nothing, Searched, Reopen, Report, Leave, Read

LEMMA GoodChunks ==
  ASSUME NEW pg, NEW kind \in {"bulk", "undo"}, NEW ids, NEW todo, NEW to, NEW wrote,
         todo \cup wrote = ids
  PROVE  GoodFunction(Chunks(pg, kind, ids, todo, to, wrote))
<1>1. Chunk(todo) \subseteq todo
  BY DEF Chunk
<1>2. (todo \ Chunk(todo)) \cup Chunk(todo) \cup wrote = ids
  BY <1>1
<1>. QED BY <1>2 DEF Chunks, GoodFunction

LEMMA ReportClicks ==
  ASSUME TypeOK, ReportInv, Clicks
  PROVE  ReportInv'
<1>. USE GoodThens
<1>0. Good(toast)
  BY DEF ReportInv
<1>1. CASE SwitchMailbox \/ SwitchFolder \/ Search \/ Refresh \/ LoadMore
  <2>1. PICK c, pg, append, then, f :
          /\ c \in Calls /\ Start(c, f) /\ then \in {Nothing, Searched}
          /\ f \in {Load(pg, append, then), LoadLabels(pg, then)}
    <3>1. CASE SwitchMailbox
      BY <3>1, SwitchesMailbox
    <3>2. CASE SwitchFolder \/ Search
      BY <3>2, SwitchesView
    <3>3. CASE Refresh \/ LoadMore
      BY <3>3 DEF Refresh, LoadMore, Idle
    <3>. QED BY <1>1, <3>1, <3>2, <3>3
  <2>2. GoodFunction(f)
    BY <2>1, GoodLoad
  <2>3. UNCHANGED toast
    BY <1>1 DEF SwitchMailbox, SwitchFolder, Search, Refresh, LoadMore
  <2>. QED BY <1>0, <2>1, <2>2, <2>3, StartReport
<1>2. CASE Open
  <2>1. PICK m, c : c \in Calls /\ Start(c, Read(m, Kept))
    BY <1>2 DEF Open, Idle
  <2>2. UNCHANGED toast
    BY <1>2 DEF Open
  <2>. QED BY <1>0, <2>1, <2>2, StartReport
<1>3. CASE PatchDetail
  <2>. DEFINE line == [kind |-> "one", messages |-> {page.detail}, to |-> page.was,
                       wrote |-> {page.detail}]
              f == [at |-> "patch", message |-> page.detail, to |-> Other(page.was),
                    reply |-> None, toast |-> line]
  <2>1. PICK c \in Calls : Start(c, f)
    BY <1>3 DEF PatchDetail, Idle
  <2>2. GoodFunction(f)
    BY DEF GoodFunction, Good
  <2>3. UNCHANGED toast
    BY <1>3 DEF PatchDetail
  <2>. HIDE DEF f
  <2>. QED BY <1>0, <2>1, <2>2, <2>3, StartReport
<1>4. CASE BulkPatch
  <2>. DEFINE ids == page.list \cap page.chosen
              f == Chunks(page, "bulk", ids, ids, Other(page.view.folder), {})
  <2>1. PICK c \in Calls : Start(c, f)
    BY <1>4 DEF BulkPatch, Idle
  <2>2. GoodFunction(f)
    BY GoodChunks
  <2>3. UNCHANGED toast
    BY <1>4 DEF BulkPatch
  <2>. HIDE DEF f
  <2>. QED BY <1>0, <2>1, <2>2, <2>3, StartReport
<1>5. CASE Undo
  <2>1. toast' = NoToast
    BY <1>5 DEF Undo
  <2>2. CASE toast.kind = "one"
    <3>. DEFINE f(m) == [at |-> "patch", message |-> m, to |-> toast.to, reply |-> None,
                         toast |-> NoToast]
    <3>1. PICK c, m : c \in Calls /\ Start(c, f(m))
      BY <1>5, <2>2 DEF Undo, Idle
    <3>2. GoodFunction(f(m))
      BY DEF GoodFunction
    <3>. HIDE DEF f
    <3>. QED BY <2>1, <3>1, <3>2, StartReport
  <2>3. CASE toast.kind # "one"
    <3>. DEFINE f == Chunks(page, "undo", toast.messages, toast.messages, toast.to, {})
    <3>1. PICK c \in Calls : Start(c, f)
      BY <1>5, <2>3 DEF Undo, Idle
    <3>2. GoodFunction(f)
      BY GoodChunks
    <3>. HIDE DEF f
    <3>. QED BY <2>1, <3>1, <3>2, StartReport
  <2>. QED BY <2>2, <2>3
<1>6. CASE Submit
  <2>. DEFINE f == [at |-> "send", id |-> compose.id, dialog |-> compose.dialog,
                    key |-> compose.key, reply |-> None]
  <2>1. PICK c \in Calls : Start(c, f)
    BY <1>6 DEF Submit, Idle
  <2>2. GoodFunction(f)
    BY DEF GoodFunction
  <2>3. UNCHANGED toast
    BY <1>6 DEF Submit
  <2>. HIDE DEF f
  <2>. QED BY <1>0, <2>1, <2>2, <2>3, StartReport
<1>7. CASE \/ CloseDetail \/ Toggle \/ SelectAll
           \/ OpenCompose \/ Type \/ CloseCompose \/ DiscardCompose
  BY <1>0, <1>7, ReportStep
  DEF CloseDetail, Toggle, SelectAll, OpenCompose, Type, CloseCompose, DiscardCompose
<1>8. CASE RemoveLabel \/ AddLabel \/ SaveLabels \/ RunRule
  <2>1. PICK c \in Calls, what \in What : Change(c, what)
    BY <1>8, ChangesLabels
  <2>. DEFINE f == [at |-> "change", mailbox |-> page.view.mailbox, what |-> what, reply |-> None]
  <2>2. Start(c, f) /\ GoodFunction(f)
    BY <2>1 DEF Change, GoodFunction
  <2>. HIDE DEF f
  <2>. QED BY <1>0, <1>8, <2>2, StartReport, ChangesLabels
<1>. QED BY <1>1, <1>2, <1>3, <1>4, <1>5, <1>6, <1>7, <1>8 DEF Clicks

LEMMA ReportApi ==
  ASSUME TypeOK, ReportInv, NEW c \in Calls, Api(c) \/ Fails(c)
  PROVE  ReportInv'
<1>0. Good(toast) /\ GoodFunction(call[c]) /\ call[c] \in Function
  BY DEF ReportInv, TypeOK
<1>1. ASSUME NEW reply, Answer(c, reply), call[c].at \in {"bulk", "undo"} => ~reply.ok,
             UNCHANGED toast
      PROVE  ReportInv'
  <2>1. CASE call[c].at \notin {"bulk", "undo"}
    <3>1. GoodFunction([call[c] EXCEPT !.reply = reply])
      <4>1. CASE call[c].at = "list"
        BY <1>0, <4>1, FunctionKinds DEF GoodFunction
      <4>2. CASE call[c].at \in {"detail", "patch"}
        BY <1>0, <4>2, FunctionKinds DEF GoodFunction
      <4>3. CASE call[c].at \in {"labels", "change"}
        BY <1>0, <4>3, FunctionKinds DEF GoodFunction
      <4>4. CASE call[c].at \in {"send", "free"}
        BY <1>0, <4>4, FunctionKinds DEF GoodFunction, Free
      <4>. QED BY <1>0, <2>1, <4>1, <4>2, <4>3, <4>4, FunctionKinds
    <3>. QED BY <1>0, <1>1, <3>1, Replied, ReportStep
  <2>2. CASE call[c].at \in {"bulk", "undo"}
    <3>1. call[c] \in [at : {"bulk", "undo"}, ids : (SUBSET Messages) \ {{}},
                       todo : SUBSET Messages, chunk : SUBSET Messages, to : Live,
                       mailbox : Mailboxes, wrote : SUBSET Messages, reply : Maybe]
      BY <1>0, <2>2, FunctionKinds
    <3>2. GoodFunction([call[c] EXCEPT !.reply = reply])
      BY <1>0, <1>1, <2>2, <3>1 DEF GoodFunction
    <3>. QED BY <1>0, <1>1, <3>2, Replied, ReportStep
  <2>. QED BY <2>1, <2>2
<1>2. CASE \/ ServeList(c) \/ ServeRead(c) \/ ServePatch(c) \/ ServeSend(c) \/ ServeChange(c)
           \/ Fails(c)
  <2>1. PICK reply : Answer(c, reply) /\ (call[c].at \in {"bulk", "undo"} => ~reply.ok)
    BY <1>2 DEF ServeList, ServeRead, ServePatch, ServeSend, ServeChange, Fails, Unanswered
  <2>2. UNCHANGED toast
    BY <1>2 DEF ServeList, ServeRead, ServePatch, ServeSend, ServeChange, Fails
  <2>. QED BY <1>1, <2>1, <2>2
<1>3. CASE ServeChunk(c)
  <2>. DEFINE chunk == {m \in call[c].chunk : Home[m] = call[c].mailbox /\ where[m] # "purged"}
  <2>1. call[c].at \in {"bulk", "undo"} /\ UNCHANGED toast
    BY <1>3 DEF ServeChunk, Unanswered
  <2>2. call[c] \in [at : {"bulk", "undo"}, ids : (SUBSET Messages) \ {{}},
                     todo : SUBSET Messages, chunk : SUBSET Messages, to : Live,
                     mailbox : Mailboxes, wrote : SUBSET Messages, reply : Maybe]
    BY <1>0, <2>1, FunctionKinds
  <2>3. CASE ~Updatable(call[c].chunk, call[c].mailbox)
    BY <1>1, <1>3, <2>1, <2>3 DEF ServeChunk
  <2>4. CASE Updatable(call[c].chunk, call[c].mailbox)
    <3>1. chunk = call[c].chunk
      BY <2>4 DEF Updatable
    <3>2. call' = [call EXCEPT ![c].reply = [ok |-> TRUE], ![c].wrote = @ \cup chunk]
      BY <1>3, <2>4 DEF ServeChunk
    <3>. HIDE DEF chunk
    <3>3. call'[c] = [call[c] EXCEPT !.reply = [ok |-> TRUE], !.wrote = @ \cup chunk]
      BY <3>2 DEF TypeOK
    <3>4. GoodFunction(call'[c])
      BY <1>0, <2>1, <2>2, <3>1, <3>3 DEF GoodFunction
    <3>5. \A d \in Calls : d # c => call'[d] = call[d]
      BY <3>2 DEF TypeOK
    <3>. QED BY <1>0, <2>1, <3>4, <3>5, ReportStep
  <2>. QED BY <2>3, <2>4
<1>. QED BY <1>2, <1>3 DEF Api

LEMMA ReportContinues ==
  ASSUME TypeOK, ReportInv, NEW c \in Calls, Continues(c)
  PROVE  ReportInv'
<1>. USE GoodThens
<1>0. Good(toast) /\ GoodFunction(call[c]) /\ call[c] \in Function
  BY DEF ReportInv, TypeOK
<1>1. CASE LabelsDone(c)
  <2>1. PICK pg, f : Start(c, f) /\ f \in {Free, Load(pg, FALSE, call[c].then)}
    BY <1>1 DEF LabelsDone
  <2>2. GoodFunction(f)
    <3>1. GoodThen(call[c].then)
      BY <1>0, <1>1 DEF LabelsDone, Answered, GoodFunction
    <3>. QED BY <2>1, <3>1, GoodLoad
  <2>3. Good(toast')
    BY <1>0, <1>1 DEF LabelsDone
  <2>. QED BY <2>1, <2>2, <2>3, StartReport
<1>2. CASE ListDone(c)
  <2>. DEFINE then == call[c].then
              line == IF ~Ok(c) /\ Current(c) THEN NoToast ELSE toast
  <2>1. call[c].at = "list" /\ Good(line)
    BY <1>0, <1>2 DEF ListDone, Answered
  <2>2. GoodThen(then)
    BY <1>0, <2>1 DEF GoodFunction
  <2>3. CASE then.do = "reopen"
    <3>1. GoodEnd(then.toast)
      BY <2>2, <2>3 DEF GoodThen
    <3>2. \/ Start(c, Read(then.message, then.toast)) /\ toast' = line
          \/ Start(c, Free) /\ toast' = IF then.toast = Kept THEN line ELSE then.toast
      BY <1>2, <2>3 DEF ListDone
    <3>3. Good(toast')
      BY <2>1, <3>1, <3>2 DEF GoodEnd
    <3>. QED BY <3>1, <3>2, <3>3, StartReport
  <2>4. CASE then.do = "resume"
    <3>1. \/ \E m : Start(c, Read(m, NoToast)) /\ toast' = line
          \/ Start(c, Free) /\ toast' = NoToast
      BY <1>2, <2>4 DEF ListDone
    <3>2. Good(toast')
      BY <2>1, <3>1
    <3>. QED BY <3>1, <3>2, StartReport
  <2>5. CASE then.do \notin {"reopen", "resume"}
    <3>1. Start(c, Free)
      BY <1>2, <2>5 DEF ListDone
    <3>2. toast' \in {line, NoToast} \/ (then.do = "report" /\ toast' = then.toast)
      BY <1>2, <2>5 DEF ListDone
    <3>3. Good(toast')
      BY <2>1, <2>2, <3>2 DEF GoodThen
    <3>. QED BY <3>1, <3>3, StartReport
  <2>. QED BY <2>3, <2>4, <2>5
<1>3. CASE DetailDone(c)
  <2>1. /\ Start(c, Free) /\ call[c].at = "detail"
        /\ toast' \in {toast, NoToast} \/ (toast' = call[c].toast /\ call[c].toast # Kept)
    BY <1>3 DEF DetailDone, Answered
  <2>2. Good(toast')
    BY <1>0, <2>1 DEF GoodFunction, GoodEnd
  <2>. QED BY <2>1, <2>2, StartReport
<1>4. CASE PatchDone(c)
  <2>. DEFINE then == Reopen(call[c].message, call[c].toast)
  <2>1. GoodThen(then)
    BY <1>0, <1>4 DEF PatchDone, Answered, GoodFunction
  <2>2. PICK f : Start(c, f) /\ f \in {Free, Load(page, FALSE, then)}
    BY <1>4 DEF PatchDone
  <2>. HIDE DEF then
  <2>3. GoodFunction(f)
    <3>1. GoodFunction(Load(page, FALSE, then))
      BY <2>1, GoodLoad
    <3>. QED BY <2>2, <3>1
  <2>4. Good(toast')
    BY <1>0, <1>4 DEF PatchDone
  <2>. QED BY <2>2, <2>3, <2>4, StartReport
<1>5. CASE ChunkDone(c)
  <2>. DEFINE kind == call[c].at
              line == [kind |-> "bulk", messages |-> call[c].ids, to |-> Other(call[c].to),
                       wrote |-> call[c].wrote]
              last == IF kind = "bulk" THEN line ELSE NoToast
  <2>1. kind \in {"bulk", "undo"} /\ call[c].reply # None
    BY <1>5 DEF ChunkDone, Answered
  <2>2. Ok(c) => call[c].todo \cup call[c].wrote = call[c].ids
    BY <1>0, <2>1 DEF Ok, GoodFunction
  <2>3. CASE ~Ok(c)
    <3>1. Start(c, Free) /\ toast' = NoToast
      BY <1>5, <2>3 DEF ChunkDone
    <3>. QED BY <3>1, StartReport
  <2>4. CASE Ok(c) /\ call[c].todo # {}
    <3>. DEFINE f == Chunks(page, kind, call[c].ids, call[c].todo, call[c].to, call[c].wrote)
    <3>1. Start(c, f) /\ UNCHANGED toast
      BY <1>5, <2>4 DEF ChunkDone
    <3>2. GoodFunction(f)
      BY <2>1, <2>2, <2>4, GoodChunks
    <3>. HIDE DEF f
    <3>. QED BY <1>0, <3>1, <3>2, StartReport
  <2>5. CASE Ok(c) /\ call[c].todo = {}
    <3>1. PICK pg : Start(c, Load(pg, FALSE, Report(last))) /\ UNCHANGED toast
      BY <1>5, <2>5 DEF ChunkDone
    <3>2. Good(last)
      BY <2>2, <2>5 DEF Good
    <3>. HIDE DEF last
    <3>3. GoodFunction(Load(pg, FALSE, Report(last)))
      BY <3>2, GoodLoad
    <3>. QED BY <1>0, <3>1, <3>3, StartReport
  <2>. QED BY <2>3, <2>4, <2>5
<1>6. CASE SendDone(c)
  <2>1. toast' = NoToast
    BY <1>6 DEF SendDone
  <2>2. PICK f : Start(c, f) /\ (f = Free \/ \E pg : f = Load(pg, FALSE, Leave(call[c].dialog)))
    BY <1>6 DEF SendDone
  <2>3. GoodFunction(f)
    <3>. DEFINE then == Leave(call[c].dialog)
    <3>1. GoodThen(then)
      OBVIOUS
    <3>. HIDE DEF then
    <3>2. \A pg : GoodFunction(Load(pg, FALSE, then))
      BY <3>1, GoodLoad
    <3>. QED BY <2>2, <3>2 DEF then
  <2>. QED BY <2>1, <2>2, <2>3, StartReport
<1>7. CASE ChangeDone(c)
  <2>1. PICK then, f :
          /\ then \in Then /\ Start(c, f) /\ f \in {LoadLabels(page, then), Free}
          /\ then.do = "report" => then.toast = NoToast
          /\ then.do = "reopen" => then.toast = Kept
    BY <1>7, ChangeLeads
  <2>2. GoodThen(then)
    BY <2>1 DEF GoodThen
  <2>3. GoodFunction(f)
    BY <2>1, <2>2, GoodLoad
  <2>4. Good(toast')
    BY <1>0, <1>7 DEF ChangeDone
  <2>. QED BY <2>1, <2>3, <2>4, StartReport
<1>. QED BY <1>1, <1>2, <1>3, <1>4, <1>5, <1>6, <1>7 DEF Continues

\* The calls of a page that was just loaded.
LEMMA FirstCalls ==
  ASSUME NEW f, \E c \in Calls :
           f = [d \in Calls |-> IF d = c THEN LoadLabels(Started, Nothing) ELSE Free]
  PROVE  \A d \in Calls : f[d] \in {LoadLabels(Started, Nothing), Free}
OBVIOUS

LEMMA ReportInitial == Init => ReportInv
<1>. SUFFICES ASSUME Init PROVE ReportInv
  OBVIOUS
<1>1. \A d \in Calls : call[d] \in {LoadLabels(Started, Nothing), Free}
  BY FirstCalls DEF Init
<1>2. GoodFunction(LoadLabels(Started, Nothing)) /\ GoodFunction(Free)
  BY GoodLoad, GoodThens
<1>. QED BY <1>1, <1>2, GoodThens DEF Init, ReportInv

LEMMA ReportNext == TypeOK /\ ReportInv /\ [Next]_vars => ReportInv'
<1>. SUFFICES ASSUME TypeOK, ReportInv, [Next]_vars PROVE ReportInv'
  OBVIOUS
<1>0. Good(toast)
  BY DEF ReportInv
<1>1. CASE UNCHANGED vars
  BY <1>0, <1>1, ReportStep DEF vars
<1>2. CASE Clicks
  BY <1>2, ReportClicks
<1>3. CASE Autosave \/ Elsewhere
  BY <1>0, <1>3, ReportStep DEF Autosave, Elsewhere
<1>4. CASE Reload
  <2>1. \A d \in Calls : call'[d] \in {LoadLabels(Started, Nothing), Free}
    BY <1>4, FirstCalls DEF Reload
  <2>2. GoodFunction(LoadLabels(Started, Nothing)) /\ GoodFunction(Free)
    BY GoodLoad, GoodThens
  <2>. QED BY <1>4, <2>1, <2>2, ReportStep, GoodThens DEF Reload
<1>5. CASE \E c \in Calls : Api(c) \/ Continues(c) \/ Fails(c)
  BY <1>5, ReportApi, ReportContinues
<1>. QED BY <1>1, <1>2, <1>3, <1>4, <1>5 DEF Next

-----------------------------------------------------------------------------
(* A dialog sends one message.  The identity of the dialog names one form, *)
(* wherever it is found: in what was sent, in the calls, on the page.      *)

Forms ==
  {<<s.dialog, s.key>> : s \in sent}
  \cup {<<call[c].dialog, call[c].key>> : c \in {d \in Calls : call[d].at = "send"}}
  \cup {<<compose.dialog, compose.key>>}

SentFrom(dialog) == \E s \in sent : s.dialog = dialog

SendFunction(f) ==
  /\ f.at = "send" =>
       /\ f.id = f.dialog
       /\ <<f.dialog, f.key>> \in Forms
       /\ f.reply # None /\ f.reply.ok => SentFrom(f.dialog)
  /\ f.at \in {"labels", "list"} /\ f.then.do = "leave" => SentFrom(f.then.dialog)

SendInv ==
  /\ compose.id = compose.dialog
  /\ \A s \in sent : s.id = s.dialog
  /\ \A p \in Forms : p[1] <= compose.dialog
  /\ \A p, q \in Forms : p[1] = q[1] => p[2] = q[2]
  /\ \A c \in Calls : SendFunction(call[c])
  /\ OneMessagePerDialog

\* The form of the page may be put away, but it stays the form of its dialog.
SameDialog ==
  compose'.id = compose.id /\ compose'.dialog = compose.dialog /\ compose'.key = compose.key

LEMMA SendStep ==
  ASSUME TypeOK, SendInv, SameDialog, UNCHANGED sent,
         \A c \in Calls : call'[c] = call[c] \/ SendFunction(call'[c])
  PROVE  SendInv'
<1>1. Forms' \subseteq Forms
  <2>1. ASSUME NEW c \in Calls, call'[c].at = "send"
        PROVE  <<call'[c].dialog, call'[c].key>> \in Forms
    BY <2>1 DEF Forms, SendFunction
  <2>2. <<compose'.dialog, compose'.key>> \in Forms
    BY DEF SameDialog, Forms
  <2>3. {<<s.dialog, s.key>> : s \in sent'} \subseteq Forms
    BY DEF Forms
  <2>. QED BY <2>1, <2>2, <2>3 DEF Forms
<1>2. ASSUME NEW c \in Calls PROVE SendFunction(call[c])'
  <2>1. SendFunction(call'[c])
    BY DEF SendInv
  <2>2. call'[c].at = "send" => <<call'[c].dialog, call'[c].key>> \in Forms'
    BY DEF Forms
  <2>. QED BY <2>1, <2>2 DEF SendFunction, SentFrom
<1>3. \A p \in Forms' : p[1] <= compose'.dialog
  BY <1>1 DEF SendInv, SameDialog
<1>4. \A p, q \in Forms' : p[1] = q[1] => p[2] = q[2]
  BY <1>1 DEF SendInv
<1>5. compose'.id = compose'.dialog
  BY DEF SendInv, SameDialog
<1>6. (\A s \in sent' : s.id = s.dialog) /\ OneMessagePerDialog'
  BY DEF SendInv, OneMessagePerDialog
<1>. QED BY <1>2, <1>3, <1>4, <1>5, <1>6 DEF SendInv

LEMMA StartSend ==
  ASSUME TypeOK, SendInv, SameDialog, UNCHANGED sent, NEW c \in Calls, NEW f,
         Start(c, f), SendFunction(f)
  PROVE  SendInv'
<1>1. \A d \in Calls : call'[d] = call[d] \/ SendFunction(call'[d])
  BY DEF Start, TypeOK
<1>. QED BY <1>1, SendStep

\* The functions that neither send nor wait for the outbox.
LEMMA Elsewise ==
  /\ \A f : f.at \notin {"send", "labels", "list"} => SendFunction(f)
  /\ \A pg, append, then : then.do # "leave" => /\ SendFunction(Load(pg, append, then))
                                               /\ SendFunction(LoadLabels(pg, then))
  /\ SendFunction(Free) /\ Nothing.do # "leave" /\ Searched.do # "leave"
  /\ \A t : Report(t).do # "leave"
  /\ \A m, t : Reopen(m, t).do # "leave"
BY DEF SendFunction, Load, LoadLabels, Free, Nothing, Searched, Report, Reopen

LEMMA SendClicks ==
  ASSUME TypeOK, SendInv, Clicks
  PROVE  SendInv'
<1>0. compose \in Dialog
  BY DEF TypeOK
<1>1. CASE SwitchMailbox \/ SwitchFolder \/ Search \/ Refresh \/ LoadMore
  <2>1. PICK c, pg, append, then, f :
          /\ c \in Calls /\ Start(c, f) /\ then \in {Nothing, Searched}
          /\ f \in {Load(pg, append, then), LoadLabels(pg, then)}
    <3>1. CASE SwitchMailbox
      BY <3>1, SwitchesMailbox
    <3>2. CASE SwitchFolder \/ Search
      BY <3>2, SwitchesView
    <3>3. CASE Refresh \/ LoadMore
      BY <3>3 DEF Refresh, LoadMore, Idle
    <3>. QED BY <1>1, <3>1, <3>2, <3>3
  <2>2. SendFunction(f)
    BY <2>1, Elsewise
  <2>3. SameDialog /\ UNCHANGED sent
    BY <1>1 DEF SwitchMailbox, SwitchFolder, Search, Refresh, LoadMore, SameDialog, server
  <2>. QED BY <2>1, <2>2, <2>3, StartSend
<1>2. CASE Open \/ PatchDetail \/ BulkPatch \/ Undo
  <2>1. PICK c, f : c \in Calls /\ Start(c, f) /\ f.at \notin {"send", "labels", "list"}
    <3>1. CASE Open
      BY <1>2, <3>1 DEF Open, Idle, Read
    <3>2. CASE PatchDetail
      BY <1>2, <3>2 DEF PatchDetail, Idle
    <3>3. CASE BulkPatch
      BY <1>2, <3>3 DEF BulkPatch, Idle, Chunks
    <3>4. CASE Undo /\ toast.kind = "one"
      BY <1>2, <3>4 DEF Undo, Idle
    <3>5. CASE Undo /\ toast.kind # "one"
      BY <1>2, <3>5 DEF Undo, Idle, Chunks
    <3>. QED BY <1>2, <3>1, <3>2, <3>3, <3>4, <3>5
  <2>2. SameDialog /\ UNCHANGED sent
    BY <1>2 DEF Open, PatchDetail, BulkPatch, Undo, SameDialog, server
  <2>. QED BY <2>1, <2>2, StartSend, Elsewise
<1>3. CASE Submit
  <2>. DEFINE f == [at |-> "send", id |-> compose.id, dialog |-> compose.dialog,
                    key |-> compose.key, reply |-> None]
  <2>1. PICK c \in Calls : Start(c, f)
    BY <1>3 DEF Submit, Idle
  <2>2. SendFunction(f)
    BY DEF SendFunction, SendInv, Forms
  <2>3. SameDialog /\ UNCHANGED sent
    BY <1>0, <1>3 DEF Submit, SameDialog, Dialog, server
  <2>. HIDE DEF f
  <2>. QED BY <2>1, <2>2, <2>3, StartSend
<1>4. CASE CloseDetail \/ Toggle \/ SelectAll \/ Type \/ CloseCompose \/ DiscardCompose
  <2>1. SameDialog /\ UNCHANGED <<sent, call>>
    BY <1>0, <1>4
    DEF CloseDetail, Toggle, SelectAll, Type, CloseCompose, DiscardCompose, SameDialog, Dialog,
        server
  <2>. QED BY <2>1, SendStep
<1>5. CASE OpenCompose
  <2>1. PICK k : compose'.id = compose.id + 1 /\ compose'.dialog = compose.dialog + 1
                 /\ compose'.key = k
    BY <1>0, <1>5 DEF OpenCompose, Dialog
  <2>2. UNCHANGED <<sent, call>>
    BY <1>5 DEF OpenCompose, server
  <2>3. Forms' \subseteq Forms \cup {<<compose.dialog + 1, k>>}
    BY <2>1, <2>2 DEF Forms
  <2>4. compose.dialog \in Nat
    BY <1>0 DEF Dialog
  <2>5. \A p \in Forms : p[1] \in Nat /\ p[1] <= compose.dialog
    <3>1. \A s \in sent : s.dialog \in Nat
      BY DEF TypeOK
    <3>2. \A c \in Calls : call[c].at = "send" => call[c].dialog \in Nat
      BY FunctionKinds DEF TypeOK
    <3>3. \A p \in Forms : p[1] \in Nat
      BY <2>4, <3>1, <3>2 DEF Forms
    <3>. QED BY <3>3 DEF SendInv
  <2>6. \A p \in Forms' : p[1] <= compose'.dialog
    BY <2>1, <2>3, <2>4, <2>5
  <2>7. \A p, q \in Forms' : p[1] = q[1] => p[2] = q[2]
    <3>1. \A p \in Forms : p[1] # compose.dialog + 1
      BY <2>4, <2>5
    <3>. QED BY <2>3, <3>1 DEF SendInv
  <2>8. ASSUME NEW c \in Calls PROVE SendFunction(call[c])'
    <3>1. SendFunction(call[c])
      BY DEF SendInv
    <3>2. call[c].at = "send" => <<call'[c].dialog, call'[c].key>> \in Forms'
      BY <2>2 DEF Forms
    <3>. QED BY <2>2, <3>1, <3>2 DEF SendFunction, SentFrom
  <2>9. compose'.id = compose'.dialog
    BY <2>1 DEF SendInv
  <2>. QED BY <2>2, <2>6, <2>7, <2>8, <2>9 DEF SendInv, OneMessagePerDialog
<1>6. CASE RemoveLabel \/ AddLabel \/ SaveLabels \/ RunRule
  <2>1. PICK c \in Calls, what \in What : Change(c, what)
    BY <1>6, ChangesLabels
  <2>. DEFINE f == [at |-> "change", mailbox |-> page.view.mailbox, what |-> what, reply |-> None]
  <2>2. Start(c, f) /\ f.at = "change"
    BY <2>1 DEF Change
  <2>3. SameDialog /\ UNCHANGED sent
    BY <1>6, ChangesLabels DEF SameDialog, server
  <2>. HIDE DEF f
  <2>. QED BY <2>2, <2>3, StartSend, Elsewise
<1>. QED BY <1>1, <1>2, <1>3, <1>4, <1>5, <1>6 DEF Clicks

LEMMA ReplySend ==
  ASSUME TypeOK, SendInv, SameDialog, UNCHANGED sent, NEW c \in Calls, NEW reply,
         Answer(c, reply), call[c].at = "send" => ~reply.ok
  PROVE  SendInv'
<1>0. SendFunction(call[c]) /\ call[c] \in Function
  BY DEF SendInv, TypeOK
<1>1. SendFunction([call[c] EXCEPT !.reply = reply])
  <2>1. CASE call[c].at \in {"labels", "list"}
    BY <1>0, <2>1, FunctionKinds DEF SendFunction
  <2>2. CASE call[c].at = "send"
    BY <1>0, <2>2, FunctionKinds DEF SendFunction
  <2>3. CASE call[c].at \notin {"labels", "list", "send"}
    <3>1. [call[c] EXCEPT !.reply = reply].at = call[c].at
      BY <1>0 DEF Function
    <3>. QED BY <2>3, <3>1, Elsewise
  <2>. QED BY <2>1, <2>2, <2>3
<1>. QED BY <1>1, Replied, SendStep

LEMMA SendApi ==
  ASSUME TypeOK, SendInv, NEW c \in Calls, Api(c) \/ Fails(c)
  PROVE  SendInv'
<1>0. call[c] \in Function
  BY DEF TypeOK
<1>1. CASE ServeList(c) \/ ServeRead(c) \/ ServePatch(c) \/ ServeChange(c) \/ Fails(c)
  <2>1. PICK reply : Answer(c, reply) /\ (call[c].at = "send" => ~reply.ok)
    BY <1>1 DEF ServeList, ServeRead, ServePatch, ServeChange, Fails, Unanswered
  <2>2. SameDialog /\ UNCHANGED sent
    BY <1>1 DEF ServeList, ServeRead, ServePatch, ServeChange, Fails, SameDialog, server
  <2>. QED BY <2>1, <2>2, ReplySend
<1>2. CASE ServeChunk(c)
  <2>1. call[c].at \in {"bulk", "undo"}
    BY <1>2 DEF ServeChunk, Unanswered
  <2>2. call[c] \in [at : {"bulk", "undo"}, ids : (SUBSET Messages) \ {{}},
                     todo : SUBSET Messages, chunk : SUBSET Messages, to : Live,
                     mailbox : Mailboxes, wrote : SUBSET Messages, reply : Maybe]
    BY <1>0, <2>1, FunctionKinds
  <2>3. call'[c].at \in {"bulk", "undo"} /\ \A d \in Calls : d # c => call'[d] = call[d]
    BY <1>2, <2>1, <2>2 DEF ServeChunk, Answer, TypeOK
  <2>4. SameDialog /\ UNCHANGED sent
    BY <1>2 DEF ServeChunk, SameDialog
  <2>. QED BY <2>3, <2>4, SendStep, Elsewise
<1>3. CASE ServeSend(c)
  <2>. DEFINE known == \E s \in sent : s.id = call[c].id /\ s.key.mailbox = call[c].key.mailbox
              new   == [id |-> call[c].id, dialog |-> call[c].dialog, key |-> call[c].key]
  <2>1. call[c] \in [at : {"send"}, id : Nat, dialog : Nat, key : Key, reply : Maybe]
    BY <1>0, <1>3, FunctionKinds DEF ServeSend, Unanswered
  <2>2. SendFunction(call[c]) /\ call[c].id = call[c].dialog
        /\ <<call[c].dialog, call[c].key>> \in Forms
    BY <2>1 DEF SendInv, SendFunction
  <2>3. CASE known
    <3>1. Answer(c, [ok |-> TRUE]) /\ UNCHANGED sent /\ SameDialog
      BY <1>3, <2>3 DEF ServeSend, SameDialog
    <3>2. SentFrom(call[c].dialog)
      BY <2>2, <2>3 DEF SendInv, SentFrom
    <3>3. SendFunction([call[c] EXCEPT !.reply = [ok |-> TRUE]])
      BY <2>1, <2>2, <3>2 DEF SendFunction
    <3>. QED BY <3>1, <3>3, Replied, SendStep
  <2>4. CASE ~known /\ ~Ours(call[c].key)
    <3>1. Answer(c, [ok |-> FALSE]) /\ UNCHANGED sent /\ SameDialog
      BY <1>3, <2>4 DEF ServeSend, SameDialog
    <3>. QED BY <3>1, ReplySend
  <2>5. CASE ~known /\ Ours(call[c].key)
    <3>1. sent' = sent \cup {new} /\ SameDialog /\ UNCHANGED compose
      BY <1>3, <2>5 DEF ServeSend, SameDialog
    <3>2. Answer(c, [ok |-> TRUE])
      BY <1>3, <2>5 DEF ServeSend
    <3>3. \A d \in Calls : /\ call'[d].at = call[d].at
                           /\ call[d].at = "send" => /\ call'[d].dialog = call[d].dialog
                                                     /\ call'[d].key = call[d].key
                                                     /\ call'[d].id = call[d].id
      <4>1. call'[c] = [call[c] EXCEPT !.reply = [ok |-> TRUE]]
        BY <3>2, Replied
      <4>2. \A d \in Calls : d # c => call'[d] = call[d]
        BY <3>2, Replied
      <4>. QED BY <2>1, <4>1, <4>2
    <3>4. Forms' \subseteq Forms
      <4>1. {<<s.dialog, s.key>> : s \in sent'} \subseteq Forms
        BY <2>2, <3>1 DEF Forms
      <4>. QED BY <3>1, <3>3, <4>1 DEF Forms
    <3>5. ASSUME NEW d \in Calls PROVE SendFunction(call[d])'
      <4>1. SendFunction(call[d])
        BY DEF SendInv
      <4>2. \A dialog : SentFrom(dialog) => SentFrom(dialog)'
        BY <3>1 DEF SentFrom
      <4>3. ASSUME NEW dialog, dialog = call[c].dialog PROVE SentFrom(dialog)'
        <5>1. new \in sent' /\ new.dialog = dialog
          BY <3>1, <4>3
        <5>. HIDE DEF new
        <5>. QED BY <5>1 DEF SentFrom
      <4>4. call'[d].at = "send" => <<call'[d].dialog, call'[d].key>> \in Forms'
        BY DEF Forms
      <4>5. d # c => call'[d] = call[d]
        BY <3>2, Replied
      <4>6. call'[c].at = "send" /\ call'[c].id = call'[c].dialog
            /\ call'[c].dialog = call[c].dialog
        BY <2>1, <2>2, <3>3
      <4>. QED BY <4>1, <4>2, <4>3, <4>4, <4>5, <4>6 DEF SendFunction
    <3>6. OneMessagePerDialog'
      <4>1. ASSUME NEW s \in sent, s.dialog = new.dialog PROVE FALSE
        <5>1. <<s.dialog, s.key>> \in Forms
          BY DEF Forms
        <5>2. s.key = call[c].key
          BY <2>2, <4>1, <5>1 DEF SendInv
        <5>3. s.id = call[c].id
          BY <2>2, <4>1 DEF SendInv
        <5>. QED BY <2>5, <5>2, <5>3
      <4>. HIDE DEF new
      <4>. QED BY <3>1, <4>1 DEF OneMessagePerDialog, SendInv
    <3>7. \A s \in sent' : s.id = s.dialog
      BY <2>2, <3>1 DEF SendInv
    <3>. QED BY <3>1, <3>4, <3>5, <3>6, <3>7 DEF SendInv
  <2>. QED BY <2>3, <2>4, <2>5
<1>. QED BY <1>1, <1>2, <1>3 DEF Api

LEMMA SendContinues ==
  ASSUME TypeOK, SendInv, NEW c \in Calls, Continues(c)
  PROVE  SendInv'
<1>0. compose \in Dialog
  BY DEF TypeOK
<1>1. CASE LabelsDone(c)
  <2>1. PICK pg, f : Start(c, f) /\ f \in {Free, Load(pg, FALSE, call[c].then)}
    BY <1>1 DEF LabelsDone
  <2>2. SendFunction(f)
    <3>1. call[c].then.do = "leave" => SentFrom(call[c].then.dialog)
      BY <1>1 DEF LabelsDone, Answered, SendInv, SendFunction
    <3>2. SendFunction(Load(pg, FALSE, call[c].then))
      BY <3>1 DEF Load, SendFunction
    <3>. QED BY <2>1, <3>2, Elsewise
  <2>3. SameDialog /\ UNCHANGED sent
    BY <1>1 DEF LabelsDone, SameDialog, server
  <2>. QED BY <2>1, <2>2, <2>3, StartSend
<1>2. CASE ListDone(c)
  <2>1. PICK f : Start(c, f) /\ f.at \notin {"send", "labels", "list"}
    <3>1. Free.at = "free" /\ \A m, t : Read(m, t).at = "detail"
      BY DEF Free, Read
    <3>2. Start(c, Free) \/ \E m, t : Start(c, Read(m, t))
      BY <1>2 DEF ListDone
    <3>. QED BY <3>1, <3>2
  <2>2. SameDialog /\ UNCHANGED sent
    BY <1>0, <1>2 DEF ListDone, SameDialog, server, Dialog
  <2>. QED BY <2>1, <2>2, StartSend, Elsewise
<1>3. CASE DetailDone(c)
  BY <1>3, StartSend, Elsewise DEF DetailDone, SameDialog, server
<1>4. CASE PatchDone(c)
  <2>. DEFINE then == Reopen(call[c].message, call[c].toast)
  <2>1. PICK f : Start(c, f) /\ f \in {Free, Load(page, FALSE, then)}
    BY <1>4 DEF PatchDone
  <2>2. then.do # "leave"
    BY Elsewise
  <2>. HIDE DEF then
  <2>3. SendFunction(f)
    BY <2>1, <2>2, Elsewise
  <2>4. SameDialog /\ UNCHANGED sent
    BY <1>4 DEF PatchDone, SameDialog, server
  <2>. QED BY <2>1, <2>3, <2>4, StartSend
<1>5. CASE ChunkDone(c)
  <2>1. SameDialog /\ UNCHANGED sent
    BY <1>5 DEF ChunkDone, SameDialog, server
  <2>2. PICK f : Start(c, f) /\ SendFunction(f)
    <3>1. CASE ~Ok(c)
      <4>1. Start(c, Free)
        BY <1>5, <3>1 DEF ChunkDone
      <4>. QED BY <4>1, Elsewise
    <3>2. CASE Ok(c) /\ call[c].todo # {}
      <4>. DEFINE f == Chunks(page, call[c].at, call[c].ids, call[c].todo, call[c].to,
                              call[c].wrote)
      <4>1. Start(c, f)
        BY <1>5, <3>2 DEF ChunkDone
      <4>2. f.at \in {"bulk", "undo"}
        BY <1>5 DEF Chunks, ChunkDone, Answered
      <4>. HIDE DEF f
      <4>. QED BY <4>1, <4>2, Elsewise
    <3>3. CASE Ok(c) /\ call[c].todo = {}
      <4>1. PICK pg, t : Start(c, Load(pg, FALSE, Report(t)))
        BY <1>5, <3>3 DEF ChunkDone
      <4>. QED BY <4>1, Elsewise
    <3>. QED BY <3>1, <3>2, <3>3
  <2>. QED BY <2>1, <2>2, StartSend
<1>6. CASE SendDone(c)
  <2>1. SameDialog /\ UNCHANGED sent
    BY <1>0, <1>6 DEF SendDone, SameDialog, server, Dialog
  <2>2. PICK f : Start(c, f) /\ SendFunction(f)
    <3>1. CASE Start(c, Free)
      BY <3>1, Elsewise
    <3>2. CASE ~Start(c, Free)
      <4>1. PICK pg : Ok(c) /\ Start(c, Load(pg, FALSE, Leave(call[c].dialog)))
        BY <1>6, <3>2 DEF SendDone
      <4>2. SentFrom(call[c].dialog)
        BY <1>6, <4>1 DEF SendDone, Answered, Ok, SendInv, SendFunction
      <4>3. SendFunction(Load(pg, FALSE, Leave(call[c].dialog)))
        BY <4>2 DEF SendFunction, Load, Leave
      <4>. QED BY <4>1, <4>3
    <3>. QED BY <3>1, <3>2
  <2>. QED BY <2>1, <2>2, StartSend
<1>7. CASE ChangeDone(c)
  <2>1. PICK then, f :
          then \in Then /\ Start(c, f) /\ f \in {LoadLabels(page, then), Free} /\ then.do # "leave"
    BY <1>7, ChangeLeads
  <2>2. SameDialog /\ UNCHANGED sent
    BY <1>7 DEF ChangeDone, SameDialog, server
  <2>. QED BY <2>1, <2>2, StartSend, Elsewise
<1>. QED BY <1>1, <1>2, <1>3, <1>4, <1>5, <1>6, <1>7 DEF Continues

LEMMA SendInitial == Init => SendInv
<1>. SUFFICES ASSUME Init PROVE SendInv
  OBVIOUS
<1>1. /\ sent = {} /\ compose = NoDialog
      /\ \A c \in Calls : call[c] \in {LoadLabels(Started, Nothing), Free}
  BY FirstCalls DEF Init
<1>3. \A c \in Calls : call[c].at # "send" /\ SendFunction(call[c])
  <2>1. LoadLabels(Started, Nothing).at = "labels" /\ Free.at = "free"
    BY DEF LoadLabels, Free
  <2>. QED BY <1>1, <2>1, Elsewise
<1>2. Forms = {<<0, None>>}
  BY <1>1, <1>3 DEF Forms, NoDialog
<1>. QED BY <1>1, <1>2, <1>3 DEF SendInv, OneMessagePerDialog, NoDialog

LEMMA SendNext == TypeOK /\ SendInv /\ [Next]_vars => SendInv'
<1>. SUFFICES ASSUME TypeOK, SendInv, [Next]_vars PROVE SendInv'
  OBVIOUS
<1>1. CASE UNCHANGED vars
  BY <1>1, SendStep DEF vars, server, SameDialog
<1>2. CASE Clicks
  BY <1>2, SendClicks
<1>3. CASE Autosave \/ Elsewhere
  BY <1>3, SendStep DEF Autosave, Elsewhere, server, SameDialog
<1>4. CASE Reload
  <2>1. SameDialog /\ UNCHANGED sent
    BY <1>4 DEF Reload, SameDialog, server, TypeOK, Dialog
  <2>2. \A c \in Calls : call'[c] \in {LoadLabels(Started, Nothing), Free}
    BY <1>4, FirstCalls DEF Reload
  <2>. QED BY <2>1, <2>2, SendStep, Elsewise
<1>5. CASE \E c \in Calls : Api(c) \/ Continues(c) \/ Fails(c)
  BY <1>5, SendApi, SendContinues
<1>. QED BY <1>1, <1>2, <1>3, <1>4, <1>5 DEF Next

-----------------------------------------------------------------------------
(* Drafts.  The stored draft of a closed dialog is the text of its form,   *)
(* and only the key of the form on the page is ever written.               *)

DraftInv ==
  /\ draft.key \in {None, compose.key}
  /\ compose.text \in {None, compose.key}
  /\ draft.timer => compose.open
  /\ ~compose.open /\ draft.key # None => storage[draft.key] = compose.text
  /\ DraftsAreScoped

\* DraftKept, of one step.
Keeps ==
  \A k \in Key :
    storage[k] # None /\ storage'[k] = None =>
      \/ compose.key = k /\ compose.open /\ compose.text = None
      \/ compose.key = k /\ compose.open /\ ~compose'.open /\ clicks' = clicks + 1
      \/ \E c \in Calls, s \in sent :
            /\ call'[c] = Free
            /\ \/ call[c].at = "send" /\ call[c].dialog = s.dialog
               \/ /\ call[c].at = "list" /\ call[c].then.do = "leave"
                  /\ call[c].then.dialog = s.dialog

DraftTypes ==
  /\ compose \in Dialog
  /\ draft \in [key : Key \cup {None}, timer : BOOLEAN]
  /\ storage \in [Key -> Key \cup {None}]

LEMMA TypedDrafts == TypeOK => DraftTypes
BY DEF TypeOK, DraftTypes

LEMMA DraftStay ==
  ASSUME TypeOK, DraftInv, UNCHANGED <<compose, drafts>>
  PROVE  DraftInv' /\ Keeps
BY DEF DraftInv, Keeps, drafts, DraftsAreScoped

\* saveNow and clear touch the draft of the form on the page, and no other.
LEMMA SaveScoped ==
  ASSUME DraftTypes, DraftInv, SaveNow
  PROVE  /\ DraftsAreScoped'
         /\ draft'.key = draft.key /\ ~draft'.timer
         /\ draft.key # None => storage'[draft.key] = compose.text
         /\ \A k \in Key : storage[k] # None /\ storage'[k] = None =>
              compose.key = k /\ compose.text = None
<1>1. draft'.key = draft.key /\ ~draft'.timer
  BY DEF SaveNow, DraftTypes
<1>2. CASE draft.key = None
  BY <1>1, <1>2 DEF SaveNow, DraftInv, DraftsAreScoped
<1>3. CASE draft.key # None
  <2>1. draft.key \in Key /\ storage' = [storage EXCEPT ![draft.key] = compose.text]
    BY <1>3 DEF SaveNow, DraftTypes
  <2>2. draft.key = compose.key
    BY <1>3 DEF DraftInv
  <2>. QED BY <1>1, <2>1, <2>2 DEF DraftTypes, DraftInv, DraftsAreScoped
<1>. QED BY <1>2, <1>3

LEMMA ClearScoped ==
  ASSUME DraftTypes, DraftInv, ClearDraft
  PROVE  /\ DraftsAreScoped'
         /\ draft'.key = None /\ ~draft'.timer
         /\ \A k \in Key : storage[k] # None /\ storage'[k] = None =>
              compose.key = k /\ draft.key # None
<1>1. draft'.key = None /\ ~draft'.timer
  BY DEF ClearDraft
<1>2. CASE draft.key = None
  BY <1>1, <1>2 DEF ClearDraft, DraftInv, DraftsAreScoped
<1>3. CASE draft.key # None
  <2>1. draft.key \in Key /\ storage' = [storage EXCEPT ![draft.key] = None]
    BY <1>3 DEF ClearDraft, DraftTypes
  <2>2. draft.key = compose.key
    BY <1>3 DEF DraftInv
  <2>. QED BY <1>1, <1>3, <2>1, <2>2 DEF DraftTypes, DraftInv, DraftsAreScoped
<1>. QED BY <1>2, <1>3

\* The end of a send that the server has accepted.
LEMMA SendEnds ==
  ASSUME TypeOK, DraftInv, ClearDraft, NEW c \in Calls, Start(c, Free),
         compose' = [compose EXCEPT !.open = FALSE, !.sending = FALSE],
         \/ call[c].at = "send" /\ SentFrom(call[c].dialog)
         \/ /\ call[c].at = "list" /\ call[c].then.do = "leave"
            /\ SentFrom(call[c].then.dialog)
  PROVE  DraftInv' /\ Keeps
<1>. USE TypedDrafts
<1>1. compose'.text = compose.text /\ compose'.key = compose.key
  BY DEF DraftTypes, Dialog
<1>2. DraftInv'
  BY <1>1, ClearScoped DEF DraftInv
<1>3. call'[c] = Free
  BY DEF Start, TypeOK
<1>. QED BY <1>2, <1>3 DEF Keeps, SentFrom

LEMMA DraftNext ==
  ASSUME TypeOK, SendInv, DraftInv, [Next]_vars
  PROVE  DraftInv' /\ Keeps
<1>. USE TypedDrafts, DraftStay
<1>0. DraftTypes
  OBVIOUS
<1>1. CASE UNCHANGED vars
  BY <1>1 DEF vars
<1>2. CASE \/ SwitchMailbox \/ SwitchFolder \/ Search \/ Refresh \/ LoadMore \/ Open
           \/ CloseDetail \/ PatchDetail \/ Toggle \/ SelectAll \/ BulkPatch \/ Undo
           \/ RemoveLabel \/ AddLabel \/ SaveLabels \/ RunRule \/ Elsewhere
  BY <1>2
  DEF SwitchMailbox, SwitchFolder, Search, Refresh, LoadMore, Open, CloseDetail, PatchDetail,
      Toggle, SelectAll, BulkPatch, Undo, RemoveLabel, AddLabel, SaveLabels, RunRule, Elsewhere
<1>3. CASE OpenCompose
  <2>1. PICK source \in {None} \cup ({page.detail} \cap Messages) :
          LET k == [mailbox |-> page.view.mailbox, source |-> source]
          IN  /\ compose' = [compose EXCEPT !.open = TRUE, !.id = @ + 1, !.dialog = @ + 1,
                                            !.key = k, !.text = Form(k)]
              /\ draft' = [key |-> k, timer |-> FALSE]
    BY <1>3 DEF OpenCompose
  <2>. DEFINE k == [mailbox |-> page.view.mailbox, source |-> source]
              text == Form(k)
  <2>2. k \in Key
    BY DEF Key, TypeOK, Page, View
  <2>3. text \in {None, k}
    BY <2>2 DEF Form, Prefilled, DraftInv, DraftsAreScoped
  <2>4. /\ compose' = [compose EXCEPT !.open = TRUE, !.id = @ + 1, !.dialog = @ + 1,
                                       !.key = k, !.text = text]
        /\ draft' = [key |-> k, timer |-> FALSE] /\ UNCHANGED storage
    BY <1>3, <2>1 DEF OpenCompose
  <2>. HIDE DEF text, k
  <2>5. compose'.open /\ compose'.key = k /\ compose'.text = text
    BY <1>0, <2>4 DEF DraftTypes, Dialog
  <2>. QED BY <2>3, <2>4, <2>5 DEF DraftInv, Keeps, DraftsAreScoped
<1>4. CASE Type
  <2>1. PICK text \in {compose.key, None} : compose' = [compose EXCEPT !.text = text]
    BY <1>4 DEF Type
  <2>2. compose'.open /\ compose'.key = compose.key /\ compose'.text = text
    BY <1>0, <1>4, <2>1 DEF Type, DraftTypes, Dialog
  <2>3. draft'.key = draft.key /\ UNCHANGED storage
    BY <1>0, <1>4 DEF Type, DraftTypes
  <2>. QED BY <2>2, <2>3 DEF DraftInv, Keeps, DraftsAreScoped
<1>5. CASE Autosave
  <2>1. compose.open /\ UNCHANGED compose /\ SaveNow
    BY <1>5 DEF Autosave, DraftInv
  <2>. QED BY <2>1, SaveScoped DEF DraftInv, Keeps
<1>6. CASE CloseCompose
  <2>1. compose.open /\ SaveNow /\ compose' = [compose EXCEPT !.open = FALSE]
    BY <1>6 DEF CloseCompose
  <2>2. compose'.key = compose.key /\ compose'.text = compose.text
    BY <1>0, <2>1 DEF DraftTypes, Dialog
  <2>. QED BY <2>1, <2>2, SaveScoped DEF DraftInv, Keeps
<1>7. CASE DiscardCompose
  <2>1. /\ compose.open /\ ClearDraft /\ clicks' = clicks + 1
        /\ compose' = [compose EXCEPT !.open = FALSE, !.text = None]
    BY <1>7 DEF DiscardCompose, Click
  <2>2. compose'.key = compose.key /\ compose'.text = None /\ ~compose'.open
    BY <1>0, <2>1 DEF DraftTypes, Dialog
  <2>. QED BY <2>1, <2>2, ClearScoped DEF DraftInv, Keeps
<1>8. CASE Submit
  <2>1. compose' = [compose EXCEPT !.sending = TRUE] /\ UNCHANGED drafts
    BY <1>8 DEF Submit
  <2>2. /\ compose'.key = compose.key /\ compose'.text = compose.text
        /\ compose'.open = compose.open
    BY <1>0, <2>1 DEF DraftTypes, Dialog
  <2>. QED BY <2>1, <2>2 DEF DraftInv, Keeps, drafts, DraftsAreScoped
<1>9. CASE Reload
  <2>1. compose' = [compose EXCEPT !.open = FALSE, !.text = None, !.sending = FALSE]
        /\ draft' = [key |-> None, timer |-> FALSE]
    BY <1>9 DEF Reload
  <2>2. compose'.text = None
    BY <1>0, <2>1 DEF DraftTypes, Dialog
  <2>3. CASE UNCHANGED storage
    BY <2>1, <2>2, <2>3 DEF DraftInv, Keeps, DraftsAreScoped
  <2>4. CASE draft.key # None /\ storage' = [storage EXCEPT ![draft.key] = compose.text]
    <3>1. draft.key \in Key /\ draft.key = compose.key
      BY <1>0, <2>4 DEF DraftTypes, DraftInv
    <3>2. DraftsAreScoped'
      BY <1>0, <2>4, <3>1 DEF DraftTypes, DraftInv, DraftsAreScoped
    <3>3. ASSUME NEW k \in Key, storage[k] # None, storage'[k] = None
          PROVE  compose.key = k /\ compose.open /\ compose.text = None
      <4>1. k = compose.key /\ compose.text = None
        BY <1>0, <2>4, <3>1, <3>3 DEF DraftTypes
      <4>2. compose.open
        BY <2>4, <3>1, <3>3, <4>1 DEF DraftInv
      <4>. QED BY <4>1, <4>2
    <3>. QED BY <2>1, <2>2, <3>2, <3>3 DEF DraftInv, Keeps
  <2>. QED BY <1>9, <2>3, <2>4 DEF Reload
<1>10. CASE \E c \in Calls : Api(c) \/ Fails(c) \/ LabelsDone(c) \/ DetailDone(c)
                            \/ PatchDone(c) \/ ChunkDone(c) \/ ChangeDone(c)
  BY <1>10
  DEF Api, ServeList, ServeRead, ServePatch, ServeChunk, ServeSend, ServeChange, Fails,
      LabelsDone, DetailDone, PatchDone, ChunkDone, ChangeDone
<1>11. CASE \E c \in Calls : ListDone(c)
  <2>1. PICK c \in Calls : ListDone(c)
    BY <1>11
  <2>2. CASE UNCHANGED <<compose, drafts>>
    BY <2>2
  <2>3. CASE ~UNCHANGED <<compose, drafts>>
    <3>1. /\ call[c].at = "list" /\ call[c].then.do = "leave" /\ Start(c, Free) /\ ClearDraft
          /\ compose' = [compose EXCEPT !.open = FALSE, !.sending = FALSE]
      BY <2>1, <2>3 DEF ListDone, Answered
    <3>2. SentFrom(call[c].then.dialog)
      BY <3>1 DEF SendInv, SendFunction
    <3>. QED BY <3>1, <3>2, SendEnds
  <2>. QED BY <2>2, <2>3
<1>12. CASE \E c \in Calls : SendDone(c)
  <2>1. PICK c \in Calls : SendDone(c)
    BY <1>12
  <2>2. CASE ~Ok(c) \/ page.view.folder # "outbox"
    <3>1. /\ compose'.text = compose.text /\ compose'.key = compose.key
          /\ compose'.open = compose.open /\ UNCHANGED drafts
      BY <1>0, <2>1, <2>2 DEF SendDone, DraftTypes, Dialog
    <3>. QED BY <3>1 DEF DraftInv, Keeps, drafts, DraftsAreScoped
  <2>3. CASE Ok(c) /\ page.view.folder = "outbox"
    <3>1. /\ call[c].at = "send" /\ call[c].reply # None /\ Start(c, Free) /\ ClearDraft
          /\ compose' = [compose EXCEPT !.open = FALSE, !.sending = FALSE]
      BY <2>1, <2>3 DEF SendDone, Answered
    <3>2. SentFrom(call[c].dialog)
      BY <2>3, <3>1 DEF SendInv, SendFunction, Ok
    <3>. QED BY <3>1, <3>2, SendEnds
  <2>. QED BY <2>2, <2>3
<1>. QED BY <1>1, <1>2, <1>3, <1>4, <1>5, <1>6, <1>7, <1>8, <1>9, <1>10, <1>11, <1>12
     DEF Next, Clicks, Continues

LEMMA DraftInitial == Init => DraftInv
BY DEF Init, DraftInv, NoDialog, DraftsAreScoped

-----------------------------------------------------------------------------
(* The theorems.                                                           *)

Inv == TypeOK /\ ViewInv /\ ReportInv /\ SendInv /\ DraftInv

\* All that is proved of a page together, for the action property too.
THEOREM Invariant == Spec => []Inv
<1>1. Init => Inv
  BY InitTyped, ViewInitial, ReportInitial, SendInitial, DraftInitial DEF Inv
<1>2. Inv /\ [Next]_vars => Inv'
  BY NextTyped, ViewNext, ReportNext, SendNext, DraftNext DEF Inv
<1>. QED BY <1>1, <1>2, PTL DEF Spec

\* Types: the state of the page, its calls, the dialog and what the server keeps.
THEOREM WebMailTypes == Spec => []TypeOK
<1>1. Inv => TypeOK
  BY DEF Inv
<1>. QED BY <1>1, Invariant, PTL

\* The list holds answers for what the page shows (revision of loadMessages in app.js).
THEOREM WebMailList == Spec => []ListIsOfView
<1>1. Inv => ListIsOfView
  BY DEF Inv, ViewInv, ListFine, ListIsOfView
<1>. QED BY <1>1, Invariant, PTL

\* The message in the detail pane is the selected one, or none is selected since loadLabels
\* dropped a label filter (selectedMessageId in app.js).
THEOREM WebMailDetail == Spec => []DetailIsSelected
<1>1. Inv => DetailIsSelected
  BY DEF Inv, ViewInv, DetailFine, DetailIsSelected
<1>. QED BY <1>1, Invariant, PTL

\* A bulk change that is reported was made to every message it names (bulk-controller.js).
THEOREM WebMailReports == Spec => []ReportedIsDone
<1>1. Inv => ReportedIsDone
  BY DEF Inv, ReportInv, Good, ReportedIsDone
<1>. QED BY <1>1, Invariant, PTL

\* A dialog sends at most one message (requestId of compose.js).
THEOREM WebMailSends == Spec => []OneMessagePerDialog
<1>1. Inv => OneMessagePerDialog
  BY DEF Inv, SendInv
<1>. QED BY <1>1, Invariant, PTL

\* A stored draft is of its own mailbox and source (compose-draft.js).
THEOREM WebMailDrafts == Spec => []DraftsAreScoped
<1>1. Inv => DraftsAreScoped
  BY DEF Inv, DraftInv
<1>. QED BY <1>1, Invariant, PTL

\* A draft goes only when it is emptied, discarded or sent (submitCompose).
THEOREM WebMailKeepsDrafts == Spec => DraftKept
<1>1. Inv /\ [Next]_vars => [Keeps]_vars
  BY DraftNext DEF Inv
<1>. QED BY <1>1, Invariant, PTL DEF Spec, DraftKept, Keeps

===============================================================================
