---------------------------- MODULE MailRulesProofs ----------------------------
(***************************************************************************)
(* Theorems about MailRules for all sets of messages, labels, definitions  *)
(* and requests and every value of the bounds.                             *)
(***************************************************************************)
EXTENDS MailRules, TLAPS

-----------------------------------------------------------------------------
(* Types.                                                                  *)

LEMMA DefinitionTypes ==
  \A a \in Definitions : a.star \in BOOLEAN /\ a.archive \in BOOLEAN /\ a.trash \in BOOLEAN
                         /\ a.labels \subseteq Labels
BY DomainAssumption DEF Action

LEMMA InboxTyped == Inbox \in Flags /\ Blank \in Snapshot /\ Inbox # Gone /\ Gone \notin Flags
BY DEF Inbox, Flags, Stamp, Blank, Snapshot, Gone

LEMMA NoRows ==
  /\ NoRun \notin RunRow /\ NoMatch \notin Marked /\ NoMatch \notin Detailed
  /\ NoRun.status = "absent"
BY DEF NoRun, RunRow, NoMatch, Marked, Detailed

LEMMA PresentFlags ==
  ASSUME TypeOK, NEW m \in Messages
  PROVE  /\ m \in Present <=> flags[m] \in Flags
         /\ m \in Present => State(m) \in Snapshot
<1>1. m \in Present <=> flags[m] \in Flags
  BY InboxTyped DEF TypeOK, Present
<1>. QED BY <1>1 DEF State, Snapshot, Carried

LEMMA StateAfterTyped ==
  ASSUME NEW before \in Snapshot, NEW a \in Definitions, NEW now \in Requests
  PROVE  StateAfter(before, a, now) \in Snapshot
<1>1. /\ before.flags.starred \in BOOLEAN /\ before.flags.archived \in BOOLEAN
      /\ before.flags.deleted \in Stamp /\ before.labels \subseteq Labels
  BY DEF Snapshot, Flags
<1>. QED BY <1>1, DefinitionTypes DEF StateAfter, Snapshot, Flags, Stamp

LEMMA IdleTyped == Idle \in Request /\ InPhase(Idle) /\ Idle.actions \in Definitions
<1>1. (CHOOSE a \in Definitions : TRUE) \in Definitions
  BY DomainAssumption
<1>. DEFINE first == CHOOSE a \in Definitions : TRUE
<1>. HIDE DEF first
<1>2. [pc |-> "idle", run |-> "preview", actions |-> first, revision |-> 0, seen |-> "absent",
       found |-> FALSE, todo |-> {}, at |-> Arrival, before |-> Blank] \in Request
  BY <1>1, InboxTyped, DomainAssumption, BoundsAssumption DEF Request, Run, first
<1>. QED BY <1>1, <1>2 DEF Idle, InPhase, first

LEMMA InitTyped == Init => TypeOK
<1>. SUFFICES ASSUME Init PROVE TypeOK
  OBVIOUS
<1>. USE IdleTyped
<1>1. /\ rule \in [live : BOOLEAN, revision : 0..MaxRevision, actions : Definitions,
                  existing : BOOLEAN, incoming : BOOLEAN]
      /\ ~rule.live
  BY BoundsAssumption DEF Init
<1>2. linked \subseteq labels /\ labels \subseteq Labels
  BY DEF Init
<1>3. maker \in [pc : {"check", "insert", "link", "done"}, actions : Definitions]
  BY DEF Init
<1>4. flags \in [Messages -> Flags \cup {Gone}]
  BY InboxTyped DEF Init
<1>5. owner \in [Messages -> [Labels -> {"none", "user", "rule"}]]
  BY DEF Init
<1>6. runs \in [Run -> RunRow \cup {NoRun}]
  BY DEF Init
<1>7. /\ matches \in [Run -> [Messages -> Marked \cup Detailed \cup {NoMatch}]]
      /\ \A r \in {"apply", "incoming"}, m \in Messages :
           matches[r][m] \in Detailed \cup {NoMatch}
  BY DEF Init, Run
<1>8. req \in [Requests -> Request] /\ \A p \in Requests : InPhase(req[p])
  BY DEF Init
<1>9. edited = {} /\ again = {} /\ edits \in 0..MaxEdits /\ faults \in 0..MaxFaults
  BY BoundsAssumption DEF Init
<1>. QED BY <1>1, <1>2, <1>3, <1>4, <1>5, <1>6, <1>7, <1>8, <1>9 DEF TypeOK

LEMMA EditTyped == TypeOK /\ Edit => edits' \in 0..MaxEdits
BY BoundsAssumption DEF TypeOK, Edit

\* A step of one request, which then is of the kind its next call needs.
RequestsOK == req \in [Requests -> Request] /\ \A p \in Requests : InPhase(req[p])

LEMMA RequestStep ==
  ASSUME TypeOK, NEW p \in Requests, NEW q, req' = [req EXCEPT ![p] = q],
         q \in Request, InPhase(q)
  PROVE  RequestsOK'
BY DEF TypeOK, RequestsOK

LEMMA GotoStep ==
  ASSUME TypeOK, NEW p \in Requests, End(p)
  PROVE  RequestsOK'
<1>. DEFINE q == [req[p] EXCEPT !.pc = "done"]
<1>1. req' = [req EXCEPT ![p] = q]
  BY DEF End, Goto, TypeOK
<1>2. q \in Request /\ q.pc = "done"
  <2>1. req[p] \in Request
    BY DEF TypeOK
  <2>. QED BY ONLY <2>1 DEF Request
<1>. HIDE DEF q
<1>. QED BY <1>1, <1>2, RequestStep DEF InPhase

LEMMA OwnersTyped ==
  ASSUME TypeOK, Owners
  PROVE  TypeOK'
<1>1. CASE CreateCheck
  <2>1. maker' \in [pc : {"check", "insert", "link", "done"}, actions : Definitions]
    BY <1>1 DEF CreateCheck
  <2>. QED BY <1>1, <2>1 DEF CreateCheck, TypeOK, mailbox, history
<1>2. CASE CreateInsert
  <2>1. maker.actions \in Definitions /\ 1 \in 0..MaxRevision
    BY BoundsAssumption DEF TypeOK
  <2>2. /\ rule' \in [live : BOOLEAN, revision : 0..MaxRevision, actions : Definitions,
                     existing : BOOLEAN, incoming : BOOLEAN]
        /\ rule'.revision > 0
    BY <1>2, <2>1 DEF CreateInsert
  <2>3. maker' \in [pc : {"check", "insert", "link", "done"}, actions : Definitions]
    BY <1>2 DEF CreateInsert, TypeOK
  <2>. QED BY <1>2, <2>2, <2>3 DEF CreateInsert, TypeOK, mailbox, history
<1>3. CASE CreateLink
  <2>1. linked' \subseteq labels
    BY <1>3 DEF CreateLink, TypeOK
  <2>2. maker' \in [pc : {"check", "insert", "link", "done"}, actions : Definitions]
    BY <1>3 DEF CreateLink, TypeOK
  <2>. QED BY <1>3, <2>1, <2>2 DEF CreateLink, TypeOK, mailbox, history
<1>4. CASE Patch
  <2>1. PICK a \in Definitions, existing \in BOOLEAN, incoming \in BOOLEAN :
          /\ a.labels \subseteq labels
          /\ rule' = [live |-> TRUE, revision |-> rule.revision + 1, actions |-> a,
                      existing |-> existing, incoming |-> incoming]
          /\ linked' = a.labels
    BY <1>4 DEF Patch
  <2>2. rule.revision + 1 \in 0..MaxRevision /\ rule.revision + 1 > 0
    BY <1>4, BoundsAssumption DEF Patch, TypeOK
  <2>3. /\ rule' \in [live : BOOLEAN, revision : 0..MaxRevision, actions : Definitions,
                     existing : BOOLEAN, incoming : BOOLEAN]
        /\ rule'.revision > 0
    BY <2>1, <2>2
  <2>. QED BY <1>4, <2>1, <2>3, EditTyped DEF Patch, TypeOK, mailbox, history
<1>5. CASE DeleteRule
  <2>1. /\ rule' \in [live : BOOLEAN, revision : 0..MaxRevision, actions : Definitions,
                     existing : BOOLEAN, incoming : BOOLEAN]
        /\ ~rule'.live
    BY <1>5 DEF DeleteRule, TypeOK
  <2>. QED BY <1>5, <2>1, EditTyped DEF DeleteRule, TypeOK, mailbox, history
<1>. QED BY <1>1, <1>2, <1>3, <1>4, <1>5 DEF Owners

LEMMA UsersTyped ==
  ASSUME TypeOK, Users
  PROVE  TypeOK'
<1>1. ASSUME NEW m \in Messages, SetFlag(m) PROVE TypeOK'
  <2>1. flags[m] \in Flags
    BY <1>1, PresentFlags DEF SetFlag
  <2>2. PICK f \in {[flags[m] EXCEPT !.starred = ~@], [flags[m] EXCEPT !.archived = ~@],
                    [flags[m] EXCEPT !.deleted = ByUser], [flags[m] EXCEPT !.deleted = Never]} :
          flags' = [flags EXCEPT ![m] = f]
    BY <1>1 DEF SetFlag
  <2>3. f \in Flags
    BY <2>1 DEF Flags, Stamp
  <2>4. flags' \in [Messages -> Flags \cup {Gone}]
    BY <2>2, <2>3 DEF TypeOK
  <2>. QED BY <1>1, <2>4, EditTyped DEF SetFlag, TypeOK
<1>2. ASSUME NEW m \in Messages, ReplaceLabels(m) PROVE TypeOK'
  <2>1. owner' \in [Messages -> [Labels -> {"none", "user", "rule"}]]
    BY <1>2 DEF ReplaceLabels, TypeOK
  <2>. QED BY <1>2, <2>1, EditTyped DEF ReplaceLabels, TypeOK
<1>3. ASSUME NEW m \in Messages, RemoveMessage(m) PROVE TypeOK'
  <2>1. /\ flags' \in [Messages -> Flags \cup {Gone}]
        /\ owner' \in [Messages -> [Labels -> {"none", "user", "rule"}]]
    BY <1>3 DEF RemoveMessage, TypeOK
  <2>2. runs' \in [Run -> RunRow \cup {NoRun}]
    BY <1>3 DEF RemoveMessage, TypeOK
  <2>3. /\ matches' \in [Run -> [Messages -> Marked \cup Detailed \cup {NoMatch}]]
        /\ \A r \in {"apply", "incoming"}, n \in Messages :
             matches'[r][n] \in Detailed \cup {NoMatch}
    BY <1>3 DEF RemoveMessage, TypeOK, Run
  <2>. QED BY <1>3, <2>1, <2>2, <2>3, EditTyped DEF RemoveMessage, TypeOK, history
<1>4. ASSUME NEW l \in Labels, DeleteLabel(l) PROVE TypeOK'
  <2>1. owner' \in [Messages -> [Labels -> {"none", "user", "rule"}]]
    BY <1>4 DEF DeleteLabel, TypeOK
  <2>2. linked \subseteq labels'
    BY <1>4 DEF DeleteLabel, TypeOK
  <2>. QED BY <1>4, <2>1, <2>2, EditTyped DEF DeleteLabel, TypeOK
<1>. QED BY <1>1, <1>2, <1>3, <1>4 DEF Users

\* The steps that change nothing but what one request knows.
LEMMA ReadsTyped ==
  ASSUME TypeOK, NEW p \in Requests,
         \/ PreviewRead(p) \/ ReadMessage(p) \/ ApplyStart(p) \/ List(p) \/ UndoStart(p)
         \/ UndoRead(p) \/ Deliver(p) \/ WriteFails(p)
  PROVE  TypeOK'
<1>0. req[p] \in Request /\ InPhase(req[p])
  BY DEF TypeOK
<1>1. RequestsOK'
  <2>1. CASE PreviewRead(p)
    <3>. DEFINE q == [req[p] EXCEPT !.pc = "freeze", !.actions = rule.actions,
                                    !.revision = rule.revision]
    <3>1. req' = [req EXCEPT ![p] = q]
      BY <2>1 DEF PreviewRead, TypeOK
    <3>2. rule.actions \in Definitions /\ rule.revision \in 0..MaxRevision /\ rule.revision > 0
      BY <2>1 DEF PreviewRead, TypeOK
    <3>3. q \in Request
      BY <1>0, <3>2 DEF Request
    <3>4. q.pc = "freeze" /\ q.run = "preview" /\ q.revision = rule.revision
      BY <1>0, <2>1 DEF PreviewRead, At, Request, InPhase
    <3>5. InPhase(q)
      <4>. HIDE DEF q
      <4>. QED BY <3>2, <3>4 DEF InPhase
    <3>. QED BY <3>1, <3>3, <3>5, RequestStep
  <2>2. CASE ReadMessage(p)
    <3>1. PICK m \in req[p].todo :
            IF m \in Present
              THEN req' = [req EXCEPT ![p].pc = "write", ![p].at = m, ![p].before = State(m)]
              ELSE req' = [req EXCEPT ![p].todo = @ \ {m}]
      BY <2>2 DEF ReadMessage
    <3>2. m \in Messages /\ req[p].run \in {"apply", "incoming"} /\ req[p].pc = "loop"
          /\ req[p].revision > 0
      BY <1>0, <2>2 DEF ReadMessage, At, Request, InPhase
    <3>3. CASE m \in Present
      <4>. DEFINE q == [req[p] EXCEPT !.pc = "write", !.at = m, !.before = State(m)]
      <4>1. req' = [req EXCEPT ![p] = q]
        BY <3>1, <3>3 DEF TypeOK
      <4>2. State(m) \in Snapshot
        BY <3>2, <3>3, PresentFlags
      <4>3. q \in Request
        BY <1>0, <3>2, <4>2 DEF Request
      <4>4. /\ q.pc = "write" /\ q.run = req[p].run /\ q.revision = req[p].revision
            /\ q.at = m /\ m \in q.todo
        BY <1>0, <3>1 DEF Request
      <4>5. InPhase(q)
        <5>. HIDE DEF q
        <5>. QED BY <3>2, <4>4 DEF InPhase
      <4>. QED BY <4>1, <4>3, <4>5, RequestStep
    <3>4. CASE m \notin Present
      <4>. DEFINE q == [req[p] EXCEPT !.todo = @ \ {m}]
      <4>1. req' = [req EXCEPT ![p] = q]
        BY <3>1, <3>4 DEF TypeOK
      <4>2. q \in Request /\ InPhase(q)
        BY <1>0, <3>2 DEF Request, InPhase
      <4>. QED BY <4>1, <4>2, RequestStep
    <3>. QED BY <3>3, <3>4
  <2>3. CASE ApplyStart(p)
    <3>. DEFINE row == runs["preview"]
                pc == IF runs["apply"].status = "completed" THEN "done" ELSE "check"
                found == runs["apply"] # NoRun
                q == [req[p] EXCEPT !.run = "apply", !.seen = row.status, !.actions = row.actions,
                                    !.revision = row.revision, !.found = found, !.pc = pc]
    <3>1. req' = [req EXCEPT ![p] = q]
      BY <2>3 DEF ApplyStart, TypeOK
    <3>2. row \in RunRow
      BY <2>3 DEF ApplyStart, TypeOK, Run
    <3>3. /\ row.status \in {"running", "ready", "completed", "applied", "blocked", "undone"}
          /\ row.actions \in Definitions /\ row.revision \in 0..MaxRevision /\ row.revision > 0
      BY <3>2 DEF RunRow
    <3>4. pc \in {"check", "done"} /\ found \in BOOLEAN
      OBVIOUS
    <3>. HIDE DEF row, pc, found
    <3>5. q \in Request
      <4>1. "apply" \in Run
        BY DEF Run
      <4>. QED BY ONLY <1>0, <3>3, <3>4, <4>1 DEF Request
    <3>6. q.pc = pc /\ q.run = "apply" /\ q.revision = row.revision
      BY <1>0 DEF Request
    <3>7. InPhase(q)
      <4>. HIDE DEF q
      <4>. QED BY <3>3, <3>4, <3>6 DEF InPhase
    <3>. QED BY <3>1, <3>5, <3>7, RequestStep
  <2>4. CASE List(p)
    <3>. DEFINE pc == IF req[p].run \in {"apply", "incoming"} THEN "loop" ELSE "undo"
                q == [req[p] EXCEPT !.todo = Listed(p), !.pc = pc]
    <3>1. req' = [req EXCEPT ![p] = q]
      BY <2>4 DEF List, TypeOK
    <3>2. Listed(p) \in SUBSET Messages
      BY DomainAssumption DEF Listed, Recorded
    <3>3. req[p].run \in Run \ {"preview"} /\ req[p].revision > 0
      BY <1>0, <2>4 DEF List, At, InPhase, Request
    <3>4. q \in Request /\ InPhase(q)
      BY <1>0, <3>2, <3>3 DEF Request, InPhase, Run, Undoing
    <3>. QED BY <3>1, <3>4, RequestStep
  <2>5. CASE UndoStart(p)
    <3>1. PICK r \in Undoing :
            LET source == runs[SourceOf[r]]
            IN /\ source # NoRun
               /\ req' = [req EXCEPT ![p] = [@ EXCEPT !.run = r, !.found = runs[r] # NoRun,
                            !.actions = source.actions, !.revision = source.revision,
                            !.pc = IF runs[r].status # "completed" /\ source.status = "completed"
                                     THEN "create" ELSE "done"]]
      BY <2>5 DEF UndoStart, Undoing
    <3>. DEFINE row == runs[SourceOf[r]]
                pc == IF runs[r].status # "completed" /\ row.status = "completed"
                        THEN "create" ELSE "done"
                found == runs[r] # NoRun
                q == [req[p] EXCEPT !.run = r, !.found = found, !.actions = row.actions,
                                    !.revision = row.revision, !.pc = pc]
    <3>2. req' = [req EXCEPT ![p] = q]
      BY <3>1 DEF TypeOK
    <3>3. row \in RunRow
      <4>1. SourceOf[r] \in Run
        BY DEF SourceOf, Run, Undoing
      <4>. QED BY <3>1, <4>1 DEF TypeOK
    <3>4. row.actions \in Definitions /\ row.revision \in 0..MaxRevision /\ row.revision > 0
      BY <3>3 DEF RunRow
    <3>5. pc \in {"create", "done"} /\ found \in BOOLEAN
      OBVIOUS
    <3>. HIDE DEF row, pc, found
    <3>6. q \in Request /\ InPhase(q)
      BY <1>0, <3>4, <3>5 DEF Request, InPhase, Run, Undoing
    <3>. QED BY <3>2, <3>6, RequestStep
  <2>6. CASE UndoRead(p)
    <3>1. PICK m \in req[p].todo :
            IF m \in Present
              THEN req' = [req EXCEPT ![p].pc = "restore", ![p].at = m]
              ELSE req' = [req EXCEPT ![p].todo = @ \ {m}]
      BY <2>6 DEF UndoRead
    <3>2. m \in Messages /\ req[p].run \in Undoing /\ req[p].pc = "undo" /\ req[p].revision > 0
      BY <1>0, <2>6 DEF UndoRead, At, Request, InPhase
    <3>3. CASE m \in Present
      <4>. DEFINE q == [req[p] EXCEPT !.pc = "restore", !.at = m]
      <4>1. req' = [req EXCEPT ![p] = q]
        BY <3>1, <3>3 DEF TypeOK
      <4>2. q \in Request /\ InPhase(q)
        BY <1>0, <3>2 DEF Request, InPhase
      <4>. QED BY <4>1, <4>2, RequestStep
    <3>4. CASE m \notin Present
      <4>. DEFINE q == [req[p] EXCEPT !.todo = @ \ {m}]
      <4>1. req' = [req EXCEPT ![p] = q]
        BY <3>1, <3>4 DEF TypeOK
      <4>2. q \in Request /\ InPhase(q)
        BY <1>0, <3>2 DEF Request, InPhase
      <4>. QED BY <4>1, <4>2, RequestStep
    <3>. QED BY <3>3, <3>4
  <2>7. CASE Deliver(p)
    <3>. DEFINE q == [req[p] EXCEPT !.run = "incoming", !.actions = rule.actions,
                                    !.revision = rule.revision, !.pc = "receipt"]
    <3>1. req' = [req EXCEPT ![p] = q]
      BY <2>7 DEF Deliver, TypeOK
    <3>2. rule.actions \in Definitions /\ rule.revision \in 0..MaxRevision /\ rule.revision > 0
      BY <2>7 DEF Deliver, TypeOK
    <3>3. q \in Request /\ InPhase(q)
      BY <1>0, <3>2 DEF Request, InPhase, Run
    <3>. QED BY <3>1, <3>3, RequestStep
  <2>8. CASE WriteFails(p)
    BY <2>8, GotoStep DEF WriteFails
  <2>. QED BY <2>1, <2>2, <2>3, <2>4, <2>5, <2>6, <2>7, <2>8
<1>2. UNCHANGED <<rule, linked, maker, mailbox, runs, matches, history, edits, faults>>
  BY DEF PreviewRead, ReadMessage, ApplyStart, List, UndoStart, UndoRead, Deliver, WriteFails
<1>. QED BY <1>1, <1>2 DEF TypeOK, RequestsOK, mailbox, history

LEMMA PreviewTyped ==
  ASSUME TypeOK, NEW p \in Requests, PreviewFreeze(p)
  PROVE  TypeOK'
<1>1. req[p] \in Request /\ req[p].revision > 0
  BY DEF TypeOK, PreviewFreeze, At, InPhase
<1>2. [status |-> "ready", actions |-> req[p].actions, revision |-> req[p].revision] \in RunRow
  BY <1>1 DEF Request, RunRow
<1>3. runs' \in [Run -> RunRow \cup {NoRun}]
  BY <1>2 DEF PreviewFreeze, TypeOK
<1>4. PICK S \in SUBSET Messages :
        matches' = [matches EXCEPT !["preview"] = [m \in Messages |->
                      IF m \in S THEN [recorded |-> TRUE] ELSE NoMatch]]
  BY DEF PreviewFreeze, Matching, Present
<1>5. /\ matches' \in [Run -> [Messages -> Marked \cup Detailed \cup {NoMatch}]]
      /\ \A r \in {"apply", "incoming"} : matches'[r] = matches[r]
  BY <1>4 DEF TypeOK, Marked, Run
<1>6. RequestsOK'
  BY GotoStep DEF PreviewFreeze
<1>. QED BY <1>3, <1>5, <1>6 DEF PreviewFreeze, TypeOK, RequestsOK, mailbox, history

LEMMA WriteTyped ==
  ASSUME TypeOK, NEW p \in Requests, WriteMessage(p)
  PROVE  TypeOK'
<1>. DEFINE m == req[p].at
            r == req[p].run
            after == StateAfter(req[p].before, req[p].actions, p)
<1>1. req[p] \in Request /\ InPhase(req[p]) /\ req[p].pc = "write"
  BY DEF TypeOK, WriteMessage, At
<1>2. /\ m \in Messages /\ r \in {"apply", "incoming"} /\ req[p].actions \in Definitions
      /\ req[p].before \in Snapshot /\ req[p].revision > 0
  BY <1>1 DEF Request, InPhase
<1>3. after \in Snapshot /\ after.flags \in Flags
  BY <1>2, StateAfterTyped DEF Snapshot
<1>. HIDE DEF after
<1>4. flags' \in [Messages -> Flags \cup {Gone}]
  <2>1. flags[m] \in Flags
    BY <1>2, PresentFlags DEF WriteMessage
  <2>2. Written(p).flags \in Flags
    BY <1>3, <2>1 DEF Written, after
  <2>. QED BY <2>2 DEF WriteMessage, TypeOK
<1>5. owner' \in [Messages -> [Labels -> {"none", "user", "rule"}]]
  <2>1. Written(p).owner \in [Labels -> {"none", "user", "rule"}]
    BY <1>2 DEF Written, TypeOK
  <2>. QED BY <2>1 DEF WriteMessage, TypeOK
<1>6. /\ matches' \in [Run -> [Messages -> Marked \cup Detailed \cup {NoMatch}]]
      /\ \A q \in {"apply", "incoming"}, n \in Messages :
           matches'[q][n] \in Detailed \cup {NoMatch}
  <2>. DEFINE row == [recorded |-> TRUE, actions |-> req[p].actions, before |-> req[p].before,
                      after |-> after]
  <2>1. row \in Detailed
    BY <1>2, <1>3 DEF Detailed
  <2>. HIDE DEF row
  <2>2. matches' = [matches EXCEPT ![r][m] = IF @ # NoMatch THEN @ ELSE row]
    BY DEF WriteMessage, Record, after, row
  <2>3. r \in Run
    BY <1>2 DEF Run
  <2>4. \A q \in Run, n \in Messages : matches'[q][n] \in {matches[q][n], row}
    BY <2>2, <2>3, <1>2 DEF TypeOK
  <2>5. matches' \in [Run -> [Messages -> Marked \cup Detailed \cup {NoMatch}]]
    BY <1>2, <2>1, <2>2, <2>3 DEF TypeOK
  <2>6. \A q \in {"apply", "incoming"}, n \in Messages :
          matches'[q][n] \in Detailed \cup {NoMatch}
    <3>1. \A q \in {"apply", "incoming"}, n \in Messages : matches[q][n] \in Detailed \cup {NoMatch}
      BY DEF TypeOK
    <3>2. {"apply", "incoming"} \subseteq Run
      BY DEF Run
    <3>. QED BY ONLY <2>1, <2>4, <3>1, <3>2
  <2>. QED BY <2>5, <2>6
<1>7. again' \subseteq Run \X Messages
  BY <1>2 DEF WriteMessage, TypeOK, Run
<1>8. RequestsOK'
  <2>. DEFINE q == [req[p] EXCEPT !.pc = "loop", !.todo = @ \ {m}]
  <2>1. req' = [req EXCEPT ![p] = q]
    BY DEF WriteMessage, TypeOK
  <2>2. q \in Request /\ InPhase(q)
    BY <1>1, <1>2 DEF Request, InPhase
  <2>. QED BY <2>1, <2>2, RequestStep
<1>. QED BY <1>4, <1>5, <1>6, <1>7, <1>8 DEF WriteMessage, TypeOK, RequestsOK

LEMMA RunsTyped ==
  ASSUME TypeOK, NEW p \in Requests, ApplyCheck(p) \/ Derive(p) \/ Receipt(p) \/ Finish(p),
         req[p].run = "apply" => runs["preview"] # NoRun
  PROVE  TypeOK'
<1>0. req[p] \in Request /\ InPhase(req[p]) /\ End(p) => RequestsOK'
  BY GotoStep
<1>a. req[p] \in Request /\ InPhase(req[p])
  BY DEF TypeOK
<1>1. runs' \in [Run -> RunRow \cup {NoRun}] /\ RequestsOK'
  <2>1. CASE ApplyCheck(p)
    <3>1. req[p].run = "apply" /\ req[p].revision > 0
      BY <1>a, <2>1 DEF ApplyCheck, At, InPhase
    <3>2. RequestsOK'
      <4>1. CASE Current(p)
        <5>. DEFINE q == [req[p] EXCEPT !.pc = "create"]
        <5>1. req' = [req EXCEPT ![p] = q]
          BY <2>1, <4>1 DEF ApplyCheck, Goto, TypeOK
        <5>2. q \in Request /\ InPhase(q)
          BY <1>a, <3>1 DEF Request, InPhase
        <5>. QED BY <5>1, <5>2, RequestStep
      <4>2. CASE ~Current(p)
        BY <1>0, <1>a, <2>1, <4>2 DEF ApplyCheck
      <4>. QED BY <4>1, <4>2
    <3>3. runs' \in [Run -> RunRow \cup {NoRun}]
      <4>1. runs["preview"] \in RunRow
        BY <2>1, <3>1 DEF ApplyCheck, TypeOK, Run
      <4>2. [runs["preview"] EXCEPT !.status = "blocked"] \in RunRow
        BY <4>1 DEF RunRow
      <4>3. runs' \in {runs, [runs EXCEPT !["preview"] =
                                [runs["preview"] EXCEPT !.status = "blocked"]]}
        BY <2>1 DEF ApplyCheck, TypeOK
      <4>. QED BY <4>2, <4>3 DEF TypeOK
    <3>. QED BY <3>2, <3>3
  <2>2. CASE Derive(p)
    <3>1. req[p].run \in {"apply"} \cup Undoing /\ req[p].revision > 0
      BY <1>a, <2>2 DEF Derive, At, InPhase
    <3>2. RequestsOK'
      <4>1. CASE Goto(p, "list")
        <5>. DEFINE q == [req[p] EXCEPT !.pc = "list"]
        <5>1. req' = [req EXCEPT ![p] = q]
          BY <4>1 DEF Goto, TypeOK
        <5>2. q \in Request /\ InPhase(q)
          BY <1>a, <3>1 DEF Request, InPhase, Undoing
        <5>. QED BY <5>1, <5>2, RequestStep
      <4>2. CASE ~Goto(p, "list")
        BY <1>0, <1>a, <2>2, <4>2 DEF Derive
      <4>. QED BY <4>1, <4>2
    <3>3. [status |-> "running", actions |-> req[p].actions, revision |-> req[p].revision]
          \in RunRow
      BY <1>a, <3>1 DEF Request, RunRow
    <3>4. runs' \in [Run -> RunRow \cup {NoRun}]
      BY <2>2, <3>3 DEF Derive, TypeOK
    <3>. QED BY <3>2, <3>4
  <2>3. CASE Receipt(p)
    <3>1. req[p].run = "incoming" /\ req[p].revision > 0
      BY <1>a, <2>3 DEF Receipt, At, InPhase
    <3>2. RequestsOK'
      <4>1. CASE Goto(p, "list")
        <5>. DEFINE q == [req[p] EXCEPT !.pc = "list"]
        <5>1. req' = [req EXCEPT ![p] = q]
          BY <4>1 DEF Goto, TypeOK
        <5>2. q \in Request /\ InPhase(q)
          BY <1>a, <3>1 DEF Request, InPhase
        <5>. QED BY <5>1, <5>2, RequestStep
      <4>2. CASE ~Goto(p, "list")
        BY <1>0, <1>a, <2>3, <4>2 DEF Receipt
      <4>. QED BY <4>1, <4>2
    <3>3. [status |-> "running", actions |-> req[p].actions, revision |-> req[p].revision]
          \in RunRow
      BY <1>a, <3>1 DEF Request, RunRow
    <3>4. runs' \in [Run -> RunRow \cup {NoRun}]
      BY <2>3, <3>3 DEF Receipt, TypeOK
    <3>. QED BY <3>2, <3>4
  <2>4. CASE Finish(p)
    <3>1. \A row \in RunRow, status \in {"completed", "applied", "undone"} :
            [row EXCEPT !.status = status] \in RunRow
      BY DEF RunRow
    <3>2. \A q \in Run : runs[q] # NoRun => runs[q] \in RunRow
      BY DEF TypeOK
    <3>3. runs' \in [Run -> RunRow \cup {NoRun}]
      BY <2>4, <3>1, <3>2 DEF Finish
    <3>. QED BY <1>0, <1>a, <2>4, <3>3 DEF Finish
  <2>. QED BY <2>1, <2>2, <2>3, <2>4
<1>2. UNCHANGED <<rule, linked, maker, mailbox, matches, history, edits, faults>>
  BY DEF ApplyCheck, Derive, Receipt, Finish
<1>. QED BY <1>1, <1>2 DEF TypeOK, RequestsOK, mailbox, history

LEMMA RestoreTyped ==
  ASSUME TypeOK, NEW p \in Requests, RestoreMessage(p),
         matches[SourceOf[req[p].run]][req[p].at] # NoMatch
  PROVE  TypeOK'
<1>. DEFINE m == req[p].at
            r == req[p].run
            done == matches[SourceOf[r]][m]
<1>1. req[p] \in Request /\ InPhase(req[p]) /\ req[p].pc = "restore"
  BY DEF TypeOK, RestoreMessage, At
<1>2. m \in Messages /\ r \in Undoing /\ req[p].revision > 0
  BY <1>1 DEF Request, InPhase
<1>3. done \in Detailed
  <2>1. SourceOf[r] \in {"apply", "incoming"}
    BY <1>2 DEF Undoing, SourceOf, Run
  <2>. QED BY <1>2, <2>1 DEF TypeOK
<1>4. done.before.flags \in Flags /\ done.after.flags \in Flags
  BY <1>3 DEF Detailed, Snapshot
<1>5. flags' \in [Messages -> Flags \cup {Gone}]
  <2>1. flags[m] \in Flags
    BY <1>2, PresentFlags DEF RestoreMessage
  <2>2. RestoreFlags(flags[m], done.before.flags, done.after.flags) \in Flags
    <3>. HIDE DEF done
    <3>. QED BY <1>4, <2>1 DEF RestoreFlags, Restored, Flags
  <2>3. flags' = [flags EXCEPT ![m] =
                    IF done.actions.star \/ done.actions.archive \/ done.actions.trash
                      THEN RestoreFlags(flags[m], done.before.flags, done.after.flags)
                      ELSE flags[m]]
    BY DEF RestoreMessage
  <2>. HIDE DEF done
  <2>. QED BY <2>1, <2>2, <2>3 DEF TypeOK
<1>6. owner' \in [Messages -> [Labels -> {"none", "user", "rule"}]]
  <2>1. \A gone : \A o \in [Labels -> {"none", "user", "rule"}] :
          RestoreOwner(o, gone) \in [Labels -> {"none", "user", "rule"}]
    BY DEF RestoreOwner
  <2>2. PICK gone : owner' = [owner EXCEPT ![m] = RestoreOwner(owner[m], gone)]
    BY DEF RestoreMessage
  <2>. QED BY <1>2, <2>1, <2>2 DEF TypeOK
<1>7. /\ matches' \in [Run -> [Messages -> Marked \cup Detailed \cup {NoMatch}]]
      /\ \A q \in {"apply", "incoming"} : matches'[q] = matches[q]
  <2>1. r \in Run \ {"apply", "incoming"}
    BY <1>2 DEF Undoing, Run
  <2>2. [recorded |-> TRUE] \in Marked
    BY DEF Marked
  <2>3. matches' = [matches EXCEPT ![r][m] = [recorded |-> TRUE]]
    BY DEF RestoreMessage
  <2>. QED BY <1>2, <2>1, <2>2, <2>3 DEF TypeOK, Run
<1>8. RequestsOK'
  <2>. DEFINE q == [req[p] EXCEPT !.pc = "undo", !.todo = @ \ {m}]
  <2>1. req' = [req EXCEPT ![p] = q]
    BY DEF RestoreMessage, TypeOK
  <2>2. q \in Request /\ InPhase(q)
    BY <1>1, <1>2 DEF Request, InPhase
  <2>. QED BY <2>1, <2>2, RequestStep
<1>. QED BY <1>5, <1>6, <1>7, <1>8 DEF RestoreMessage, TypeOK, RequestsOK, history

LEMMA DeathsTyped ==
  ASSUME TypeOK, MakerDies \/ \E p \in Requests : Dies(p)
  PROVE  TypeOK'
<1>1. CASE MakerDies
  <2>1. maker' \in [pc : {"check", "insert", "link", "done"}, actions : Definitions]
    BY <1>1 DEF MakerDies, TypeOK
  <2>. QED BY <1>1, <2>1, BoundsAssumption DEF MakerDies, TypeOK, mailbox, history
<1>2. ASSUME NEW p \in Requests, Dies(p) PROVE TypeOK'
  <2>1. RequestsOK'
    BY <1>2, GotoStep DEF Dies
  <2>. QED BY <1>2, <2>1, BoundsAssumption DEF Dies, TypeOK, RequestsOK, mailbox, history
<1>. QED BY <1>1, <1>2

-----------------------------------------------------------------------------
(* Runs and their messages.  A run works on what its source has recorded,  *)
(* an incoming run on the arrival.  What it has recorded is part of that,  *)
(* and what it has not is what its requests have still to do.              *)

Work(r) == IF r = "incoming" THEN {Arrival} \cap Present ELSE Recorded(SourceOf[r])

Covered(r) == Work(r) \subseteq Recorded(r)

Derived == Run \ {"preview"}
Working == {"loop", "write", "undo", "restore"}

RunsInv ==
  /\ runs["preview"] = NoRun => /\ Recorded("preview") = {}
                                /\ runs["apply"] = NoRun /\ runs["undo_apply"] = NoRun
  /\ runs["incoming"] # NoRun => Arrival \in Present
  /\ \A r \in Derived : runs[r].status \in Completed => Covered(r)
  /\ \A r \in Undoing : runs[r] # NoRun => Covered(SourceOf[r])

RecordsInv ==
  /\ \A r \in Run : Recorded(r) \subseteq Present
  /\ \A r \in Derived : Recorded(r) \subseteq Work(r)
  /\ \A m \in Recorded("apply") : matches["apply"][m].actions = runs["preview"].actions

RequestInv(q) ==
  /\ q.run \in {"apply", "undo_apply"} => runs["preview"] # NoRun
  /\ q.run = "apply" => q.actions = runs["preview"].actions
  /\ q.pc \in Working => /\ q.todo \cap Present \subseteq Work(q.run)
                         /\ Work(q.run) \subseteq q.todo \cup Recorded(q.run)
  /\ q.pc \in {"create", "list", "undo", "restore"} /\ q.run \in Undoing =>
       Covered(SourceOf[q.run])

RuleInv == RunsInv /\ RecordsInv /\ \A p \in Requests : RequestInv(req[p])

LEMMA Sources ==
  /\ \A r \in Derived : SourceOf[r] \in Run
  /\ \A r \in Undoing : SourceOf[r] \in {"apply", "incoming"} /\ r \in Derived
  /\ SourceOf["apply"] = "preview" /\ SourceOf["undo_apply"] = "apply"
  /\ SourceOf["undo_incoming"] = "incoming"
  /\ {"apply", "incoming"} \subseteq Derived /\ "preview" \in Run /\ Derived \subseteq Run
BY DEF SourceOf, Derived, Undoing, Run

LEMMA WorkIsPresent == RecordsInv => \A r \in Derived : Work(r) \subseteq Present
BY Sources DEF RecordsInv, Work

\* Steps that record nothing: the runs and the requests may go on.
LEMMA RecordsKept ==
  ASSUME TypeOK, RuleInv, UNCHANGED matches, Present' = Present,
         runs["preview"] # NoRun =>
           runs'["preview"] # NoRun /\ runs'["preview"].actions = runs["preview"].actions,
         runs'["preview"] = NoRun => runs'["apply"] = NoRun /\ runs'["undo_apply"] = NoRun,
         runs'["incoming"] # NoRun => Arrival \in Present,
         \A r \in Derived : runs'[r].status \in Completed => Covered(r),
         \A r \in Undoing : runs'[r] # NoRun => Covered(SourceOf[r]),
         \A p \in Requests : RequestInv(req'[p])
  PROVE  RuleInv'
<1>1. \A r : Recorded(r)' = Recorded(r)
  BY DEF Recorded
<1>2. \A r : Work(r)' = Work(r)
  BY <1>1 DEF Work
<1>3. \A r : Covered(r)' <=> Covered(r)
  BY <1>1, <1>2 DEF Covered
<1>4. RunsInv'
  BY <1>1, <1>3 DEF RuleInv, RunsInv
<1>5. RecordsInv'
  <2>1. runs["preview"] = NoRun => Recorded("apply") = {}
    BY Sources DEF RuleInv, RunsInv, RecordsInv, Work
  <2>2. \A m \in Recorded("apply") : matches["apply"][m].actions = runs'["preview"].actions
    BY <2>1 DEF RuleInv, RecordsInv
  <2>. QED BY <1>1, <1>2, <2>2 DEF RuleInv, RecordsInv
<1>6. ASSUME NEW p \in Requests PROVE RequestInv(req[p])'
  BY <1>1, <1>2, <1>3 DEF RequestInv
<1>. QED BY <1>4, <1>5, <1>6 DEF RuleInv

\* The commonest of them: one request goes on, the runs stay.
LEMMA RequestKept ==
  ASSUME TypeOK, RuleInv, UNCHANGED <<matches, runs>>, Present' = Present,
         NEW p \in Requests, NEW q, req' = [req EXCEPT ![p] = q], RequestInv(q)
  PROVE  RuleInv'
<1>1. \A o \in Requests : RequestInv(req'[o])
  BY DEF TypeOK, RuleInv
<1>. QED BY <1>1, RecordsKept DEF RuleInv, RunsInv

LEMMA EndKept ==
  ASSUME TypeOK, RuleInv, NEW p \in Requests, End(p)
  PROVE  \A o \in Requests : RequestInv(req'[o])
<1>1. /\ req'[p] = [req[p] EXCEPT !.pc = "done"]
      /\ \A o \in Requests : o # p => req'[o] = req[o]
  BY DEF End, Goto, TypeOK
<1>2. req[p] \in Request /\ RequestInv(req[p])
  BY DEF TypeOK, RuleInv
<1>3. /\ req'[p].pc = "done" /\ req'[p].run = req[p].run /\ req'[p].actions = req[p].actions
  BY <1>1, <1>2 DEF Request
<1>4. RequestInv(req'[p])
  BY <1>2, <1>3 DEF RequestInv, Working
<1>. QED BY <1>1, <1>4 DEF RuleInv

LEMMA PresentStays ==
  ASSUME TypeOK, TypeOK', UNCHANGED flags PROVE Present' = Present
BY DEF Present

LEMMA OwnersKept ==
  ASSUME TypeOK, RuleInv, Owners \/ MakerDies PROVE RuleInv'
<1>1. UNCHANGED <<matches, runs, req, flags>>
  BY DEF Owners, CreateCheck, CreateInsert, CreateLink, Patch, DeleteRule, MakerDies, mailbox
<1>2. Present' = Present
  BY <1>1 DEF Present
<1>. QED BY <1>1, <1>2, RecordsKept DEF RuleInv, RunsInv

LEMMA UsersKept ==
  ASSUME TypeOK, RuleInv, Users PROVE RuleInv'
<1>1. ASSUME NEW m \in Messages, SetFlag(m) PROVE RuleInv'
  <2>1. UNCHANGED <<matches, runs, req>>
    BY <1>1 DEF SetFlag
  <2>2. Present' = Present
    <3>1. flags[m] \in Flags /\ m \in Present
      BY <1>1, PresentFlags DEF SetFlag
    <3>2. PICK f \in {[flags[m] EXCEPT !.starred = ~@], [flags[m] EXCEPT !.archived = ~@],
                      [flags[m] EXCEPT !.deleted = ByUser], [flags[m] EXCEPT !.deleted = Never]} :
            flags' = [flags EXCEPT ![m] = f]
      BY <1>1 DEF SetFlag
    <3>3. f \in Flags
      BY <3>1, <3>2 DEF Flags, Stamp
    <3>. QED BY <3>1, <3>2, <3>3, InboxTyped DEF Present, TypeOK
  <2>. QED BY <2>1, <2>2, RecordsKept DEF RuleInv, RunsInv
<1>2. ASSUME NEW m \in Messages, ReplaceLabels(m) PROVE RuleInv'
  BY <1>2, RecordsKept DEF ReplaceLabels, RuleInv, RunsInv, Present
<1>3. ASSUME NEW l \in Labels, DeleteLabel(l) PROVE RuleInv'
  BY <1>3, RecordsKept DEF DeleteLabel, RuleInv, RunsInv, Present
<1>4. ASSUME NEW m \in Messages, RemoveMessage(m) PROVE RuleInv'
  <2>1. Present' = Present \ {m}
    BY <1>4, InboxTyped DEF RemoveMessage, Present, TypeOK
  <2>2. \A r \in Run : Recorded(r)' = Recorded(r) \ {m}
    <3>1. m = Arrival => Recorded("incoming") \subseteq {m}
      BY Sources DEF RuleInv, RecordsInv, Work
    <3>2. \A r \in Run, n \in Messages :
            matches'[r][n] = IF n = m \/ (r = "incoming" /\ m = Arrival) THEN NoMatch
                             ELSE matches[r][n]
      BY <1>4 DEF RemoveMessage
    <3>3. ASSUME NEW r \in Run, NEW n \in Messages
          PROVE  matches'[r][n] # NoMatch <=> n \in Recorded(r) \ {m}
      BY <3>1, <3>2 DEF Recorded
    <3>. QED BY <3>3 DEF Recorded
  <2>3. \A r \in Derived : Work(r)' = Work(r) \ {m}
    BY <2>1, <2>2, Sources DEF Work
  <2>4. \A r \in Derived : Covered(r) => Covered(r)'
    BY <2>2, <2>3, Sources DEF Covered
  <2>5. /\ \A r \in Run \ {"incoming"} : runs'[r] = runs[r]
        /\ runs'["incoming"] \in {runs["incoming"], NoRun}
        /\ m = Arrival => runs'["incoming"] = NoRun
    BY <1>4 DEF RemoveMessage, TypeOK, Run
  <2>6. RunsInv'
    <3>1. \A r \in Derived : runs'[r].status \in Completed => Covered(r)'
      BY <2>4, <2>5, Sources, NoRows DEF RuleInv, RunsInv, Completed
    <3>2. \A r \in Undoing : runs'[r] # NoRun => Covered(SourceOf[r])'
      BY <2>4, <2>5, Sources DEF RuleInv, RunsInv, Undoing
    <3>3. runs'["preview"] = NoRun =>
            /\ Recorded("preview")' = {}
            /\ runs'["apply"] = NoRun /\ runs'["undo_apply"] = NoRun
      BY <2>2, <2>5 DEF RuleInv, RunsInv, Run
    <3>4. runs'["incoming"] # NoRun => Arrival \in Present'
      BY <2>1, <2>5 DEF RuleInv, RunsInv
    <3>. QED BY <3>1, <3>2, <3>3, <3>4 DEF RunsInv
  <2>7. RecordsInv'
    <3>1. \A n \in Recorded("apply")' : matches'["apply"][n] = matches["apply"][n]
      BY <1>4 DEF RemoveMessage, Recorded, Run
    <3>2. \A n \in Recorded("apply")' : matches'["apply"][n].actions = runs'["preview"].actions
      BY <2>2, <2>5, <3>1 DEF RuleInv, RecordsInv, Run
    <3>. QED BY <2>1, <2>2, <2>3, <3>2, Sources DEF RuleInv, RecordsInv
  <2>8. ASSUME NEW p \in Requests PROVE RequestInv(req[p])'
    <3>1. req'[p] = req[p] /\ RequestInv(req[p]) /\ req[p].run \in Run
      BY <1>4 DEF RemoveMessage, RuleInv, TypeOK, Request
    <3>2. runs'["preview"] = runs["preview"]
      BY <2>5 DEF Run
    <3>3. req[p].pc \in Working => req[p].run \in Derived
      BY DEF TypeOK, InPhase, Working, Derived, Run, Undoing
    <3>4. req[p].run \in Undoing => (Covered(SourceOf[req[p].run]) => Covered(SourceOf[req[p].run])')
      BY <2>4, <3>1, Sources
    <3>. QED BY <2>1, <2>2, <2>3, <3>1, <3>2, <3>3, <3>4 DEF RequestInv
  <2>. QED BY <2>6, <2>7, <2>8 DEF RuleInv
<1>. QED BY <1>1, <1>2, <1>3, <1>4 DEF Users

\* The calls of a request that only read.
LEMMA ReadsKept ==
  ASSUME TypeOK, RuleInv, NEW p \in Requests,
         \/ PreviewRead(p) \/ ReadMessage(p) \/ ApplyStart(p) \/ List(p) \/ UndoStart(p)
         \/ UndoRead(p) \/ Deliver(p) \/ WriteFails(p)
  PROVE  RuleInv'
<1>0. req[p] \in Request /\ InPhase(req[p]) /\ RequestInv(req[p])
  BY DEF TypeOK, RuleInv
<1>1. UNCHANGED <<matches, runs>> /\ Present' = Present
  BY DEF PreviewRead, ReadMessage, ApplyStart, List, UndoStart, UndoRead, Deliver, WriteFails,
         mailbox, Present
<1>2. CASE PreviewRead(p)
  <2>. DEFINE q == [req[p] EXCEPT !.pc = "freeze", !.actions = rule.actions,
                                  !.revision = rule.revision]
  <2>1. req' = [req EXCEPT ![p] = q]
    BY <1>2 DEF PreviewRead, TypeOK
  <2>2. q.pc = "freeze" /\ q.run = "preview"
    BY <1>0, <1>2 DEF PreviewRead, At, Request, InPhase
  <2>3. RequestInv(q)
    <3>. HIDE DEF q
    <3>. QED BY <2>2 DEF RequestInv, Working, Undoing
  <2>. QED BY <1>1, <2>1, <2>3, RequestKept
<1>3. CASE ReadMessage(p)
  <2>1. PICK m \in req[p].todo :
          IF m \in Present
            THEN req' = [req EXCEPT ![p].pc = "write", ![p].at = m, ![p].before = State(m)]
            ELSE req' = [req EXCEPT ![p].todo = @ \ {m}]
    BY <1>3 DEF ReadMessage
  <2>2. req[p].pc = "loop" /\ req[p].run \in {"apply", "incoming"}
    BY <1>0, <1>3 DEF ReadMessage, At, InPhase
  <2>3. CASE m \in Present
    <3>. DEFINE q == [req[p] EXCEPT !.pc = "write", !.at = m, !.before = State(m)]
    <3>1. req' = [req EXCEPT ![p] = q]
      BY <2>1, <2>3 DEF TypeOK
    <3>2. /\ q.pc = "write" /\ q.run = req[p].run /\ q.actions = req[p].actions
          /\ q.todo = req[p].todo
      BY <1>0 DEF Request
    <3>3. RequestInv(q)
      <4>. HIDE DEF q
      <4>. QED BY <1>0, <2>2, <3>2 DEF RequestInv, Working, Undoing
    <3>. QED BY <1>1, <3>1, <3>3, RequestKept
  <2>4. CASE m \notin Present
    <3>. DEFINE q == [req[p] EXCEPT !.todo = @ \ {m}]
    <3>1. req' = [req EXCEPT ![p] = q]
      BY <2>1, <2>4 DEF TypeOK
    <3>2. /\ q.pc = req[p].pc /\ q.run = req[p].run /\ q.actions = req[p].actions
          /\ q.todo = req[p].todo \ {m}
      BY <1>0 DEF Request
    <3>3. Work(req[p].run) \subseteq Present
      BY <2>2, Sources, WorkIsPresent DEF RuleInv
    <3>4. RequestInv(q)
      <4>. HIDE DEF q
      <4>. QED BY <1>0, <2>2, <2>4, <3>2, <3>3 DEF RequestInv, Working, Undoing
    <3>. QED BY <1>1, <3>1, <3>4, RequestKept
  <2>. QED BY <2>3, <2>4
<1>4. CASE ApplyStart(p)
  <2>. DEFINE row == runs["preview"]
              pc == IF runs["apply"].status = "completed" THEN "done" ELSE "check"
              found == runs["apply"] # NoRun
              q == [req[p] EXCEPT !.run = "apply", !.seen = row.status, !.actions = row.actions,
                                  !.revision = row.revision, !.found = found, !.pc = pc]
  <2>1. req' = [req EXCEPT ![p] = q]
    BY <1>4 DEF ApplyStart, TypeOK
  <2>2. pc \in {"check", "done"} /\ row # NoRun
    BY <1>4 DEF ApplyStart
  <2>3. q.pc = pc /\ q.run = "apply" /\ q.actions = runs["preview"].actions
    <3>. HIDE DEF pc, found
    <3>. QED BY <1>0 DEF Request
  <2>4. RequestInv(q)
    <3>1. runs["preview"] # NoRun
      BY <2>2
    <3>. HIDE DEF q, pc
    <3>. QED BY <2>2, <2>3, <3>1 DEF RequestInv, Working
  <2>. QED BY <1>1, <2>1, <2>4, RequestKept
<1>5. CASE List(p)
  <2>. DEFINE pc == IF req[p].run \in {"apply", "incoming"} THEN "loop" ELSE "undo"
              q == [req[p] EXCEPT !.todo = Listed(p), !.pc = pc]
  <2>1. req' = [req EXCEPT ![p] = q]
    BY <1>5 DEF List, TypeOK
  <2>2. /\ q.pc = pc /\ q.run = req[p].run /\ q.actions = req[p].actions /\ q.todo = Listed(p)
        /\ req[p].pc = "list" /\ req[p].run \in Derived
    BY <1>0, <1>5 DEF List, At, InPhase, Request, Derived
  <2>3. /\ Listed(p) \cap Present \subseteq Work(req[p].run)
        /\ Work(req[p].run) \subseteq Listed(p) \cup Recorded(req[p].run)
    BY DEF Listed, Work
  <2>4. RequestInv(q)
    <3>1. pc \in {"loop", "undo"}
      OBVIOUS
    <3>. HIDE DEF q, pc
    <3>. QED BY <1>0, <2>2, <2>3, <3>1 DEF RequestInv
  <2>. QED BY <1>1, <2>1, <2>4, RequestKept
<1>6. CASE UndoStart(p)
  <2>1. PICK r \in Undoing :
          LET source == runs[SourceOf[r]]
          IN /\ source # NoRun
             /\ req' = [req EXCEPT ![p] = [@ EXCEPT !.run = r, !.found = runs[r] # NoRun,
                          !.actions = source.actions, !.revision = source.revision,
                          !.pc = IF runs[r].status # "completed" /\ source.status = "completed"
                                   THEN "create" ELSE "done"]]
    BY <1>6 DEF UndoStart, Undoing
  <2>. DEFINE row == runs[SourceOf[r]]
              pc == IF runs[r].status # "completed" /\ row.status = "completed"
                      THEN "create" ELSE "done"
              found == runs[r] # NoRun
              q == [req[p] EXCEPT !.run = r, !.found = found, !.actions = row.actions,
                                  !.revision = row.revision, !.pc = pc]
  <2>2. req' = [req EXCEPT ![p] = q]
    BY <2>1 DEF TypeOK
  <2>3. q.pc = pc /\ q.run = r
    <3>. HIDE DEF pc, found, row
    <3>. QED BY <1>0 DEF Request
  <2>4. pc \in {"create", "done"} /\ (pc = "create" => Covered(SourceOf[r]))
    BY Sources DEF RuleInv, RunsInv, Completed
  <2>5. r = "undo_apply" => runs["preview"] # NoRun
    BY <2>1, Sources DEF RuleInv, RunsInv
  <2>6. RequestInv(q)
    <3>. HIDE DEF q, pc
    <3>. QED BY <2>3, <2>4, <2>5 DEF RequestInv, Working, Undoing
  <2>. QED BY <1>1, <2>2, <2>6, RequestKept
<1>7. CASE UndoRead(p)
  <2>1. PICK m \in req[p].todo :
          IF m \in Present
            THEN req' = [req EXCEPT ![p].pc = "restore", ![p].at = m]
            ELSE req' = [req EXCEPT ![p].todo = @ \ {m}]
    BY <1>7 DEF UndoRead
  <2>2. req[p].pc = "undo" /\ req[p].run \in Undoing
    BY <1>0, <1>7 DEF UndoRead, At, InPhase
  <2>3. CASE m \in Present
    <3>. DEFINE q == [req[p] EXCEPT !.pc = "restore", !.at = m]
    <3>1. req' = [req EXCEPT ![p] = q]
      BY <2>1, <2>3 DEF TypeOK
    <3>2. /\ q.pc = "restore" /\ q.run = req[p].run /\ q.actions = req[p].actions
          /\ q.todo = req[p].todo
      BY <1>0 DEF Request
    <3>3. RequestInv(q)
      <4>. HIDE DEF q
      <4>. QED BY <1>0, <2>2, <3>2 DEF RequestInv, Working
    <3>. QED BY <1>1, <3>1, <3>3, RequestKept
  <2>4. CASE m \notin Present
    <3>. DEFINE q == [req[p] EXCEPT !.todo = @ \ {m}]
    <3>1. req' = [req EXCEPT ![p] = q]
      BY <2>1, <2>4 DEF TypeOK
    <3>2. /\ q.pc = req[p].pc /\ q.run = req[p].run /\ q.actions = req[p].actions
          /\ q.todo = req[p].todo \ {m}
      BY <1>0 DEF Request
    <3>3. Work(req[p].run) \subseteq Present
      BY <2>2, Sources, WorkIsPresent DEF RuleInv
    <3>4. RequestInv(q)
      <4>. HIDE DEF q
      <4>. QED BY <1>0, <2>2, <2>4, <3>2, <3>3 DEF RequestInv, Working
    <3>. QED BY <1>1, <3>1, <3>4, RequestKept
  <2>. QED BY <2>3, <2>4
<1>8. CASE Deliver(p)
  <2>. DEFINE q == [req[p] EXCEPT !.run = "incoming", !.actions = rule.actions,
                                  !.revision = rule.revision, !.pc = "receipt"]
  <2>1. req' = [req EXCEPT ![p] = q]
    BY <1>8 DEF Deliver, TypeOK
  <2>2. q.pc = "receipt" /\ q.run = "incoming"
    BY <1>0 DEF Request
  <2>3. RequestInv(q)
    <3>. HIDE DEF q
    <3>. QED BY <2>2 DEF RequestInv, Working
  <2>. QED BY <1>1, <2>1, <2>3, RequestKept
<1>9. CASE WriteFails(p)
  <2>1. \A o \in Requests : RequestInv(req'[o])
    BY <1>9, EndKept DEF WriteFails
  <2>. QED BY <1>1, <2>1, RecordsKept DEF RuleInv, RunsInv
<1>. QED BY <1>2, <1>3, <1>4, <1>5, <1>6, <1>7, <1>8, <1>9

LEMMA DiesKept ==
  ASSUME TypeOK, RuleInv, NEW p \in Requests, Dies(p)
  PROVE  RuleInv'
<1>1. UNCHANGED <<matches, runs>> /\ Present' = Present
  BY DEF Dies, mailbox, Present
<1>2. \A o \in Requests : RequestInv(req'[o])
  BY EndKept DEF Dies
<1>. QED BY <1>1, <1>2, RecordsKept DEF RuleInv, RunsInv

\* A derived run that becomes a row, and its request goes on to list its messages.
LEMMA RunMade ==
  ASSUME TypeOK, RuleInv, UNCHANGED matches, Present' = Present,
         NEW p \in Requests, End(p) \/ Goto(p, "list"),
         req[p].run \in Undoing => Covered(SourceOf[req[p].run]),
         NEW r \in Derived, NEW row, runs' = [runs EXCEPT ![r] = row],
         row.status = "running",
         r \in {"apply", "undo_apply"} => runs["preview"] # NoRun,
         r = "incoming" => Arrival \in Present,
         r \in Undoing => Covered(SourceOf[r])
  PROVE  RuleInv'
<1>1. /\ \A s \in Run \ {r} : runs'[s] = runs[s]
      /\ runs'[r] = row
  BY Sources DEF TypeOK
<1>2. \A o \in Requests : RequestInv(req'[o])
  <2>1. CASE End(p)
    BY <2>1, EndKept
  <2>2. CASE Goto(p, "list")
    <3>1. /\ req'[p] = [req[p] EXCEPT !.pc = "list"]
          /\ \A o \in Requests : o # p => req'[o] = req[o]
      BY <2>2 DEF Goto, TypeOK
    <3>2. /\ req'[p].pc = "list" /\ req'[p].run = req[p].run
          /\ req'[p].actions = req[p].actions
      BY <3>1 DEF TypeOK, Request
    <3>3. RequestInv(req'[p])
      BY <3>2 DEF RequestInv, Working, RuleInv
    <3>. QED BY <3>1, <3>3 DEF RuleInv
  <2>. QED BY <2>1, <2>2
<1>3. runs'["preview"] = runs["preview"]
  BY <1>1, Sources DEF Derived
<1>4. runs["preview"] = NoRun => runs'["apply"] = NoRun /\ runs'["undo_apply"] = NoRun
  BY <1>1, Sources DEF RuleInv, RunsInv, Derived, Undoing, Run
<1>5. runs'["incoming"] # NoRun => Arrival \in Present
  BY <1>1 DEF RuleInv, RunsInv, Run
<1>6. \A s \in Derived : runs'[s].status \in Completed => Covered(s)
  BY <1>1, Sources DEF RuleInv, RunsInv, Completed
<1>7. \A s \in Undoing : runs'[s] # NoRun => Covered(SourceOf[s])
  BY <1>1, Sources DEF RuleInv, RunsInv
<1>. QED BY <1>2, <1>3, <1>4, <1>5, <1>6, <1>7, RecordsKept

\* A request that leaves the runs as they are.
LEMMA RunsStay ==
  ASSUME TypeOK, RuleInv, UNCHANGED <<matches, runs>>, Present' = Present,
         NEW p \in Requests, End(p) \/ Goto(p, "list") \/ Goto(p, "create"),
         req[p].run \in Undoing => Covered(SourceOf[req[p].run])
  PROVE  RuleInv'
<1>1. CASE End(p)
  BY <1>1, EndKept, RecordsKept DEF RuleInv, RunsInv
<1>2. ASSUME NEW pc \in {"list", "create"}, Goto(p, pc) PROVE RuleInv'
  <2>. DEFINE q == [req[p] EXCEPT !.pc = pc]
  <2>1. req' = [req EXCEPT ![p] = q]
    BY <1>2 DEF Goto, TypeOK
  <2>2. q.pc = pc /\ q.run = req[p].run /\ q.actions = req[p].actions
    BY DEF TypeOK, Request
  <2>3. RequestInv(q)
    <3>. HIDE DEF q
    <3>. QED BY <1>2, <2>2 DEF RequestInv, Working, RuleInv
  <2>. QED BY <2>1, <2>3, RequestKept
<1>. QED BY <1>1, <1>2

\* The calls that make and change runs.
LEMMA RunsKept ==
  ASSUME TypeOK, RuleInv, NEW p \in Requests,
         ApplyCheck(p) \/ Derive(p) \/ Receipt(p) \/ Finish(p)
  PROVE  RuleInv'
<1>0. req[p] \in Request /\ InPhase(req[p]) /\ RequestInv(req[p])
  BY DEF TypeOK, RuleInv
<1>1. UNCHANGED matches /\ Present' = Present
  BY DEF ApplyCheck, Derive, Receipt, Finish, mailbox, Present
<1>2. CASE ApplyCheck(p)
  <2>1. req[p].run = "apply" /\ runs["preview"] # NoRun
    BY <1>0, <1>2 DEF ApplyCheck, At, InPhase, RequestInv
  <2>2. CASE UNCHANGED runs
    <3>1. End(p) \/ Goto(p, "create")
      BY <1>2 DEF ApplyCheck
    <3>. QED BY <1>1, <2>1, <2>2, <3>1, RunsStay DEF Undoing
  <2>3. CASE ~UNCHANGED runs
    <3>1. End(p) /\ runs' = [runs EXCEPT !["preview"].status = "blocked"]
      BY <1>2, <2>3 DEF ApplyCheck
    <3>2. runs["preview"] \in RunRow
      BY <2>1, Sources DEF TypeOK
    <3>3. /\ runs'["preview"] = [runs["preview"] EXCEPT !.status = "blocked"]
          /\ \A r \in Derived : runs'[r] = runs[r]
      BY <3>1, Sources DEF TypeOK, Derived
    <3>4. /\ runs'["preview"].actions = runs["preview"].actions
          /\ runs'["preview"].status = "blocked"
      BY <3>2, <3>3 DEF RunRow
    <3>5. runs'["preview"] # NoRun
      BY <3>4, NoRows
    <3>6. \A o \in Requests : RequestInv(req'[o])
      BY <3>1, EndKept
    <3>. QED BY <1>1, <3>3, <3>4, <3>5, <3>6, Sources, RecordsKept DEF RuleInv, RunsInv
  <2>. QED BY <2>2, <2>3
<1>3. CASE Derive(p)
  <2>1. req[p].pc = "create" /\ req[p].run \in {"apply"} \cup Undoing
    BY <1>0, <1>3 DEF Derive, At, InPhase
  <2>2. req[p].run \in Undoing => Covered(SourceOf[req[p].run])
    BY <1>0, <2>1 DEF RequestInv
  <2>3. End(p) \/ Goto(p, "list")
    BY <1>3 DEF Derive
  <2>4. CASE UNCHANGED runs
    BY <1>1, <2>2, <2>3, <2>4, RunsStay
  <2>5. CASE ~UNCHANGED runs
    <3>. DEFINE row == [status |-> "running", actions |-> req[p].actions,
                        revision |-> req[p].revision]
    <3>1. runs' = [runs EXCEPT ![req[p].run] = row]
      BY <1>3, <2>5 DEF Derive
    <3>2. row.status = "running"
      OBVIOUS
    <3>. HIDE DEF row
    <3>3. req[p].run \in Derived
      BY <2>1, Sources
    <3>4. req[p].run \in {"apply", "undo_apply"} => runs["preview"] # NoRun
      BY <1>0 DEF RequestInv
    <3>5. req[p].run # "incoming"
      BY <2>1 DEF Undoing
    <3>. QED BY <1>1, <2>2, <2>3, <3>1, <3>2, <3>3, <3>4, <3>5, RunMade
  <2>. QED BY <2>4, <2>5
<1>4. CASE Receipt(p)
  <2>1. req[p].run = "incoming"
    BY <1>0, <1>4 DEF Receipt, At, InPhase
  <2>2. End(p) \/ Goto(p, "list")
    BY <1>4 DEF Receipt
  <2>3. CASE UNCHANGED runs
    BY <1>1, <2>1, <2>2, <2>3, RunsStay DEF Undoing
  <2>4. CASE ~UNCHANGED runs
    <3>. DEFINE row == [status |-> "running", actions |-> req[p].actions,
                        revision |-> req[p].revision]
    <3>1. runs' = [runs EXCEPT !["incoming"] = row] /\ Arrival \in Present
      BY <1>4, <2>4 DEF Receipt
    <3>2. row.status = "running"
      OBVIOUS
    <3>. HIDE DEF row
    <3>3. "incoming" \in Derived
      BY Sources
    <3>. QED BY <1>1, <2>1, <2>2, <3>1, <3>2, <3>3, RunMade DEF Undoing
  <2>. QED BY <2>3, <2>4
<1>5. CASE Finish(p)
  <2>1. req[p].run \in Derived /\ req[p].todo = {} /\ req[p].pc \in Working
    BY <1>0, <1>5, Sources DEF Finish, At, InPhase, Working
  <2>2. Covered(req[p].run)
    BY <1>0, <2>1 DEF RequestInv, Covered
  <2>3. req[p].run \in Undoing => Covered(SourceOf[req[p].run])
    <3>1. req[p].run \in Undoing => req[p].pc = "undo"
      BY <1>0, <1>5 DEF Finish, At, InPhase, Undoing
    <3>. QED BY <1>0, <3>1 DEF RequestInv
  <2>4. \A o \in Requests : RequestInv(req'[o])
    BY <1>5, EndKept DEF Finish
  <2>5. ASSUME NEW r \in Run
        PROVE  /\ runs[r] = NoRun => runs'[r] = NoRun
               /\ runs[r] # NoRun => /\ runs'[r] # NoRun
                                     /\ runs'[r].actions = runs[r].actions
               /\ runs'[r].status \in Completed =>
                    r = req[p].run \/ runs[r].status \in Completed
    <3>1. CASE runs[r] = NoRun
      BY <1>5, <3>1, NoRows DEF Finish, Completed
    <3>2. CASE runs[r] # NoRun
      <4>1. runs[r] \in RunRow
        BY <3>2 DEF TypeOK
      <4>2. \A status \in {"completed", "applied", "undone"} :
              /\ [runs[r] EXCEPT !.status = status].actions = runs[r].actions
              /\ [runs[r] EXCEPT !.status = status].status = status
        BY <4>1 DEF RunRow
      <4>3. \/ runs'[r] = runs[r]
            \/ r = req[p].run /\ runs'[r] = [runs[r] EXCEPT !.status = "completed"]
            \/ runs'[r] = [runs[r] EXCEPT !.status = "applied"]
            \/ runs[r].status = "completed" /\ runs'[r] = [runs[r] EXCEPT !.status = "undone"]
        BY <1>5, <3>2 DEF Finish
      <4>. QED BY <3>2, <4>2, <4>3, NoRows DEF Completed
    <3>. QED BY <3>1, <3>2
  <2>6. \A r \in Derived : runs'[r].status \in Completed => Covered(r)
    BY <2>2, <2>5, Sources DEF RuleInv, RunsInv
  <2>7. \A r \in Undoing : runs'[r] # NoRun => Covered(SourceOf[r])
    BY <2>5, Sources DEF RuleInv, RunsInv
  <2>8. /\ runs'["incoming"] # NoRun => Arrival \in Present
        /\ runs'["preview"] = NoRun => runs'["apply"] = NoRun /\ runs'["undo_apply"] = NoRun
        /\ runs["preview"] # NoRun =>
             runs'["preview"] # NoRun /\ runs'["preview"].actions = runs["preview"].actions
    BY <2>5, Sources DEF RuleInv, RunsInv, Run
  <2>. QED BY <1>1, <2>4, <2>6, <2>7, <2>8, RecordsKept
<1>. QED BY <1>2, <1>3, <1>4, <1>5

\* Before the preview there is nothing to apply.
LEMMA FreezeKept ==
  ASSUME TypeOK, RuleInv, NEW p \in Requests, PreviewFreeze(p)
  PROVE  RuleInv'
<1>1. /\ runs["preview"] = NoRun /\ runs["apply"] = NoRun /\ runs["undo_apply"] = NoRun
      /\ Recorded("preview") = {}
  BY DEF PreviewFreeze, RuleInv, RunsInv
<1>2. Recorded("apply") = {} /\ Recorded("undo_apply") = {}
  BY <1>1, Sources DEF RuleInv, RecordsInv, Work, Undoing
<1>3. PICK S \in SUBSET Present :
        matches' = [matches EXCEPT !["preview"] = [m \in Messages |->
                      IF m \in S THEN [recorded |-> TRUE] ELSE NoMatch]]
  BY DEF PreviewFreeze, Matching
<1>4. Present' = Present
  BY DEF PreviewFreeze, mailbox, Present
<1>5. /\ Recorded("preview")' = S
      /\ \A r \in Derived : Recorded(r)' = Recorded(r)
  <2>1. \A m \in Messages : matches'["preview"][m] =
                              IF m \in S THEN [recorded |-> TRUE] ELSE NoMatch
    BY <1>3, Sources DEF TypeOK
  <2>2. [recorded |-> TRUE] # NoMatch
    BY DEF NoMatch
  <2>3. Recorded("preview")' = S
    BY <2>1, <2>2 DEF Recorded, Present
  <2>4. \A r \in Derived : matches'[r] = matches[r]
    BY <1>3, Sources DEF TypeOK, Derived
  <2>. QED BY <2>3, <2>4 DEF Recorded
<1>6. \A r \in Derived \ {"apply"} : Work(r)' = Work(r)
  <2>1. \A r \in Derived \ {"apply", "incoming"} : SourceOf[r] \in Derived
    BY DEF SourceOf, Derived, Run
  <2>. QED BY <1>4, <1>5, <2>1 DEF Work
<1>7. \A r \in Derived \ {"apply"} : Covered(r)' <=> Covered(r)
  BY <1>5, <1>6 DEF Covered
<1>8. /\ runs'["preview"] # NoRun
      /\ \A r \in Derived : runs'[r] = runs[r]
  <2>. DEFINE row == [status |-> "ready", actions |-> req[p].actions,
                      revision |-> req[p].revision]
  <2>1. runs' = [runs EXCEPT !["preview"] = row]
    BY DEF PreviewFreeze
  <2>2. row # NoRun
    BY DEF NoRun
  <2>. HIDE DEF row
  <2>. QED BY <2>1, <2>2, Sources DEF TypeOK, Derived
<1>9. RunsInv'
  <2>1. \A r \in Derived : runs'[r].status \in Completed => Covered(r)'
    BY <1>1, <1>7, <1>8, NoRows DEF RuleInv, RunsInv, Completed
  <2>2. \A r \in Undoing : runs'[r] # NoRun => Covered(SourceOf[r])'
    BY <1>1, <1>7, <1>8, Sources DEF RuleInv, RunsInv, Undoing
  <2>. QED BY <1>4, <1>8, <2>1, <2>2, Sources DEF RuleInv, RunsInv
<1>10. RecordsInv'
  <2>1. \A r \in Derived : Recorded(r)' \subseteq Work(r)'
    BY <1>2, <1>5, <1>6 DEF RuleInv, RecordsInv
  <2>2. \A r \in Run : Recorded(r)' \subseteq Present
    BY <1>3, <1>5 DEF RuleInv, RecordsInv, Derived
  <2>3. Recorded("apply")' = {}
    BY <1>2, <1>5, Sources
  <2>. QED BY <1>4, <2>1, <2>2, <2>3 DEF RecordsInv
<1>11. ASSUME NEW o \in Requests PROVE RequestInv(req[o])'
  <2>0. PICK q : q = req'[o]
    OBVIOUS
  <2>1. RequestInv(q)
    BY <2>0, EndKept DEF PreviewFreeze
  <2>2. q.run \notin {"apply", "undo_apply"}
    BY <1>1, <2>1 DEF RequestInv
  <2>3. q.pc \in Working => q.run \in Derived
    <3>1. CASE o = p
      <4>1. q.pc = "done"
        BY <2>0, <3>1 DEF PreviewFreeze, End, Goto, TypeOK, Request
      <4>. QED BY <4>1 DEF Working
    <3>2. CASE o # p
      <4>1. q = req[o] /\ InPhase(req[o]) /\ req[o] \in Request
        BY <2>0, <3>2 DEF PreviewFreeze, End, Goto, TypeOK
      <4>. QED BY <4>1 DEF InPhase, Working, Derived, Run, Undoing
    <3>. QED BY <3>1, <3>2
  <2>4. q.run \in Undoing => q.run = "undo_incoming"
    BY <2>2 DEF Undoing
  <2>5. q.run \in Undoing => (Covered(SourceOf[q.run]) => Covered(SourceOf[q.run])')
    BY <1>7, <2>4, Sources
  <2>6. q.pc \in Working => /\ Work(q.run)' = Work(q.run)
                            /\ Recorded(q.run)' = Recorded(q.run)
    BY <1>5, <1>6, <2>2, <2>3
  <2>7. RequestInv(q)'
    BY <1>4, <1>8, <2>1, <2>2, <2>5, <2>6 DEF RequestInv
  <2>. QED BY <2>0, <2>7 DEF RequestInv
<1>. QED BY <1>9, <1>10, <1>11 DEF RuleInv

\* A request records the message it has dealt with.
LEMMA RecordsGrow ==
  ASSUME TypeOK, RuleInv, UNCHANGED runs, Present' = Present,
         NEW p \in Requests, NEW m \in Messages, NEW r \in Derived, m \in Work(r),
         Recorded(r)' = Recorded(r) \cup {m},
         \A s \in Run \ {r} : Recorded(s)' = Recorded(s),
         \A n \in Recorded("apply")' : matches'["apply"][n].actions = runs["preview"].actions,
         req[p].run = r, req[p].pc \in Working, req'[p].pc \in {"loop", "undo"},
         r \in Undoing => req[p].pc \in {"undo", "restore"},
         req'[p].run = r, req'[p].actions = req[p].actions,
         req'[p].todo = req[p].todo \ {m},
         \A o \in Requests \ {p} : req'[o] = req[o]
  PROVE  RuleInv'
<1>1. \A s \in Derived : Recorded(s) \subseteq Work(s) /\ Work(s) \subseteq Present
  BY WorkIsPresent DEF RuleInv, RecordsInv
<1>2. Work(r)' = Work(r)
  <2>1. r # "incoming" => SourceOf[r] \in Run \ {r}
    BY DEF SourceOf, Derived, Run
  <2>. QED BY <2>1 DEF Work
<1>3. \A s \in Derived : Work(s) \subseteq Work(s)'
  <2>1. \A s \in Run : Recorded(s) \subseteq Recorded(s)'
    OBVIOUS
  <2>. QED BY <2>1, Sources DEF Work
<1>4. ASSUME NEW s \in Derived, Covered(s) PROVE Recorded(s)' = Recorded(s)
  BY <1>4, Sources DEF Covered
<1>5. ASSUME NEW s \in Derived, s \in Undoing => Covered(SourceOf[s])
      PROVE  Work(s)' = Work(s)
  <2>1. s \in Undoing => SourceOf[s] \in Derived
    BY Sources
  <2>2. s = "apply" => SourceOf[s] = "preview" /\ "preview" \in Run \ {r}
    BY Sources DEF Derived
  <2>3. s \in Undoing \cup {"apply", "incoming"}
    BY DEF Derived, Run, Undoing
  <2>. QED BY <1>4, <1>5, <2>1, <2>2, <2>3 DEF Work
<1>6. \A s \in {"apply", "incoming"} : Covered(s) => Covered(s)'
  <2>1. ASSUME NEW s \in {"apply", "incoming"}, Covered(s) PROVE Covered(s)'
    <3>1. s \in Derived /\ s \notin Undoing
      BY Sources DEF Undoing
    <3>2. Recorded(s)' = Recorded(s) /\ Work(s)' = Work(s)
      BY <1>4, <1>5, <2>1, <3>1
    <3>. QED BY <2>1, <3>2 DEF Covered
  <2>. QED BY <2>1
<1>7. RunsInv'
  <2>1. ASSUME NEW s \in Derived, runs[s].status \in Completed PROVE Covered(s)'
    <3>1. Covered(s)
      BY <2>1 DEF RuleInv, RunsInv
    <3>2. s \in Undoing => Covered(SourceOf[s])
      BY <2>1, NoRows DEF RuleInv, RunsInv, Completed
    <3>3. Recorded(s)' = Recorded(s) /\ Work(s)' = Work(s)
      BY <1>4, <1>5, <3>1, <3>2
    <3>. QED BY <3>1, <3>3 DEF Covered
  <2>2. \A s \in Undoing : runs[s] # NoRun => Covered(SourceOf[s])'
    BY <1>6, Sources DEF RuleInv, RunsInv
  <2>3. Recorded("preview")' = Recorded("preview")
    BY Sources DEF Derived
  <2>. QED BY <2>1, <2>2, <2>3 DEF RuleInv, RunsInv
<1>8. RecordsInv'
  <2>1. \A s \in Derived : Recorded(s)' \subseteq Work(s)'
    BY <1>1, <1>2, <1>3, Sources
  <2>2. \A s \in Run : Recorded(s)' \subseteq Present
    BY <1>1 DEF RuleInv, RecordsInv
  <2>. QED BY <2>1, <2>2 DEF RecordsInv
<1>9. ASSUME NEW o \in Requests PROVE RequestInv(req[o])'
  <2>1. RequestInv(req[o]) /\ RequestInv(req[p])
    BY DEF RuleInv
  <2>2. CASE o = p
    <3>1. r \in Undoing => Covered(SourceOf[r])'
      BY <1>6, <2>1, Sources DEF RequestInv
    <3>2. /\ req[p].todo \cap Present \subseteq Work(r)
          /\ Work(r) \subseteq req[p].todo \cup Recorded(r)
      BY <2>1 DEF RequestInv
    <3>3. /\ req'[p].todo \cap Present \subseteq Work(r)'
          /\ Work(r)' \subseteq req'[p].todo \cup Recorded(r)'
      BY <1>2, <3>2
    <3>. QED BY <2>1, <2>2, <3>1, <3>3 DEF RequestInv
  <2>3. CASE o # p
    <3>1. req'[o] = req[o] /\ InPhase(req[o])
      BY <2>3 DEF TypeOK
    <3>2. /\ req[o].pc \in Working => req[o].run \in Derived
          /\ req[o].pc \in Working /\ req[o].run \in Undoing => req[o].pc \in {"undo", "restore"}
      BY <3>1 DEF InPhase, Working, Derived, Run, Undoing
    <3>3. /\ req[o].pc \in {"create", "list", "undo", "restore"} /\ req[o].run \in Undoing
          => Covered(SourceOf[req[o].run])'
      BY <1>6, <2>1, Sources DEF RequestInv
    <3>4. req[o].pc \in Working => Work(req[o].run)' = Work(req[o].run)
      BY <1>5, <2>1, <3>2 DEF RequestInv
    <3>5. req[o].pc \in Working => Recorded(req[o].run) \subseteq Recorded(req[o].run)'
      BY <3>2, Sources
    <3>. QED BY <2>1, <3>1, <3>3, <3>4, <3>5 DEF RequestInv
  <2>. QED BY <2>2, <2>3
<1>. QED BY <1>7, <1>8, <1>9 DEF RuleInv

\* The message at which a request is, is part of its work.
LEMMA AtWork ==
  ASSUME TypeOK, RuleInv, NEW p \in Requests, At(p, "write") \/ At(p, "restore"),
         req[p].at \in Present
  PROVE  /\ req[p].run \in Derived
         /\ req[p].at \in Work(req[p].run)
         /\ At(p, "restore") => /\ req[p].run \in Undoing
                                /\ matches[SourceOf[req[p].run]][req[p].at] # NoMatch
<1>1. InPhase(req[p]) /\ RequestInv(req[p])
  BY DEF TypeOK, RuleInv
<1>2. req[p].at \in Work(req[p].run)
  BY <1>1 DEF At, InPhase, RequestInv, Working
<1>3. req[p].run \in {"apply", "incoming"} \cup Undoing
  BY <1>1 DEF At, InPhase
<1>4. At(p, "restore") => req[p].run \in Undoing
  BY <1>1 DEF At, InPhase
<1>5. req[p].run \in Undoing => matches[SourceOf[req[p].run]][req[p].at] # NoMatch
  BY <1>2 DEF Undoing, Work, Recorded
<1>. QED BY <1>2, <1>3, <1>4, <1>5, Sources

LEMMA WriteKept ==
  ASSUME TypeOK, TypeOK', RuleInv, NEW p \in Requests, WriteMessage(p)
  PROVE  RuleInv'
<1>0. PICK r, m : r = req[p].run /\ m = req[p].at
  OBVIOUS
<1>1. /\ req[p] \in Request /\ InPhase(req[p]) /\ RequestInv(req[p])
      /\ req[p].pc = "write" /\ m \in Present /\ m \in Messages
  BY <1>0 DEF TypeOK, RuleInv, WriteMessage, At, Request
<1>2. r \in {"apply", "incoming"} /\ r \in Derived /\ m \in Work(r)
  BY <1>0, <1>1, AtWork DEF InPhase, WriteMessage
<1>3. UNCHANGED runs /\ Present' = Present
  <2>1. flags' = [flags EXCEPT ![m] = Written(p).flags]
    BY <1>0 DEF WriteMessage
  <2>2. flags'[m] \in Flags
    <3>1. flags[m] \in Flags /\ req[p].before \in Snapshot /\ req[p].actions \in Definitions
      BY <1>0, <1>1, PresentFlags DEF Request
    <3>2. StateAfter(req[p].before, req[p].actions, p).flags \in Flags
      BY <1>0, <3>1, StateAfterTyped DEF Snapshot
    <3>3. Written(p).flags \in Flags
      BY <1>0, <3>1, <3>2 DEF Written
    <3>. QED BY <1>0, <1>1, <2>1, <3>3 DEF TypeOK
  <2>3. \A n \in Messages : n # m => flags'[n] = flags[n]
    BY <1>0, <2>1 DEF TypeOK
  <2>. QED BY <1>0, <1>1, <2>2, <2>3, InboxTyped DEF Present, WriteMessage
<1>4. PICK after : matches' = [matches EXCEPT ![r][m] =
                     IF @ # NoMatch THEN @
                     ELSE [recorded |-> TRUE, actions |-> req[p].actions,
                           before |-> req[p].before, after |-> after]]
  BY <1>0 DEF WriteMessage, Record
<1>5. /\ \A s \in Run \ {r} : matches'[s] = matches[s]
      /\ \A n \in Messages \ {m} : matches'[r][n] = matches[r][n]
      /\ matches[r][m] # NoMatch => matches'[r][m] = matches[r][m]
      /\ matches[r][m] = NoMatch =>
           /\ matches'[r][m] # NoMatch
           /\ matches'[r][m].actions = req[p].actions
  <2>1. \A x : [recorded |-> TRUE, actions |-> req[p].actions,
                before |-> req[p].before, after |-> x] # NoMatch
    BY <1>0 DEF NoMatch
  <2>2. r \in Run
    BY <1>0, <1>2, Sources
  <2>. QED BY <1>0, <1>1, <1>4, <2>1, <2>2 DEF TypeOK
<1>6. /\ Recorded(r)' = Recorded(r) \cup {m}
      /\ \A s \in Run \ {r} : Recorded(s)' = Recorded(s)
  BY <1>0, <1>1, <1>5 DEF Recorded
<1>7. \A n \in Recorded("apply")' : matches'["apply"][n].actions = runs["preview"].actions
  <2>1. \A n \in Recorded("apply") : matches["apply"][n].actions = runs["preview"].actions
    BY <1>0 DEF RuleInv, RecordsInv
  <2>2. r = "apply" => req[p].actions = runs["preview"].actions
    BY <1>0, <1>1 DEF RequestInv
  <2>3. CASE r = "apply"
    BY <1>0, <1>1, <1>5, <1>6, <2>1, <2>2, <2>3 DEF Recorded
  <2>4. CASE r # "apply"
    BY <1>0, <1>5, <1>6, <2>1, <2>4, Sources
  <2>. QED BY <1>0, <2>3, <2>4
<1>8. /\ req'[p].pc = "loop" /\ req'[p].run = r /\ req'[p].actions = req[p].actions
      /\ req'[p].todo = req[p].todo \ {m}
      /\ \A o \in Requests \ {p} : req'[o] = req[o]
  <2>1. req' = [req EXCEPT ![p] = [req[p] EXCEPT !.pc = "loop", !.todo = req[p].todo \ {m}]]
    BY <1>0 DEF WriteMessage, TypeOK
  <2>. QED BY <1>0, <1>1, <2>1 DEF TypeOK, Request
<1>9. r \notin Undoing
  BY <1>0, <1>2 DEF Undoing
<1>. QED BY <1>0, <1>1, <1>2, <1>3, <1>6, <1>7, <1>8, <1>9, RecordsGrow DEF Working

LEMMA RestoreKept ==
  ASSUME TypeOK, TypeOK', RuleInv, NEW p \in Requests, RestoreMessage(p)
  PROVE  RuleInv'
<1>0. PICK r, m : r = req[p].run /\ m = req[p].at
  OBVIOUS
<1>1. /\ req[p] \in Request /\ req[p].pc = "restore" /\ m \in Present /\ m \in Messages
  BY <1>0 DEF TypeOK, RestoreMessage, At, Request
<1>2. r \in Undoing /\ r \in Derived /\ m \in Work(r)
  BY <1>0, <1>1, AtWork DEF RestoreMessage
<1>3. UNCHANGED runs /\ Present' = Present
  <2>. DEFINE done == matches[SourceOf[r]][m]
  <2>1. /\ flags[m] \in Flags
        /\ flags' = [flags EXCEPT ![m] =
                       IF done.actions.star \/ done.actions.archive \/ done.actions.trash
                         THEN RestoreFlags(flags[m], done.before.flags, done.after.flags)
                         ELSE flags[m]]
    BY <1>0, <1>1, PresentFlags DEF RestoreMessage
  <2>2. \A before, after : RestoreFlags(flags[m], before, after) # Gone
    BY <1>0 DEF RestoreFlags, Gone
  <2>. HIDE DEF done
  <2>3. /\ flags'[m] # Gone
        /\ \A n \in Messages : n # m => flags'[n] = flags[n]
    BY <1>0, <1>1, <2>1, <2>2, InboxTyped DEF TypeOK
  <2>. QED BY <1>0, <1>1, <2>3 DEF Present, RestoreMessage
<1>4. matches' = [matches EXCEPT ![r][m] = [recorded |-> TRUE]]
  BY <1>0 DEF RestoreMessage
<1>5. /\ \A s \in Run \ {r} : matches'[s] = matches[s]
      /\ \A n \in Messages \ {m} : matches'[r][n] = matches[r][n]
      /\ matches'[r][m] # NoMatch
  <2>1. [recorded |-> TRUE] # NoMatch
    BY <1>0 DEF NoMatch
  <2>2. r \in Run
    BY <1>0, <1>2, Sources
  <2>. QED BY <1>0, <1>1, <1>4, <2>1, <2>2 DEF TypeOK
<1>6. /\ Recorded(r)' = Recorded(r) \cup {m}
      /\ \A s \in Run \ {r} : Recorded(s)' = Recorded(s)
  BY <1>0, <1>1, <1>5 DEF Recorded
<1>7. \A n \in Recorded("apply")' : matches'["apply"][n].actions = runs["preview"].actions
  BY <1>0, <1>2, <1>5, <1>6, Sources DEF RuleInv, RecordsInv, Undoing
<1>8. /\ req'[p].pc = "undo" /\ req'[p].run = r /\ req'[p].actions = req[p].actions
      /\ req'[p].todo = req[p].todo \ {m}
      /\ \A o \in Requests \ {p} : req'[o] = req[o]
  <2>1. req' = [req EXCEPT ![p] = [req[p] EXCEPT !.pc = "undo", !.todo = req[p].todo \ {m}]]
    BY <1>0 DEF RestoreMessage, TypeOK
  <2>. QED BY <1>0, <1>1, <2>1 DEF TypeOK, Request
<1>. QED BY <1>0, <1>1, <1>2, <1>3, <1>6, <1>7, <1>8, RecordsGrow DEF Working

LEMMA RuleInitial == Init => RuleInv
<1>. SUFFICES ASSUME Init PROVE RuleInv
  OBVIOUS
<1>1. \A r \in Run : runs[r] = NoRun /\ Recorded(r) = {}
  BY DEF Init, Recorded
<1>2. RunsInv
  BY <1>1, NoRows, Sources DEF RunsInv, Completed, Undoing
<1>3. RecordsInv
  BY <1>1, Sources DEF RecordsInv
<1>4. Idle.pc = "idle" /\ Idle.run = "preview"
  BY DEF Idle
<1>5. \A p \in Requests : RequestInv(req[p])
  BY <1>4 DEF Init, RequestInv, Working, Undoing
<1>. QED BY <1>2, <1>3, <1>5 DEF RuleInv

RuleTyped == TypeOK /\ RuleInv

LEMMA RuleStep ==
  ASSUME RuleTyped, [Next]_vars
  PROVE  RuleTyped'
<1>. USE DEF RuleTyped
<1>1. CASE Owners
  BY <1>1, OwnersTyped, OwnersKept
<1>2. CASE Users
  BY <1>2, UsersTyped, UsersKept
<1>3. CASE MakerDies
  BY <1>3, DeathsTyped, OwnersKept
<1>4. ASSUME NEW p \in Requests, Dies(p) PROVE RuleTyped'
  BY <1>4, DeathsTyped, DiesKept
<1>5. ASSUME NEW p \in Requests, Step(p) PROVE RuleTyped'
  <2>1. CASE \/ PreviewRead(p) \/ ReadMessage(p) \/ ApplyStart(p) \/ List(p) \/ UndoStart(p)
             \/ UndoRead(p) \/ Deliver(p) \/ WriteFails(p)
    BY <2>1, ReadsTyped, ReadsKept
  <2>2. CASE PreviewFreeze(p)
    BY <2>2, PreviewTyped, FreezeKept
  <2>3. CASE ApplyCheck(p) \/ Derive(p) \/ Receipt(p) \/ Finish(p)
    BY <2>3, RunsTyped, RunsKept DEF RuleInv, RequestInv
  <2>4. CASE WriteMessage(p)
    BY <2>4, WriteTyped, WriteKept
  <2>5. CASE RestoreMessage(p)
    <3>1. matches[SourceOf[req[p].run]][req[p].at] # NoMatch
      BY <2>5, AtWork DEF RestoreMessage
    <3>. QED BY <2>5, <3>1, RestoreTyped, RestoreKept
  <2>. QED BY <1>5, <2>1, <2>2, <2>3, <2>4, <2>5 DEF Step
<1>6. CASE UNCHANGED vars
  <2>1. TypeOK'
    BY <1>6 DEF vars, mailbox, history, TypeOK
  <2>2. UNCHANGED <<matches, runs, req, flags>>
    BY <1>6 DEF vars, mailbox
  <2>3. Present' = Present
    BY <2>2 DEF Present
  <2>. QED BY <2>1, <2>2, <2>3, RecordsKept DEF RuleInv, RunsInv
<1>. QED BY <1>1, <1>2, <1>3, <1>4, <1>5, <1>6 DEF Next

-----------------------------------------------------------------------------
(* What follows for the mailbox.                                           *)

\* The strengthening holds in every reachable state.
THEOREM Invariant == Spec => []RuleTyped
<1>1. Init => RuleTyped
  BY InitTyped, RuleInitial DEF RuleTyped
<1>2. RuleTyped /\ [Next]_vars => RuleTyped'
  BY RuleStep
<1>. QED BY <1>1, <1>2, PTL DEF Spec

\* The rows of mail_rules, its runs and their matches, and what each request
\* remembers between two calls of D1, stay well formed.
THEOREM MailRuleTypes == Spec => []TypeOK
<1>1. RuleTyped => TypeOK
  BY DEF RuleTyped
<1>. QED BY <1>1, Invariant, PTL

\* applyPreviewRuleRun changes what the preview matched, with the preview's
\* actions, though the rule may be patched or deleted between any two calls.
THEOREM MailRulesReviewed == Spec => []AppliedWasReviewed
<1>1. RuleTyped => AppliedWasReviewed
  <2>. SUFFICES ASSUME RuleTyped PROVE AppliedWasReviewed
    OBVIOUS
  <2>1. Recorded("apply") \subseteq Recorded("preview")
    BY Sources DEF RuleTyped, RuleInv, RecordsInv, Work
  <2>. QED BY <2>1 DEF RuleTyped, RuleInv, RecordsInv, AppliedWasReviewed
<1>. QED BY <1>1, Invariant, PTL

\* The batch that completes a run is reached only with every message of its
\* source recorded, whichever requests worked on it and died.
THEOREM MailRulesComplete == Spec => []CompletedCovers
<1>1. RuleTyped => CompletedCovers
  <2>. SUFFICES ASSUME RuleTyped PROVE CompletedCovers
    OBVIOUS
  <2>1. \A r \in Derived : runs[r].status \in Completed => Work(r) \subseteq Recorded(r)
    BY DEF RuleTyped, RuleInv, RunsInv, Covered
  <2>2. \A r \in {"apply", "undo_apply", "undo_incoming"} : Work(r) = Recorded(SourceOf[r])
    BY DEF Work
  <2>3. runs["incoming"].status \in Completed => Arrival \in Work("incoming")
    BY NoRows DEF RuleTyped, RuleInv, RunsInv, Completed, Work
  <2>. QED BY <2>1, <2>2, <2>3, Sources DEF CompletedCovers, Undoing
<1>. QED BY <1>1, Invariant, PTL

\* A label that a user put on a message is taken away by a user's edit only: the
\* batches of the rules add rows of their own and delete rows of their own.
THEOREM MailRulesUserLabels == Spec => UserLabelsStay
<1>. DEFINE Stay == \A m \in Messages, l \in Labels :
                      owner[m][l] = "user" /\ owner'[m][l] # "user" => edits' # edits
<1>1. RuleTyped /\ [Next]_vars => Stay
  <2>. SUFFICES ASSUME RuleTyped, [Next]_vars, NEW m \in Messages, NEW l \in Labels,
                       owner[m][l] = "user", owner'[m][l] # "user"
                PROVE  edits' # edits
    OBVIOUS
  <2>0. owner' # owner /\ edits \in Nat
    BY DEF RuleTyped, TypeOK
  <2>1. CASE Users
    BY <2>0, <2>1 DEF Users, SetFlag, ReplaceLabels, RemoveMessage, DeleteLabel, Edit
  <2>2. CASE Owners \/ MakerDies
    BY <2>0, <2>2 DEF Owners, CreateCheck, CreateInsert, CreateLink, Patch, DeleteRule, MakerDies,
                      mailbox
  <2>3. ASSUME NEW p \in Requests, WriteMessage(p) PROVE FALSE
    <3>1. owner' = [owner EXCEPT ![req[p].at] = Written(p).owner]
      BY <2>3 DEF WriteMessage
    <3>2. m = req[p].at => Written(p).owner[l] = "user"
      BY DEF Written
    <3>. QED BY <3>1, <3>2 DEF RuleTyped, TypeOK
  <2>4. ASSUME NEW p \in Requests, RestoreMessage(p) PROVE FALSE
    <3>1. PICK gone : owner' = [owner EXCEPT ![req[p].at] = RestoreOwner(owner[req[p].at], gone)]
      BY <2>4 DEF RestoreMessage
    <3>2. m = req[p].at => RestoreOwner(owner[m], gone)[l] = "user"
      BY DEF RestoreOwner
    <3>. QED BY <3>1, <3>2 DEF RuleTyped, TypeOK
  <2>5. ASSUME NEW p \in Requests, Step(p) \/ Dies(p) PROVE FALSE
    BY <2>0, <2>3, <2>4, <2>5
       DEF Step, Dies, PreviewRead, PreviewFreeze, ApplyStart, ApplyCheck, UndoStart, Derive,
           Deliver, Receipt, List, ReadMessage, WriteFails, UndoRead, Finish, mailbox
  <2>6. CASE UNCHANGED vars
    BY <2>0, <2>6 DEF vars, mailbox
  <2>. QED BY <2>1, <2>2, <2>5, <2>6 DEF Next
<1>2. RuleTyped /\ [Next]_vars => [Stay]_vars
  BY <1>1
<1>. QED BY <1>2, Invariant, PTL DEF Spec, UserLabelsStay

-----------------------------------------------------------------------------
(* What undo restores.  A message that no user has touched is as it        *)
(* arrived until a run records it, then as that run left it until the undo *)
(* of the run, and then as it arrived.                                     *)

\* A message as it arrived, and as one run that found it so has left it.
Untouched(m) == flags[m] = Inbox /\ owner[m] = [l \in Labels |-> "none"]
AsApplied(m, done) ==
  /\ flags[m] = done.after.flags
  /\ owner[m] = [l \in Labels |-> IF l \in done.actions.labels THEN "rule" ELSE "none"]

UndoOf == [s \in {"apply", "incoming"} |-> IF s = "apply" THEN "undo_apply" ELSE "undo_incoming"]
SetsFlags(a) == a.star \/ a.archive \/ a.trash

FreshInv(m) ==
  (\A s \in {"apply", "incoming"} : matches[s][m] = NoMatch) =>
    /\ Untouched(m)
    /\ \A p \in Requests : req[p].pc = "write" /\ req[p].at = m => req[p].before = Blank

AloneInv(m, s) ==
  LET done == matches[s][m]
  IN (done # NoMatch /\ Alone(m, s) /\ <<s, m>> \notin again) =>
       /\ done.before = Blank
       /\ ~SetsFlags(done.actions) => done.after.flags = Inbox
       /\ matches[UndoOf[s]][m] = NoMatch => AsApplied(m, done)
       /\ matches[UndoOf[s]][m] # NoMatch => Untouched(m)

MessageInv(m) == m \in Present \ edited =>
                   FreshInv(m) /\ \A s \in {"apply", "incoming"} : AloneInv(m, s)

UndoInv == \A m \in Messages : MessageInv(m)

LEMMA RecordedIs == \A r \in Run, m \in Messages : m \in Recorded(r) <=> matches[r][m] # NoMatch
BY DEF Recorded

LEMMA AloneIs ==
  \A m \in Messages : /\ Alone(m, "apply") <=> matches["incoming"][m] = NoMatch
                      /\ Alone(m, "incoming") <=> matches["apply"][m] = NoMatch
BY DEF Alone, Recorded

LEMMA BlankState == \A m \in Messages : Untouched(m) => State(m) = Blank
BY DEF Untouched, State, Blank, Carried

\* What a step leaves alone stays as it was.
LEMMA MessageStays ==
  ASSUME TypeOK, NEW m \in Messages, MessageInv(m),
         flags'[m] = flags[m], owner'[m] = owner[m],
         \A r \in Derived : matches'[r][m] = matches[r][m],
         edited \subseteq edited', again \subseteq again',
         \A p \in Requests : req'[p].pc = "write" /\ req'[p].at = m =>
           \/ req[p].pc = "write" /\ req[p].at = m /\ req'[p].before = req[p].before
           \/ req'[p].before = State(m)
  PROVE  MessageInv(m)'
<1>. SUFFICES ASSUME m \in Present' \ edited' PROVE
       FreshInv(m)' /\ \A s \in {"apply", "incoming"} : AloneInv(m, s)'
  BY DEF MessageInv
<1>1. FreshInv(m) /\ \A s \in {"apply", "incoming"} : AloneInv(m, s)
  BY DEF MessageInv, Present
<1>2. Untouched(m)' <=> Untouched(m)
  BY DEF Untouched
<1>3. FreshInv(m)'
  <2>. SUFFICES ASSUME \A s \in {"apply", "incoming"} : matches'[s][m] = NoMatch
                PROVE  /\ Untouched(m)
                       /\ \A p \in Requests : req'[p].pc = "write" /\ req'[p].at = m
                                                => req'[p].before = Blank
    BY <1>2 DEF FreshInv
  <2>1. /\ Untouched(m)
        /\ \A p \in Requests : req[p].pc = "write" /\ req[p].at = m => req[p].before = Blank
    BY <1>1, Sources DEF FreshInv
  <2>. QED BY <2>1, BlankState
<1>4. ASSUME NEW s \in {"apply", "incoming"} PROVE AloneInv(m, s)'
  <2>1. UndoOf[s] \in Derived /\ s \in Derived
    BY DEF UndoOf, Derived, Run
  <2>2. Alone(m, s)' <=> Alone(m, s)
    BY Sources DEF Alone, Recorded
  <2>3. matches'[s][m] = matches[s][m] /\ matches'[UndoOf[s]][m] = matches[UndoOf[s]][m]
    BY <2>1
  <2>. QED BY <1>1, <1>2, <2>2, <2>3 DEF AloneInv, AsApplied
<1>. QED BY <1>3, <1>4

\* The calls that neither write nor restore.
LEMMA WritersStay ==
  ASSUME TypeOK, NEW p \in Requests,
         \/ PreviewRead(p) \/ PreviewFreeze(p) \/ ApplyStart(p) \/ ApplyCheck(p) \/ UndoStart(p)
         \/ Derive(p) \/ Deliver(p) \/ Receipt(p) \/ List(p) \/ WriteMessage(p) \/ WriteFails(p)
         \/ UndoRead(p) \/ RestoreMessage(p) \/ Finish(p) \/ Dies(p),
         NEW o \in Requests, req'[o].pc = "write"
  PROVE  req'[o] = req[o]
<1>1. o # p => req'[o] = req[o]
  BY DEF TypeOK, PreviewRead, PreviewFreeze, ApplyStart, ApplyCheck, UndoStart, Derive, Deliver,
         Receipt, List, WriteMessage, WriteFails, UndoRead, RestoreMessage, Finish, Dies, End, Goto
<1>2. req[p] \in Request
  BY DEF TypeOK
<1>3. CASE UndoRead(p)
  <2>1. PICK n \in req[p].todo :
          IF n \in Present
            THEN req' = [req EXCEPT ![p].pc = "restore", ![p].at = n]
            ELSE req' = [req EXCEPT ![p].todo = @ \ {n}]
    BY <1>3 DEF UndoRead
  <2>2. req'[p].pc \in {"restore", "undo"}
    BY <1>2, <1>3, <2>1 DEF UndoRead, At, TypeOK, Request
  <2>. QED BY <1>1, <2>2
<1>4. CASE End(p) \/ Goto(p, "create") \/ Goto(p, "list")
  <2>1. req'[p].pc # "write"
    BY <1>2, <1>4 DEF End, Goto, TypeOK, Request
  <2>. QED BY <1>1, <2>1
<1>5. CASE PreviewRead(p) \/ Deliver(p) \/ WriteMessage(p) \/ RestoreMessage(p)
  <2>1. req'[p].pc \in {"freeze", "receipt", "loop", "undo"}
    <3>1. CASE PreviewRead(p)
      BY <1>2, <3>1 DEF PreviewRead, TypeOK, Request
    <3>2. CASE Deliver(p)
      BY <1>2, <3>2 DEF Deliver, TypeOK, Request
    <3>3. CASE WriteMessage(p)
      BY <1>2, <3>3 DEF WriteMessage, TypeOK, Request
    <3>4. CASE RestoreMessage(p)
      BY <1>2, <3>4 DEF RestoreMessage, TypeOK, Request
    <3>. QED BY <1>5, <3>1, <3>2, <3>3, <3>4
  <2>. QED BY <1>1, <2>1
<1>6. CASE ApplyStart(p)
  <2>. DEFINE row == runs["preview"]
              pc == IF runs["apply"].status = "completed" THEN "done" ELSE "check"
              found == runs["apply"] # NoRun
              q == [req[p] EXCEPT !.run = "apply", !.seen = row.status, !.actions = row.actions,
                                  !.revision = row.revision, !.found = found, !.pc = pc]
  <2>1. req' = [req EXCEPT ![p] = q] /\ pc # "write"
    BY <1>6 DEF ApplyStart, TypeOK
  <2>. HIDE DEF row, pc, found
  <2>2. q.pc = pc
    BY <1>2 DEF Request
  <2>. QED BY <1>1, <2>1, <2>2 DEF TypeOK
<1>7. CASE UndoStart(p)
  <2>1. PICK r \in Undoing :
          LET source == runs[SourceOf[r]]
          IN /\ source # NoRun
             /\ req' = [req EXCEPT ![p] = [@ EXCEPT !.run = r, !.found = runs[r] # NoRun,
                          !.actions = source.actions, !.revision = source.revision,
                          !.pc = IF runs[r].status # "completed" /\ source.status = "completed"
                                   THEN "create" ELSE "done"]]
    BY <1>7 DEF UndoStart, Undoing
  <2>. DEFINE row == runs[SourceOf[r]]
              pc == IF runs[r].status # "completed" /\ row.status = "completed"
                      THEN "create" ELSE "done"
              found == runs[r] # NoRun
              q == [req[p] EXCEPT !.run = r, !.found = found, !.actions = row.actions,
                                  !.revision = row.revision, !.pc = pc]
  <2>2. req' = [req EXCEPT ![p] = q] /\ pc # "write"
    BY <2>1 DEF TypeOK
  <2>. HIDE DEF row, pc, found
  <2>3. q.pc = pc
    BY <1>2 DEF Request
  <2>. QED BY <1>1, <2>2, <2>3 DEF TypeOK
<1>8. CASE List(p)
  <2>. DEFINE pc == IF req[p].run \in {"apply", "incoming"} THEN "loop" ELSE "undo"
              q == [req[p] EXCEPT !.todo = Listed(p), !.pc = pc]
  <2>1. req' = [req EXCEPT ![p] = q] /\ pc # "write"
    BY <1>8 DEF List, TypeOK
  <2>. HIDE DEF pc
  <2>2. q.pc = pc
    BY <1>2 DEF Request
  <2>. QED BY <1>1, <2>1, <2>2 DEF TypeOK
<1>. QED BY <1>3, <1>4, <1>5, <1>6, <1>7, <1>8
        DEF PreviewFreeze, ApplyCheck, Derive, Receipt, WriteFails, Finish, Dies

\* Steps that touch no message, and the reading of one.
LEMMA CallsUndo ==
  ASSUME TypeOK, UndoInv, UNCHANGED <<flags, owner, edited, again>>,
         \A r \in Derived : matches'[r] = matches[r],
         \A o \in Requests : req'[o].pc = "write" => \/ req'[o] = req[o]
                                                    \/ req'[o].before = State(req'[o].at)
  PROVE  UndoInv'
<1>1. ASSUME NEW m \in Messages PROVE MessageInv(m)'
  BY <1>1, MessageStays DEF UndoInv
<1>. QED BY <1>1 DEF UndoInv

LEMMA ReadUndo ==
  ASSUME TypeOK, UndoInv, NEW p \in Requests, ReadMessage(p)
  PROVE  UndoInv'
<1>1. PICK n \in req[p].todo :
        IF n \in Present
          THEN req' = [req EXCEPT ![p].pc = "write", ![p].at = n, ![p].before = State(n)]
          ELSE req' = [req EXCEPT ![p].todo = @ \ {n}]
  BY DEF ReadMessage
<1>2. req[p] \in Request /\ req[p].pc = "loop"
  BY DEF TypeOK, ReadMessage, At
<1>3. \A o \in Requests : o # p => req'[o] = req[o]
  BY <1>1 DEF TypeOK
<1>4. req'[p].pc = "write" => req'[p].before = State(req'[p].at)
  <2>1. CASE n \in Present
    <3>1. req' = [req EXCEPT ![p] = [req[p] EXCEPT !.pc = "write", !.at = n, !.before = State(n)]]
      BY <1>1, <2>1 DEF TypeOK
    <3>2. req'[p].at = n /\ req'[p].before = State(n)
      BY <1>2, <3>1 DEF TypeOK, Request
    <3>. QED BY <3>2
  <2>2. CASE n \notin Present
    <3>1. req' = [req EXCEPT ![p] = [req[p] EXCEPT !.todo = req[p].todo \ {n}]]
      BY <1>1, <2>2 DEF TypeOK
    <3>2. req'[p].pc = "loop"
      BY <1>2, <3>1 DEF TypeOK, Request
    <3>. QED BY <3>2
  <2>. QED BY <2>1, <2>2
<1>. QED BY <1>3, <1>4, CallsUndo DEF ReadMessage, mailbox, history

LEMMA OthersUndo ==
  ASSUME TypeOK, UndoInv, NEW p \in Requests,
         \/ PreviewRead(p) \/ PreviewFreeze(p) \/ ApplyStart(p) \/ ApplyCheck(p) \/ UndoStart(p)
         \/ Derive(p) \/ Deliver(p) \/ Receipt(p) \/ List(p) \/ WriteFails(p) \/ UndoRead(p)
         \/ Finish(p) \/ Dies(p)
  PROVE  UndoInv'
<1>1. UNCHANGED <<flags, owner, edited, again>>
  BY DEF PreviewRead, PreviewFreeze, ApplyStart, ApplyCheck, UndoStart, Derive, Deliver, Receipt,
         List, WriteFails, UndoRead, Finish, Dies, mailbox, history
<1>2. \A r \in Derived : matches'[r] = matches[r]
  <2>1. CASE PreviewFreeze(p)
    <3>1. PICK rows : matches' = [matches EXCEPT !["preview"] = rows]
      BY <2>1 DEF PreviewFreeze
    <3>. QED BY <3>1 DEF TypeOK, Derived
  <2>2. CASE ~PreviewFreeze(p)
    BY <2>2 DEF PreviewRead, ApplyStart, ApplyCheck, UndoStart, Derive, Deliver, Receipt, List,
                WriteFails, UndoRead, Finish, Dies
  <2>. QED BY <2>1, <2>2
<1>3. \A o \in Requests : req'[o].pc = "write" => req'[o] = req[o]
  BY WritersStay
<1>. QED BY <1>1, <1>2, <1>3, CallsUndo

LEMMA OwnersUndo ==
  ASSUME TypeOK, UndoInv, Owners \/ MakerDies
  PROVE  UndoInv'
<1>1. UNCHANGED <<flags, owner, edited, again, matches, req>>
  BY DEF Owners, CreateCheck, CreateInsert, CreateLink, Patch, DeleteRule, MakerDies, mailbox,
         history
<1>. QED BY <1>1, CallsUndo

LEMMA UsersUndo ==
  ASSUME TypeOK, RuleInv, UndoInv, Users
  PROVE  UndoInv'
<1>. SUFFICES ASSUME NEW m \in Messages PROVE MessageInv(m)'
  BY DEF UndoInv
<1>0. MessageInv(m) /\ UNCHANGED <<req, again>>
  BY DEF UndoInv, Users, SetFlag, ReplaceLabels, RemoveMessage, DeleteLabel, history
<1>1. ASSUME NEW n \in Messages, SetFlag(n) PROVE MessageInv(m)'
  <2>1. /\ UNCHANGED <<owner, matches>> /\ edited' = edited \cup {n}
        /\ n # m => flags'[m] = flags[m]
    BY <1>1 DEF SetFlag, TypeOK
  <2>. QED BY <1>0, <2>1, MessageStays DEF MessageInv
<1>2. ASSUME NEW n \in Messages, ReplaceLabels(n) PROVE MessageInv(m)'
  <2>1. /\ UNCHANGED <<flags, matches>> /\ edited' = edited \cup {n}
        /\ n # m => owner'[m] = owner[m]
    BY <1>2 DEF ReplaceLabels, TypeOK
  <2>. QED BY <1>0, <2>1, MessageStays DEF MessageInv
<1>3. ASSUME NEW l \in Labels, DeleteLabel(l) PROVE MessageInv(m)'
  BY <1>3 DEF DeleteLabel, MessageInv
<1>4. ASSUME NEW n \in Messages, RemoveMessage(n) PROVE MessageInv(m)'
  <2>1. CASE n = m
    <3>1. m \notin Present'
      BY <1>4, <2>1, InboxTyped DEF RemoveMessage, Present, TypeOK
    <3>. QED BY <3>1 DEF MessageInv
  <2>2. CASE n # m
    <3>1. flags'[m] = flags[m] /\ owner'[m] = owner[m] /\ edited' = edited
      BY <1>4, <2>2 DEF RemoveMessage, TypeOK, history
    <3>2. n = Arrival => matches["incoming"][m] = NoMatch /\ matches["undo_incoming"][m] = NoMatch
      <4>1. Recorded("incoming") \subseteq {Arrival} /\ Recorded("undo_incoming") \subseteq {Arrival}
        BY Sources DEF RuleInv, RecordsInv, Work, Undoing
      <4>. QED BY <2>2, <4>1 DEF Recorded
    <3>3. \A r \in Run : matches'[r][m] = IF r = "incoming" /\ n = Arrival THEN NoMatch
                                            ELSE matches[r][m]
      BY <1>4, <2>2 DEF RemoveMessage
    <3>4. \A r \in Derived : matches'[r][m] = matches[r][m]
      BY <3>2, <3>3, Sources
    <3>. QED BY <1>0, <3>1, <3>4, MessageStays
  <2>. QED BY <2>1, <2>2
<1>. QED BY <1>1, <1>2, <1>3, <1>4 DEF Users

\* A run writes to a message: its first write to a message as it arrived is what
\* undo will restore; a second write that changes anything is in again.
LEMMA WriteUndo ==
  ASSUME TypeOK, RuleInv, UndoInv, NEW p \in Requests, WriteMessage(p)
  PROVE  UndoInv'
<1>. SUFFICES ASSUME NEW m \in Messages PROVE MessageInv(m)'
  BY DEF UndoInv
<1>0. PICK s, a, before : s = req[p].run /\ a = req[p].actions /\ before = req[p].before
  OBVIOUS
<1>1. /\ MessageInv(m) /\ edited' = edited /\ again \subseteq again'
      /\ req[p].pc = "write" /\ req[p].at \in Present
  BY DEF UndoInv, WriteMessage, At
<1>2. \A o \in Requests : req'[o].pc = "write" => req'[o] = req[o]
  BY WritersStay
<1>3. s \in {"apply", "incoming"} /\ a \in Definitions /\ s \in Derived
  BY <1>0, <1>1, Sources DEF TypeOK, InPhase, Request
<1>4. CASE m # req[p].at
  <2>1. flags'[m] = flags[m] /\ owner'[m] = owner[m]
    BY <1>4 DEF WriteMessage, TypeOK
  <2>2. \A r \in Derived : matches'[r][m] = matches[r][m]
    <3>1. PICK row : matches' = [matches EXCEPT ![s][req[p].at] = row]
      BY <1>0 DEF WriteMessage, Record
    <3>. QED BY <1>3, <1>4, <3>1, Sources DEF TypeOK
  <2>. QED BY <1>1, <1>2, <2>1, <2>2, MessageStays
<1>5. CASE m = req[p].at /\ matches[s][m] # NoMatch
  <2>1. matches' = matches
    <3>1. matches' = [matches EXCEPT ![s][m] = matches[s][m]]
      BY <1>0, <1>5 DEF WriteMessage, Record
    <3>. QED BY <1>3, <3>1, Sources DEF TypeOK
  <2>2. CASE <<flags, owner>>' = <<flags, owner>>
    BY <1>1, <1>2, <2>1, <2>2, MessageStays
  <2>3. CASE <<flags, owner>>' # <<flags, owner>>
    <3>1. <<s, m>> \in again'
      BY <1>0, <1>5, <2>3 DEF WriteMessage
    <3>2. FreshInv(m)'
      BY <1>3, <1>5, <2>1 DEF FreshInv
    <3>3. \A q \in {"apply", "incoming"} : AloneInv(m, q)'
      <4>1. ASSUME NEW q \in {"apply", "incoming"} PROVE AloneInv(m, q)'
        <5>1. CASE q = s
          BY <3>1, <5>1 DEF AloneInv
        <5>2. CASE q # s
          <6>1. ~Alone(m, q)'
            BY <1>3, <1>5, <2>1, <5>2 DEF Alone, Recorded
          <6>. QED BY <6>1 DEF AloneInv
        <5>. QED BY <5>1, <5>2
      <4>. QED BY <4>1
    <3>. QED BY <3>2, <3>3 DEF MessageInv
  <2>. QED BY <2>2, <2>3
<1>6. CASE m = req[p].at /\ matches[s][m] = NoMatch
  <2>. SUFFICES ASSUME m \notin edited PROVE MessageInv(m)'
    BY <1>1 DEF MessageInv
  <2>0. FreshInv(m)
    BY <1>1, <1>6 DEF MessageInv
  <2>. DEFINE row == [recorded |-> TRUE, actions |-> a, before |-> before,
                      after |-> StateAfter(before, a, p)]
  <2>1. /\ matches'[s][m] = row
        /\ \A r \in Derived \ {s} : matches'[r][m] = matches[r][m]
    <3>1. matches' = [matches EXCEPT ![s][m] = row]
      BY <1>0, <1>3, <1>6 DEF WriteMessage, Record, TypeOK, Run
    <3>. HIDE DEF row
    <3>. QED BY <1>3, <3>1, Sources DEF TypeOK
  <2>2. row # NoMatch
    BY DEF NoMatch
  <2>3. FreshInv(m)'
    BY <1>3, <2>1, <2>2 DEF FreshInv
  <2>4. PICK q \in {"apply", "incoming"} : q # s
    OBVIOUS
  <2>5. q \in Derived /\ q # s
    BY <2>4, Sources
  <2>6. AloneInv(m, q)'
    <3>1. ~Alone(m, q)'
      BY <1>3, <2>1, <2>2, <2>5 DEF Alone, Recorded
    <3>. QED BY <3>1 DEF AloneInv
  <2>7. AloneInv(m, s)'
    <3>1. CASE matches[q][m] # NoMatch
      <4>1. ~Alone(m, s)'
        BY <2>1, <2>4, <2>5, <3>1 DEF Alone, Recorded
      <4>. QED BY <4>1 DEF AloneInv
    <3>2. CASE matches[q][m] = NoMatch
      <4>1. Untouched(m) /\ before = Blank
        BY <1>0, <1>1, <1>3, <1>6, <2>0, <2>4, <3>2 DEF FreshInv
      <4>2. /\ matches'[UndoOf[s]][m] = NoMatch
        <5>1. UndoOf[s] \in Derived \ {s} /\ UndoOf[s] # "incoming" /\ SourceOf[UndoOf[s]] = s
          BY <1>3 DEF UndoOf, Derived, Run, SourceOf
        <5>2. Recorded(UndoOf[s]) \subseteq Recorded(s)
          BY <5>1 DEF RuleInv, RecordsInv, Work
        <5>3. matches[UndoOf[s]][m] = NoMatch
          BY <1>6, <5>2 DEF Recorded
        <5>. QED BY <2>1, <5>1, <5>3
      <4>3. ~SetsFlags(a) => row.after.flags = Inbox
        BY <4>1 DEF SetsFlags, StateAfter, Blank, Inbox
      <4>4. flags'[m] = row.after.flags
        <5>1. flags' = [flags EXCEPT ![m] = IF SetsFlags(a) THEN StateAfter(before, a, p).flags
                                            ELSE flags[m]]
          BY <1>0, <1>6 DEF WriteMessage, Written, SetsFlags
        <5>. HIDE DEF row
        <5>2. row.after.flags = StateAfter(before, a, p).flags
          BY DEF row
        <5>. QED BY <4>1, <4>3, <5>1, <5>2 DEF Untouched, TypeOK
      <4>5. owner'[m] = [l \in Labels |-> IF l \in row.actions.labels THEN "rule" ELSE "none"]
        <5>1. owner' = [owner EXCEPT ![m] = Written(p).owner]
          BY <1>6 DEF WriteMessage
        <5>2. Written(p).owner = [l \in Labels |-> IF l \in a.labels THEN "rule" ELSE "none"]
          BY <1>0, <1>6, <4>1 DEF Written, Untouched, Blank
        <5>. QED BY <5>1, <5>2 DEF TypeOK
      <4>6. row.before = Blank /\ row.actions = a
        BY <4>1
      <4>7. AsApplied(m, row)'
        BY <4>4, <4>5 DEF AsApplied
      <4>. QED BY <2>1, <4>2, <4>3, <4>6, <4>7 DEF AloneInv
    <3>. QED BY <3>1, <3>2
  <2>8. \A r \in {"apply", "incoming"} : r = s \/ r = q
    BY <1>3, <2>4
  <2>. QED BY <2>3, <2>6, <2>7, <2>8 DEF MessageInv
<1>. QED BY <1>4, <1>5, <1>6

\* Undo finds a message as the run left it, or as it arrived.
LEMMA RestoreUndo ==
  ASSUME TypeOK, RuleInv, UndoInv, NEW p \in Requests, RestoreMessage(p)
  PROVE  UndoInv'
<1>. SUFFICES ASSUME NEW m \in Messages PROVE MessageInv(m)'
  BY DEF UndoInv
<1>0. PICK r : r = req[p].run
  OBVIOUS
<1>1. /\ MessageInv(m) /\ edited' = edited /\ again' = again
      /\ req[p].pc = "restore" /\ req[p].at \in Present
  BY DEF UndoInv, RestoreMessage, At, history
<1>2. \A o \in Requests : req'[o].pc = "write" => req'[o] = req[o]
  BY WritersStay
<1>3. /\ r \in Undoing /\ r \in Derived
      /\ matches[SourceOf[r]][req[p].at] # NoMatch
  BY <1>0, <1>1, AtWork DEF RestoreMessage
<1>4. matches' = [matches EXCEPT ![r][req[p].at] = [recorded |-> TRUE]]
  BY <1>0 DEF RestoreMessage
<1>5. CASE m # req[p].at
  <2>1. flags'[m] = flags[m] /\ owner'[m] = owner[m]
    BY <1>5 DEF RestoreMessage, TypeOK
  <2>2. \A q \in Derived : matches'[q][m] = matches[q][m]
    BY <1>3, <1>4, <1>5, Sources DEF TypeOK
  <2>. QED BY <1>1, <1>2, <2>1, <2>2, MessageStays
<1>6. CASE m = req[p].at
  <2>. SUFFICES ASSUME m \notin edited PROVE MessageInv(m)'
    BY <1>1 DEF MessageInv
  <2>0. PICK s : s = SourceOf[r]
    OBVIOUS
  <2>. DEFINE done == matches[s][m]
  <2>1. s \in {"apply", "incoming"} /\ s \in Derived /\ s # r /\ UndoOf[s] = r
    BY <1>3, <2>0 DEF UndoOf, SourceOf, Undoing, Derived, Run
  <2>2. /\ done # NoMatch
        /\ matches'[r][m] # NoMatch
        /\ \A q \in Derived \ {r} : matches'[q][m] = matches[q][m]
    <3>1. [recorded |-> TRUE] # NoMatch
      BY DEF NoMatch
    <3>. QED BY <1>3, <1>4, <1>6, <2>0, <3>1, Sources DEF TypeOK
  <2>3. FreshInv(m)'
    BY <2>1, <2>2 DEF FreshInv
  <2>4. \A q \in {"apply", "incoming"} : q # s => AloneInv(m, q)'
    <3>1. \A q \in {"apply", "incoming"} : q # s => ~Alone(m, q)'
      BY <2>1, <2>2 DEF Alone, Recorded
    <3>. QED BY <3>1 DEF AloneInv
  <2>5. AloneInv(m, s)'
    <3>. SUFFICES ASSUME Alone(m, s)', <<s, m>> \notin again
                  PROVE  done.before = Blank /\ (~SetsFlags(done.actions) => done.after.flags = Inbox)
                         /\ Untouched(m)'
      BY <1>1, <2>1, <2>2 DEF AloneInv
    <3>1. Alone(m, s)
      BY <2>1, <2>2, Sources DEF Alone, Recorded, Undoing
    <3>2. /\ done.before = Blank
          /\ ~SetsFlags(done.actions) => done.after.flags = Inbox
          /\ matches[r][m] = NoMatch => AsApplied(m, done)
          /\ matches[r][m] # NoMatch => Untouched(m)
      BY <1>1, <1>6, <2>1, <2>2, <3>1 DEF MessageInv, AloneInv
    <3>3. /\ flags[m] \in {done.after.flags, Inbox}
          /\ \/ owner[m] = [l \in Labels |-> "none"]
             \/ owner[m] = [l \in Labels |-> IF l \in done.actions.labels THEN "rule" ELSE "none"]
      BY <3>2 DEF AsApplied, Untouched
    <3>4. done.before.flags = Inbox /\ done.before.labels = {}
      BY <3>2 DEF Blank
    <3>5. flags'[m] = Inbox
      <4>1. flags' = [flags EXCEPT ![m] =
                        IF SetsFlags(done.actions)
                          THEN RestoreFlags(flags[m], done.before.flags, done.after.flags)
                          ELSE flags[m]]
        BY <1>0, <1>6, <2>0 DEF RestoreMessage, SetsFlags
      <4>. HIDE DEF done
      <4>2. flags'[m] = IF SetsFlags(done.actions)
                          THEN RestoreFlags(flags[m], Inbox, done.after.flags) ELSE flags[m]
        BY <3>4, <4>1 DEF TypeOK
      <4>3. RestoreFlags(flags[m], Inbox, done.after.flags) = Inbox
        BY <3>3 DEF RestoreFlags, Restored, Inbox
      <4>. QED BY <3>2, <3>3, <4>2, <4>3
    <3>6. owner'[m] = [l \in Labels |-> "none"]
      <4>1. owner' = [owner EXCEPT ![m] =
                        RestoreOwner(owner[m], done.actions.labels \ done.before.labels)]
        BY <1>0, <1>6, <2>0 DEF RestoreMessage
      <4>. HIDE DEF done
      <4>2. owner'[m] = RestoreOwner(owner[m], done.actions.labels)
        BY <3>4, <4>1 DEF TypeOK
      <4>. QED BY <3>3, <4>2 DEF RestoreOwner
    <3>. QED BY <3>2, <3>5, <3>6 DEF Untouched
  <2>. QED BY <2>3, <2>4, <2>5 DEF MessageInv
<1>. QED BY <1>5, <1>6

LEMMA UndoInitial == Init => UndoInv
<1>. SUFFICES ASSUME Init, NEW m \in Messages PROVE MessageInv(m)
  BY DEF UndoInv
<1>1. Untouched(m)
  BY DEF Init, Untouched
<1>2. \A p \in Requests : req[p].pc # "write"
  BY DEF Init, Idle
<1>3. \A s \in {"apply", "incoming"} : matches[s][m] = NoMatch
  BY DEF Init, Run
<1>. QED BY <1>1, <1>2, <1>3 DEF MessageInv, FreshInv, AloneInv

LEMMA UndoStep ==
  ASSUME RuleTyped, UndoInv, [Next]_vars
  PROVE  UndoInv'
<1>. USE DEF RuleTyped
<1>1. CASE Owners \/ MakerDies
  BY <1>1, OwnersUndo
<1>2. CASE Users
  BY <1>2, UsersUndo
<1>3. ASSUME NEW p \in Requests, Step(p) \/ Dies(p) PROVE UndoInv'
  BY <1>3, OthersUndo, ReadUndo, WriteUndo, RestoreUndo DEF Step
<1>4. CASE UNCHANGED vars
  BY <1>4, CallsUndo DEF vars, mailbox, history
<1>. QED BY <1>1, <1>2, <1>3, <1>4 DEF Next

\* restoreStatements brings a message back to what it was before the run, unless
\* a user, another run or a second request of the same run has changed it.
THEOREM MailRulesUndo == Spec => []UndoRestores
<1>1. Init => UndoInv
  BY UndoInitial
<1>2. RuleTyped /\ UndoInv /\ [Next]_vars => UndoInv'
  BY UndoStep
<1>3. RuleTyped /\ UndoInv => UndoRestores
  <2>. SUFFICES ASSUME RuleTyped, UndoInv, NEW r \in Undoing, NEW m \in Present, m \in Recorded(r),
                       m \notin edited, <<SourceOf[r], m>> \notin again, Alone(m, SourceOf[r])
                PROVE  State(m) = matches[SourceOf[r]][m].before
    BY DEF UndoRestores, Undoing
  <2>1. PICK s \in {"apply", "incoming"} : s = SourceOf[r] /\ UndoOf[s] = r
    BY DEF UndoOf, SourceOf, Undoing, Run
  <2>2. m \in Messages /\ MessageInv(m) /\ matches[r][m] # NoMatch
    BY DEF Present, UndoInv, Recorded
  <2>3. FreshInv(m) /\ AloneInv(m, s)
    BY <2>1, <2>2 DEF MessageInv
  <2>4. matches[s][m] # NoMatch
    BY <2>1, <2>2, Sources DEF RuleTyped, RuleInv, RecordsInv, Work, Recorded, Undoing
  <2>5. matches[s][m].before = Blank /\ Untouched(m)
    BY <2>1, <2>2, <2>3, <2>4 DEF AloneInv
  <2>. QED BY <2>1, <2>2, <2>5, BlankState
<1>. QED BY <1>1, <1>2, <1>3, Invariant, PTL DEF Spec
===============================================================================
