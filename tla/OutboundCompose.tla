--------------------------- MODULE OutboundCompose ---------------------------
(***************************************************************************)
(* createOutboundMessage of the web Worker: requests that carry the same   *)
(* Idempotency-Key for the same mailbox, each with a message id, and thus  *)
(* R2 object keys, of its own.  A request writes its objects, commits one  *)
(* D1 batch that the UNIQUE (mailbox_id, idempotency_key) constraint lets  *)
(* succeed once, removes its objects when it lost, and publishes.          *)
(* Keys do not interact, so the module follows one of them.                *)
(***************************************************************************)
EXTENDS Naturals

CONSTANTS Requests,   \* requests with the key, first and repeated
          NoMessage,  \* no delivery row has the key yet
          MaxFaults   \* bound: calls that fail and invocations that die

ASSUME RequestsAssumption == NoMessage \notin Requests
ASSUME FaultsAssumption == MaxFaults \in Nat

VARIABLES step,        \* the next step of each request
          objects,   \* how many of a request's R2 objects are stored
          message,   \* the request whose id the delivery row carries
          result,    \* persistOutboundMessage: the id found, and created
          persisted, \* the variable of that name
          published, \* ids for which a Queue copy was sent
          reply,     \* the HTTP answer of each request
          ambiguous, \* the commit was not confirmed to its request
          faults

requests == <<step, result, persisted, reply>>
composeVars     == <<requests, objects, message, published, ambiguous, faults>>

RequestStep == {"find", "again", "compose", "put", "check", "commit", "raced", "verify",
       "delete", "enqueue", "catch", "done"}

\* Steps before the try block: what they throw is answered at once.
Untried == {"find", "again", "compose"}

KeyContract == INSTANCE ComposeContract

ComposeInit ==
  /\ step = [r \in Requests |-> "find"]
  /\ objects = [r \in Requests |-> "none"]
  /\ result = [r \in Requests |-> [message |-> NoMessage, created |-> FALSE]]
  /\ persisted = [r \in Requests |-> FALSE]
  /\ published = {}
  /\ ambiguous = FALSE
  /\ faults = 0
  /\ KeyContract!Init

Proceed(r, label) == step' = [step EXCEPT ![r] = label]

Fault == faults < MaxFaults /\ faults' = faults + 1

Respond(r, answer) == reply' = [reply EXCEPT ![r] = answer]

Found(r, created) ==
  result' = [result EXCEPT ![r] = [message |-> message, created |-> created]]

Throw(r) ==
  IF step[r] \in Untried
    THEN Proceed(r, "done") /\ Respond(r, KeyContract!Refusal)
    ELSE Proceed(r, "catch") /\ UNCHANGED reply

-----------------------------------------------------------------------------

\* The request is refused: its origin or role before the search, its input,
\* its thread or the size of its archive after it.
RefuseRequest(r) ==
  /\ step[r] \in {"find", "compose"}
  /\ Throw(r)
  /\ UNCHANGED <<result, persisted, objects, message, published, ambiguous, faults>>

\* findOutboundByIdempotency: a repeated request publishes again.
Find(r) ==
  /\ step[r] = "find"
  /\ Found(r, FALSE)
  /\ Proceed(r, IF message = NoMessage THEN "compose" ELSE "again")
  /\ UNCHANGED <<persisted, reply, objects, message, published, ambiguous, faults>>

Compose(r) ==
  /\ step[r] = "compose"
  /\ Proceed(r, "put")
  /\ UNCHANGED <<result, persisted, reply, objects, message, published, ambiguous, faults>>

\* The archive and the bodies are put one after the other, then attachments.
Put(r) ==
  /\ step[r] = "put"
  /\ \/ objects[r] = "none" /\ objects' = [objects EXCEPT ![r] = "some"]
     \/ objects[r] = "some" /\ objects' = [objects EXCEPT ![r] = "all"]
  /\ Proceed(r, IF objects'[r] = "all" THEN "check" ELSE "put")
  /\ UNCHANGED <<result, persisted, reply, message, published, ambiguous, faults>>

\* The first statement of persistOutboundMessage.
Check(r) ==
  /\ step[r] = "check"
  /\ Found(r, FALSE)
  /\ Proceed(r, IF message = NoMessage THEN "commit" ELSE "delete")
  /\ UNCHANGED <<persisted, reply, objects, message, published, ambiguous, faults>>

\* A batch that would insert a second delivery for the key.
Commit_NoUniqueKey(r) ==
  /\ step[r] = "commit"
  /\ message' = r
  /\ Proceed(r, "verify")
  /\ UNCHANGED <<result, persisted, reply, objects, published, ambiguous, faults>>

\* The batch: message, recipients, attachments, composition and delivery rows.
Commit(r) ==
  /\ step[r] = "commit"
  /\ \/ message = NoMessage /\ message' = r /\ Proceed(r, "verify")
     \/ message # NoMessage /\ UNCHANGED message /\ Proceed(r, "raced")
  /\ UNCHANGED <<result, persisted, reply, objects, published, ambiguous, faults>>

\* The batch throws: nothing was committed, or the answer of the commit is lost.
CommitThrows(r) ==
  /\ step[r] = "commit"
  /\ Fault
  /\ \/ UNCHANGED <<message, ambiguous>>
     \/ message = NoMessage /\ message' = r /\ ambiguous' = TRUE
  /\ Proceed(r, "raced")
  /\ UNCHANGED <<result, persisted, reply, objects, published>>

\* The search after a batch that threw: a row found is another request's.
Raced(r) ==
  /\ step[r] = "raced"
  /\ IF message = NoMessage
       THEN Proceed(r, "catch") /\ UNCHANGED result
       ELSE Proceed(r, "delete") /\ Found(r, FALSE)
  /\ UNCHANGED <<persisted, reply, objects, message, published, ambiguous, faults>>

\* The search after a batch that succeeded.
Verify(r) ==
  /\ step[r] = "verify"
  /\ IF message = r
       THEN /\ Found(r, TRUE)
            /\ persisted' = [persisted EXCEPT ![r] = TRUE]
            /\ Proceed(r, "enqueue")
       ELSE Proceed(r, "catch") /\ UNCHANGED <<result, persisted>>
  /\ UNCHANGED <<reply, objects, message, published, ambiguous, faults>>

\* A loser that keeps its objects.
Delete_Nothing(r) ==
  /\ step[r] = "delete"
  /\ Proceed(r, "enqueue")
  /\ UNCHANGED <<result, persisted, reply, objects, message, published, ambiguous, faults>>

\* RAW_EMAILS.delete(objectKeys) of a request that did not create the row.
Delete(r) ==
  /\ step[r] = "delete"
  /\ objects' = [objects EXCEPT ![r] = "none"]
  /\ Proceed(r, "enqueue")
  /\ UNCHANGED <<result, persisted, reply, message, published, ambiguous, faults>>

\* enqueue, then the answer: 202 for the request that created the row, else 200.
Enqueue(r) ==
  /\ step[r] \in {"enqueue", "again"}
  /\ published' = published \cup {result[r].message}
  /\ Respond(r, [code |-> IF result[r].created THEN "202" ELSE "200",
                 message |-> result[r].message])
  /\ Proceed(r, "done")
  /\ UNCHANGED <<result, persisted, objects, message, ambiguous, faults>>

\* Swallows the error: the copy is left to the Cron trigger.
EnqueueThrows_Ignored(r) ==
  /\ step[r] \in {"enqueue", "again"}
  /\ Fault
  /\ published' \in {published, published \cup {result[r].message}}
  /\ Respond(r, [code |-> "200", message |-> result[r].message])
  /\ Proceed(r, "done")
  /\ UNCHANGED <<result, persisted, objects, message, ambiguous>>

\* Queue.send throws, whether or not the copy was taken.
EnqueueThrows(r) ==
  /\ step[r] \in {"enqueue", "again"}
  /\ Fault
  /\ published' \in {published, published \cup {result[r].message}}
  /\ Throw(r)
  /\ UNCHANGED <<result, persisted, objects, message, ambiguous>>

\* A read of D1 throws: one that should confirm the commit leaves the request
\* as ignorant as a lost answer of the commit would.
ReadThrows(r) ==
  /\ step[r] \in {"find", "check", "raced", "verify"}
  /\ Fault
  /\ ambiguous' = (ambiguous \/ step[r] = "verify")
  /\ Throw(r)
  /\ UNCHANGED <<result, persisted, objects, message, published>>

\* A put or a delete throws, whether or not R2 carried it out.
StoreThrows(r) ==
  /\ step[r] \in {"put", "delete"}
  /\ Fault
  /\ \/ UNCHANGED objects
     \/ step[r] = "put" /\ objects[r] = "none" /\ objects' = [objects EXCEPT ![r] = "some"]
     \/ step[r] = "put" /\ objects[r] = "some" /\ objects' = [objects EXCEPT ![r] = "all"]
     \/ step[r] = "delete" /\ objects' = [objects EXCEPT ![r] = "none"]
  /\ Throw(r)
  /\ UNCHANGED <<result, persisted, message, published, ambiguous>>

\* Removes the objects of a request whose row was confirmed, too.
Catch_DeletesAlways(r) ==
  /\ step[r] = "catch"
  /\ objects' = [objects EXCEPT ![r] = "none"]
  /\ Respond(r, KeyContract!Refusal)
  /\ Proceed(r, "done")
  /\ UNCHANGED <<result, persisted, message, published, ambiguous, faults>>

\* The catch block: the objects go unless the row was confirmed as created.
\* Its own failure is ignored, and the error is the answer.
Catch(r) ==
  /\ step[r] = "catch"
  /\ \/ /\ objects' = IF persisted[r] THEN objects
                      ELSE [objects EXCEPT ![r] = "none"]
        /\ UNCHANGED faults
     \/ Fault /\ UNCHANGED objects
  /\ Respond(r, KeyContract!Refusal)
  /\ Proceed(r, "done")
  /\ UNCHANGED <<result, persisted, message, published, ambiguous>>

\* The invocation dies, or the browser never sees its answer.
RequestDies(r) ==
  /\ step[r] # "done"
  /\ Fault
  /\ Proceed(r, "done")
  /\ UNCHANGED <<result, persisted, reply, objects, message, published, ambiguous>>

\* recoverOutboundDeliveries publishes what was committed and never sent.
Recover ==
  /\ message # NoMessage
  /\ published' = published \cup {message}
  /\ UNCHANGED <<requests, objects, message, ambiguous, faults>>

ComposeNext ==
  \/ \E r \in Requests :
       \/ RefuseRequest(r) \/ Find(r) \/ Compose(r) \/ Put(r) \/ Check(r) \/ Commit(r)
       \/ CommitThrows(r) \/ Raced(r) \/ Verify(r) \/ Delete(r) \/ Enqueue(r)
       \/ EnqueueThrows(r) \/ ReadThrows(r) \/ StoreThrows(r) \/ Catch(r) \/ RequestDies(r)
  \/ Recover

ComposeSpec == ComposeInit /\ [][ComposeNext]_composeVars

-----------------------------------------------------------------------------

ComposeTypeOK ==
  /\ step \in [Requests -> RequestStep]
  /\ objects \in [Requests -> {"none", "some", "all"}]
  /\ message \in Requests \cup {NoMessage}
  /\ result \in [Requests -> [message: Requests \cup {NoMessage}, created: BOOLEAN]]
  /\ persisted \in [Requests -> BOOLEAN]
  /\ published \subseteq Requests
  /\ reply \in [Requests -> [code: {"none", "200", "202", "error"},
                             message: Requests \cup {NoMessage}]]
  /\ ambiguous \in BOOLEAN
  /\ faults \in 0..MaxFaults

\* The objects of the committed message are all in R2, whichever requests lose,
\* fail, clean up after themselves or die, as long as D1 told the request that
\* committed it that it had.
MessageHasObjects ==
  (message # NoMessage /\ ~ ambiguous) => objects[message] = "all"

\* A request answered with success for another request's message has left no
\* object of its own behind.
LosersLeaveNothing ==
  \A r \in Requests :
    reply[r].message \notin {r, NoMessage} => objects[r] = "none"

\* No Queue copy exists for a message that was not committed: the consumer
\* never reads a delivery that is not there.
PublishedExists == published \subseteq {message}

\* A request is answered with success only for a message that was published.
AnsweredIsPublished ==
  \A r \in Requests : reply[r].code \in {"200", "202"} => reply[r].message \in published

\* The requests together keep the contract of the Idempotency-Key.
KeepsKeyContract == KeyContract!Spec

\* What ADR 0006 says of an ambiguous request that is retried: the message a
\* success names can be sent, for its bodies are stored.
RetrySafe ==
  \A r \in Requests :
    reply[r].code \in {"200", "202"} => objects[reply[r].message] = "all"
=============================================================================
