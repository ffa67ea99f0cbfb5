------------------------------- MODULE Documents -------------------------------
(***************************************************************************)
(* The documents of one conversation: the API uploads, deletes and retries  *)
(* them, Celery workers ingest them.  A document has a row, chunk rows      *)
(* (PostgreSQL), child vectors (Chroma) and a projection into the user's    *)
(* memories; one attempt at ingesting it writes chunks under fresh ids, here *)
(* the number of the attempt.                                               *)
(***************************************************************************)
EXTENDS Naturals, FiniteSets

CONSTANTS Files,        \* documents that may be uploaded
          Clients,        \* concurrent API requests
          Tasks,       \* messages that process_document.delay may send
          NoFile,
          MaxDocs,     \* MAX_DOCS
          MaxRetries,  \* max_retries of the task
          MaxCrashes,  \* bound on worker crashes
          RetryReraises, \* at the limit, retry(exc=exc) raises exc itself
          RefIndexed     \* the unique index on (user, source_type, source_ref) exists

ASSUME DocumentsAssumption ==
  /\ NoFile \notin Files
  /\ MaxDocs \in Nat /\ MaxRetries \in Nat /\ MaxCrashes \in Nat
  /\ RetryReraises \in BOOLEAN /\ RefIndexed \in BOOLEAN

VARIABLES
  status,    \* documents.status; "absent" before the row, "gone" after it
  chunks,    \* committed chunk rows: the attempts that wrote them
  vectors,   \* chunk vectors in the conversation's Chroma collection
  projected, \* documents with rows in memories
  uploaded,     \* conversations.document_count
  conv,      \* the conversation: its row, and the DELETE request's locals
  api,       \* per request: step and locals
  task,      \* per message: step, arguments and locals
  stamp,     \* attempts so far
  crashes,   \* worker crashes so far
  disturbed, \* history: documents whose ingestion met a delete, a twin or an ignored Chroma error
  dropped,   \* history: documents whose message was never sent, or given up
  deleted    \* history: documents whose DELETE found the worker idle and Chroma willing

documentVars == <<status, chunks, vectors, projected, uploaded, conv, api, task, stamp, crashes,
          disturbed, dropped, deleted>>
store == <<status, chunks, vectors, projected, uploaded, conv>>
history == <<disturbed, dropped, deleted>>

NoReq == [step |-> "idle", doc |-> NoFile, seen |-> 0, memories |-> FALSE, quiet |-> FALSE]
NoTask == [step |-> "unsent", doc |-> NoFile, retries |-> 0, mine |-> 0, old |-> {}]

Exists(d) == status[d] \in {"pending", "processing", "ready", "failed"}

Waiting == {"queued", "prepare", "cleanup", "insert", "upsert", "commit", "project", "failing"}

\* The conversation has its row.
Open == conv.step \in {"open", "loaded"}

\* Messages for d that a worker holds or will get.
Alive(d) == {t \in Tasks : task[t].doc = d /\ task[t].step \in Waiting}

\* Some attempt at ingesting d is past its first step.
Running(d) == \E t \in Alive(d) : task[t].step # "queued"

\* A worker has inserted chunk rows of d and not ended its transaction: the
\* foreign key keeps a share lock on the row of d.
RowLocked(d) == \E t \in Alive(d) : task[t].step \in {"upsert", "commit"}

\* A caller of delete_document finds the document, and then its conversation.
Deletable(d) == Exists(d) /\ Open

\* The collection of the conversation in Chroma: all chunks of a document, those of one
\* attempt, everything.
DropVectors(d) == vectors' = [vectors EXCEPT ![d] = {}]

WriteVectors(d, attempt) == vectors' = [vectors EXCEPT ![d] = @ \cup {attempt}]

DropCollection == vectors' = [d \in Files |-> {}]

\* Those of the documents that rows of memories refer to.
DerivedMemories(docs) == docs \cap projected

\* Earlier rows are replaced by a document row and at least one passage row with the same
\* source_ref, of which the unique index refuses the second.  The session still holds the
\* document, so that only the conversation is looked up.
BuildDocumentMemories(d) == ~RefIndexed /\ Open /\ projected' = projected \cup {d}

\* Bound: a request that will send a message finds one unsent.
Room == Cardinality({r \in Clients : api[r].step \in {"upload", "enqueue", "retry"}})
          < Cardinality({t \in Tasks : task[t].step = "unsent"})

TaskTo(t, step) == task' = [task EXCEPT ![t].step = step]

Answered(r) == api' = [api EXCEPT ![r] = NoReq]

--------------------------------------------------------------------------------
(* API requests *)

\* upload_document reads the count with the conversation, and stores the object.
UploadCheck(r, d) ==
  /\ api[r].step = "idle" /\ status[d] = "absent" /\ Room
  /\ Open /\ \A q \in Clients : api[q].doc # d
  /\ uploaded < MaxDocs
  /\ api' = [api EXCEPT ![r] = [NoReq EXCEPT !.step = "upload", !.doc = d, !.seen = uploaded]]
  /\ UNCHANGED <<store, task, stamp, crashes, history>>

\* The row and the incremented count are committed, or the request fails.
UploadCommit(r) ==
  /\ api[r].step = "upload"
  /\ \/ /\ Open
        /\ status' = [status EXCEPT ![api[r].doc] = "pending"]
        /\ uploaded' = api[r].seen + 1
        /\ api' = [api EXCEPT ![r].step = "enqueue"]
     \/ Answered(r) /\ UNCHANGED <<status, uploaded>>
  /\ UNCHANGED <<chunks, vectors, projected, conv, task, stamp, crashes, history>>

\* Cache invalidation, then process_document.delay: Redis may refuse either.
Enqueue(r) ==
  /\ api[r].step = "enqueue"
  /\ \/ \E t \in Tasks :
          /\ task[t].step = "unsent"
          /\ task' = [task EXCEPT ![t] = [NoTask EXCEPT !.step = "queued", !.doc = api[r].doc]]
          /\ disturbed' = IF Alive(api[r].doc) = {} THEN disturbed
                          ELSE disturbed \cup {api[r].doc}
          /\ UNCHANGED dropped
     \/ dropped' = dropped \cup {api[r].doc} /\ UNCHANGED <<task, disturbed>>
  /\ Answered(r)
  /\ UNCHANGED <<store, stamp, crashes, deleted>>

\* delete_document: the document and its conversation are loaded.
DeleteLoad(r, d) ==
  /\ api[r].step = "idle" /\ Deletable(d)
  /\ api' = [api EXCEPT ![r] = [NoReq EXCEPT !.step = "unindex", !.doc = d, !.seen = uploaded,
                                             !.quiet = ~Running(d)]]
  /\ disturbed' = disturbed \cup {d}
  /\ UNCHANGED <<store, task, stamp, crashes, dropped, deleted>>

\* The object and the chunk vectors go first (errors are logged and ignored);
\* then the derived memories are selected.
DeleteUnindex(r) ==
  /\ api[r].step = "unindex"
  /\ LET d == api[r].doc
     IN  \E ok \in BOOLEAN :
           /\ IF ok THEN DropVectors(d) ELSE UNCHANGED vectors
           /\ api' = [api EXCEPT ![r].step = "delete", ![r].memories = DerivedMemories({d}) # {},
                                 ![r].quiet = @ /\ ok]
  /\ UNCHANGED <<status, chunks, projected, uploaded, conv, task, stamp, crashes, history>>

\* One transaction: document (its chunks cascade), selected memories and count.
DocumentDeleteCommit(r) ==
  /\ api[r].step = "delete" /\ ~RowLocked(api[r].doc)
  /\ LET d == api[r].doc
     IN  \/ /\ Open
            /\ status' = [status EXCEPT ![d] = "gone"]
            /\ chunks' = [chunks EXCEPT ![d] = {}]
            /\ projected' = IF api[r].memories THEN projected \ {d} ELSE projected
            /\ uploaded' = IF api[r].seen = 0 THEN 0 ELSE api[r].seen - 1
            /\ deleted' = IF api[r].quiet THEN deleted \cup {d} ELSE deleted
         \/ UNCHANGED <<status, chunks, projected, uploaded, deleted>>
  /\ Answered(r)
  /\ UNCHANGED <<vectors, conv, task, stamp, crashes, disturbed, dropped>>

\* delete_conversation selects the memories its documents projected.
ConversationLoad ==
  /\ conv.step = "open"
  /\ conv' = [conv EXCEPT !.step = "loaded", !.memories = DerivedMemories(Files)]
  /\ UNCHANGED <<status, chunks, vectors, projected, uploaded, api, task, stamp, crashes, history>>

\* Mutant of ConversationCommit: rows and collection go without waiting for workers.
ConversationCommitAll ==
  /\ conv.step = "loaded"
  /\ conv' = [conv EXCEPT !.step = "closed", !.clean = TRUE]
  /\ status' = [d \in Files |-> IF Exists(d) THEN "gone" ELSE status[d]]
  /\ chunks' = [d \in Files |-> {}]
  /\ vectors' = [d \in Files |-> {}]
  /\ projected' = projected \ conv.memories
  /\ UNCHANGED <<uploaded, api, task, stamp, crashes, history>>

\* One transaction: the conversation with its documents and chunks, and the memories.
ConversationCommit ==
  /\ conv.step = "loaded" /\ \A d \in Files : ~RowLocked(d)
  /\ \/ /\ conv' = [conv EXCEPT !.step = "committed"]
        /\ status' = [d \in Files |-> IF Exists(d) THEN "gone" ELSE status[d]]
        /\ chunks' = [d \in Files |-> {}]
        /\ projected' = projected \ conv.memories
     \/ /\ conv' = [conv EXCEPT !.step = "open", !.memories = {}]
        /\ UNCHANGED <<status, chunks, projected>>
  /\ UNCHANGED <<vectors, uploaded, api, task, stamp, crashes, history>>

\* The Chroma collection is deleted; any error is passed over.
ConversationCollection ==
  /\ conv.step = "committed"
  /\ \E ok \in BOOLEAN :
       /\ conv' = [conv EXCEPT !.step = "closed", !.clean = ok]
       /\ IF ok THEN DropCollection ELSE UNCHANGED vectors
  /\ UNCHANGED <<status, chunks, projected, uploaded, api, task, stamp, crashes, history>>

\* Admin's retry_document reads the status, then commits "pending".
RetryLoad(r, d) ==
  /\ api[r].step = "idle" /\ status[d] = "failed" /\ Room
  /\ api' = [api EXCEPT ![r] = [NoReq EXCEPT !.step = "retry", !.doc = d]]
  /\ UNCHANGED <<store, task, stamp, crashes, history>>

RetryCommit(r) ==
  /\ api[r].step = "retry"
  /\ IF Exists(api[r].doc)
     THEN /\ status' = [status EXCEPT ![api[r].doc] = "pending"]
          /\ api' = [api EXCEPT ![r].step = "enqueue"]
     ELSE Answered(r) /\ UNCHANGED status
  /\ UNCHANGED <<chunks, vectors, projected, uploaded, conv, task, stamp, crashes, history>>

--------------------------------------------------------------------------------
(* The worker: process_document and _ingest *)

\* The document is looked up and marked "processing"; without it nothing is done.
StartIngest(t) ==
  /\ task[t].step = "queued"
  /\ IF Exists(task[t].doc)
     THEN /\ status' = [status EXCEPT ![task[t].doc] = "processing"]
          /\ stamp' = stamp + 1
          /\ task' = [task EXCEPT ![t].step = "prepare", ![t].mine = stamp + 1]
          /\ api' = [r \in Clients |-> IF api[r].doc = task[t].doc
                                    THEN [api[r] EXCEPT !.quiet = FALSE] ELSE api[r]]
     ELSE TaskTo(t, "ended") /\ UNCHANGED <<status, stamp, api>>
  /\ UNCHANGED <<chunks, vectors, projected, uploaded, conv, crashes, history>>

\* The object is read, its text extracted and cut into chunks.
Prepare(t) ==
  /\ task[t].step = "prepare"
  /\ TaskTo(t, "cleanup")
  /\ UNCHANGED <<store, api, stamp, crashes, history>>

\* Mutant of CleanupVectors: chunks of earlier attempts stay in Chroma.
CleanupNothing(t) ==
  /\ task[t].step = "cleanup"
  /\ TaskTo(t, "insert")
  /\ UNCHANGED <<store, api, stamp, crashes, history>>

\* delete_document_chunks_sync: logs and ignores any error.
CleanupVectors(t) ==
  /\ task[t].step = "cleanup"
  /\ LET d == task[t].doc
     IN  \/ DropVectors(d) /\ UNCHANGED disturbed
         \/ disturbed' = disturbed \cup {d} /\ UNCHANGED vectors
  /\ TaskTo(t, "insert")
  /\ UNCHANGED <<status, chunks, projected, uploaded, conv, api, stamp, crashes, dropped, deleted>>

\* Old chunk rows are deleted and new ones inserted, uncommitted.  The delete
\* waits for a transaction that deletes the same rows; the insert needs the document.
InsertRows(t) ==
  /\ task[t].step = "insert" /\ Exists(task[t].doc)
  /\ \A s \in Alive(task[t].doc) :
       task[s].step \in {"upsert", "commit"} => task[s].old \cap chunks[task[t].doc] = {}
  /\ task' = [task EXCEPT ![t].step = "upsert", ![t].old = chunks[task[t].doc]]
  /\ UNCHANGED <<store, api, stamp, crashes, history>>

\* Parents are cached in Redis, child vectors written, the BM25 index published.
UpsertVectors(t) ==
  /\ task[t].step = "upsert"
  /\ WriteVectors(task[t].doc, task[t].mine)
  /\ TaskTo(t, "commit")
  /\ UNCHANGED <<status, chunks, projected, uploaded, conv, api, stamp, crashes, history>>

\* Chunk rows and status "ready" become visible together.
CommitReady(t) ==
  /\ task[t].step = "commit"
  /\ LET d == task[t].doc
     IN  /\ status' = [status EXCEPT ![d] = "ready"]
         /\ chunks' = [chunks EXCEPT ![d] = (@ \ task[t].old) \cup {task[t].mine}]
  /\ TaskTo(t, "project")
  /\ UNCHANGED <<vectors, projected, uploaded, conv, api, stamp, crashes, history>>

\* The document becomes memories of its user.  Any error is logged and ignored.
Project(t) ==
  /\ task[t].step = "project"
  /\ \/ BuildDocumentMemories(task[t].doc)
     \/ UNCHANGED projected
  /\ TaskTo(t, "ended")
  /\ UNCHANGED <<status, chunks, vectors, uploaded, conv, api, stamp, crashes, history>>

\* Steps inside the try block that leads to a retry.
Raising == {"queued", "prepare", "cleanup", "insert", "upsert", "commit"}

\* A stage raises: rollback, and retry (another message) while retries are left.
Error(t) ==
  /\ task[t].step \in Raising
  /\ IF task[t].retries < MaxRetries
     THEN /\ task' = [task EXCEPT ![t].step = "queued", ![t].retries = @ + 1]
          /\ UNCHANGED dropped
     ELSE IF RetryReraises
     THEN TaskTo(t, "gaveup") /\ dropped' = dropped \cup {task[t].doc}
     ELSE TaskTo(t, "failing") /\ UNCHANGED dropped
  /\ UNCHANGED <<store, api, stamp, crashes, disturbed, deleted>>

\* Mutant of Fail: it does not check that the document is still there.
FailNeedsDocument(t) ==
  /\ task[t].step = "failing" /\ Exists(task[t].doc)
  /\ status' = [status EXCEPT ![task[t].doc] = "failed"]
  /\ TaskTo(t, "gaveup")
  /\ UNCHANGED <<chunks, vectors, projected, uploaded, conv, api, stamp, crashes, history>>

\* _fail, after MaxRetriesExceededError; an error of its own is passed over.
Fail(t) ==
  /\ task[t].step = "failing"
  /\ LET d == task[t].doc
     IN  \/ /\ status' = IF Exists(d) THEN [status EXCEPT ![d] = "failed"] ELSE status
            /\ UNCHANGED dropped
         \/ dropped' = dropped \cup {d} /\ UNCHANGED status
  /\ TaskTo(t, "gaveup")
  /\ UNCHANGED <<chunks, vectors, projected, uploaded, conv, api, stamp, crashes, disturbed, deleted>>

\* Mutant of Crash: the message is acknowledged when it is delivered.
CrashLosesMessage(t) ==
  /\ task[t].step \in Waiting \ {"queued"} /\ crashes < MaxCrashes
  /\ TaskTo(t, "ended")
  /\ crashes' = crashes + 1
  /\ UNCHANGED <<store, api, stamp, history>>

\* task_acks_late and task_reject_on_worker_lost: the message is delivered again.
Crash(t) ==
  /\ task[t].step \in Waiting \ {"queued"} /\ crashes < MaxCrashes
  /\ TaskTo(t, "queued")
  /\ crashes' = crashes + 1
  /\ UNCHANGED <<store, api, stamp, history>>

--------------------------------------------------------------------------------
\* New documents, and ones whose earlier messages ended in "failed".
DocumentsInit ==
  /\ status \in [Files -> {"absent", "failed"}]
  /\ chunks = [d \in Files |-> {}]
  /\ vectors = [d \in Files |-> {}]
  /\ projected = {}
  /\ uploaded = Cardinality({d \in Files : Exists(d)})
  /\ conv = [step |-> "open", memories |-> {}, clean |-> FALSE]
  /\ api = [r \in Clients |-> NoReq]
  /\ task = [t \in Tasks |-> NoTask]
  /\ stamp = 0
  /\ crashes = 0
  /\ disturbed = {} /\ dropped = {} /\ deleted = {}

RequestStep(r) ==
  \/ \E d \in Files : UploadCheck(r, d) \/ DeleteLoad(r, d) \/ RetryLoad(r, d)
  \/ UploadCommit(r) \/ Enqueue(r)
  \/ DeleteUnindex(r) \/ DocumentDeleteCommit(r)
  \/ RetryCommit(r)

WorkerStep(t) ==
  \/ StartIngest(t) \/ Prepare(t) \/ CleanupVectors(t) \/ InsertRows(t)
  \/ UpsertVectors(t) \/ CommitReady(t) \/ Project(t)
  \/ Error(t) \/ Fail(t)

DocumentsNext ==
  \/ \E r \in Clients : RequestStep(r)
  \/ ConversationLoad \/ ConversationCommit \/ ConversationCollection
  \/ \E t \in Tasks : WorkerStep(t) \/ Crash(t)

DocumentsSpec == DocumentsInit /\ [][DocumentsNext]_documentVars

\* Celery delivers every message, and a worker takes its next step.
FairDocumentsSpec == DocumentsSpec /\ \A t \in Tasks : WF_documentVars(WorkerStep(t))

--------------------------------------------------------------------------------
(* Properties *)

\* A document that shows "ready" has the chunk rows of one attempt, and exactly
\* their vectors, whatever stages failed, workers died or messages came twice before
\* (deletes, twin messages and ignored Chroma errors excepted).
ReadyIsSearchable ==
  \A d \in Files : status[d] = "ready" /\ d \notin disturbed =>
    vectors[d] = chunks[d] /\ Cardinality(chunks[d]) = 1

\* A delete that met no running attempt leaves no chunk, vector or memory of the
\* document behind, and no message delivered later brings one back.  The delete of a
\* conversation clears Chroma after the rows are gone, so that no worker can write a
\* vector of its documents behind it.
DeletedStaysGone ==
  /\ \A d \in deleted : chunks[d] = {} /\ vectors[d] = {} /\ d \notin projected
  /\ conv.step = "closed" /\ conv.clean => \A d \in Files : vectors[d] = {} /\ chunks[d] = {}

\* A document waits ("pending", "processing") only while a message for it is alive
\* or about to be sent, unless sending failed or the message was given up.
WaitingHasMessage ==
  \A d \in Files : status[d] \in {"pending", "processing"} /\ d \notin dropped =>
    Alive(d) # {} \/ \E r \in Clients : api[r].doc = d /\ api[r].step = "enqueue"

\* Every message that was sent ends.
MessagesEnd ==
  \A t \in Tasks : task[t].step = "queued" ~> task[t].step \in {"ended", "gaveup"}

\* Deleting a document deletes its indexed chunks (docs/API.md).
DeletedChunksGone ==
  \A d \in Files : status[d] = "gone" /\ Alive(d) = {} => vectors[d] = {}

\* A document whose retries are used up is "failed", so that an admin may retry it.
ExhaustedIsFailed ==
  \A t \in Tasks : task[t].step = "gaveup" => status[task[t].doc] # "processing"
================================================================================
